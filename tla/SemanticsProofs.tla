---------------------------- MODULE SemanticsProofs ----------------------------
(***************************************************************************)
(* The symbol tables hold what the program declares, the analysis accepts  *)
(* the legal programs and no others, and the translation finds the storage *)
(* of every variable it uses: for programs of any length, any names and    *)
(* any number of uses.                                                     *)
(***************************************************************************)
EXTENDS Semantics, Integers, WellFoundedInduction, SequenceTheorems, TLAPS

-----------------------------------------------------------------------------
(* Every non-empty set of naturals has a least element.                    *)
LEMMA LeastNat ==
    ASSUME NEW T, T \subseteq Nat, T # {}
    PROVE  \E m \in T : \A n \in T : m <= n
  <1>1. PICK m \in T : \A n \in T : ~ (<<n, m>> \in OpToRel(<, Nat))
    BY NatLessThanWellFounded, WFMin
  <1>2. \A n \in T : <<n, m>> \in OpToRel(<, Nat) <=> n < m
    BY DEF OpToRel
  <1>3. \A n \in T : ~ (n < m)
    BY <1>1, <1>2
  <1>4. \A n \in T : m <= n
    BY <1>3
  <1> QED
    BY <1>4

(* Induction over the numbers, stated of a set: one that holds 0 and the   *)
(* successor of what it holds has all naturals.                            *)
LEMMA AllNats ==
    ASSUME NEW S, 0 \in S, \A n \in Nat : n \in S => n + 1 \in S
    PROVE  \A n \in Nat : n \in S
  <1> SUFFICES ASSUME Nat \ S # {} PROVE FALSE
    OBVIOUS
  <1>1. PICK m \in Nat \ S : \A n \in Nat \ S : m <= n
    BY LeastNat
  <1>2. m # 0 /\ m - 1 \in Nat
    BY <1>1
  <1>3. m - 1 \in S
    BY <1>1, <1>2
  <1>4. (m - 1) + 1 = m
    BY <1>2
  <1> QED
    BY <1>1, <1>2, <1>3, <1>4

(* A function on the numbers up to N may be defined by recursion, its step *)
(* depending on the number.                                                *)
Steps(N, X, x, g) == N \in Nat /\ x \in X /\ g \in [(1..N) \X X -> X]

LEMMA BoundedRecursion ==
    ASSUME NEW N, NEW X, NEW x, NEW g, Steps(N, X, x, g)
    PROVE  \E f \in [0..N -> X] : f[0] = x /\ \A n \in 1..N : f[n] = g[<<n, f[n - 1]>>]
  <1> USE DEF Steps
  <1> DEFINE Upto(n) ==
                 {f \in [0..n -> X] : f[0] = x /\ \A i \in 1..n : f[i] = g[<<i, f[i - 1]>>]}
             S == {n \in Nat : n <= N => Upto(n) # {}}
  <1>1. 0 \in S
    <2>1. [i \in 0..0 |-> x] \in Upto(0)
      OBVIOUS
    <2> QED
      BY <2>1
  <1>2. ASSUME NEW n \in Nat, n \in S PROVE n + 1 \in S
    <2> SUFFICES ASSUME n + 1 <= N PROVE Upto(n + 1) # {}
      OBVIOUS
    <2>1. PICK f : f \in Upto(n)
      BY <1>2
    <2> DEFINE h == [i \in 0..(n + 1) |-> IF i = n + 1 THEN g[<<n + 1, f[n]>>] ELSE f[i]]
    <2>2. f[n] \in X /\ \A i \in 0..n : f[i] \in X
      BY <2>1
    <2>3. g[<<n + 1, f[n]>>] \in X
      BY <2>2
    <2>4. h \in [0..(n + 1) -> X] /\ h[0] = x
      BY <2>1, <2>2, <2>3
    <2>5. ASSUME NEW i \in 1..(n + 1) PROVE h[i] = g[<<i, h[i - 1]>>]
      <3>1. CASE i = n + 1
        <4>1. h[n + 1] = g[<<n + 1, f[n]>>] /\ h[n] = f[n] /\ (n + 1) - 1 = n
          OBVIOUS
        <4> HIDE DEF h
        <4> QED
          BY <3>1, <4>1
      <3>2. CASE i # n + 1
        <4>1. i \in 1..n /\ h[i] = f[i] /\ h[i - 1] = f[i - 1]
          BY <2>5, <3>2
        <4> QED
          BY <2>1, <4>1
      <3> QED
        BY <3>1, <3>2
    <2> HIDE DEF h
    <2> QED
      BY <2>4, <2>5
  <1> HIDE DEF S
  <1>3. \A n \in Nat : n \in S
    BY <1>1, <1>2, AllNats
  <1>4. Upto(N) # {}
    BY <1>3 DEF S
  <1> QED
    BY <1>4

-----------------------------------------------------------------------------
(* Inserting one entry after the other: h holds the tables in between.     *)
Inserts(h, n, table, entries) ==
    /\ n \in Nat /\ h[0] = table
    /\ \A i \in 1..n : h[i] = Insert(h[i - 1], entries[i].name, entries[i])

(* What is found under x after m insertions: the last entry of that name,  *)
(* or what the table had before.                                           *)
Replaces(entries, m, i, x) ==
    /\ i \in 1..m /\ entries[i].name = x
    /\ \A j \in (i + 1)..m : entries[j].name # x
Untouched(entries, m, x) == \A i \in 1..m : entries[i].name # x
Filled(t, m, table, entries) ==
    /\ DOMAIN t = DOMAIN table \cup {entries[i].name : i \in 1..m}
    /\ \A x \in DOMAIN t :
         \/ x \in DOMAIN table /\ Untouched(entries, m, x) /\ t[x] = table[x]
         \/ \E i \in 1..m : Replaces(entries, m, i, x) /\ t[x] = entries[i]

LEMMA InsertFills ==
    ASSUME NEW table, NEW entries, NEW m \in Nat, NEW t, Filled(t, m, table, entries)
    PROVE  LET e == entries[m + 1]
           IN  Filled(Insert(t, e.name, e), m + 1, table, entries)
  <1> DEFINE e == entries[m + 1]
             u == Insert(t, e.name, e)
  <1>1. 1..(m + 1) = (1..m) \cup {m + 1}
    OBVIOUS
  <1>2. DOMAIN u = DOMAIN t \cup {e.name}
    BY DEF Insert
  <1>3. DOMAIN u = DOMAIN table \cup {entries[i].name : i \in 1..(m + 1)}
    BY <1>1, <1>2 DEF Filled
  <1>4. ASSUME NEW x \in DOMAIN u
        PROVE  \/ x \in DOMAIN table /\ Untouched(entries, m + 1, x) /\ u[x] = table[x]
               \/ \E i \in 1..(m + 1) : Replaces(entries, m + 1, i, x) /\ u[x] = entries[i]
    <2>1. CASE x = e.name
      <3>1. u[x] = e
        BY <1>2, <2>1 DEF Insert
      <3>2. Replaces(entries, m + 1, m + 1, x)
        BY <2>1 DEF Replaces
      <3> QED
        BY <3>1, <3>2
    <2>2. CASE x # e.name
      <3>1. x \in DOMAIN t /\ u[x] = t[x]
        BY <1>2, <2>2 DEF Insert
      <3>2. CASE x \in DOMAIN table /\ Untouched(entries, m, x) /\ t[x] = table[x]
        BY <1>1, <2>2, <3>1, <3>2 DEF Untouched
      <3>3. ASSUME NEW i \in 1..m, Replaces(entries, m, i, x), t[x] = entries[i]
            PROVE  i \in 1..(m + 1) /\ Replaces(entries, m + 1, i, x)
        <4>1. \A j \in (i + 1)..(m + 1) : j \in (i + 1)..m \/ j = m + 1
          OBVIOUS
        <4> QED
          BY <2>2, <3>3, <4>1 DEF Replaces
      <3> QED
        BY <3>1, <3>2, <3>3 DEF Filled
    <2> QED
      BY <2>1, <2>2
  <1> QED
    BY <1>3, <1>4 DEF Filled

LEMMA InsertsFill ==
    ASSUME NEW h, NEW n, NEW table, NEW entries, Inserts(h, n, table, entries)
    PROVE  \A m \in 0..n : Filled(h[m], m, table, entries)
  <1> DEFINE S == {m \in Nat : m <= n => Filled(h[m], m, table, entries)}
  <1> n \in Nat
    BY DEF Inserts
  <1>1. 0 \in S
    <2>1. 1..0 = {}
      OBVIOUS
    <2>2. Filled(table, 0, table, entries)
      BY <2>1 DEF Filled, Untouched
    <2> QED
      BY <2>2 DEF Inserts
  <1>2. ASSUME NEW m \in Nat, m \in S PROVE m + 1 \in S
    <2> SUFFICES ASSUME m + 1 <= n PROVE Filled(h[m + 1], m + 1, table, entries)
      OBVIOUS
    <2>1. m <= n /\ m + 1 \in 1..n /\ (m + 1) - 1 = m
      OBVIOUS
    <2>2. Filled(h[m], m, table, entries)
      BY <1>2, <2>1
    <2>3. h[m + 1] = Insert(h[m], entries[m + 1].name, entries[m + 1])
      BY <2>1 DEF Inserts
    <2> QED
      BY <2>2, <2>3, InsertFills
  <1> HIDE DEF S
  <1>3. \A m \in Nat : m \in S
    BY <1>1, <1>2, AllNats
  <1> QED
    BY <1>3 DEF S

(* The tables that appear when entries are put into a table.               *)
TablesOf(table, entries, n) ==
    LET names == DOMAIN table \cup {entries[i].name : i \in 1..n}
        values == {table[x] : x \in DOMAIN table} \cup {entries[i] : i \in 1..n}
    IN  {table} \cup UNION {[D -> values] : D \in SUBSET names}

LEMMA InsertStays ==
    ASSUME NEW table, NEW entries, NEW n \in Nat, NEW i \in 1..n,
           NEW t \in TablesOf(table, entries, n)
    PROVE  Insert(t, entries[i].name, entries[i]) \in TablesOf(table, entries, n)
  <1> DEFINE names == DOMAIN table \cup {entries[j].name : j \in 1..n}
             values == {table[x] : x \in DOMAIN table} \cup {entries[j] : j \in 1..n}
             u == Insert(t, entries[i].name, entries[i])
  <1>1. DOMAIN t \subseteq names /\ \A x \in DOMAIN t : t[x] \in values
    <2>1. CASE t = table
      BY <2>1
    <2>2. CASE t # table
      <3>1. PICK D \in SUBSET names : t \in [D -> values]
        BY <2>2 DEF TablesOf
      <3> HIDE DEF names, values
      <3> QED
        BY <3>1
    <2> QED
      BY <2>1, <2>2
  <1>2. entries[i].name \in names /\ entries[i] \in values
    OBVIOUS
  <1>3. DOMAIN t \cup {entries[i].name} \in SUBSET names
    BY <1>1, <1>2
  <1>4. u \in [DOMAIN t \cup {entries[i].name} -> values]
    <2> HIDE DEF names, values
    <2> QED
      BY <1>1, <1>2 DEF Insert
  <1> QED
    BY <1>3, <1>4 DEF TablesOf

(* InsertAll is that iteration.                                            *)
LEMMA InsertAllDef ==
    ASSUME NEW table, NEW entries, Len(entries) \in Nat
    PROVE  \E h : /\ Inserts(h, Len(entries), table, entries)
                  /\ h[Len(entries)] = InsertAll(table, entries)
  <1> DEFINE N == Len(entries)
             X == TablesOf(table, entries, N)
             g == [p \in (1..N) \X X |->
                      Insert(p[2], entries[p[1]].name, entries[p[1]])]
             F(f) == [i \in 0..N |->
                         IF i = 0 THEN table
                         ELSE Insert(f[i - 1], entries[i].name, entries[i])]
  <1>1. table \in X
    BY DEF TablesOf
  <1>2. g \in [(1..N) \X X -> X]
    <2>1. \A i \in 1..N : \A t \in X : Insert(t, entries[i].name, entries[i]) \in X
      BY InsertStays
    <2> HIDE DEF X, N
    <2>2. \A p \in (1..N) \X X : p[1] \in 1..N /\ p[2] \in X
      OBVIOUS
    <2> QED
      BY <2>1, <2>2
  <1>3. PICK f \in [0..N -> X] : f[0] = table /\ \A i \in 1..N : f[i] = g[<<i, f[i - 1]>>]
    <2>1. Steps(N, X, table, g)
      BY <1>1, <1>2 DEF Steps
    <2> HIDE DEF X, N, g
    <2> QED
      BY <2>1, BoundedRecursion
  <1>4. ASSUME NEW i \in 1..N
        PROVE  f[i] = Insert(f[i - 1], entries[i].name, entries[i])
    <2> HIDE DEF X
    <2>1. i - 1 \in 0..N
      OBVIOUS
    <2> HIDE DEF N
    <2>2. <<i, f[i - 1]>> \in (1..N) \X X
      BY <1>3, <2>1
    <2> QED
      BY <1>3, <2>2
  <1>5. f = F(f)
    <2>1. ASSUME NEW i \in 0..N PROVE f[i] = F(f)[i]
      <3>1. CASE i = 0
        BY <1>3, <3>1
      <3>2. CASE i # 0
        <4>1. i \in 1..N
          BY <3>2
        <4> HIDE DEF N
        <4> QED
          BY <1>4, <3>2, <4>1
      <3> QED
        BY <3>1, <3>2
    <2>2. f = [i \in 0..N |-> f[i]]
      BY <1>3
    <2>3. F(f) = [i \in 0..N |-> F(f)[i]]
      OBVIOUS
    <2> HIDE DEF F, N, X
    <2> QED
      BY <2>1, <2>2, <2>3
  <1>6. InsertAll(table, entries) = (CHOOSE h : h = F(h))[N]
    BY DEF InsertAll
  <1> DEFINE h == CHOOSE h : h = F(h)
  <1>7. h = F(h)
    <2> HIDE DEF F
    <2> QED
      BY <1>5
  <1>8. N \in 0..N /\ 0 \in 0..N /\ \A i \in 1..N : i \in 0..N /\ i # 0
    OBVIOUS
  <1> HIDE DEF h, N
  <1>9. h[0] = table
    BY <1>7, <1>8
  <1>10. \A i \in 1..N : h[i] = Insert(h[i - 1], entries[i].name, entries[i])
    BY <1>7, <1>8
  <1>11. N \in Nat
    BY DEF N
  <1> QED
    BY <1>6, <1>9, <1>10, <1>11 DEF h, N, Inserts

LEMMA InsertAllFills ==
    ASSUME NEW table, NEW entries, Len(entries) \in Nat
    PROVE  Filled(InsertAll(table, entries), Len(entries), table, entries)
  <1>1. PICK h : /\ Inserts(h, Len(entries), table, entries)
                 /\ h[Len(entries)] = InsertAll(table, entries)
    BY InsertAllDef
  <1>2. Len(entries) \in 0..Len(entries)
    OBVIOUS
  <1> QED
    BY <1>1, <1>2, InsertsFill

-----------------------------------------------------------------------------
(* Declarations.                                                           *)
LastOf(decls, i) == \A j \in DOMAIN decls : j > i => decls[j].id # decls[i].id

LEMMA SeqFacts ==
    ASSUME NEW D, NEW s \in Seq(D)
    PROVE  /\ Len(s) \in Nat /\ DOMAIN s = 1..Len(s)
           /\ \A i \in DOMAIN s : s[i] \in D
           /\ s = <<>> <=> DOMAIN s = {}
  OBVIOUS

LEMMA MapFacts ==
    ASSUME NEW D, NEW s \in Seq(D), NEW E, NEW t \in [DOMAIN s -> E]
    PROVE  t \in Seq(E) /\ Len(t) = Len(s) /\ DOMAIN t = DOMAIN s
  OBVIOUS

(* A new declaration behind the others.                                    *)
LEMMA OneMore ==
    ASSUME NEW D, NEW s \in Seq(D), NEW d \in D
    PROVE  LET t == Append(s, d)
           IN  /\ t \in Seq(D) /\ DOMAIN t = DOMAIN s \cup {Len(s) + 1}
               /\ Len(t) = Len(s) + 1 /\ Len(s) + 1 \notin DOMAIN s
               /\ t[Len(s) + 1] = d /\ \A i \in DOMAIN s : t[i] = s[i]
               /\ Named(t) = Named(s) \cup {d.id}
               /\ Range(t) = Range(s) \cup {d}
               /\ NoRepeats(t) <=> NoRepeats(s) /\ d.id \notin Named(s)
               /\ \A i \in DOMAIN t : LastOf(t, i) =>
                    \/ i = Len(s) + 1
                    \/ i \in DOMAIN s /\ LastOf(s, i) /\ s[i].id # d.id
  <1> DEFINE t == Append(s, d)
             n == Len(s) + 1
  <1>1. /\ t \in Seq(D) /\ DOMAIN t = DOMAIN s \cup {n} /\ n \notin DOMAIN s
        /\ t[n] = d /\ \A i \in DOMAIN s : t[i] = s[i]
        /\ Len(t) = n /\ \A i \in DOMAIN s : i < n
    OBVIOUS
  <1> HIDE DEF t, n
  <1>2. Named(t) = Named(s) \cup {d.id}
    BY <1>1 DEF Named
  <1>3. Range(t) = Range(s) \cup {d}
    BY <1>1 DEF Range
  <1>4. NoRepeats(t) <=> NoRepeats(s) /\ d.id \notin Named(s)
    BY <1>1 DEF NoRepeats, Named
  <1>5. \A i \in DOMAIN t : LastOf(t, i) =>
          \/ i = n
          \/ i \in DOMAIN s /\ LastOf(s, i) /\ s[i].id # d.id
    BY <1>1 DEF LastOf
  <1> QED
    BY <1>1, <1>2, <1>3, <1>4, <1>5 DEF t, n

-----------------------------------------------------------------------------
(* The table of a function: WithLocals.                                    *)
EntriesFor(entries, decls, scope) ==
    \A i \in 1..Len(decls) :
      entries[i] = Entry(<<decls[i].id>>, decls[i].ty, scope)

LEMMA NamesOfEntries ==
    ASSUME NEW entries, NEW decls, NEW scope, EntriesFor(entries, decls, scope)
    PROVE  /\ \A i \in 1..Len(decls) : entries[i].name = <<decls[i].id>>
           /\ {entries[i].name : i \in 1..Len(decls)}
                = {<<x>> : x \in {decls[i].id : i \in 1..Len(decls)}}
  <1>1. ASSUME NEW i \in 1..Len(decls) PROVE entries[i].name = <<decls[i].id>>
    <2>1. entries[i] = Entry(<<decls[i].id>>, decls[i].ty, scope)
      BY DEF EntriesFor
    <2> QED
      BY <2>1 DEF Entry
  <1> QED
    BY <1>1

ParamEntries(params) ==
    [i \in DOMAIN params |-> Entry(<<params[i].id>>, params[i].ty, "PARAM")]
LocalEntries(locals) ==
    [i \in DOMAIN locals |-> Entry(<<locals[i].id>>, locals[i].ty, "LOCAL")]

(* h[i] is the table and the errors after i of the declarations.           *)
Declares(h, params, locals) ==
    /\ h[0] = [table |-> WithParameters(params), errors |-> {}]
    /\ \A i \in 1..Len(locals) :
         h[i] = [table |-> Insert(h[i - 1].table, <<locals[i].id>>,
                                  Entry(<<locals[i].id>>, locals[i].ty, "LOCAL")),
                 errors |-> h[i - 1].errors
                   \cup Redeclared(h[i - 1].table, tables.Globals, locals[i].id)]

LEMMA WithLocalsDef ==
    ASSUME NEW params, NEW locals \in Seq(Decls)
    PROVE  \E h : /\ Declares(h, params, locals)
                  /\ h[Len(locals)] = WithLocals(params, locals)
  <1> DEFINE N == Len(locals)
             entries == LocalEntries(locals)
             T == TablesOf(WithParameters(params), entries, N)
             E == {<<"variable", locals[i].id>> : i \in 1..N}
             X == [table : T, errors : SUBSET E]
             st0 == [table |-> WithParameters(params), errors |-> {}]
             Step(i, st) ==
               [table |-> Insert(st.table, <<locals[i].id>>,
                                 Entry(<<locals[i].id>>, locals[i].ty, "LOCAL")),
                errors |-> st.errors
                   \cup Redeclared(st.table, tables.Globals, locals[i].id)]
             g == [p \in (1..N) \X X |-> Step(p[1], p[2])]
             F(f) == [i \in 0..N |->
                         IF i = 0 THEN [table |-> WithParameters(params), errors |-> {}]
                         ELSE LET before == f[i - 1]
                                  d == locals[i]
                              IN  [table |-> Insert(before.table, <<d.id>>,
                                                    Entry(<<d.id>>, d.ty, "LOCAL")),
                                   errors |-> before.errors
                                     \cup Redeclared(before.table, tables.Globals, d.id)]]
  <1>1. N \in Nat /\ DOMAIN locals = 1..N
    BY SeqFacts
  <1>2. \A i \in 1..N : entries[i] = Entry(<<locals[i].id>>, locals[i].ty, "LOCAL")
    BY <1>1 DEF LocalEntries
  <1> DEFINE ids == {locals[i].id : i \in 1..N}
  <1>0. /\ \A i \in 1..N : entries[i].name = <<locals[i].id>>
        /\ {entries[i].name : i \in 1..N} = {<<x>> : x \in ids}
    <2>1. EntriesFor(entries, locals, "LOCAL")
      BY <1>2 DEF EntriesFor
    <2> HIDE DEF entries
    <2> QED
      BY <2>1, NamesOfEntries
  <1> HIDE DEF N, entries
  <1>3. ASSUME NEW i \in 1..N, NEW st \in X PROVE Step(i, st) \in X
    <2>1. st.table \in T /\ st.errors \subseteq E
      OBVIOUS
    <2>2. Insert(st.table, <<locals[i].id>>, entries[i]) \in T
      BY <1>0, <1>1, <1>2, <2>1, InsertStays
    <2>3. Redeclared(st.table, tables.Globals, locals[i].id) \subseteq E
      BY DEF Redeclared, ErrorIf
    <2> HIDE DEF T, E
    <2> QED
      BY <1>2, <2>1, <2>2, <2>3
  <1>4. st0 \in X
    <2>1. WithParameters(params) \in T
      BY DEF TablesOf
    <2> QED
      BY <2>1
  <1>5. PICK f \in [0..N -> X] : f[0] = st0 /\ \A i \in 1..N : f[i] = g[<<i, f[i - 1]>>]
    <2>1. g \in [(1..N) \X X -> X]
      <3> HIDE DEF X, Step
      <3>1. \A p \in (1..N) \X X : p[1] \in 1..N /\ p[2] \in X
        OBVIOUS
      <3> QED
        BY <1>3, <3>1
    <2>2. Steps(N, X, st0, g)
      BY <1>1, <1>4, <2>1 DEF Steps
    <2> HIDE DEF X, g, st0
    <2> QED
      BY <2>2, BoundedRecursion
  <1>6. ASSUME NEW i \in 1..N PROVE f[i] = Step(i, f[i - 1])
    <2>1. i - 1 \in 0..N
      BY <1>1
    <2> HIDE DEF X, Step
    <2>2. <<i, f[i - 1]>> \in (1..N) \X X
      BY <1>5, <2>1
    <2> QED
      BY <1>5, <2>2
  <1>7. f = F(f)
    <2>1. ASSUME NEW i \in 0..N PROVE f[i] = F(f)[i]
      <3>1. CASE i = 0
        BY <1>5, <3>1
      <3>2. CASE i # 0
        <4>1. i \in 1..N
          BY <1>1, <3>2
        <4>2. f[i] = Step(i, f[i - 1])
          BY <1>6, <4>1
        <4> QED
          BY <3>2, <4>2
      <3> QED
        BY <3>1, <3>2
    <2>2. f = [i \in 0..N |-> f[i]]
      BY <1>5
    <2>3. F(f) = [i \in 0..N |-> F(f)[i]]
      OBVIOUS
    <2> HIDE DEF F, X
    <2> QED
      BY <2>1, <2>2, <2>3
  <1>8. WithLocals(params, locals) = (CHOOSE h : h = F(h))[N]
    BY DEF WithLocals, N
  <1> DEFINE h == CHOOSE h : h = F(h)
  <1>9. h = F(h)
    <2> HIDE DEF F
    <2> QED
      BY <1>7
  <1>10. N \in 0..N /\ 0 \in 0..N /\ \A i \in 1..N : i \in 0..N /\ i # 0
    BY <1>1
  <1> HIDE DEF h
  <1>11. h[0] = st0
    BY <1>9, <1>10
  <1>12. ASSUME NEW i \in 1..N PROVE h[i] = Step(i, h[i - 1])
    <2>1. h[i] = F(h)[i]
      BY <1>9
    <2> QED
      BY <1>10, <2>1
  <1> QED
    BY <1>8, <1>11, <1>12 DEF h, N, Declares

(* What the table of a function holds, while nothing is translated.        *)
Built(t, params, locals) ==
    /\ DOMAIN t = {<<x>> : x \in Named(params) \cup Named(locals)}
    /\ \A i \in DOMAIN locals : LastOf(locals, i) =>
         t[<<locals[i].id>>] = Entry(<<locals[i].id>>, locals[i].ty, "LOCAL")
    /\ \A i \in DOMAIN params :
         LastOf(params, i) /\ params[i].id \notin Named(locals) =>
           t[<<params[i].id>>] = Entry(<<params[i].id>>, params[i].ty, "PARAM")

LEMMA ParametersFill ==
    ASSUME NEW params \in Seq(Decls)
    PROVE  /\ DOMAIN WithParameters(params) = {<<x>> : x \in Named(params)}
           /\ \A i \in DOMAIN params : LastOf(params, i) =>
                WithParameters(params)[<<params[i].id>>]
                  = Entry(<<params[i].id>>, params[i].ty, "PARAM")
  <1> DEFINE N == Len(params)
             entries == ParamEntries(params)
             t == WithParameters(params)
  <1>1. N \in Nat /\ DOMAIN params = 1..N
    BY SeqFacts
  <1>2. \A i \in 1..N : entries[i] = Entry(<<params[i].id>>, params[i].ty, "PARAM")
    BY <1>1 DEF ParamEntries
  <1> DEFINE ids == {params[i].id : i \in 1..N}
  <1>9. /\ \A i \in 1..N : entries[i].name = <<params[i].id>>
        /\ {entries[i].name : i \in 1..N} = {<<x>> : x \in ids}
    <2>1. EntriesFor(entries, params, "PARAM")
      BY <1>2 DEF EntriesFor
    <2> HIDE DEF entries
    <2> QED
      BY <2>1, NamesOfEntries
  <1>3. Len(entries) = N
    <2>1. entries \in [DOMAIN params -> {entries[i] : i \in DOMAIN params}]
      BY DEF ParamEntries
    <2> HIDE DEF entries
    <2> QED
      BY <2>1, MapFacts
  <1>4. t = InsertAll(EmptyTable, entries)
    BY DEF WithParameters, ParamEntries
  <1>5. DOMAIN EmptyTable = {}
    BY DEF EmptyTable
  <1> HIDE DEF entries, N, t
  <1>6. Filled(t, N, EmptyTable, entries)
    BY <1>1, <1>3, <1>4, InsertAllFills
  <1>7. DOMAIN t = {<<x>> : x \in Named(params)}
    <2>1. DOMAIN t = {entries[i].name : i \in 1..N}
      BY <1>5, <1>6 DEF Filled
    <2>2. Named(params) = {params[i].id : i \in 1..N}
      BY <1>1 DEF Named
    <2> QED
      BY <1>9, <2>1, <2>2
  <1>8. ASSUME NEW i \in DOMAIN params, LastOf(params, i)
        PROVE  t[<<params[i].id>>] = Entry(<<params[i].id>>, params[i].ty, "PARAM")
    <2> DEFINE x == <<params[i].id>>
    <2>1. x \in DOMAIN t
      BY <1>7 DEF Named
    <2>2. PICK k \in 1..N : Replaces(entries, N, k, x) /\ t[x] = entries[k]
      BY <1>5, <1>6, <2>1 DEF Filled
    <2>3. params[k].id = params[i].id
      BY <1>9, <2>2 DEF Replaces
    <2>4. ~ k < i
      <3>1. i \in 1..N
        BY <1>1
      <3>2. ASSUME k < i PROVE FALSE
        <4>1. i \in (k + 1)..N
          BY <1>1, <3>1, <3>2
        <4> QED
          BY <1>9, <2>2, <3>1, <4>1 DEF Replaces
      <3> QED
        BY <3>2
    <2>5. ~ i < k
      BY <1>1, <1>8, <2>3 DEF LastOf
    <2>6. k = i
      BY <1>1, <2>4, <2>5
    <2> QED
      BY <1>2, <2>2, <2>6
  <1> QED
    BY <1>7, <1>8 DEF t

LEMMA LocalsFill ==
    ASSUME NEW params \in Seq(Decls), NEW locals \in Seq(Decls)
    PROVE  /\ Built(WithLocals(params, locals).table, params, locals)
           /\ WithLocals(params, locals).errors = {} <=>
                NoRepeats(locals) /\ Named(locals) \cap Named(params) = {}
  <1> DEFINE N == Len(locals)
             entries == LocalEntries(locals)
             t0 == WithParameters(params)
             names == {<<x>> : x \in Named(params)}
  <1>1. N \in Nat /\ DOMAIN locals = 1..N
    BY SeqFacts
  <1>2. \A i \in 1..N : entries[i] = Entry(<<locals[i].id>>, locals[i].ty, "LOCAL")
    BY <1>1 DEF LocalEntries
  <1> DEFINE ids == {locals[i].id : i \in 1..N}
  <1>0. /\ \A i \in 1..N : entries[i].name = <<locals[i].id>>
        /\ {entries[i].name : i \in 1..N} = {<<x>> : x \in ids}
    <2>1. EntriesFor(entries, locals, "LOCAL")
      BY <1>2 DEF EntriesFor
    <2> HIDE DEF entries
    <2> QED
      BY <2>1, NamesOfEntries
  <1>3. PICK h : Declares(h, params, locals) /\ h[N] = WithLocals(params, locals)
    BY WithLocalsDef
  <1> DEFINE tab == [i \in 0..N |-> h[i].table]
  <1> HIDE DEF N, entries
  <1>4. h[0].table = t0 /\ h[0].errors = {}
    BY <1>3 DEF Declares
  <1>5. ASSUME NEW i \in 1..N
        PROVE  /\ h[i].table = Insert(h[i - 1].table, entries[i].name, entries[i])
               /\ h[i].errors = h[i - 1].errors
                    \cup Redeclared(h[i - 1].table, tables.Globals, locals[i].id)
    <2>1. h[i] = [table |-> Insert(h[i - 1].table, <<locals[i].id>>,
                                  Entry(<<locals[i].id>>, locals[i].ty, "LOCAL")),
                  errors |-> h[i - 1].errors
                   \cup Redeclared(h[i - 1].table, tables.Globals, locals[i].id)]
      BY <1>3 DEF Declares, N
    <2>2. entries[i].name = <<locals[i].id>>
      BY <1>0
    <2>3. entries[i] = Entry(<<locals[i].id>>, locals[i].ty, "LOCAL")
      BY <1>2
    <2> QED
      BY <2>1, <2>2, <2>3
  <1>6. Inserts(tab, N, t0, entries)
    <2>1. 0 \in 0..N /\ \A i \in 1..N : i \in 0..N /\ i - 1 \in 0..N
      BY <1>1
    <2> QED
      BY <1>1, <1>4, <1>5, <2>1 DEF Inserts
  <1>7. \A m \in 0..N : Filled(h[m].table, m, t0, entries)
    <2> HIDE DEF t0
    <2>1. \A m \in 0..N : Filled(tab[m], m, t0, entries)
      <3> HIDE DEF tab
      <3> QED
        BY <1>6, InsertsFill
    <2> QED
      BY <2>1
  <1>8. DOMAIN t0 = names
    BY ParametersFill
  <1> HIDE DEF tab, names
  <1>9. Built(h[N].table, params, locals)
    <2> DEFINE t == h[N].table
    <2>1. Filled(t, N, t0, entries)
      BY <1>1, <1>7
    <2> HIDE DEF t, t0
    <2>2. DOMAIN t = {<<x>> : x \in Named(params) \cup Named(locals)}
      <3>1. DOMAIN t = names \cup {entries[i].name : i \in 1..N}
        BY <1>8, <2>1 DEF Filled
      <3>2. Named(locals) = {locals[i].id : i \in 1..N}
        BY <1>1 DEF Named
      <3>3. {entries[i].name : i \in 1..N} = {<<x>> : x \in Named(locals)}
        BY <1>0, <3>2
      <3> QED
        BY <3>1, <3>3 DEF names
    <2>3. ASSUME NEW i \in DOMAIN locals, LastOf(locals, i)
          PROVE  t[<<locals[i].id>>] = Entry(<<locals[i].id>>, locals[i].ty, "LOCAL")
      <3> DEFINE x == <<locals[i].id>>
      <3>1. x \in DOMAIN t /\ i \in 1..N
        BY <1>1, <2>2 DEF Named
      <3>2. ~ Untouched(entries, N, x)
        BY <1>0, <3>1 DEF Untouched
      <3>3. PICK k \in 1..N : Replaces(entries, N, k, x) /\ t[x] = entries[k]
        BY <2>1, <3>1, <3>2 DEF Filled
      <3>4. locals[k].id = locals[i].id
        BY <1>0, <3>3 DEF Replaces
      <3>5. ASSUME k < i PROVE FALSE
        <4>1. i \in (k + 1)..N
          BY <1>1, <3>1, <3>5
        <4> QED
          BY <1>0, <3>1, <3>3, <4>1 DEF Replaces
      <3>6. ~ i < k
        BY <1>1, <2>3, <3>4 DEF LastOf
      <3>7. k = i
        BY <1>1, <3>1, <3>5, <3>6
      <3> QED
        BY <1>2, <3>3, <3>7
    <2>4. ASSUME NEW i \in DOMAIN params, LastOf(params, i), params[i].id \notin Named(locals)
          PROVE  t[<<params[i].id>>] = Entry(<<params[i].id>>, params[i].ty, "PARAM")
      <3> DEFINE x == <<params[i].id>>
      <3>1. x \in DOMAIN t
        BY <2>2 DEF Named
      <3>2. \A k \in 1..N : entries[k].name # x
        BY <1>0, <1>1, <2>4 DEF Named
      <3>3. t[x] = t0[x]
        BY <2>1, <3>1, <3>2 DEF Filled, Replaces
      <3> QED
        BY <2>4, <3>3, ParametersFill DEF t0
    <2> QED
      BY <2>2, <2>3, <2>4 DEF Built, t
  <1> DEFINE Fresh(i) == <<locals[i].id>> \notin DOMAIN h[i - 1].table
             S == {m \in Nat : m <= N => (h[m].errors = {} <=> \A i \in 1..m : Fresh(i))}
  <1>10. 0 \in S
    BY <1>4
  <1>11. ASSUME NEW m \in Nat, m \in S PROVE m + 1 \in S
    <2> SUFFICES ASSUME m + 1 <= N
                 PROVE  h[m + 1].errors = {} <=> \A i \in 1..(m + 1) : Fresh(i)
      OBVIOUS
    <2>1. m + 1 \in 1..N /\ (m + 1) - 1 = m /\ m <= N
      BY <1>1
    <2>2. h[m + 1].errors = h[m].errors
            \cup Redeclared(h[m].table, tables.Globals, locals[m + 1].id)
      BY <1>5, <2>1
    <2>3. Redeclared(h[m].table, tables.Globals, locals[m + 1].id) = {} <=> Fresh(m + 1)
      BY <2>1 DEF Redeclared, ErrorIf, LocalContains
    <2>4. h[m].errors = {} <=> \A i \in 1..m : Fresh(i)
      BY <1>11, <2>1
    <2>5. 1..(m + 1) = (1..m) \cup {m + 1}
      OBVIOUS
    <2> HIDE DEF Fresh
    <2> QED
      BY <2>2, <2>3, <2>4, <2>5
  <1> HIDE DEF S
  <1>12. \A m \in Nat : m \in S
    BY <1>10, <1>11, AllNats
  <1>13. h[N].errors = {} <=> \A i \in 1..N : Fresh(i)
    BY <1>1, <1>12 DEF S
  <1>14. ASSUME NEW i \in 1..N
         PROVE  Fresh(i) <=> /\ locals[i].id \notin Named(params)
                             /\ \A k \in 1..(i - 1) : locals[k].id # locals[i].id
    <2>1. i - 1 \in 0..N /\ \A k \in 1..(i - 1) : k \in 1..N
      BY <1>1
    <2>2. DOMAIN h[i - 1].table = names \cup {entries[k].name : k \in 1..(i - 1)}
      BY <1>7, <1>8, <2>1 DEF Filled
    <2>3. <<locals[i].id>> \in names <=> locals[i].id \in Named(params)
      BY DEF names
    <2>4. ASSUME NEW k \in 1..(i - 1)
          PROVE  entries[k].name = <<locals[i].id>> <=> locals[k].id = locals[i].id
      <3>1. entries[k].name = <<locals[k].id>>
        BY <1>0, <2>1
      <3> QED
        BY <3>1
    <2>5. <<locals[i].id>> \in {entries[k].name : k \in 1..(i - 1)} <=>
            \E k \in 1..(i - 1) : locals[k].id = locals[i].id
      BY <2>4
    <2> QED
      BY <2>2, <2>3, <2>5
  <1> HIDE DEF Fresh
  <1>15. (\A i \in 1..N : Fresh(i)) <=>
           NoRepeats(locals) /\ Named(locals) \cap Named(params) = {}
    <2>1. NoRepeats(locals) <=>
            \A i \in 1..N : \A k \in 1..(i - 1) : locals[k].id # locals[i].id
      BY <1>1 DEF NoRepeats
    <2>2. Named(locals) \cap Named(params) = {} <=>
            \A i \in 1..N : locals[i].id \notin Named(params)
      BY <1>1 DEF Named
    <2> QED
      BY <1>14, <2>1, <2>2
  <1> QED
    BY <1>3, <1>9, <1>13, <1>15

-----------------------------------------------------------------------------
(* The inductive invariant.                                                *)
TypeRecords == [id : StructNames, fields : Seq(Decls)]
FunctionRecords ==
    [id : Functions, retTy : {"none", "int"}, params : Seq(Decls),
     locals : Seq(Decls), uses : Seq(Uses)]
Programs ==
    [types : Seq(TypeRecords), globals : Seq(Decls), funcs : Seq(FunctionRecords),
     size : Nat, uses : 0..MaxUses]

ShapeInv ==
    /\ program \in Programs
    /\ \A i \in DOMAIN program.funcs : Len(program.funcs[i].uses) <= program.uses
    /\ DOMAIN tables = {"Globals", "Structs", "Funcs"}

PhaseInv ==
    /\ phase \in {"build", "check", "translate", "rejected"}
    /\ phase # "translate" => current = 0 /\ code = <<>>
    /\ current \in 0..Len(program.funcs)
    /\ current = 0 => used = 0
    /\ current # 0 => used \in 0..Len(program.funcs[current].uses)
    /\ nextReg \in Nat \ {0}

(* The tables have the last declaration of every name.                     *)
GlobalsInv ==
    /\ DOMAIN tables.Globals = {<<x>> : x \in Named(program.globals)}
    /\ \A i \in DOMAIN program.globals : LastOf(program.globals, i) =>
         tables.Globals[<<program.globals[i].id>>]
           = Entry(<<program.globals[i].id>>, program.globals[i].ty, "GLOBAL")
StructsInv == DOMAIN tables.Structs = Named(program.types)

Describes(entry, f) ==
    /\ DOMAIN entry = {"RetTy", "Parameters", "Variables"}
    /\ entry.RetTy = f.retTy /\ entry.Parameters = Named(f.params)
FuncsInv ==
    /\ DOMAIN tables.Funcs = Named(program.funcs)
    /\ \A i \in DOMAIN program.funcs : LastOf(program.funcs, i) =>
         LET f == program.funcs[i]
             entry == tables.Funcs[f.id]
         IN  /\ Describes(entry, f)
             /\ phase # "translate" => Built(entry.Variables, f.params, f.locals)
TablesInv == GlobalsInv /\ StructsInv /\ FuncsInv

(* No name is declared twice: what BuildSymbolTable looks for.             *)
FreshLocals(f) == NoRepeats(f.locals) /\ Named(f.locals) \cap Named(f.params) = {}
DeclaredOnce ==
    /\ NoRepeats(program.types) /\ NoRepeats(program.globals)
    /\ NoRepeats(program.funcs)
    /\ \A t \in Range(program.types) : NoRepeats(t.fields)
    /\ \A f \in Range(program.funcs) : FreshLocals(f)
AcceptInv ==
    /\ phase = "build" => (errors = {} <=> DeclaredOnce)
    /\ phase = "check" => DeclaredOnce
    /\ AcceptsTheLegalPrograms

(* Where the variable x of function f is, and the code that says so.       *)
Place(f, x) ==
    IF x \in Named(f.params) THEN [name |-> Slot(x), global |-> FALSE]
    ELSE [name |-> <<x>>, global |-> x \notin Named(f.locals)]
Reaching(f, x) == [op |-> "access", func |-> f.id, id |-> x, at |-> Place(f, x)]
Allocating(f, x) == [op |-> "alloca", func |-> f.id, id |-> "", at |-> Place(f, x)]
Own(f) == Named(f.params) \cup Named(f.locals)

(* What a lookup in the table t of f finds: the locals, no global, and     *)
(* from when f is translated the slots of the parameters.                  *)
Finds(t, f) ==
    /\ \A x \in Named(f.locals) :
         <<x>> \in DOMAIN t /\ t[<<x>>].name = <<x>> /\ t[<<x>>].scope = "LOCAL"
    /\ \A x \in Ids \ Own(f) : <<x>> \notin DOMAIN t
FindsSlots(t, f) ==
    \A x \in Named(f.params) :
      Slot(x) \in DOMAIN t /\ t[Slot(x)].name = Slot(x) /\ t[Slot(x)].scope = "PARAM"
Allocated(c, f) == \A x \in Own(f) : \E j \in DOMAIN c : c[j] = Allocating(f, x)

LookupInv ==
    phase = "translate" =>
      \A k \in DOMAIN program.funcs :
        LET f == program.funcs[k]
            t == tables.Funcs[f.id].Variables
        IN  /\ Finds(t, f)
            /\ k <= current => FindsSlots(t, f) /\ Allocated(code, f)

RightAccess(c, i) ==
    \E k \in DOMAIN program.funcs : \E x \in Ids :
      LET f == program.funcs[k]
      IN  /\ Scope(f, x) # "none"
          /\ c[i] = Reaching(f, x)
          /\ x \in Own(f) => \E j \in 1..(i - 1) : c[j] = Allocating(f, x)
IsSequence(s) == \E S : s \in Seq(S)
CodeInv ==
    /\ IsSequence(code)
    /\ \A i \in DOMAIN code : code[i].op = "access" => RightAccess(code, i)

IInv == ShapeInv /\ PhaseInv /\ TablesInv /\ AcceptInv /\ LookupInv /\ CodeInv

-----------------------------------------------------------------------------
(* Building.                                                               *)
LEMMA UpToFacts ==
    ASSUME NEW n \in Int, NEW D, NEW s \in UpTo(n, D)
    PROVE  s \in Seq(D) /\ Len(s) <= n
  <1>1. PICK k \in 0..n : s \in [1..k -> D]
    BY DEF UpTo
  <1> QED
    BY <1>1

LEMMA InsertFacts ==
    ASSUME NEW t, NEW x, NEW e
    PROVE  /\ DOMAIN Insert(t, x, e) = DOMAIN t \cup {x}
           /\ Insert(t, x, e)[x] = e
           /\ \A y \in DOMAIN t : y # x => Insert(t, x, e)[y] = t[y]
  BY DEF Insert

(* Nothing is translated yet: the tables alone matter.                     *)
LEMMA NothingTranslated ==
    ASSUME PhaseInv, phase # "translate", phase' # "translate",
           UNCHANGED <<current, used, code>>
    PROVE  LookupInv' /\ CodeInv'
  <1>1. code' = <<>>
    BY DEF PhaseInv
  <1>2. DOMAIN code' = {} /\ code' \in Seq({})
    BY <1>1
  <1> QED
    BY <1>2 DEF LookupInv, CodeInv, IsSequence

LEMMA TypeKeeps ==
    ASSUME IInv, DeclareType
    PROVE  IInv'
  <1> USE DEF IInv
  <1>1. PICK name \in StructNames, fields \in UpTo(Room - 2, Decls) \ {<<>>} :
          /\ errors' = errors
               \cup ErrorIf(name \in DOMAIN tables.Structs, <<"struct", name>>)
               \cup {<<"field", fields[i].id>> :
                       i \in {j \in DOMAIN fields :
                                \E k \in 1..j - 1 : fields[k].id = fields[j].id}}
          /\ tables' = [tables EXCEPT !.Structs = Insert(@, name, fields)]
          /\ program' = [program EXCEPT
               !.types = Append(@, [id |-> name, fields |-> fields]),
               !.size = @ + 1 + Len(fields)]
    BY DEF DeclareType
  <1> DEFINE t == [id |-> name, fields |-> fields]
  <1>2. phase = "build" /\ UNCHANGED <<phase, current, used, nextReg, code>>
    BY DEF DeclareType
  <1>3. fields \in Seq(Decls) /\ Len(fields) \in Nat
    <2>1. Room - 2 \in Int
      BY BoundsAssumption DEF ShapeInv, Programs, Room
    <2> QED
      BY <2>1, UpToFacts, SeqFacts
  <1>4. t \in TypeRecords /\ t.id = name /\ t.fields = fields
    BY <1>3 DEF TypeRecords
  <1>5. /\ program'.types = Append(program.types, t)
        /\ program'.globals = program.globals /\ program'.funcs = program.funcs
        /\ program'.uses = program.uses /\ program'.size \in Nat
        /\ program' \in Programs
    <2>1. program.types \in Seq(TypeRecords) /\ program.size \in Nat
      BY DEF ShapeInv, Programs
    <2>2. Append(program.types, t) \in Seq(TypeRecords)
      BY <1>4, <2>1, OneMore
    <2>3. program.size + 1 + Len(fields) \in Nat
      BY <1>3, <2>1
    <2> HIDE DEF t
    <2>4. program' = [program EXCEPT !.types = Append(@, t), !.size = @ + 1 + Len(fields)]
      BY <1>1 DEF t
    <2> QED
      BY <2>2, <2>3, <2>4 DEF ShapeInv, Programs
  <1>6. /\ tables'.Globals = tables.Globals /\ tables'.Funcs = tables.Funcs
        /\ tables'.Structs = Insert(tables.Structs, name, fields)
        /\ DOMAIN tables' = DOMAIN tables
    BY <1>1 DEF ShapeInv
  <1> HIDE DEF t
  <1>7. /\ Named(program'.types) = Named(program.types) \cup {name}
        /\ Range(program'.types) = Range(program.types) \cup {t}
        /\ NoRepeats(program'.types) <=>
             NoRepeats(program.types) /\ name \notin Named(program.types)
    BY <1>4, <1>5, OneMore DEF ShapeInv, Programs
  <1>8. ShapeInv'
    BY <1>5, <1>6 DEF ShapeInv
  <1>9. PhaseInv'
    BY <1>2, <1>5 DEF PhaseInv
  <1>10. TablesInv'
    <2>1. DOMAIN tables'.Structs = DOMAIN tables.Structs \cup {name}
      BY <1>6 DEF Insert
    <2>2. StructsInv'
      BY <1>7, <2>1 DEF TablesInv, StructsInv
    <2>3. GlobalsInv' /\ FuncsInv'
      BY <1>2, <1>5, <1>6 DEF TablesInv, GlobalsInv, FuncsInv
    <2> QED
      BY <2>2, <2>3 DEF TablesInv
  <1>11. AcceptInv'
    <2> DEFINE twice == {j \in DOMAIN fields : \E k \in 1..j - 1 : fields[k].id = fields[j].id}
    <2>1. twice = {} <=> NoRepeats(fields)
      <3>1. DOMAIN fields = 1..Len(fields)
        BY <1>3, SeqFacts
      <3> QED
        BY <1>3, <3>1 DEF NoRepeats
    <2>2. errors' = {} <=> errors = {} /\ name \notin DOMAIN tables.Structs /\ twice = {}
      <3> DEFINE E == ErrorIf(name \in DOMAIN tables.Structs, <<"struct", name>>)
                 R == {<<"field", fields[i].id>> : i \in twice}
      <3>1. errors' = errors \cup E \cup R
        BY <1>1
      <3>2. E = {} <=> name \notin DOMAIN tables.Structs
        BY DEF ErrorIf
      <3> HIDE DEF twice
      <3>3. R = {} <=> twice = {}
        OBVIOUS
      <3> HIDE DEF E, R
      <3> QED
        BY <3>1, <3>2, <3>3
    <2>3. errors = {} <=> DeclaredOnce
      BY <1>2 DEF AcceptInv
    <2>4. name \in DOMAIN tables.Structs <=> name \in Named(program.types)
      BY DEF TablesInv, StructsInv
    <2> HIDE DEF twice
    <2>5. errors' = {} <=> DeclaredOnce'
      BY <1>4, <1>5, <1>7, <2>1, <2>2, <2>3, <2>4 DEF DeclaredOnce
    <2> QED
      BY <1>2, <2>5 DEF AcceptInv, AcceptsTheLegalPrograms
  <1> QED
    BY <1>2, <1>8, <1>9, <1>10, <1>11, NothingTranslated

LEMMA VariableKeeps ==
    ASSUME IInv, DeclareVariable
    PROVE  IInv'
  <1> USE DEF IInv
  <1>1. PICK d \in Decls :
          /\ errors' = errors \cup Redeclared(tables.Globals, EmptyTable, d.id)
          /\ tables' = [tables EXCEPT
               !.Globals = Insert(@, <<d.id>>, Entry(<<d.id>>, d.ty, "GLOBAL"))]
          /\ program' = [program EXCEPT !.globals = Append(@, d), !.size = @ + 1]
    BY DEF DeclareVariable
  <1>2. phase = "build" /\ UNCHANGED <<phase, current, used, nextReg, code>>
    BY DEF DeclareVariable
  <1>3. program.globals \in Seq(Decls)
    BY DEF ShapeInv, Programs
  <1>4. /\ program'.globals = Append(program.globals, d)
        /\ program'.types = program.types /\ program'.funcs = program.funcs
        /\ program'.uses = program.uses
        /\ program' \in Programs
    <2>1. Append(program.globals, d) \in Seq(Decls) /\ program.size + 1 \in Nat
      BY <1>3, OneMore DEF ShapeInv, Programs
    <2>2. program' = [program EXCEPT !.globals = Append(@, d), !.size = @ + 1]
      BY <1>1
    <2> QED
      BY <2>1, <2>2 DEF ShapeInv, Programs
  <1> DEFINE entry == Entry(<<d.id>>, d.ty, "GLOBAL")
  <1>5. /\ tables'.Structs = tables.Structs /\ tables'.Funcs = tables.Funcs
        /\ tables'.Globals = Insert(tables.Globals, <<d.id>>, entry)
        /\ DOMAIN tables' = DOMAIN tables
    BY <1>1 DEF ShapeInv
  <1> HIDE DEF entry
  <1>6. LET g == program.globals
            t == program'.globals
        IN  /\ DOMAIN t = DOMAIN g \cup {Len(g) + 1} /\ Len(g) + 1 \notin DOMAIN g
            /\ t[Len(g) + 1] = d /\ \A i \in DOMAIN g : t[i] = g[i]
            /\ Named(t) = Named(g) \cup {d.id}
            /\ NoRepeats(t) <=> NoRepeats(g) /\ d.id \notin Named(g)
            /\ \A i \in DOMAIN t : LastOf(t, i) =>
                 \/ i = Len(g) + 1
                 \/ i \in DOMAIN g /\ LastOf(g, i) /\ g[i].id # d.id
    BY <1>3, <1>4, OneMore
  <1>7. ShapeInv'
    BY <1>4, <1>5 DEF ShapeInv
  <1>8. PhaseInv'
    BY <1>2, <1>4 DEF PhaseInv
  <1>9. GlobalsInv'
    <2>1. DOMAIN tables'.Globals = DOMAIN tables.Globals \cup {<<d.id>>}
      BY <1>5 DEF Insert
    <2>2. DOMAIN tables'.Globals = {<<x>> : x \in Named(program'.globals)}
      BY <1>6, <2>1 DEF TablesInv, GlobalsInv
    <2>3. ASSUME NEW i \in DOMAIN program'.globals, LastOf(program'.globals, i)
          PROVE  tables'.Globals[<<program'.globals[i].id>>]
                   = Entry(<<program'.globals[i].id>>, program'.globals[i].ty, "GLOBAL")
      <3>1. CASE i = Len(program.globals) + 1
        <4>1. program'.globals[i] = d
          BY <1>6, <3>1
        <4>2. tables'.Globals[<<d.id>>] = entry
          BY <1>5 DEF Insert
        <4> QED
          BY <4>1, <4>2 DEF entry
      <3>2. CASE i # Len(program.globals) + 1
        <4> DEFINE e == program.globals[i]
        <4>1. i \in DOMAIN program.globals /\ LastOf(program.globals, i) /\ e.id # d.id
          BY <1>6, <2>3, <3>2
        <4>2. program'.globals[i] = e
          BY <1>6, <4>1
        <4>3. /\ <<e.id>> \in DOMAIN tables.Globals
              /\ tables.Globals[<<e.id>>] = Entry(<<e.id>>, e.ty, "GLOBAL")
          BY <4>1 DEF TablesInv, GlobalsInv, Named
        <4> HIDE DEF e
        <4>4. <<e.id>> # <<d.id>>
          BY <4>1
        <4>5. tables'.Globals[<<e.id>>] = tables.Globals[<<e.id>>]
          BY <1>5, <4>3, <4>4 DEF Insert
        <4> QED
          BY <4>2, <4>3, <4>5
      <3> QED
        BY <3>1, <3>2
    <2> QED
      BY <2>2, <2>3 DEF GlobalsInv
  <1>10. TablesInv'
    <2>1. StructsInv' /\ FuncsInv'
      BY <1>2, <1>4, <1>5 DEF TablesInv, StructsInv, FuncsInv
    <2> QED
      BY <1>9, <2>1 DEF TablesInv
  <1>11. AcceptInv'
    <2>1. errors' = {} <=> errors = {} /\ <<d.id>> \notin DOMAIN tables.Globals
      BY <1>1 DEF Redeclared, ErrorIf, LocalContains
    <2>2. errors = {} <=> DeclaredOnce
      BY <1>2 DEF AcceptInv
    <2>3. <<d.id>> \in DOMAIN tables.Globals <=> d.id \in Named(program.globals)
      BY DEF TablesInv, GlobalsInv
    <2>4. NoRepeats(program'.globals) <=>
            NoRepeats(program.globals) /\ d.id \notin Named(program.globals)
      BY <1>6
    <2>5. errors' = {} <=> DeclaredOnce'
      BY <1>4, <2>1, <2>2, <2>3, <2>4 DEF DeclaredOnce
    <2> QED
      BY <1>2, <2>5 DEF AcceptInv, AcceptsTheLegalPrograms
  <1> QED
    BY <1>2, <1>7, <1>8, <1>10, <1>11, NothingTranslated

LEMMA FunctionKeeps ==
    ASSUME IInv, DeclareFunction
    PROVE  IInv'
  <1> USE DEF IInv
  <1>1. PICK f \in Functions, retTy \in {"none", "int"},
             params \in UpTo(Room - 1, Decls) :
        \E locals \in UpTo(Room - 1 - Len(params), Decls),
           uses \in UpTo(MaxUses - program.uses, Uses) :
          /\ LET st == WithLocals(params, locals) IN
             /\ errors' = errors \cup st.errors
                  \cup ErrorIf(f \in DOMAIN tables.Funcs, <<"function", f>>)
             /\ tables' = [tables EXCEPT
                  !.Funcs = Insert(@, f, FunctionEntry(retTy, params, st.table))]
          /\ program' = [program EXCEPT
               !.funcs = Append(@, [id |-> f, retTy |-> retTy, params |-> params,
                                    locals |-> locals, uses |-> uses]),
               !.size = @ + 1 + Len(params) + Len(locals),
               !.uses = @ + Len(uses)]
    BY DEF DeclareFunction
  <1>2. PICK locals \in UpTo(Room - 1 - Len(params), Decls),
             uses \in UpTo(MaxUses - program.uses, Uses) :
          /\ LET st == WithLocals(params, locals) IN
             /\ errors' = errors \cup st.errors
                  \cup ErrorIf(f \in DOMAIN tables.Funcs, <<"function", f>>)
             /\ tables' = [tables EXCEPT
                  !.Funcs = Insert(@, f, FunctionEntry(retTy, params, st.table))]
          /\ program' = [program EXCEPT
               !.funcs = Append(@, [id |-> f, retTy |-> retTy, params |-> params,
                                    locals |-> locals, uses |-> uses]),
               !.size = @ + 1 + Len(params) + Len(locals),
               !.uses = @ + Len(uses)]
    BY <1>1
  <1>3. phase = "build" /\ UNCHANGED <<phase, current, used, nextReg, code>>
    BY DEF DeclareFunction
  <1>4. program.size \in Nat /\ program.uses \in 0..MaxUses /\ MaxUses \in Nat
    BY BoundsAssumption DEF ShapeInv, Programs
  <1>5. /\ params \in Seq(Decls) /\ Len(params) \in Nat
        /\ locals \in Seq(Decls) /\ Len(locals) \in Nat
        /\ uses \in Seq(Uses) /\ Len(uses) \in Nat /\ Len(uses) <= MaxUses - program.uses
    <2>1. Room - 1 \in Int
      BY <1>4, BoundsAssumption DEF Room
    <2>2. params \in Seq(Decls) /\ Len(params) \in Nat
      BY <2>1, UpToFacts, SeqFacts
    <2>3. Room - 1 - Len(params) \in Int /\ MaxUses - program.uses \in Int
      BY <1>4, <2>1, <2>2
    <2> QED
      BY <2>2, <2>3, UpToFacts, SeqFacts
  <1> DEFINE g == [id |-> f, retTy |-> retTy, params |-> params,
                   locals |-> locals, uses |-> uses]
             st == WithLocals(params, locals)
             entry == FunctionEntry(retTy, params, st.table)
  <1>6. /\ g \in FunctionRecords /\ g.id = f /\ g.retTy = retTy
        /\ g.params = params /\ g.locals = locals /\ g.uses = uses
    BY <1>5 DEF FunctionRecords
  <1>7. /\ Describes(entry, g) /\ entry.Variables = st.table
    BY <1>6 DEF Describes, FunctionEntry, Named
  <1>8. /\ Built(st.table, params, locals)
        /\ st.errors = {} <=> FreshLocals(g)
    <2> HIDE DEF st
    <2>1. /\ Built(st.table, params, locals)
          /\ st.errors = {} <=> NoRepeats(locals) /\ Named(locals) \cap Named(params) = {}
      BY <1>5, LocalsFill DEF st
    <2> QED
      BY <1>6, <2>1 DEF FreshLocals
  <1> HIDE DEF g, st, entry
  <1>9. /\ program'.funcs = Append(program.funcs, g)
        /\ program'.types = program.types /\ program'.globals = program.globals
        /\ program'.uses = program.uses + Len(uses)
        /\ program' \in Programs
    <2>1. Append(program.funcs, g) \in Seq(FunctionRecords)
      BY <1>6, OneMore DEF ShapeInv, Programs
    <2>2. /\ program.size + 1 + Len(params) + Len(locals) \in Nat
          /\ program.uses + Len(uses) \in 0..MaxUses
      BY <1>4, <1>5
    <2>3. program' = [program EXCEPT
               !.funcs = Append(@, g),
               !.size = @ + 1 + Len(params) + Len(locals),
               !.uses = @ + Len(uses)]
      BY <1>2 DEF g
    <2> QED
      BY <2>1, <2>2, <2>3 DEF ShapeInv, Programs
  <1>10. /\ tables'.Structs = tables.Structs /\ tables'.Globals = tables.Globals
         /\ tables'.Funcs = Insert(tables.Funcs, f, entry)
         /\ DOMAIN tables' = DOMAIN tables
    BY <1>2 DEF ShapeInv, entry, st
  <1>11. LET s == program.funcs
             t == program'.funcs
         IN  /\ DOMAIN t = DOMAIN s \cup {Len(s) + 1} /\ Len(s) + 1 \notin DOMAIN s
             /\ Len(t) = Len(s) + 1 /\ Len(s) \in Nat
             /\ t[Len(s) + 1] = g /\ \A i \in DOMAIN s : t[i] = s[i]
             /\ Named(t) = Named(s) \cup {f}
             /\ Range(t) = Range(s) \cup {g}
             /\ NoRepeats(t) <=> NoRepeats(s) /\ f \notin Named(s)
             /\ \A i \in DOMAIN t : LastOf(t, i) =>
                  \/ i = Len(s) + 1
                  \/ i \in DOMAIN s /\ LastOf(s, i) /\ s[i].id # f
    <2>1. program.funcs \in Seq(FunctionRecords)
      BY DEF ShapeInv, Programs
    <2> QED
      BY <1>6, <1>9, <2>1, OneMore, SeqFacts
  <1>12. ShapeInv'
    <2>1. \A i \in DOMAIN program.funcs :
            Len(program.funcs[i].uses) \in Nat /\ Len(program.funcs[i].uses) <= program.uses
      BY SeqFacts DEF ShapeInv, Programs, FunctionRecords
    <2>2. \A i \in DOMAIN program'.funcs : Len(program'.funcs[i].uses) <= program'.uses
      BY <1>4, <1>5, <1>6, <1>9, <1>11, <2>1
    <2> QED
      BY <1>9, <1>10, <2>2 DEF ShapeInv
  <1>13. PhaseInv'
    BY <1>3, <1>11 DEF PhaseInv
  <1>14. FuncsInv'
    <2>1. DOMAIN tables'.Funcs = DOMAIN tables.Funcs \cup {f}
      BY <1>10 DEF Insert
    <2>2. DOMAIN tables'.Funcs = Named(program'.funcs)
      BY <1>11, <2>1 DEF TablesInv, FuncsInv
    <2>3. ASSUME NEW i \in DOMAIN program'.funcs, LastOf(program'.funcs, i)
          PROVE  LET h == program'.funcs[i]
                     e == tables'.Funcs[h.id]
                 IN  Describes(e, h) /\ Built(e.Variables, h.params, h.locals)
      <3>1. CASE i = Len(program.funcs) + 1
        <4>1. program'.funcs[i] = g
          BY <1>11, <3>1
        <4>2. tables'.Funcs[f] = entry
          BY <1>10 DEF Insert
        <4> QED
          BY <1>6, <1>7, <1>8, <4>1, <4>2
      <3>2. CASE i # Len(program.funcs) + 1
        <4> DEFINE h == program.funcs[i]
        <4>1. i \in DOMAIN program.funcs /\ LastOf(program.funcs, i) /\ h.id # f
          BY <1>11, <2>3, <3>2
        <4>2. program'.funcs[i] = h
          BY <1>11, <4>1
        <4>3. /\ h.id \in DOMAIN tables.Funcs /\ Describes(tables.Funcs[h.id], h)
              /\ Built(tables.Funcs[h.id].Variables, h.params, h.locals)
          BY <1>3, <4>1 DEF TablesInv, FuncsInv, Named
        <4>4. tables'.Funcs[h.id] = tables.Funcs[h.id]
          BY <1>10, <4>1, <4>3 DEF Insert
        <4> QED
          BY <4>2, <4>3, <4>4
      <3> QED
        BY <3>1, <3>2
    <2> QED
      BY <2>2, <2>3 DEF FuncsInv
  <1>15. TablesInv'
    <2>1. StructsInv' /\ GlobalsInv'
      BY <1>9, <1>10 DEF TablesInv, StructsInv, GlobalsInv
    <2> QED
      BY <1>14, <2>1 DEF TablesInv
  <1>16. AcceptInv'
    <2> DEFINE E == ErrorIf(f \in DOMAIN tables.Funcs, <<"function", f>>)
    <2>1. errors' = errors \cup st.errors \cup E
      BY <1>2 DEF st
    <2>2. E = {} <=> f \notin DOMAIN tables.Funcs
      BY DEF ErrorIf
    <2> HIDE DEF E
    <2>3. errors' = {} <=> errors = {} /\ st.errors = {} /\ f \notin DOMAIN tables.Funcs
      BY <2>1, <2>2
    <2>4. errors = {} <=> DeclaredOnce
      BY <1>3 DEF AcceptInv
    <2>5. DOMAIN tables.Funcs = Named(program.funcs)
      BY DEF TablesInv, FuncsInv
    <2>6. /\ NoRepeats(program'.funcs) <=>
               NoRepeats(program.funcs) /\ f \notin Named(program.funcs)
          /\ Range(program'.funcs) = Range(program.funcs) \cup {g}
      BY <1>11
    <2>7. errors' = {} <=> DeclaredOnce'
      BY <1>8, <1>9, <2>3, <2>4, <2>5, <2>6 DEF DeclaredOnce
    <2> QED
      BY <1>3, <2>7 DEF AcceptInv, AcceptsTheLegalPrograms
  <1> QED
    BY <1>3, <1>12, <1>13, <1>15, <1>16, NothingTranslated

LEMMA LegalIsDeclaredOnce ==
    ASSUME ProgramIsLegal PROVE DeclaredOnce
  BY DEF ProgramIsLegal, DeclaredOnce, FreshLocals, FunctionIsLegal

LEMMA EndKeeps ==
    ASSUME IInv, EndBuild
    PROVE  IInv'
  <1> USE DEF IInv
  <1>1. /\ phase = "build" /\ phase' = IF errors = {} THEN "check" ELSE "rejected"
        /\ UNCHANGED <<program, tables, errors, current, used, nextReg, code>>
    BY DEF EndBuild
  <1>2. ShapeInv'
    BY <1>1 DEF ShapeInv
  <1>3. PhaseInv'
    BY <1>1 DEF PhaseInv
  <1>4. TablesInv'
    BY <1>1 DEF TablesInv, GlobalsInv, StructsInv, FuncsInv
  <1>5. AcceptInv'
    <2>1. errors = {} <=> DeclaredOnce
      BY <1>1 DEF AcceptInv
    <2>2. DeclaredOnce' <=> DeclaredOnce
      BY <1>1 DEF DeclaredOnce
    <2>3. ProgramIsLegal' <=> ProgramIsLegal
      BY <1>1 DEF ProgramIsLegal, FunctionIsLegal, UseIsLegal, TypesDeclared,
             FieldTypesDeclared, Scope
    <2> QED
      BY <1>1, <2>1, <2>2, <2>3, LegalIsDeclaredOnce DEF AcceptInv, AcceptsTheLegalPrograms
  <1> QED
    BY <1>1, <1>2, <1>3, <1>4, <1>5, NothingTranslated

-----------------------------------------------------------------------------
(* Checking.                                                               *)
LEMMA AllLast ==
    ASSUME NEW D, NEW s \in Seq(D), NoRepeats(s)
    PROVE  \A i \in DOMAIN s : LastOf(s, i)
  <1>1. DOMAIN s = 1..Len(s) /\ Len(s) \in Nat
    BY SeqFacts
  <1> QED
    BY <1>1 DEF NoRepeats, LastOf

(* Of the declarations of a name one is the last.                          *)
LEMMA ALast ==
    ASSUME NEW D, NEW s \in Seq(D), NEW x \in Named(s)
    PROVE  /\ \E i \in DOMAIN s : s[i].id = x /\ LastOf(s, i)
           /\ \A i, j \in DOMAIN s :
                s[i].id = x /\ s[j].id = x /\ LastOf(s, i) /\ LastOf(s, j) => i = j
  <1>1. DOMAIN s = 1..Len(s) /\ Len(s) \in Nat
    BY SeqFacts
  <1> DEFINE T == {n \in Nat : \E i \in DOMAIN s : s[i].id = x /\ n = Len(s) - i}
  <1>2. T # {}
    <2>1. PICK i \in DOMAIN s : s[i].id = x
      BY DEF Named
    <2>2. Len(s) - i \in T
      BY <1>1, <2>1
    <2> QED
      BY <2>2
  <1>3. PICK m \in T : \A n \in T : m <= n
    <2> HIDE DEF T
    <2>1. T \subseteq Nat
      BY DEF T
    <2> QED
      BY <1>2, <2>1, LeastNat
  <1>4. PICK i \in DOMAIN s : s[i].id = x /\ m = Len(s) - i
    BY <1>3
  <1>5. ASSUME NEW j \in DOMAIN s, j > i, s[j].id = x PROVE FALSE
    <2>1. Len(s) - j \in T
      BY <1>1, <1>5
    <2>2. m <= Len(s) - j
      BY <1>3, <2>1
    <2> QED
      BY <1>1, <1>4, <1>5, <2>2
  <1>6. LastOf(s, i)
    BY <1>4, <1>5 DEF LastOf
  <1>7. ASSUME NEW j \in DOMAIN s, NEW k \in DOMAIN s, s[j].id = x, s[k].id = x,
               LastOf(s, j), LastOf(s, k)
        PROVE  j = k
    BY <1>1, <1>7 DEF LastOf
  <1> QED
    BY <1>4, <1>6, <1>7

LEMMA OneType ==
    ASSUME NEW D, NEW s \in Seq(D), NoRepeats(s), NEW i \in DOMAIN s
    PROVE  TypeOf(s, s[i].id) = s[i].ty
  <1>1. s[i] \in Range(s) /\ \A d \in Range(s) : d.id = s[i].id => d = s[i]
    BY DEF Range, NoRepeats
  <1> QED
    BY <1>1 DEF TypeOf

(* The type a parameter of the name x has: that of the last of them.       *)
LastType(params, x) ==
    params[CHOOSE i \in DOMAIN params :
             /\ params[i].id = x
             /\ \A j \in DOMAIN params : params[j].id = x => j <= i].ty

LEMMA LastTypeFacts ==
    ASSUME NEW params \in Seq(Decls), NEW x \in Named(params)
    PROVE  \E i \in DOMAIN params : /\ params[i].id = x /\ LastOf(params, i)
                                    /\ LastType(params, x) = params[i].ty
  <1> DEFINE P(i) == /\ params[i].id = x
                     /\ \A j \in DOMAIN params : params[j].id = x => j <= i
             c == CHOOSE i \in DOMAIN params : P(i)
  <1>1. DOMAIN params = 1..Len(params) /\ Len(params) \in Nat
    BY SeqFacts
  <1>2. \A i \in DOMAIN params : P(i) <=> params[i].id = x /\ LastOf(params, i)
    BY <1>1 DEF LastOf
  <1>3. \E i \in DOMAIN params : P(i)
    BY <1>2, ALast
  <1> HIDE DEF P
  <1>4. c \in DOMAIN params /\ P(c)
    BY <1>3
  <1>5. LastType(params, x) = params[c].ty
    BY DEF LastType, P
  <1> QED
    BY <1>2, <1>4, <1>5

(* Looking up a name finds its innermost declaration.                      *)
Lookup(f, x) == TableContains(tables.Funcs[f.id].Variables, tables.Globals, <<x>>)

LEMMA FunctionFacts ==
    ASSUME ShapeInv, NEW k \in DOMAIN program.funcs
    PROVE  LET f == program.funcs[k]
           IN  /\ f \in FunctionRecords /\ f \in Range(program.funcs)
               /\ f.id \in Functions /\ f.id \in Named(program.funcs)
               /\ f.params \in Seq(Decls) /\ f.locals \in Seq(Decls)
               /\ f.uses \in Seq(Uses)
               /\ \A i \in DOMAIN f.uses : f.uses[i] \in Uses
  <1>1. program.funcs[k] \in FunctionRecords
    BY SeqFacts DEF ShapeInv, Programs
  <1>2. program.funcs[k].uses \in Seq(Uses)
    BY <1>1 DEF FunctionRecords
  <1> QED
    BY <1>1, <1>2, SeqFacts DEF FunctionRecords, Named, Range

LEMMA LookupFinds ==
    ASSUME IInv, phase = "check", NEW k \in DOMAIN program.funcs, NEW x
    PROVE  LET f == program.funcs[k]
               found == Lookup(f, x)
           IN  /\ Scope(f, x) \in {"LOCAL", "PARAM", "GLOBAL", "none"}
               /\ Scope(f, x) = "LOCAL" => found = Entry(<<x>>, TypeOf(f.locals, x), "LOCAL")
               /\ Scope(f, x) = "PARAM" => found = Entry(<<x>>, LastType(f.params, x), "PARAM")
               /\ Scope(f, x) = "GLOBAL" =>
                    found = Entry(<<x>>, TypeOf(program.globals, x), "GLOBAL")
               /\ Scope(f, x) = "none" => found = Missing
  <1> DEFINE f == program.funcs[k]
             t == tables.Funcs[f.id].Variables
             name == <<x>>
  <1>1. DeclaredOnce /\ ShapeInv /\ GlobalsInv /\ FuncsInv
    BY DEF IInv, AcceptInv, TablesInv
  <1>2. f \in Range(program.funcs) /\ f.params \in Seq(Decls) /\ f.locals \in Seq(Decls)
    BY <1>1, FunctionFacts
  <1>3. FreshLocals(f)
    BY <1>1, <1>2 DEF DeclaredOnce
  <1>4. Built(t, f.params, f.locals)
    <2>1. program.funcs \in Seq(FunctionRecords) /\ NoRepeats(program.funcs)
      BY <1>1 DEF ShapeInv, Programs, DeclaredOnce
    <2>2. LastOf(program.funcs, k)
      BY <2>1, AllLast
    <2> QED
      BY <1>1, <2>2 DEF FuncsInv
  <1>5. program.globals \in Seq(Decls) /\ NoRepeats(program.globals)
    BY <1>1 DEF ShapeInv, Programs, DeclaredOnce
  <1> HIDE DEF f, t
  <1>6. name \in DOMAIN t <=> x \in Named(f.params) \/ x \in Named(f.locals)
    BY <1>4 DEF Built
  <1>7. name \in DOMAIN tables.Globals <=> x \in Named(program.globals)
    BY <1>1 DEF GlobalsInv
  <1>8. ASSUME x \in Named(f.locals)
        PROVE  t[name] = Entry(name, TypeOf(f.locals, x), "LOCAL")
    <2>1. PICK i \in DOMAIN f.locals : x = f.locals[i].id
      BY <1>8 DEF Named
    <2>2. LastOf(f.locals, i) /\ TypeOf(f.locals, x) = f.locals[i].ty
      BY <1>2, <1>3, <2>1, AllLast, OneType DEF FreshLocals
    <2> QED
      BY <1>4, <2>1, <2>2 DEF Built
  <1>9. ASSUME x \in Named(f.params), x \notin Named(f.locals)
        PROVE  t[name] = Entry(name, LastType(f.params, x), "PARAM")
    <2>1. PICK i \in DOMAIN f.params : /\ f.params[i].id = x /\ LastOf(f.params, i)
                                       /\ LastType(f.params, x) = f.params[i].ty
      BY <1>2, <1>9, LastTypeFacts
    <2> QED
      BY <1>4, <1>9, <2>1 DEF Built
  <1>10. ASSUME x \in Named(program.globals)
         PROVE  tables.Globals[name] = Entry(name, TypeOf(program.globals, x), "GLOBAL")
    <2>1. PICK i \in DOMAIN program.globals : x = program.globals[i].id
      BY <1>10 DEF Named
    <2>2. LastOf(program.globals, i) /\ TypeOf(program.globals, x) = program.globals[i].ty
      BY <1>5, <2>1, AllLast, OneType
    <2> QED
      BY <1>1, <2>1, <2>2 DEF GlobalsInv
  <1>11. Lookup(f, x) = TableContains(t, tables.Globals, name)
    BY DEF Lookup, t
  <1> HIDE DEF name
  <1>12. CASE x \in Named(f.locals)
    <2>1. Scope(f, x) = "LOCAL"
      BY <1>12 DEF Scope
    <2> QED
      BY <1>6, <1>8, <1>11, <1>12, <2>1 DEF TableContains, f, name
  <1>13. CASE x \in Named(f.params) /\ x \notin Named(f.locals)
    <2>1. Scope(f, x) = "PARAM"
      BY <1>13 DEF Scope
    <2> QED
      BY <1>6, <1>9, <1>11, <1>13, <2>1 DEF TableContains, f, name
  <1>14. CASE x \in Named(program.globals) /\ x \notin Named(f.params) /\ x \notin Named(f.locals)
    <2>1. Scope(f, x) = "GLOBAL"
      BY <1>14 DEF Scope
    <2> QED
      BY <1>6, <1>7, <1>10, <1>11, <1>14, <2>1 DEF TableContains, f, name
  <1>15. CASE x \notin Named(program.globals) /\ x \notin Named(f.params) /\ x \notin Named(f.locals)
    <2>1. Scope(f, x) = "none"
      BY <1>15 DEF Scope
    <2> QED
      BY <1>6, <1>7, <1>11, <1>15, <2>1 DEF TableContains, f, name
  <1> QED
    BY <1>12, <1>13, <1>14, <1>15

LEMMA UsesChecked ==
    ASSUME IInv, phase = "check", NEW k \in DOMAIN program.funcs, NEW use \in Uses
    PROVE  UseErrors(program.funcs[k], use) = {} <=> UseIsLegal(program.funcs[k], use)
  <1> DEFINE f == program.funcs[k]
             scope == Scope(f, use.id)
             found == Lookup(f, use.id)
             name == <<use.id>>
  <1>1. /\ scope \in {"LOCAL", "PARAM", "GLOBAL", "none"}
        /\ scope = "LOCAL" => found = Entry(name, TypeOf(f.locals, use.id), "LOCAL")
        /\ scope = "PARAM" => found = Entry(name, LastType(f.params, use.id), "PARAM")
        /\ scope = "GLOBAL" => found = Entry(name, TypeOf(program.globals, use.id), "GLOBAL")
        /\ scope = "none" => found = Missing
    BY LookupFinds
  <1>2. UseErrors(f, use) = {} <=>
          IF use.is = "scan" THEN found.ty = "int" ELSE found # Missing
    BY DEF UseErrors, Lookup, ErrorIf
  <1>3. UseIsLegal(f, use) <=>
          /\ scope # "none"
          /\ use.is = "scan" /\ scope = "LOCAL" => TypeOf(f.locals, use.id) = "int"
          /\ use.is = "scan" /\ scope = "GLOBAL" => TypeOf(program.globals, use.id) = "int"
          /\ use.is = "scan" /\ scope = "PARAM" => LastType(f.params, use.id) = "int"
    BY DEF UseIsLegal, LastType
  <1>4. name # <<>>
    OBVIOUS
  <1> HIDE DEF f, scope, found, name
  <1>5. CASE scope = "none"
    <2>1. found.ty = "unknown"
      BY <1>1, <1>5 DEF Missing, Entry
    <2> QED
      BY <1>1, <1>2, <1>3, <1>5, <2>1 DEF f
  <1>6. CASE scope # "none"
    <2>1. PICK ty, s : /\ found = Entry(name, ty, s)
                       /\ scope = "LOCAL" => ty = TypeOf(f.locals, use.id)
                       /\ scope = "GLOBAL" => ty = TypeOf(program.globals, use.id)
                       /\ scope = "PARAM" => ty = LastType(f.params, use.id)
      <3>1. CASE scope = "LOCAL"
        BY <1>1, <3>1
      <3>2. CASE scope = "PARAM"
        BY <1>1, <3>2
      <3>3. CASE scope = "GLOBAL"
        BY <1>1, <3>3
      <3> QED
        BY <1>1, <1>6, <3>1, <3>2, <3>3
    <2>2. found.ty = ty /\ found.name = name
      BY <2>1 DEF Entry
    <2>3. Missing.name = <<>>
      BY DEF Missing, Entry
    <2>4. found # Missing
      BY <1>4, <2>2, <2>3
    <2> QED
      BY <1>1, <1>2, <1>3, <1>6, <2>1, <2>2, <2>4 DEF f
  <1> QED
    BY <1>5, <1>6

LEMMA TypesChecked ==
    ASSUME IInv, NEW decls
    PROVE  UnknownTypes(decls) = {} <=> TypesDeclared(decls)
  <1> DEFINE wrong == {e \in Range(decls) : ~KnownType(e.ty)}
  <1>1. DOMAIN tables.Structs = Named(program.types)
    BY DEF IInv, TablesInv, StructsInv
  <1>2. wrong = {} <=> TypesDeclared(decls)
    BY <1>1 DEF KnownType, TypesDeclared
  <1>3. UnknownTypes(decls) = {<<"type", d.ty>> : d \in wrong}
    BY DEF UnknownTypes
  <1> HIDE DEF wrong
  <1> QED
    BY <1>2, <1>3

LEMMA FieldTypesChecked ==
    ASSUME IInv, NEW fields
    PROVE  UnknownFieldTypes(fields) = {} <=> FieldTypesDeclared(fields)
  <1> DEFINE wrong == {e \in Range(fields) : ~KnownFieldType(e.ty)}
  <1>1. DOMAIN tables.Structs = Named(program.types)
    BY DEF IInv, TablesInv, StructsInv
  <1>2. wrong = {} <=> FieldTypesDeclared(fields)
    BY <1>1 DEF KnownFieldType, KnownType, FieldTypesDeclared
  <1>3. UnknownFieldTypes(fields) = {<<"type", d.ty>> : d \in wrong}
    BY DEF UnknownFieldTypes
  <1> HIDE DEF wrong
  <1> QED
    BY <1>2, <1>3

LEMMA MainChecked ==
    ASSUME IInv, phase = "check"
    PROVE  MainErrors = {} <=>
             \E f \in Range(program.funcs) :
               f.id = "main" /\ f.params = <<>> /\ f.retTy = "none"
  <1>1. DeclaredOnce /\ ShapeInv /\ FuncsInv
    BY DEF IInv, AcceptInv, TablesInv
  <1>2. program.funcs \in Seq(FunctionRecords) /\ NoRepeats(program.funcs)
    BY <1>1 DEF ShapeInv, Programs, DeclaredOnce
  <1>3. ASSUME NEW k \in DOMAIN program.funcs
        PROVE  LET f == program.funcs[k]
                   entry == tables.Funcs[f.id]
               IN  entry.RetTy = f.retTy /\ (entry.Parameters = {} <=> f.params = <<>>)
    <2> DEFINE f == program.funcs[k]
    <2>1. Describes(tables.Funcs[f.id], f)
      BY <1>1, <1>2, AllLast DEF FuncsInv
    <2>2. f.params \in Seq(Decls)
      BY <1>1, FunctionFacts
    <2>3. f.params = <<>> <=> Named(f.params) = {}
      <3>1. f.params = <<>> <=> DOMAIN f.params = {}
        BY <2>2, SeqFacts
      <3>2. Named(f.params) = {} <=> DOMAIN f.params = {}
        BY DEF Named
      <3> QED
        BY <3>1, <3>2
    <2> QED
      BY <2>1, <2>3 DEF Describes
  <1>4. MainErrors = {} <=>
          /\ "main" \in DOMAIN tables.Funcs
          /\ tables.Funcs["main"].Parameters = {} /\ tables.Funcs["main"].RetTy = "none"
    BY DEF MainErrors, ErrorIf
  <1>5. "main" \in DOMAIN tables.Funcs <=>
          \E k \in DOMAIN program.funcs : program.funcs[k].id = "main"
    BY <1>1 DEF FuncsInv, Named
  <1>6. ASSUME MainErrors = {}
        PROVE  \E f \in Range(program.funcs) :
                 f.id = "main" /\ f.params = <<>> /\ f.retTy = "none"
    <2>1. PICK k \in DOMAIN program.funcs : program.funcs[k].id = "main"
      BY <1>4, <1>5, <1>6
    <2> QED
      BY <1>3, <1>4, <1>6, <2>1 DEF Range
  <1>7. ASSUME NEW f \in Range(program.funcs),
               f.id = "main", f.params = <<>>, f.retTy = "none"
        PROVE  MainErrors = {}
    <2>1. PICK k \in DOMAIN program.funcs : f = program.funcs[k]
      BY DEF Range
    <2> QED
      BY <1>3, <1>4, <1>5, <1>7, <2>1
  <1> QED
    BY <1>6, <1>7

LEMMA CheckDecides ==
    ASSUME IInv, TypeCheck
    PROVE  errors' = {} <=> ProgramIsLegal
  <1>1. phase = "check"
    BY DEF TypeCheck
  <1>2. DeclaredOnce /\ ShapeInv
    BY <1>1 DEF IInv, AcceptInv
  <1> DEFINE fields == UNION {UnknownFieldTypes(program.types[i].fields) : i \in DOMAIN program.types}
             globals == UnknownTypes(program.globals)
             funcs == UNION {FunctionErrors(program.funcs[i]) : i \in DOMAIN program.funcs}
  <1>3. errors' = MainErrors \cup fields \cup globals \cup funcs
    BY DEF TypeCheck
  <1>4. fields = {} <=> \A t \in Range(program.types) : FieldTypesDeclared(t.fields)
    <2>1. \A i \in DOMAIN program.types :
            UnknownFieldTypes(program.types[i].fields) = {}
              <=> FieldTypesDeclared(program.types[i].fields)
      BY FieldTypesChecked
    <2> QED
      BY <2>1 DEF Range
  <1>5. globals = {} <=> TypesDeclared(program.globals)
    BY TypesChecked
  <1>6. ASSUME NEW k \in DOMAIN program.funcs
        PROVE  LET f == program.funcs[k]
               IN  FunctionErrors(f) = {} <=>
                     TypesDeclared(f.locals) /\ \A i \in DOMAIN f.uses : UseIsLegal(f, f.uses[i])
    <2> DEFINE f == program.funcs[k]
    <2>1. \A i \in DOMAIN f.uses : f.uses[i] \in Uses
      BY <1>2, FunctionFacts
    <2>2. \A i \in DOMAIN f.uses : UseErrors(f, f.uses[i]) = {} <=> UseIsLegal(f, f.uses[i])
      BY <1>1, <2>1, UsesChecked
    <2>3. UnknownTypes(f.locals) = {} <=> TypesDeclared(f.locals)
      BY TypesChecked
    <2>4. FunctionErrors(f) = UnknownTypes(f.locals)
            \cup UNION {UseErrors(f, f.uses[i]) : i \in DOMAIN f.uses}
      BY DEF FunctionErrors
    <2> HIDE DEF f
    <2>5. FunctionErrors(f) = {} <=>
            TypesDeclared(f.locals) /\ \A i \in DOMAIN f.uses : UseIsLegal(f, f.uses[i])
      BY <2>2, <2>3, <2>4
    <2> QED
      BY <2>5 DEF f
  <1>7. funcs = {} <=> \A k \in DOMAIN program.funcs : FunctionErrors(program.funcs[k]) = {}
    OBVIOUS
  <1>8. funcs = {} <=> \A f \in Range(program.funcs) :
                         TypesDeclared(f.locals) /\ \A i \in DOMAIN f.uses : UseIsLegal(f, f.uses[i])
    <2> HIDE DEF funcs
    <2> QED
      BY <1>6, <1>7 DEF Range
  <1> HIDE DEF fields, globals, funcs
  <1>9. errors' = {} <=>
          MainErrors = {} /\ fields = {} /\ globals = {} /\ funcs = {}
    BY <1>3
  <1>10. ProgramIsLegal <=>
           /\ DeclaredOnce
           /\ \A t \in Range(program.types) : FieldTypesDeclared(t.fields)
           /\ TypesDeclared(program.globals)
           /\ \A f \in Range(program.funcs) :
                TypesDeclared(f.locals) /\ \A i \in DOMAIN f.uses : UseIsLegal(f, f.uses[i])
           /\ \E f \in Range(program.funcs) :
                f.id = "main" /\ f.params = <<>> /\ f.retTy = "none"
    BY DEF ProgramIsLegal, DeclaredOnce, FunctionIsLegal, FreshLocals
  <1> QED
    BY <1>1, <1>2, <1>4, <1>5, <1>8, <1>9, <1>10, MainChecked

LEMMA CheckKeeps ==
    ASSUME IInv, TypeCheck
    PROVE  IInv'
  <1>1. /\ phase = "check"
        /\ phase' = IF errors' = {} THEN "translate" ELSE "rejected"
        /\ UNCHANGED <<program, tables, current, used, nextReg, code>>
    BY DEF TypeCheck
  <1>2. ShapeInv /\ PhaseInv /\ TablesInv /\ DeclaredOnce
    BY <1>1 DEF IInv, AcceptInv
  <1>3. ShapeInv'
    BY <1>1, <1>2 DEF ShapeInv
  <1>4. PhaseInv'
    BY <1>1, <1>2 DEF PhaseInv
  <1>5. TablesInv'
    BY <1>1, <1>2 DEF TablesInv, GlobalsInv, StructsInv, FuncsInv
  <1>6. AcceptInv'
    <2>1. errors' = {} <=> ProgramIsLegal
      BY CheckDecides
    <2>2. ProgramIsLegal' <=> ProgramIsLegal
      BY <1>1 DEF ProgramIsLegal, FunctionIsLegal, UseIsLegal, TypesDeclared,
             FieldTypesDeclared, Scope
    <2> QED
      BY <1>1, <2>1, <2>2 DEF AcceptInv, AcceptsTheLegalPrograms
  <1>7. ASSUME NEW k \in DOMAIN program.funcs
        PROVE  LET f == program.funcs[k]
               IN  Finds(tables.Funcs[f.id].Variables, f)
    <2> DEFINE f == program.funcs[k]
               t == tables.Funcs[f.id].Variables
    <2>1. program.funcs \in Seq(FunctionRecords) /\ NoRepeats(program.funcs)
      BY <1>2 DEF ShapeInv, Programs, DeclaredOnce
    <2>2. LastOf(program.funcs, k)
      BY <2>1, AllLast
    <2>3. Built(t, f.params, f.locals)
      BY <1>1, <1>2, <2>2 DEF TablesInv, FuncsInv
    <2>4. f.locals \in Seq(Decls) /\ NoRepeats(f.locals)
      BY <1>2, FunctionFacts DEF DeclaredOnce, FreshLocals
    <2> HIDE DEF f, t
    <2>5. ASSUME NEW x \in Named(f.locals)
          PROVE  <<x>> \in DOMAIN t /\ t[<<x>>].name = <<x>> /\ t[<<x>>].scope = "LOCAL"
      <3>1. PICK i \in DOMAIN f.locals : x = f.locals[i].id
        BY DEF Named
      <3>2. LastOf(f.locals, i)
        BY <2>4, AllLast
      <3> DEFINE name == <<x>>
      <3>3. name \in DOMAIN t /\ t[name] = Entry(name, f.locals[i].ty, "LOCAL")
        BY <2>3, <3>1, <3>2 DEF Built
      <3> HIDE DEF name
      <3>4. t[name].name = name /\ t[name].scope = "LOCAL"
        BY <3>3 DEF Entry
      <3> QED
        BY <3>3, <3>4 DEF name
    <2>6. \A x \in Ids \ Own(f) : <<x>> \notin DOMAIN t
      BY <2>3 DEF Built, Own
    <2>7. Finds(t, f)
      BY <2>5, <2>6 DEF Finds
    <2> QED
      BY <2>7 DEF f, t
  <1>8. LookupInv'
    <2>1. current' = 0 /\ \A k \in DOMAIN program.funcs : ~ k <= 0
      BY <1>1, <1>2, SeqFacts DEF PhaseInv, ShapeInv, Programs
    <2> QED
      BY <1>1, <1>7, <2>1 DEF LookupInv
  <1>9. CodeInv'
    <2>1. code' = <<>>
      BY <1>1, <1>2 DEF PhaseInv
    <2>2. DOMAIN code' = {} /\ code' \in Seq({})
      BY <2>1
    <2> QED
      BY <2>2 DEF CodeInv, IsSequence
  <1> QED
    BY <1>3, <1>4, <1>5, <1>6, <1>8, <1>9 DEF IInv

-----------------------------------------------------------------------------
(* Translating: a step changes the variables of one function and adds code. *)
Extends(c, d) == DOMAIN c \subseteq DOMAIN d /\ \A i \in DOMAIN c : d[i] = c[i]

LEMMA Appended ==
    ASSUME NEW c, IsSequence(c), NEW a
    PROVE  LET d == Append(c, a)
           IN  /\ IsSequence(d) /\ Extends(c, d)
               /\ DOMAIN d = DOMAIN c \cup {Len(c) + 1} /\ d[Len(c) + 1] = a
               /\ DOMAIN c = 1..Len(c) /\ Len(c) \in Nat
  <1>1. PICK S : c \in Seq(S)
    BY DEF IsSequence
  <1> DEFINE D == S \cup {a}
             d == Append(c, a)
  <1>2. c \in Seq(D) /\ a \in D
    BY <1>1
  <1> HIDE DEF D
  <1>3. d \in Seq(D) /\ Len(d) = Len(c) + 1 /\ d[Len(c) + 1] = a
        /\ \A i \in 1..Len(c) : d[i] = c[i]
    BY <1>2
  <1>4. DOMAIN c = 1..Len(c) /\ Len(c) \in Nat /\ DOMAIN d = 1..Len(d)
    BY <1>2, <1>3
  <1> HIDE DEF d
  <1>5. DOMAIN d = DOMAIN c \cup {Len(c) + 1}
    BY <1>3, <1>4
  <1>6. IsSequence(d) /\ Extends(c, d)
    BY <1>3, <1>4, <1>5 DEF IsSequence, Extends
  <1> QED
    BY <1>3, <1>4, <1>5, <1>6 DEF d

LEMMA Joined ==
    ASSUME NEW c, IsSequence(c), NEW b, IsSequence(b)
    PROVE  LET d == c \o b
           IN  /\ IsSequence(d) /\ Extends(c, d)
               /\ DOMAIN c = 1..Len(c) /\ Len(c) \in Nat
               /\ \A j \in DOMAIN b : Len(c) + j \in DOMAIN d /\ d[Len(c) + j] = b[j]
               /\ \A i \in DOMAIN d : i \in DOMAIN c \/ \E j \in DOMAIN b : i = Len(c) + j
  <1>1. PICK S : c \in Seq(S)
    BY DEF IsSequence
  <1>2. PICK R : b \in Seq(R)
    BY DEF IsSequence
  <1> DEFINE D == S \cup R
             d == c \o b
  <1>3. c \in Seq(D) /\ b \in Seq(D)
    BY <1>1, <1>2
  <1> HIDE DEF D
  <1>4. /\ d \in Seq(D) /\ Len(d) = Len(c) + Len(b)
        /\ \A i \in 1..Len(d) : d[i] = IF i <= Len(c) THEN c[i] ELSE b[i - Len(c)]
    BY <1>3
  <1>5. /\ DOMAIN c = 1..Len(c) /\ Len(c) \in Nat /\ DOMAIN d = 1..Len(d)
        /\ DOMAIN b = 1..Len(b) /\ Len(b) \in Nat
    BY <1>3, <1>4
  <1> HIDE DEF d
  <1>6. IsSequence(d) /\ Extends(c, d)
    BY <1>4, <1>5 DEF IsSequence, Extends
  <1>7. ASSUME NEW j \in DOMAIN b PROVE Len(c) + j \in DOMAIN d /\ d[Len(c) + j] = b[j]
    <2>1. Len(c) + j \in 1..Len(d) /\ ~ Len(c) + j <= Len(c) /\ (Len(c) + j) - Len(c) = j
      BY <1>4, <1>5
    <2> QED
      BY <1>4, <1>5, <2>1
  <1>8. ASSUME NEW i \in DOMAIN d, i \notin DOMAIN c PROVE \E j \in DOMAIN b : i = Len(c) + j
    <2>1. i - Len(c) \in DOMAIN b /\ i = Len(c) + (i - Len(c))
      BY <1>4, <1>5, <1>8
    <2> QED
      BY <2>1
  <1> QED
    BY <1>5, <1>6, <1>7, <1>8 DEF d

LEMMA ExtendsKeeps ==
    ASSUME NEW c, NEW d, IsSequence(c), Extends(c, d)
    PROVE  /\ \A f : Allocated(c, f) => Allocated(d, f)
           /\ \A i \in DOMAIN c : c[i].op = "access" /\ RightAccess(c, i) =>
                d[i] = c[i] /\ RightAccess(d, i)
  <1>1. DOMAIN c = 1..Len(c) /\ Len(c) \in Nat
    BY DEF IsSequence
  <1>2. ASSUME NEW f, Allocated(c, f) PROVE Allocated(d, f)
    BY <1>2 DEF Allocated, Extends
  <1>3. ASSUME NEW i \in DOMAIN c, RightAccess(c, i) PROVE d[i] = c[i] /\ RightAccess(d, i)
    <2>1. PICK k \in DOMAIN program.funcs, x \in Ids :
             LET f == program.funcs[k]
             IN  /\ Scope(f, x) # "none"
                 /\ c[i] = Reaching(f, x)
                 /\ x \in Own(f) => \E j \in 1..(i - 1) : c[j] = Allocating(f, x)
      BY <1>3 DEF RightAccess
    <2>2. d[i] = c[i] /\ \A j \in 1..(i - 1) : d[j] = c[j]
      BY <1>1 DEF Extends
    <2> QED
      BY <2>1, <2>2 DEF RightAccess
  <1> QED
    BY <1>2, <1>3

(* What is known while function k is translated.                           *)
LEMMA TranslateFacts ==
    ASSUME IInv, phase = "translate"
    PROVE  /\ ProgramIsLegal /\ DeclaredOnce
           /\ program.funcs \in Seq(FunctionRecords)
           /\ \A k, j \in DOMAIN program.funcs :
                program.funcs[k].id = program.funcs[j].id => k = j
           /\ \A k \in DOMAIN program.funcs :
                /\ FreshLocals(program.funcs[k])
                /\ program.funcs[k].id \in DOMAIN tables.Funcs
                /\ Describes(tables.Funcs[program.funcs[k].id], program.funcs[k])
           /\ \A x \in Named(program.globals) :
                /\ <<x>> \in DOMAIN tables.Globals
                /\ tables.Globals[<<x>>].name = <<x>>
                /\ tables.Globals[<<x>>].scope = "GLOBAL"
  <1>1. ProgramIsLegal /\ DeclaredOnce
    BY LegalIsDeclaredOnce DEF IInv, AcceptInv, AcceptsTheLegalPrograms
  <1>2. program.funcs \in Seq(FunctionRecords) /\ program.globals \in Seq(Decls)
    BY DEF IInv, ShapeInv, Programs
  <1>3. NoRepeats(program.funcs) /\ NoRepeats(program.globals)
    BY <1>1 DEF DeclaredOnce
  <1>4. ASSUME NEW k \in DOMAIN program.funcs
        PROVE  /\ FreshLocals(program.funcs[k])
               /\ program.funcs[k].id \in DOMAIN tables.Funcs
               /\ Describes(tables.Funcs[program.funcs[k].id], program.funcs[k])
    <2>1. LastOf(program.funcs, k)
      BY <1>2, <1>3, AllLast
    <2> QED
      BY <1>1, <2>1 DEF DeclaredOnce, Range, IInv, TablesInv, FuncsInv, Named
  <1>5. ASSUME NEW x \in Named(program.globals)
        PROVE  /\ <<x>> \in DOMAIN tables.Globals
               /\ tables.Globals[<<x>>].name = <<x>>
               /\ tables.Globals[<<x>>].scope = "GLOBAL"
    <2>1. PICK i \in DOMAIN program.globals : x = program.globals[i].id
      BY DEF Named
    <2>2. LastOf(program.globals, i)
      BY <1>2, <1>3, AllLast
    <2> DEFINE name == <<x>>
    <2>3. /\ name \in DOMAIN tables.Globals
          /\ tables.Globals[name] = Entry(name, program.globals[i].ty, "GLOBAL")
      BY <2>1, <2>2 DEF IInv, TablesInv, GlobalsInv
    <2> HIDE DEF name
    <2>4. tables.Globals[name].name = name /\ tables.Globals[name].scope = "GLOBAL"
      BY <2>3 DEF Entry
    <2> QED
      BY <2>3, <2>4 DEF name
  <1> QED
    BY <1>1, <1>2, <1>3, <1>4, <1>5 DEF NoRepeats

LEMMA VariablesChange ==
    ASSUME IInv, phase = "translate", UNCHANGED <<program, errors, phase>>,
           NEW k \in DOMAIN program.funcs, NEW t,
           tables' = [tables EXCEPT !.Funcs[program.funcs[k].id].Variables = t]
    PROVE  /\ ShapeInv' /\ TablesInv' /\ AcceptInv'
           /\ tables'.Funcs[program.funcs[k].id].Variables = t
           /\ \A j \in DOMAIN program.funcs : j # k =>
                tables'.Funcs[program.funcs[j].id] = tables.Funcs[program.funcs[j].id]
  <1> DEFINE id == program.funcs[k].id
  <1>1. DOMAIN tables = {"Globals", "Structs", "Funcs"}
    BY DEF IInv, ShapeInv
  <1>2. id \in DOMAIN tables.Funcs
        /\ DOMAIN tables.Funcs[id] = {"RetTy", "Parameters", "Variables"}
    BY TranslateFacts DEF Describes
  <1> HIDE DEF id
  <1>3. tables' = [tables EXCEPT !.Funcs[id].Variables = t]
    BY DEF id
  <1>4. /\ DOMAIN tables' = DOMAIN tables
        /\ tables'.Globals = tables.Globals /\ tables'.Structs = tables.Structs
        /\ tables'.Funcs = [tables.Funcs EXCEPT ![id].Variables = t]
    BY <1>1, <1>3
  <1>5. /\ DOMAIN tables'.Funcs = DOMAIN tables.Funcs
        /\ tables'.Funcs[id] = [tables.Funcs[id] EXCEPT !.Variables = t]
        /\ \A g \in DOMAIN tables.Funcs : g # id => tables'.Funcs[g] = tables.Funcs[g]
    BY <1>2, <1>4
  <1>6. /\ DOMAIN tables'.Funcs[id] = DOMAIN tables.Funcs[id]
        /\ tables'.Funcs[id].Variables = t
        /\ tables'.Funcs[id].RetTy = tables.Funcs[id].RetTy
        /\ tables'.Funcs[id].Parameters = tables.Funcs[id].Parameters
    BY <1>2, <1>5
  <1>7. \A j \in DOMAIN program.funcs : j # k =>
          tables'.Funcs[program.funcs[j].id] = tables.Funcs[program.funcs[j].id]
    BY <1>5, TranslateFacts DEF id
  <1>8. ShapeInv'
    BY <1>4 DEF IInv, ShapeInv
  <1>9. TablesInv'
    <2>1. GlobalsInv' /\ StructsInv'
      BY <1>4 DEF IInv, TablesInv, GlobalsInv, StructsInv
    <2>2. \A j \in DOMAIN program.funcs :
            Describes(tables'.Funcs[program.funcs[j].id], program.funcs[j])
      <3> TAKE j \in DOMAIN program.funcs
      <3>1. CASE j = k
        BY <1>2, <1>6, <3>1, TranslateFacts DEF Describes, id
      <3>2. CASE j # k
        BY <1>7, <3>2, TranslateFacts
      <3> QED
        BY <3>1, <3>2
    <2>3. DOMAIN tables'.Funcs = Named(program'.funcs)
      BY <1>5 DEF IInv, TablesInv, FuncsInv
    <2>4. FuncsInv'
      BY <2>2, <2>3 DEF FuncsInv
    <2> QED
      BY <2>1, <2>4 DEF TablesInv
  <1>10. AcceptInv'
    <2>1. ProgramIsLegal' <=> ProgramIsLegal
      BY DEF ProgramIsLegal, FunctionIsLegal, UseIsLegal, TypesDeclared,
             FieldTypesDeclared, Scope
    <2> QED
      BY <2>1, TranslateFacts DEF AcceptInv, AcceptsTheLegalPrograms
  <1> QED
    BY <1>6, <1>7, <1>8, <1>9, <1>10 DEF id

(* Code that is added keeps what was said of the rest.                     *)
LEMMA CodeGrows ==
    ASSUME CodeInv, program' = program, IsSequence(code'), Extends(code, code'),
           \A i \in DOMAIN code' \ DOMAIN code :
             code'[i].op = "access" => RightAccess(code', i)
    PROVE  CodeInv'
  <1>1. IsSequence(code)
    BY DEF CodeInv
  <1>2. ASSUME NEW i \in DOMAIN code', code'[i].op = "access"
        PROVE  RightAccess(code', i)
    <2>1. CASE i \in DOMAIN code
      <3>1. code'[i] = code[i]
        BY <2>1 DEF Extends
      <3>2. RightAccess(code, i)
        BY <1>2, <2>1, <3>1 DEF CodeInv
      <3> QED
        BY <1>1, <1>2, <2>1, <3>1, <3>2, ExtendsKeeps
    <2> QED
      BY <1>2, <2>1
  <1>3. \A i \in DOMAIN code' : RightAccess(code, i)' <=> RightAccess(code', i)
    BY DEF RightAccess, Scope
  <1> QED
    BY <1>2, <1>3 DEF CodeInv

(* Names that no variable has do not change what the lookups find.         *)
LEMMA StillFinds ==
    ASSUME NEW t, NEW u, NEW f \in FunctionRecords, Finds(t, f),
           \A x \in Ids : /\ <<x>> \in DOMAIN u <=> <<x>> \in DOMAIN t
                          /\ <<x>> \in DOMAIN t => u[<<x>>] = t[<<x>>]
    PROVE  Finds(u, f)
  <1>1. Named(f.locals) \subseteq Ids
    <2>1. \A i \in DOMAIN f.locals : f.locals[i] \in Decls
      BY SeqFacts DEF FunctionRecords
    <2>2. \A d \in Decls : d.id \in Ids
      BY DEF Decls
    <2> QED
      BY <2>1, <2>2 DEF Named
  <1>2. ASSUME NEW x \in Named(f.locals)
        PROVE  <<x>> \in DOMAIN u /\ u[<<x>>].name = <<x>> /\ u[<<x>>].scope = "LOCAL"
    <2>1. x \in Ids
      BY <1>1
    <2>2. <<x>> \in DOMAIN t /\ t[<<x>>].name = <<x>> /\ t[<<x>>].scope = "LOCAL"
      BY DEF Finds
    <2> QED
      BY <2>1, <2>2
  <1>3. ASSUME NEW x \in Ids \ Own(f) PROVE <<x>> \notin DOMAIN u
    BY DEF Finds
  <1> QED
    BY <1>2, <1>3 DEF Finds

LEMMA PlaceOfParam ==
    ASSUME NEW f, NEW x \in Named(f.params), NEW entry,
           entry.name = Slot(x), entry.scope = "PARAM"
    PROVE  Storage(entry) = Place(f, x)
  BY DEF Storage, Place

LEMMA PlaceOfLocal ==
    ASSUME NEW f, NEW x, x \notin Named(f.params), x \in Named(f.locals), NEW entry,
           entry.name = <<x>>, entry.scope = "LOCAL"
    PROVE  Storage(entry) = Place(f, x)
  BY DEF Storage, Place

LEMMA PlaceOfGlobal ==
    ASSUME NEW f, NEW x, x \notin Named(f.params), x \notin Named(f.locals), NEW entry,
           entry.name = <<x>>, entry.scope = "GLOBAL"
    PROVE  Storage(entry) = Place(f, x)
  BY DEF Storage, Place

(* The entries a function adds when it is entered: its result, its slots.  *)
Result(f) == Entry(<<"_ret_val">>, f.retTy, "LOCAL")
Slots(f) ==
    [i \in DOMAIN f.params |-> Entry(Slot(f.params[i].id), f.params[i].ty, "PARAM")]
Locals(f) ==
    [i \in DOMAIN f.locals |-> Entry(<<f.locals[i].id>>, f.locals[i].ty, "LOCAL")]
Added(f) == <<Result(f)>> \o Slots(f)

LEMMA AddedFacts ==
    ASSUME NEW f \in FunctionRecords
    PROVE  LET n == Len(f.params)
               a == Added(f)
               l == Added(f) \o Locals(f)
           IN  /\ n \in Nat /\ Len(a) = n + 1 /\ a[1] = Result(f)
               /\ \A i \in 1..n : a[i + 1] = Slots(f)[i]
               /\ IsSequence(l) /\ DOMAIN l = 1..(n + 1 + Len(f.locals))
               /\ \A i \in 1..(n + 1) : l[i] = a[i]
               /\ \A i \in DOMAIN f.locals :
                    n + 1 + i \in DOMAIN l /\ l[n + 1 + i] = Locals(f)[i]
  <1> DEFINE n == Len(f.params)
             m == Len(f.locals)
             E == {Result(f)} \cup {Slots(f)[i] : i \in DOMAIN f.params}
                    \cup {Locals(f)[i] : i \in DOMAIN f.locals}
             r == <<Result(f)>>
             s == Slots(f)
             o == Locals(f)
  <1>1. f.params \in Seq(Decls) /\ f.locals \in Seq(Decls)
    BY DEF FunctionRecords
  <1>2. r \in Seq(E) /\ Len(r) = 1 /\ r[1] = Result(f)
    OBVIOUS
  <1>3. s \in [DOMAIN f.params -> E] /\ o \in [DOMAIN f.locals -> E]
    BY DEF Slots, Locals
  <1> HIDE DEF E, r, s, o
  <1>4. s \in Seq(E) /\ Len(s) = n /\ o \in Seq(E) /\ Len(o) = m
    BY <1>1, <1>3, MapFacts
  <1>5. n \in Nat /\ m \in Nat /\ DOMAIN f.locals = 1..m
    BY <1>1, SeqFacts
  <1> HIDE DEF n, m
  <1> DEFINE a == r \o s
  <1>6. a \in Seq(E) /\ Len(a) = n + 1 /\ a[1] = Result(f) /\ \A i \in 1..n : a[i + 1] = s[i]
    <2>1. 1 + n = n + 1 /\ \A i \in 1..n : 1 + i = i + 1
      BY <1>5
    <2>2. /\ a \in Seq(E) /\ Len(a) = Len(r) + Len(s)
          /\ \A i \in 1..Len(r) : a[i] = r[i]
          /\ \A i \in 1..Len(s) : a[Len(r) + i] = s[i]
      <3>1. r \in Seq(E) /\ s \in Seq(E)
        BY <1>2, <1>4
      <3> QED
        BY <3>1
    <2> HIDE DEF a
    <2>3. a[1] = Result(f)
      BY <1>2, <2>2
    <2>4. \A i \in 1..n : a[i + 1] = s[i]
      BY <1>2, <1>4, <2>1, <2>2
    <2> QED
      BY <1>2, <1>4, <2>1, <2>2, <2>3, <2>4
  <1> HIDE DEF a
  <1> DEFINE l == a \o o
  <1>7. /\ l \in Seq(E) /\ Len(l) = n + 1 + m
        /\ \A i \in 1..(n + 1) : l[i] = a[i]
        /\ \A i \in 1..m : l[n + 1 + i] = o[i]
    <2>1. /\ l \in Seq(E) /\ Len(l) = Len(a) + Len(o)
          /\ \A i \in 1..Len(a) : l[i] = a[i]
          /\ \A i \in 1..Len(o) : l[Len(a) + i] = o[i]
      <3>1. a \in Seq(E) /\ o \in Seq(E)
        BY <1>4, <1>6
      <3> QED
        BY <3>1
    <2> HIDE DEF l
    <2> QED
      BY <1>4, <1>6, <2>1
  <1>8. DOMAIN l = 1..(n + 1 + m) /\ IsSequence(l)
    BY <1>7, SeqFacts DEF IsSequence
  <1> HIDE DEF l
  <1>9. \A i \in 1..m : n + 1 + i \in DOMAIN l
    BY <1>5, <1>8
  <1>10. a = Added(f) /\ l = Added(f) \o Locals(f)
    BY DEF a, l, Added, r, s, o
  <1> QED
    BY <1>5, <1>6, <1>7, <1>8, <1>9, <1>10 DEF n, m, s, o

LEMMA EnterFinds ==
    ASSUME NEW t, NEW f \in FunctionRecords, Finds(t, f)
    PROVE  LET u == InsertAll(t, Added(f))
           IN  Finds(u, f) /\ FindsSlots(u, f)
  <1> DEFINE a == Added(f)
             n == Len(f.params)
             u == InsertAll(t, a)
  <1>1. n \in Nat /\ Len(a) = n + 1 /\ a[1] = Result(f)
        /\ \A i \in 1..n : a[i + 1] = Slots(f)[i]
    BY AddedFacts
  <1>2. f.params \in Seq(Decls) /\ DOMAIN f.params = 1..n
    BY SeqFacts DEF FunctionRecords
  <1>3. a[1].name = <<"_ret_val">>
    BY <1>1 DEF Result, Entry
  <1>4. ASSUME NEW i \in 1..n
        PROVE  /\ a[i + 1].name = Slot(f.params[i].id)
               /\ a[i + 1].scope = "PARAM"
    <2>1. a[i + 1] = Entry(Slot(f.params[i].id), f.params[i].ty, "PARAM")
      BY <1>1, <1>2 DEF Slots
    <2> HIDE DEF a
    <2> QED
      BY <2>1 DEF Entry
  <1>5. Filled(u, n + 1, t, a)
    <2>1. Len(a) \in Nat
      BY <1>1
    <2> HIDE DEF a
    <2> QED
      BY <1>1, <2>1, InsertAllFills
  <1> HIDE DEF a, n, u
  <1>6. \A i \in 1..(n + 1) : i = 1 \/ (i - 1 \in 1..n /\ (i - 1) + 1 = i)
    BY <1>1
  <1>7. ASSUME NEW x \in Ids
        PROVE  /\ <<x>> \in DOMAIN u <=> <<x>> \in DOMAIN t
               /\ <<x>> \in DOMAIN t => u[<<x>>] = t[<<x>>]
    <2> DEFINE name == <<x>>
    <2>1. name # <<"_ret_val">> /\ \A y : Slot(y) # name
      BY NamesAssumption DEF Slot
    <2> HIDE DEF name
    <2>2. ASSUME NEW i \in 1..(n + 1) PROVE a[i].name # name
      <3>1. CASE i = 1
        BY <1>3, <2>1, <3>1
      <3>2. CASE i # 1
        <4>1. i - 1 \in 1..n /\ (i - 1) + 1 = i
          BY <1>6, <3>2
        <4>2. a[i].name = Slot(f.params[i - 1].id)
          BY <1>4, <4>1
        <4> QED
          BY <2>1, <4>2
      <3> QED
        BY <3>1, <3>2
    <2>3. name \in DOMAIN u <=> name \in DOMAIN t
      BY <1>5, <2>2 DEF Filled
    <2>4. name \in DOMAIN u => u[name] = t[name]
      BY <1>5, <2>2 DEF Filled, Replaces
    <2> QED
      BY <2>3, <2>4 DEF name
  <1>8. Finds(u, f)
    BY <1>7, StillFinds
  <1>9. ASSUME NEW x \in Named(f.params)
        PROVE  Slot(x) \in DOMAIN u /\ u[Slot(x)].name = Slot(x) /\ u[Slot(x)].scope = "PARAM"
    <2> DEFINE name == Slot(x)
    <2>1. PICK k \in 1..n : f.params[k].id = x
      BY <1>2 DEF Named
    <2>2. a[k + 1].name = name /\ k + 1 \in 1..(n + 1)
      BY <1>1, <1>4, <2>1
    <2>3. name # <<"_ret_val">>
      BY DEF Slot
    <2> HIDE DEF name
    <2>4. name \in DOMAIN u
      BY <1>5, <2>2 DEF Filled
    <2>5. PICK i \in 1..(n + 1) : a[i].name = name /\ u[name] = a[i]
      BY <1>5, <2>2, <2>4 DEF Filled, Replaces, Untouched
    <2>6. i # 1
      BY <1>3, <2>3, <2>5
    <2>7. i - 1 \in 1..n /\ (i - 1) + 1 = i
      BY <1>6, <2>6
    <2>8. a[i].scope = "PARAM"
      BY <1>4, <2>7
    <2> QED
      BY <2>4, <2>5, <2>8 DEF name
  <1> QED
    BY <1>8, <1>9 DEF FindsSlots, u, a

LEMMA EnterAllocates ==
    ASSUME NEW f \in FunctionRecords, FreshLocals(f), NEW c, IsSequence(c)
    PROVE  LET l == Added(f) \o Locals(f)
               d == c \o [i \in DOMAIN l |-> Allocate(f.id, l[i])]
           IN  /\ IsSequence(d) /\ Extends(c, d) /\ Allocated(d, f)
               /\ \A i \in DOMAIN d \ DOMAIN c : d[i].op = "alloca"
  <1> DEFINE n == Len(f.params)
             m == Len(f.locals)
             l == Added(f) \o Locals(f)
             b == [i \in DOMAIN l |-> Allocate(f.id, l[i])]
             d == c \o b
  <1>1. /\ n \in Nat /\ \A i \in 1..n : Added(f)[i + 1] = Slots(f)[i]
        /\ IsSequence(l) /\ DOMAIN l = 1..(n + 1 + m)
        /\ \A i \in 1..(n + 1) : l[i] = Added(f)[i]
        /\ \A i \in DOMAIN f.locals : n + 1 + i \in DOMAIN l /\ l[n + 1 + i] = Locals(f)[i]
    BY AddedFacts
  <1>2. f.params \in Seq(Decls) /\ DOMAIN f.params = 1..n
        /\ f.locals \in Seq(Decls) /\ m \in Nat
    BY SeqFacts DEF FunctionRecords
  <1> HIDE DEF n, m, l
  <1>3. \A i \in DOMAIN l : b[i] = Allocate(f.id, l[i])
    OBVIOUS
  <1>4. DOMAIN b = DOMAIN l /\ IsSequence(b)
    <2>1. PICK S : l \in Seq(S)
      BY <1>1 DEF IsSequence
    <2>2. b \in [DOMAIN l -> {b[i] : i \in DOMAIN l}]
      OBVIOUS
    <2> HIDE DEF b
    <2>3. b \in Seq({b[i] : i \in DOMAIN l}) /\ DOMAIN b = DOMAIN l
      BY <2>1, <2>2, MapFacts
    <2> QED
      BY <2>3 DEF IsSequence
  <1> HIDE DEF b
  <1>5. /\ IsSequence(d) /\ Extends(c, d)
        /\ \A j \in DOMAIN b : Len(c) + j \in DOMAIN d /\ d[Len(c) + j] = b[j]
        /\ \A i \in DOMAIN d : i \in DOMAIN c \/ \E j \in DOMAIN b : i = Len(c) + j
    BY <1>4, Joined
  <1> HIDE DEF d
  <1>6. ASSUME NEW i \in DOMAIN l, NEW x, Storage(l[i]) = Place(f, x)
        PROVE  \E j \in DOMAIN d : d[j] = Allocating(f, x)
    <2>1. b[i] = Allocating(f, x)
      BY <1>3, <1>6 DEF Allocate, Allocating
    <2> QED
      BY <1>4, <1>5, <2>1
  <1>7. ASSUME NEW x \in Named(f.params)
        PROVE  \E j \in DOMAIN d : d[j] = Allocating(f, x)
    <2>1. PICK k \in 1..n : f.params[k].id = x
      BY <1>2 DEF Named
    <2>2. k + 1 \in DOMAIN l /\ k + 1 \in 1..(n + 1)
      <3>1. /\ n \in Nat /\ m \in Nat
            /\ DOMAIN l = 1..(n + 1 + m)
        BY <1>1, <1>2
      <3> QED
        BY <3>1
    <2>3. l[k + 1] = Entry(Slot(x), f.params[k].ty, "PARAM")
      BY <1>1, <1>2, <2>1, <2>2 DEF Slots
    <2>4. l[k + 1].name = Slot(x) /\ l[k + 1].scope = "PARAM"
      BY <2>3 DEF Entry
    <2> QED
      BY <1>6, <2>2, <2>4, PlaceOfParam
  <1>8. ASSUME NEW x \in Named(f.locals)
        PROVE  \E j \in DOMAIN d : d[j] = Allocating(f, x)
    <2>1. PICK k \in DOMAIN f.locals : f.locals[k].id = x
      BY DEF Named
    <2> DEFINE e == l[n + 1 + k]
    <2>2. n + 1 + k \in DOMAIN l /\ e = Entry(<<x>>, f.locals[k].ty, "LOCAL")
      BY <1>1, <2>1 DEF Locals
    <2> HIDE DEF e
    <2>3. e.name = <<x>> /\ e.scope = "LOCAL"
      BY <2>2 DEF Entry
    <2>4. x \notin Named(f.params)
      BY DEF FreshLocals
    <2>5. Storage(e) = Place(f, x)
      BY <2>3, <2>4, PlaceOfLocal
    <2> QED
      BY <1>6, <2>2, <2>5 DEF e
  <1>9. Allocated(d, f)
    BY <1>7, <1>8 DEF Allocated, Own
  <1>10. ASSUME NEW i \in DOMAIN d \ DOMAIN c PROVE d[i].op = "alloca"
    <2>1. PICK j \in DOMAIN b : i = Len(c) + j
      BY <1>5
    <2>2. d[i] = Allocate(f.id, l[j])
      BY <1>3, <1>4, <1>5, <2>1
    <2>3. Allocate(f.id, l[j]).op = "alloca"
      BY DEF Allocate
    <2> QED
      BY <2>2, <2>3
  <1> QED
    BY <1>5, <1>9, <1>10 DEF d, b, l

LEMMA EnterKeeps ==
    ASSUME IInv, EnterFunction
    PROVE  IInv'
  <1> DEFINE k == current + 1
             f == program.funcs[k]
             t == tables.Funcs[f.id].Variables
             u == InsertAll(t, Added(f))
             l == Added(f) \o Locals(f)
             d == code \o [i \in DOMAIN l |-> Allocate(f.id, l[i])]
  <1>1. /\ phase = "translate" /\ current < Len(program.funcs)
        /\ tables' = [tables EXCEPT !.Funcs[f.id].Variables = InsertAll(@, Added(f))]
        /\ code' = d /\ current' = k /\ used' = 0
        /\ UNCHANGED <<program, errors, phase, nextReg>>
    BY DEF EnterFunction, Added, Result, Slots, Locals
  <1>2. /\ program.funcs \in Seq(FunctionRecords) /\ IsSequence(code)
        /\ current \in Nat /\ k \in DOMAIN program.funcs
        /\ DOMAIN program.funcs = 1..Len(program.funcs) /\ Len(program.funcs) \in Nat
    <2>1. program.funcs \in Seq(FunctionRecords)
      BY DEF IInv, ShapeInv, Programs
    <2>2. DOMAIN program.funcs = 1..Len(program.funcs) /\ Len(program.funcs) \in Nat
      BY <2>1, SeqFacts
    <2>3. current \in 0..Len(program.funcs)
      BY DEF IInv, PhaseInv
    <2>4. k \in 1..Len(program.funcs)
      BY <1>1, <2>2, <2>3
    <2> QED
      BY <2>1, <2>2, <2>3, <2>4 DEF IInv, CodeInv
  <1>3. f \in FunctionRecords /\ FreshLocals(f) /\ f.uses \in Seq(Uses)
    BY <1>1, <1>2, FunctionFacts, TranslateFacts DEF IInv
  <1>4. Finds(t, f)
    BY <1>1, <1>2 DEF IInv, LookupInv
  <1>5. Finds(u, f) /\ FindsSlots(u, f)
    <2> HIDE DEF f, t
    <2> QED
      BY <1>3, <1>4, EnterFinds
  <1>6. /\ IsSequence(d) /\ Extends(code, d) /\ Allocated(d, f)
        /\ \A i \in DOMAIN d \ DOMAIN code : d[i].op = "alloca"
    <2> HIDE DEF f
    <2> QED
      BY <1>2, <1>3, EnterAllocates
  <1>7. tables' = [tables EXCEPT !.Funcs[f.id].Variables = u]
    BY <1>1
  <1> HIDE DEF u, l, d
  <1>8. /\ ShapeInv' /\ TablesInv' /\ AcceptInv'
        /\ tables'.Funcs[f.id].Variables = u
        /\ \A j \in DOMAIN program.funcs : j # k =>
             tables'.Funcs[program.funcs[j].id] = tables.Funcs[program.funcs[j].id]
    <2> HIDE DEF k
    <2> QED
      BY <1>1, <1>2, <1>7, VariablesChange
  <1>9. PhaseInv'
    <2>1. Len(f.uses) \in Nat
      BY <1>3, SeqFacts
    <2>2. k \in 0..Len(program.funcs) /\ k # 0 /\ 0 \in 0..Len(f.uses)
      BY <1>2, <2>1
    <2> HIDE DEF k
    <2> QED
      BY <1>1, <2>2 DEF IInv, PhaseInv
  <1>10. LookupInv'
    <2> SUFFICES ASSUME NEW j \in DOMAIN program.funcs
                 PROVE  LET g == program.funcs[j]
                            v == tables'.Funcs[g.id].Variables
                        IN  /\ Finds(v, g)
                            /\ j <= k => FindsSlots(v, g) /\ Allocated(code', g)
      BY <1>1 DEF LookupInv
    <2>1. CASE j = k
      BY <1>1, <1>5, <1>6, <1>8, <2>1
    <2>2. CASE j # k
      <3> DEFINE g == program.funcs[j]
      <3>1. tables'.Funcs[g.id].Variables = tables.Funcs[g.id].Variables
        BY <1>8, <2>2
      <3>2. /\ Finds(tables.Funcs[g.id].Variables, g)
            /\ j <= current => FindsSlots(tables.Funcs[g.id].Variables, g) /\ Allocated(code, g)
        BY <1>1 DEF IInv, LookupInv
      <3>3. j <= k => j <= current
        BY <1>2, <2>2
      <3>4. Allocated(code, g) => Allocated(code', g)
        BY <1>1, <1>2, <1>6, ExtendsKeeps
      <3> HIDE DEF g
      <3>5. /\ Finds(tables'.Funcs[g.id].Variables, g)
            /\ j <= k => FindsSlots(tables'.Funcs[g.id].Variables, g) /\ Allocated(code', g)
        BY <3>1, <3>2, <3>3, <3>4
      <3> QED
        BY <3>5 DEF g
    <2> QED
      BY <2>1, <2>2
  <1>11. CodeInv'
    <2>1. \A i \in DOMAIN code' \ DOMAIN code : code'[i].op # "access"
      BY <1>1, <1>6
    <2> QED
      BY <1>1, <1>6, <2>1, CodeGrows DEF IInv
  <1> QED
    BY <1>8, <1>9, <1>10, <1>11 DEF IInv

(* A use of a legal program reaches the place of its variable.             *)
LEMMA ResolveReaches ==
    ASSUME IInv, phase = "translate", current > 0, used < Len(Here.uses)
    PROVE  LET x == Here.uses[used + 1].id
           IN  /\ current \in DOMAIN program.funcs /\ x \in Ids
               /\ used + 1 \in 0..Len(Here.uses)
               /\ Scope(Here, x) # "none"
               /\ Access(Here.id, x, Resolve(x)) = Reaching(Here, x)
               /\ x \in Own(Here) => \E j \in DOMAIN code : code[j] = Allocating(Here, x)
  <1> DEFINE f == Here
             use == f.uses[used + 1]
             x == use.id
             t == tables.Funcs[f.id].Variables
  <1>1. current \in DOMAIN program.funcs /\ f = program.funcs[current]
    <2>1. program.funcs \in Seq(FunctionRecords) /\ current \in 0..Len(program.funcs)
      BY DEF IInv, ShapeInv, Programs, PhaseInv
    <2>2. DOMAIN program.funcs = 1..Len(program.funcs) /\ Len(program.funcs) \in Nat
      BY <2>1, SeqFacts
    <2> QED
      BY <2>1, <2>2 DEF Here
  <1>2. /\ f \in Range(program.funcs) /\ f.uses \in Seq(Uses)
        /\ FreshLocals(f) /\ Describes(tables.Funcs[f.id], f)
    BY <1>1, FunctionFacts, TranslateFacts DEF IInv
  <1>3. Finds(t, f) /\ FindsSlots(t, f) /\ Allocated(code, f)
    <2>1. current <= current
      BY <1>1 DEF IInv, PhaseInv
    <2> QED
      BY <1>1, <2>1 DEF IInv, LookupInv
  <1>4. used \in Nat /\ Len(f.uses) \in Nat /\ DOMAIN f.uses = 1..Len(f.uses)
    <2>1. used \in 0..Len(f.uses)
      BY <1>1 DEF IInv, PhaseInv
    <2> QED
      BY <1>2, <2>1, SeqFacts
  <1>5. used + 1 \in DOMAIN f.uses /\ used + 1 \in 0..Len(f.uses)
    BY <1>4
  <1>6. use \in Uses /\ x \in Ids
    <2>1. use \in Uses
      BY <1>2, <1>5, SeqFacts
    <2> QED
      BY <2>1 DEF Uses
  <1>7. Scope(f, x) # "none"
    <2>1. FunctionIsLegal(f)
      BY <1>2, TranslateFacts DEF ProgramIsLegal
    <2>2. UseIsLegal(f, use)
      BY <1>5, <2>1 DEF FunctionIsLegal
    <2> QED
      BY <2>2 DEF UseIsLegal
  <1>8. Resolve(x) = IF x \in Named(f.params)
                       THEN TableContains(t, tables.Globals, Slot(x))
                       ELSE TableContains(t, tables.Globals, <<x>>)
    BY <1>2 DEF Resolve, Variables, Describes
  <1> HIDE DEF f, use, x, t
  <1> DEFINE entry == Resolve(x)
  <1>9. Storage(entry) = Place(f, x)
    <2>1. CASE x \in Named(f.params)
      <3>1. /\ Slot(x) \in DOMAIN t /\ t[Slot(x)].name = Slot(x)
            /\ t[Slot(x)].scope = "PARAM"
        BY <1>3, <2>1 DEF FindsSlots
      <3>2. entry = t[Slot(x)]
        BY <1>8, <2>1, <3>1 DEF TableContains
      <3> HIDE DEF entry
      <3> QED
        BY <2>1, <3>1, <3>2, PlaceOfParam
    <2>2. CASE x \notin Named(f.params) /\ x \in Named(f.locals)
      <3> DEFINE name == <<x>>
      <3>1. name \in DOMAIN t /\ t[name].name = name /\ t[name].scope = "LOCAL"
        BY <1>3, <2>2 DEF Finds
      <3>2. entry = TableContains(t, tables.Globals, name)
        BY <1>8, <2>2
      <3> HIDE DEF name, entry
      <3>3. entry = t[name]
        BY <3>1, <3>2 DEF TableContains
      <3> QED
        BY <2>2, <3>1, <3>3, PlaceOfLocal DEF name
    <2>3. CASE x \notin Named(f.params) /\ x \notin Named(f.locals)
      <3> DEFINE name == <<x>>
      <3>1. x \in Named(program.globals)
        BY <1>7, <2>3 DEF Scope
      <3>2. /\ name \in DOMAIN tables.Globals /\ tables.Globals[name].name = name
            /\ tables.Globals[name].scope = "GLOBAL"
        BY <3>1, TranslateFacts
      <3>3. name \notin DOMAIN t
        BY <1>3, <1>6, <2>3 DEF Finds, Own
      <3>4. entry = TableContains(t, tables.Globals, name)
        BY <1>8, <2>3
      <3> HIDE DEF name, entry
      <3>5. entry = tables.Globals[name]
        BY <3>2, <3>3, <3>4 DEF TableContains
      <3> QED
        BY <2>3, <3>2, <3>5, PlaceOfGlobal DEF name
    <2> QED
      BY <2>1, <2>2, <2>3
  <1>10. Access(f.id, x, Resolve(x)) = Reaching(f, x)
    BY <1>9 DEF Access, Reaching
  <1>11. x \in Own(f) => \E j \in DOMAIN code : code[j] = Allocating(f, x)
    BY <1>3 DEF Allocated
  <1> QED
    BY <1>1, <1>5, <1>6, <1>7, <1>10, <1>11 DEF f, use, x

LEMMA UseCode ==
    ASSUME IInv, phase = "translate", current > 0, used < Len(Here.uses),
           UNCHANGED <<program, current>>,
           code' = Append(code, Access(Here.id, Here.uses[used + 1].id,
                                       Resolve(Here.uses[used + 1].id)))
    PROVE  CodeInv' /\ Extends(code, code') /\ IsSequence(code)
  <1> DEFINE x == Here.uses[used + 1].id
             a == Reaching(Here, x)
             i == Len(code) + 1
  <1>1. /\ current \in DOMAIN program.funcs /\ x \in Ids
        /\ Scope(Here, x) # "none"
        /\ Access(Here.id, x, Resolve(x)) = a
        /\ x \in Own(Here) => \E j \in DOMAIN code : code[j] = Allocating(Here, x)
    BY ResolveReaches
  <1>2. IsSequence(code) /\ CodeInv
    BY DEF IInv, CodeInv
  <1>3. code' = Append(code, a)
    BY <1>1
  <1> HIDE DEF x, a
  <1>4. /\ IsSequence(code') /\ Extends(code, code')
        /\ DOMAIN code' = DOMAIN code \cup {i} /\ code'[i] = a
        /\ DOMAIN code = 1..Len(code) /\ Len(code) \in Nat
    BY <1>2, <1>3, Appended
  <1>5. RightAccess(code', i)
    <2>1. i - 1 = Len(code)
      BY <1>4
    <2> HIDE DEF i
    <2>2. x \in Own(Here) => \E j \in 1..(i - 1) : code'[j] = Allocating(Here, x)
      BY <1>1, <1>4, <2>1 DEF Extends
    <2>3. Here = program.funcs[current]
      BY DEF Here
    <2> QED
      BY <1>1, <1>4, <2>2, <2>3 DEF RightAccess, a
  <1> HIDE DEF i
  <1>6. CodeInv'
    BY <1>2, <1>4, <1>5, CodeGrows
  <1> QED
    BY <1>2, <1>4, <1>6

LEMMA WriteKeeps ==
    ASSUME IInv, WriteVariable
    PROVE  IInv'
  <1>1. /\ phase = "translate" /\ current > 0 /\ used < Len(Here.uses)
        /\ code' = Append(code, Access(Here.id, Here.uses[used + 1].id,
                                       Resolve(Here.uses[used + 1].id)))
        /\ used' = used + 1
        /\ UNCHANGED <<program, tables, errors, phase, current, nextReg>>
    BY DEF WriteVariable
  <1>2. CodeInv' /\ Extends(code, code') /\ IsSequence(code)
    BY <1>1, UseCode
  <1>3. ShapeInv'
    BY <1>1 DEF IInv, ShapeInv
  <1>4. PhaseInv'
    <2>1. used + 1 \in 0..Len(program.funcs[current].uses)
      BY <1>1, ResolveReaches DEF Here
    <2> QED
      BY <1>1, <2>1 DEF IInv, PhaseInv
  <1>5. TablesInv'
    BY <1>1 DEF IInv, TablesInv, GlobalsInv, StructsInv, FuncsInv
  <1>6. AcceptInv'
    <2>1. ProgramIsLegal' <=> ProgramIsLegal
      BY <1>1 DEF ProgramIsLegal, FunctionIsLegal, UseIsLegal, TypesDeclared,
             FieldTypesDeclared, Scope
    <2> QED
      BY <1>1, <2>1, TranslateFacts DEF AcceptInv, AcceptsTheLegalPrograms
  <1>7. LookupInv'
    <2>1. \A g : Allocated(code, g) => Allocated(code', g)
      BY <1>2, ExtendsKeeps
    <2> QED
      BY <1>1, <2>1 DEF IInv, LookupInv
  <1> QED
    BY <1>2, <1>3, <1>4, <1>5, <1>6, <1>7 DEF IInv

LEMMA ReadKeeps ==
    ASSUME IInv, ReadVariable
    PROVE  IInv'
  <1> DEFINE f == program.funcs[current]
             t == tables.Funcs[f.id].Variables
             reg == <<Registers[nextReg]>>
             entry == Entry(reg, Resolve(Here.uses[used + 1].id).ty, "LOCAL")
             u == Insert(t, reg, entry)
  <1>1. /\ phase = "translate" /\ current > 0 /\ used < Len(Here.uses)
        /\ nextReg <= Len(Registers)
        /\ code' = Append(code, Access(Here.id, Here.uses[used + 1].id,
                                       Resolve(Here.uses[used + 1].id)))
        /\ tables' = [tables EXCEPT !.Funcs[f.id].Variables = Insert(@, reg, entry)]
        /\ nextReg' = nextReg + 1 /\ used' = used + 1
        /\ UNCHANGED <<program, errors, phase, current>>
    BY DEF ReadVariable, Here
  <1>2. CodeInv' /\ Extends(code, code') /\ IsSequence(code)
    BY <1>1, UseCode
  <1>3. current \in DOMAIN program.funcs /\ used + 1 \in 0..Len(f.uses)
    BY <1>1, ResolveReaches DEF Here
  <1>4. f \in FunctionRecords
    BY <1>3, FunctionFacts DEF IInv
  <1>5. tables' = [tables EXCEPT !.Funcs[f.id].Variables = u]
    BY <1>1
  <1> HIDE DEF u, entry
  <1>6. /\ ShapeInv' /\ TablesInv' /\ AcceptInv'
        /\ tables'.Funcs[f.id].Variables = u
        /\ \A j \in DOMAIN program.funcs : j # current =>
             tables'.Funcs[program.funcs[j].id] = tables.Funcs[program.funcs[j].id]
    BY <1>1, <1>3, <1>5, VariablesChange
  <1>7. nextReg \in Nat \ {0}
    BY DEF IInv, PhaseInv
  <1>8. PhaseInv'
    BY <1>1, <1>3, <1>7 DEF IInv, PhaseInv
  <1>9. Registers[nextReg] \notin Ids
    <2>1. nextReg \in DOMAIN Registers
      BY <1>1, <1>7, NamesAssumption, SeqFacts
    <2> QED
      BY <2>1, NamesAssumption
  <1>10. DOMAIN u = DOMAIN t \cup {reg} /\ \A y \in DOMAIN t : y # reg => u[y] = t[y]
    BY DEF u, Insert
  <1>11. /\ Finds(t, f) /\ FindsSlots(t, f)
    <2>1. current <= current
      BY <1>3 DEF IInv, PhaseInv
    <2> QED
      BY <1>1, <1>3, <2>1 DEF IInv, LookupInv
  <1> HIDE DEF f, t
  <1>12. Finds(u, f)
    <2>1. ASSUME NEW x \in Ids
          PROVE  /\ <<x>> \in DOMAIN u <=> <<x>> \in DOMAIN t
                 /\ <<x>> \in DOMAIN t => u[<<x>>] = t[<<x>>]
      <3>1. <<x>> # reg
        BY <1>9
      <3> HIDE DEF reg
      <3> QED
        BY <1>10, <3>1
    <2> QED
      BY <1>4, <1>11, <2>1, StillFinds
  <1>13. FindsSlots(u, f)
    <2>1. \A x : Slot(x) # reg
      BY DEF Slot
    <2> HIDE DEF reg
    <2> QED
      BY <1>10, <1>11, <2>1 DEF FindsSlots
  <1>14. LookupInv'
    <2>1. \A g : Allocated(code, g) => Allocated(code', g)
      BY <1>2, ExtendsKeeps
    <2>2. ASSUME NEW j \in DOMAIN program.funcs
          PROVE  LET g == program.funcs[j]
                     v == tables'.Funcs[g.id].Variables
                 IN  /\ Finds(v, g)
                     /\ j <= current => FindsSlots(v, g) /\ Allocated(code', g)
      <3> DEFINE g == program.funcs[j]
      <3>1. /\ Finds(tables.Funcs[g.id].Variables, g)
            /\ j <= current => FindsSlots(tables.Funcs[g.id].Variables, g) /\ Allocated(code, g)
        BY <1>1 DEF IInv, LookupInv
      <3>2. CASE j = current
        BY <1>6, <1>12, <1>13, <2>1, <3>1, <3>2 DEF f
      <3>3. CASE j # current
        BY <1>6, <2>1, <3>1, <3>3
      <3> QED
        BY <3>2, <3>3
    <2> QED
      BY <1>1, <2>2 DEF LookupInv
  <1> QED
    BY <1>2, <1>6, <1>8, <1>14 DEF IInv

LEMMA IdleKeeps ==
    ASSUME IInv, UNCHANGED vars
    PROVE  IInv'
  <1> USE DEF IInv, vars
  <1>1. ShapeInv' /\ PhaseInv'
    BY DEF ShapeInv, PhaseInv
  <1>2. TablesInv'
    BY DEF TablesInv, GlobalsInv, StructsInv, FuncsInv
  <1>3. AcceptInv'
    <2>1. ProgramIsLegal' <=> ProgramIsLegal
      BY DEF ProgramIsLegal, FunctionIsLegal, UseIsLegal, TypesDeclared,
             FieldTypesDeclared, Scope
    <2>2. DeclaredOnce' <=> DeclaredOnce
      BY DEF DeclaredOnce
    <2> QED
      BY <2>1, <2>2 DEF AcceptInv, AcceptsTheLegalPrograms
  <1>4. LookupInv'
    BY DEF LookupInv
  <1>5. CodeInv'
    BY DEF CodeInv, RightAccess, Scope
  <1> QED
    BY <1>1, <1>2, <1>3, <1>4, <1>5

LEMMA InitKeeps ==
    ASSUME Init
    PROVE  IInv
  <1> USE DEF Init
  <1>1. ShapeInv
    <2>1. <<>> \in Seq(TypeRecords) /\ <<>> \in Seq(Decls) /\ <<>> \in Seq(FunctionRecords)
      OBVIOUS
    <2>2. 0 \in 0..MaxUses
      BY BoundsAssumption
    <2>3. program \in Programs
      BY <2>1, <2>2 DEF Programs
    <2>4. program.funcs = <<>>
      OBVIOUS
    <2>5. DOMAIN program.funcs = {}
      BY <2>4
    <2>6. DOMAIN tables = {"Globals", "Structs", "Funcs"}
      OBVIOUS
    <2> QED
      BY <2>3, <2>5, <2>6 DEF ShapeInv
  <1>2. /\ program.types = <<>> /\ program.globals = <<>> /\ program.funcs = <<>>
        /\ tables.Globals = <<>> /\ tables.Structs = <<>> /\ tables.Funcs = <<>>
        /\ code = <<>> /\ errors = {}
    BY DEF EmptyTable
  <1>3. DOMAIN <<>> = {} /\ Len(<<>>) = 0
    OBVIOUS
  <1>4. Named(<<>>) = {} /\ Range(<<>>) = {} /\ NoRepeats(<<>>)
    BY <1>3 DEF Named, Range, NoRepeats
  <1>5. PhaseInv
    BY <1>2, <1>3 DEF PhaseInv
  <1>6. TablesInv
    BY <1>2, <1>3, <1>4 DEF TablesInv, GlobalsInv, StructsInv, FuncsInv
  <1>7. AcceptInv
    BY <1>2, <1>4 DEF AcceptInv, DeclaredOnce, AcceptsTheLegalPrograms
  <1>8. LookupInv /\ CodeInv
    <2>1. <<>> \in Seq({})
      OBVIOUS
    <2> QED
      BY <1>2, <1>3, <2>1 DEF LookupInv, CodeInv, IsSequence
  <1> QED
    BY <1>1, <1>5, <1>6, <1>7, <1>8 DEF IInv

LEMMA SemanticsStep ==
    ASSUME IInv, [Next]_vars PROVE IInv'
  BY TypeKeeps, VariableKeeps, FunctionKeeps, EndKeeps, CheckKeeps, EnterKeeps,
     WriteKeeps, ReadKeeps, IdleKeeps DEF Next, Done

LEMMA SemanticsAlways == Spec => []IInv
  <1>1. Init => IInv
    BY InitKeeps
  <1>2. IInv /\ [Next]_vars => IInv'
    BY SemanticsStep
  <1> QED
    BY <1>1, <1>2, PTL DEF Spec

-----------------------------------------------------------------------------
LEMMA TablesTyped ==
    ASSUME IInv
    PROVE  TypeOK
  <1> USE DEF IInv
  <1>1. phase \in {"build", "check", "translate", "rejected"}
    BY DEF PhaseInv
  <1>2. /\ DOMAIN tables.Globals = {<<x>> : x \in Named(program.globals)}
        /\ DOMAIN tables.Structs = Named(program.types)
        /\ DOMAIN tables.Funcs = Named(program.funcs)
    BY DEF TablesInv, GlobalsInv, StructsInv, FuncsInv
  <1>3. /\ program.funcs \in Seq(FunctionRecords)
        /\ DOMAIN program.funcs = 1..Len(program.funcs) /\ Len(program.funcs) \in Nat
        /\ program.uses \in 0..MaxUses /\ MaxUses \in Nat
    BY BoundsAssumption, SeqFacts DEF ShapeInv, Programs
  <1>4. current \in 0..Len(program.funcs) /\ used \in 0..MaxUses
    <2>1. current \in 0..Len(program.funcs)
      BY DEF PhaseInv
    <2>2. CASE current = 0
      BY <1>3, <2>1, <2>2 DEF PhaseInv
    <2>3. CASE current # 0
      <3> DEFINE n == Len(program.funcs[current].uses)
      <3>1. current \in DOMAIN program.funcs
        BY <1>3, <2>1, <2>3
      <3>2. n \in Nat /\ n <= program.uses
        BY <3>1, FunctionFacts, SeqFacts DEF ShapeInv
      <3>3. used \in 0..n
        BY <2>3 DEF PhaseInv
      <3> HIDE DEF n
      <3> QED
        BY <1>3, <2>1, <3>2, <3>3
    <2> QED
      BY <2>2, <2>3
  <1>5. ASSUME NEW i \in DOMAIN program.funcs,
               \A j \in i + 1..Len(program.funcs) : program.funcs[j].id # program.funcs[i].id
        PROVE  tables.Funcs[program.funcs[i].id].Parameters = Named(program.funcs[i].params)
    <2>1. \A j \in DOMAIN program.funcs : j > i => j \in i + 1..Len(program.funcs)
      BY <1>3
    <2>2. LastOf(program.funcs, i)
      BY <1>5, <2>1 DEF LastOf
    <2> QED
      BY <2>2 DEF TablesInv, FuncsInv, Describes
  <1> QED
    BY <1>1, <1>2, <1>4, <1>5 DEF TypeOK

(* The tables hold what was declared, for programs of any length: the      *)
(* names of all declarations, and the parameters of the last declaration   *)
(* of a function (symboltable.go, Function.BuildSymbolTable).              *)
THEOREM TablesAlwaysTyped == Spec => []TypeOK
  BY TablesTyped, SemanticsAlways, PTL

(* The analysis accepts the programs that obey the scope rules and declare *)
(* their types, and no others except those ProgramIsLegal makes legal      *)
(* because the code lets them pass (repeated parameters, undeclared types  *)
(* of parameters and results, fields of type string), however many         *)
(* declarations they have, in whatever order and with whatever names       *)
(* (sa.go Execute).                                                        *)
THEOREM LegalProgramsAccepted == Spec => []AcceptsTheLegalPrograms
  <1>1. IInv => AcceptsTheLegalPrograms
    BY DEF IInv, AcceptInv
  <1> QED
    BY <1>1, SemanticsAlways, PTL

LEMMA StorageReached ==
    ASSUME IInv
    PROVE  UsesReachTheirStorage
  <1> SUFFICES ASSUME NEW i \in DOMAIN code, code[i].op = "access"
               PROVE  LET access == code[i]
                          f == CHOOSE g \in Range(program.funcs) : g.id = access.func
                          scope == Scope(f, access.id)
                      IN  /\ access.at.name = (IF scope = "PARAM" THEN Slot(access.id)
                                                                  ELSE <<access.id>>)
                          /\ access.at.global = (scope = "GLOBAL")
                          /\ ~access.at.global =>
                               \E j \in 1..i - 1 : code[j] = [access EXCEPT !.op = "alloca",
                                                                            !.id = ""]
    BY DEF UsesReachTheirStorage
  <1>1. PICK k \in DOMAIN program.funcs, x \in Ids :
           LET f == program.funcs[k]
           IN  /\ Scope(f, x) # "none"
               /\ code[i] = Reaching(f, x)
               /\ x \in Own(f) => \E j \in 1..(i - 1) : code[j] = Allocating(f, x)
    BY DEF IInv, CodeInv, RightAccess
  <1> DEFINE f == program.funcs[k]
             access == code[i]
  <1>2. phase = "translate"
    <2>1. code # <<>>
      OBVIOUS
    <2> QED
      BY <2>1 DEF IInv, PhaseInv
  <1>3. FreshLocals(f) /\ f \in Range(program.funcs)
        /\ \A g \in Range(program.funcs) : g.id = f.id => g = f
    BY <1>2, TranslateFacts DEF Range
  <1>4. f = CHOOSE g \in Range(program.funcs) : g.id = f.id
    BY <1>3
  <1> HIDE DEF f, access
  <1>5. /\ access.func = f.id /\ access.id = x /\ access.at = Place(f, x)
        /\ [access EXCEPT !.op = "alloca", !.id = ""] = Allocating(f, x)
    <2>1. access = Reaching(f, x)
      BY <1>1 DEF f, access
    <2> HIDE DEF f, access
    <2>2. LET a == Reaching(f, x)
          IN  a.func = f.id /\ a.id = x /\ a.at = Place(f, x)
      BY DEF Reaching
    <2> DEFINE b == [Reaching(f, x) EXCEPT !.op = "alloca", !.id = ""]
               c == Allocating(f, x)
               fields == {"op", "func", "id", "at"}
    <2>3. b = [z \in fields |-> b[z]] /\ c = [z \in fields |-> c[z]]
      BY DEF Reaching, Allocating
    <2>4. b.op = c.op /\ b.func = c.func /\ b.id = c.id /\ b.at = c.at
      BY DEF Reaching, Allocating
    <2> HIDE DEF b, c
    <2>5. \A z \in fields : b[z] = c[z]
      BY <2>4
    <2>6. b = c
      BY <2>3, <2>5
    <2> QED
      BY <2>1, <2>2, <2>6 DEF b, c
  <1>6. Place(f, x).name = (IF Scope(f, x) = "PARAM" THEN Slot(x) ELSE <<x>>)
    <2>1. Scope(f, x) = "PARAM" <=> x \in Named(f.params)
      BY <1>3 DEF Scope, FreshLocals
    <2> QED
      BY <2>1 DEF Place
  <1>7. Place(f, x).global = (Scope(f, x) = "GLOBAL")
    <2>1. CASE x \in Named(f.params)
      BY <1>3, <2>1 DEF Scope, FreshLocals, Place
    <2>2. CASE x \notin Named(f.params)
      <3>1. Scope(f, x) = "GLOBAL" <=> x \notin Named(f.locals)
        BY <1>1, <2>2 DEF Scope, f
      <3>2. Place(f, x).global = (x \notin Named(f.locals))
        BY <2>2 DEF Place
      <3> QED
        BY <3>1, <3>2
    <2> QED
      BY <2>1, <2>2
  <1>8. ASSUME ~ Place(f, x).global
        PROVE  \E j \in 1..(i - 1) : code[j] = Allocating(f, x)
    <2>1. x \in Own(f)
      BY <1>8 DEF Place, Own
    <2> QED
      BY <1>1, <2>1 DEF f
  <1> QED
    <2>1. f = CHOOSE g \in Range(program.funcs) : g.id = access.func
      BY <1>4, <1>5
    <2>2. /\ access.at.name = (IF Scope(f, access.id) = "PARAM" THEN Slot(access.id)
                                                               ELSE <<access.id>>)
          /\ access.at.global = (Scope(f, access.id) = "GLOBAL")
          /\ ~access.at.global =>
               \E j \in 1..i - 1 : code[j] = [access EXCEPT !.op = "alloca", !.id = ""]
      BY <1>5, <1>6, <1>7, <1>8
    <2> QED
      BY <2>1, <2>2 DEF access

(* Every use of a variable in an accepted program reaches the storage of   *)
(* the innermost declaration of its name, allocated before it in the same  *)
(* function or global (lvalue.go, variable.go, read.go).                   *)
THEOREM StorageAlwaysReached == Spec => []UsesReachTheirStorage
  BY StorageReached, SemanticsAlways, PTL
=============================================================================
