--------------------------- MODULE HeapFileProofs ---------------------------
(***************************************************************************)
(* Whatever statements do with a heap, its pages stay sound and its rows   *)
(* stay what they were, down to line pointers and tuple bytes, for every   *)
(* page size, descriptor and row.                                          *)
(***************************************************************************)
EXTENDS HeapFile, TLAPS, WellFoundedInduction, FiniteSetTheorems, SequenceTheorems

-----------------------------------------------------------------------------
(* Numbers.                                                                *)

\* An induction goes through the first number that breaks a claim.
LEMMA SmallestOf ==
    ASSUME NEW S \in SUBSET Nat, S # {}
    PROVE  \E m \in S : \A y \in S : m <= y
<1> DEFINE Less == {p \in Nat \X Nat : p[1] < p[2]}
<1>1. IsWellFoundedOn(Less, Nat)
  BY NatLessThanWellFounded DEF OpToRel
<1> HIDE DEF Less
<1>2. PICK m \in S : \A y \in S : ~(<<y, m>> \in Less)
  BY <1>1, WFMin
<1>3. ASSUME NEW y \in S, ~(m <= y) PROVE FALSE
  <2> DEFINE p == <<y, m>>
  <2>1. p \in Nat \X Nat /\ p[1] < p[2]
    BY <1>3
  <2>2. p \in Less
    BY <2>1 DEF Less
  <2> QED
    BY <1>2, <2>2
<1> QED
  BY <1>3

\* What holds of the first value and of each one after it holds of all.
LEMMA StaysIn ==
    ASSUME NEW ch, NEW k \in Nat, NEW S, ch[0] \in S,
           \A n \in 1 .. k : ch[n - 1] \in S => ch[n] \in S
    PROVE  \A n \in 0 .. k : ch[n] \in S
<1> DEFINE Bad == {n \in 0 .. k : ch[n] \notin S}
<1>1. SUFFICES ASSUME Bad # {} PROVE FALSE
  OBVIOUS
<1>2. PICK m \in Bad : \A n \in Bad : m <= n
  <2>1. Bad \in SUBSET Nat
    OBVIOUS
  <2> HIDE DEF Bad
  <2> QED
    BY <1>1, <2>1, SmallestOf
<1>3. m # 0
  BY <1>2
<1>4. m \in 1 .. k /\ m - 1 \in 0 .. k /\ ~(m <= m - 1)
  BY <1>2, <1>3
<1> QED
  BY <1>2, <1>4

\* The first k values of an iteration that starts at a.
Iterates(g, a, step, k) == g = [n \in 0 .. k |-> IF n = 0 THEN a ELSE step[n][g[n - 1]]]

LEMMA IteratesGrow ==
    ASSUME NEW a, NEW step, NEW k \in Nat, \E g : Iterates(g, a, step, k)
    PROVE  \E g : Iterates(g, a, step, k + 1)
<1>1. PICK g : Iterates(g, a, step, k)
  OBVIOUS
<1> DEFINE h == [n \in 0 .. k + 1 |-> IF n = k + 1 THEN step[n][g[k]] ELSE g[n]]
<1>2. ASSUME NEW n \in 0 .. k PROVE h[n] = g[n]
  OBVIOUS
<1>3. h[k + 1] = step[k + 1][g[k]]
  OBVIOUS
<1>4. ASSUME NEW n \in 0 .. k + 1
      PROVE  h[n] = IF n = 0 THEN a ELSE step[n][h[n - 1]]
  <2> HIDE DEF h
  <2>1. CASE n = k + 1
    <3>1. n # 0 /\ n - 1 = k /\ k \in 0 .. k
      BY <2>1
    <3>2. h[k] = g[k]
      BY <1>2, <3>1
    <3> QED
      BY <1>3, <2>1, <3>1, <3>2
  <2>2. CASE n = 0
    <3>1. g[0] = a
      BY <1>1 DEF Iterates
    <3> QED
      BY <1>2, <2>2, <3>1
  <2>3. CASE n # 0 /\ n # k + 1
    <3>1. n \in 0 .. k /\ n - 1 \in 0 .. k
      BY <2>3
    <3>2. g[n] = step[n][g[n - 1]]
      BY <1>1, <2>3, <3>1 DEF Iterates
    <3>3. h[n] = g[n] /\ h[n - 1] = g[n - 1]
      BY <1>2, <3>1
    <3> QED
      BY <2>3, <3>2, <3>3
  <2> QED
    BY <2>1, <2>2, <2>3
<1>5. Iterates(h, a, step, k + 1)
  <2> DEFINE r == [n \in 0 .. k + 1 |-> IF n = 0 THEN a ELSE step[n][h[n - 1]]]
  <2>1. \A n \in 0 .. k + 1 : h[n] = r[n]
    BY <1>4
  <2>2. h = r
    BY <2>1
  <2> QED
    BY <2>2 DEF Iterates
<1> QED
  BY <1>5

LEMMA IterationsExist ==
    ASSUME NEW a, NEW step, NEW k \in Nat
    PROVE  \E g : Iterates(g, a, step, k)
<1> DEFINE Bad == {n \in Nat : ~\E g : Iterates(g, a, step, n)}
<1>1. SUFFICES ASSUME Bad # {} PROVE FALSE
  OBVIOUS
<1>2. PICK m \in Bad : \A n \in Bad : m <= n
  BY <1>1, SmallestOf
<1>3. CASE m = 0
  <2> DEFINE g == [n \in 0 .. 0 |-> a]
  <2>1. g = [n \in 0 .. 0 |-> IF n = 0 THEN a ELSE step[n][g[n - 1]]]
    OBVIOUS
  <2>2. Iterates(g, a, step, 0)
    BY <2>1 DEF Iterates
  <2> QED
    BY <1>3, <2>2
<1>4. CASE m # 0
  <2>1. m - 1 \in Nat /\ (m - 1) + 1 = m /\ ~(m <= m - 1)
    BY <1>4
  <2>2. \E g : Iterates(g, a, step, m - 1)
    BY <1>2, <2>1
  <2>3. \E g : Iterates(g, a, step, m)
    BY <2>1, <2>2, IteratesGrow
  <2> QED
    BY <2>3
<1> QED
  BY <1>3, <1>4

LEMMA Align8Is ==
    ASSUME NEW n \in Nat
    PROVE  /\ Align8(n) \in Nat /\ Align8(n) % 8 = 0 /\ n <= Align8(n)
           /\ \A m \in Nat : m % 8 = 0 /\ n <= m => Align8(n) <= m
BY DEF Align8

\* What lies clear of an item lies clear of its padding.
LEMMA Padded ==
    ASSUME NEW at \in Nat, at % 8 = 0, NEW len \in Nat, NEW end \in Nat, end % 8 = 0,
           at + len <= end
    PROVE  at + Align8(len) <= end
<1>1. end - at \in Nat /\ (end - at) % 8 = 0 /\ len <= end - at
  OBVIOUS
<1>2. Align8(len) \in Nat /\ Align8(len) <= end - at
  BY <1>1, Align8Is
<1> QED
  BY <1>2

LEMMA Lowered ==
    ASSUME NEW a \in Nat, NEW u \in Nat, a % 8 = 0, u % 8 = 0, NEW len \in Nat, 0 < len, len <= a,
           NEW k \in Nat, NEW v \in Int, v = u - a, 24 + 4 * k <= v
    PROVE  v \in Nat /\ v % 8 = 0 /\ v + len <= u /\ v < u
OBVIOUS

LEMMA AlignUpIs ==
    ASSUME NEW n \in Nat, NEW a \in {1, 4, 8}
    PROVE  AlignUp(n, a) \in Nat /\ n <= AlignUp(n, a)
BY DEF AlignUp

\* A recursive function over 0 to k with values in S.
Recursion(g, a, step, k, S) ==
    /\ g = [i \in 0 .. k |-> g[i]] /\ \A i \in 0 .. k : g[i] \in S
    /\ g[0] = a /\ \A i \in 1 .. k : g[i] = step[i][g[i - 1]]

StepsIn(step, k, S) == \A i \in 1 .. k : \A x \in S : step[i][x] \in S

LEMMA RecursionExists ==
    ASSUME NEW k \in Nat, NEW S, NEW a \in S, NEW step, StepsIn(step, k, S)
    PROVE  \E g : Recursion(g, a, step, k, S)
<1>1. PICK g : Iterates(g, a, step, k)
  BY IterationsExist
<1>2. /\ g[0] = a /\ \A i \in 1 .. k : g[i] = step[i][g[i - 1]]
      /\ g = [i \in 0 .. k |-> g[i]]
  <2>1. g = [i \in 0 .. k |-> IF i = 0 THEN a ELSE step[i][g[i - 1]]]
    BY <1>1 DEF Iterates
  <2>2. 0 \in 0 .. k /\ \A i \in 1 .. k : i \in 0 .. k /\ i # 0
    OBVIOUS
  <2> QED
    BY <2>1, <2>2
<1>3. \A i \in 1 .. k : g[i - 1] \in S => g[i] \in S
  BY <1>2 DEF StepsIn
<1>4. \A i \in 0 .. k : g[i] \in S
  BY <1>2, <1>3, StaysIn
<1> QED
  BY <1>2, <1>4 DEF Recursion

\* What never falls from one number to the next does not fall at all.
LEMMA NeverFalls ==
    ASSUME NEW k \in Nat, NEW e, \A i \in 0 .. k : e[i] \in Int,
           \A i \in 1 .. k : e[i - 1] <= e[i]
    PROVE  \A i, j \in 0 .. k : i <= j => e[i] <= e[j]
<1> SUFFICES ASSUME NEW i \in 0 .. k PROVE \A j \in i .. k : e[i] <= e[j]
  OBVIOUS
<1> DEFINE Bad == {j \in i .. k : ~(e[i] <= e[j])}
<1>1. SUFFICES ASSUME Bad # {} PROVE FALSE
  OBVIOUS
<1>2. PICK m \in Bad : \A j \in Bad : m <= j
  <2>1. Bad \in SUBSET Nat
    OBVIOUS
  <2> HIDE DEF Bad
  <2> QED
    BY <1>1, <2>1, SmallestOf
<1>3. m \in i .. k /\ ~(e[i] <= e[m]) /\ e[i] \in Int /\ e[m] \in Int
  BY <1>2
<1>4. m # i
  BY <1>3
<1>5. m - 1 \in i .. k /\ m \in 1 .. k /\ m - 1 \in 0 .. k /\ ~(m <= m - 1)
  BY <1>3, <1>4
<1>6. e[i] <= e[m - 1] /\ e[m - 1] <= e[m] /\ e[m - 1] \in Int
  BY <1>2, <1>5
<1> QED
  BY <1>3, <1>6

-----------------------------------------------------------------------------
(* Form and Deform.                                                        *)

\* What Insert leaves of a tuple is that; the header fields change.
Body(t) == [natts |-> t.natts, hasNull |-> t.hasNull, present |-> t.present,
            hoff |-> t.hoff, len |-> t.len, data |-> t.data]

HasNull(desc, row) == \E i \in 1 .. Len(desc) : row[i] = Null
Present(desc, row) == {i \in 1 .. Len(desc) : row[i] # Null}
HoffOf(desc, row)  == Hoff(Len(desc), HasNull(desc, row))

LEMMA TypesAre ==
    ASSUME NEW type \in Types, NEW v \in Nat
    PROVE  Align(type) \in {1, 4, 8} /\ Bytes(type, v) \in Nat /\ Bytes(type, v) > 0
BY DEF Types, Align, Bytes, Size

LEMMA HoffIs ==
    ASSUME NEW n \in Nat, NEW b \in BOOLEAN
    PROVE  Hoff(n, b) \in Nat /\ 24 <= Hoff(n, b)
BY DEF Hoff, AlignUp, FixedHeaderSize

LEMMA EndIs ==
    ASSUME NEW type \in Types, NEW v \in Values, NEW pos \in Nat
    PROVE  /\ EndOf(type, v, pos) \in Nat /\ pos <= EndOf(type, v, pos)
           /\ v = Null => EndOf(type, v, pos) = pos
           /\ v # Null => /\ EndOf(type, v, pos) = AlignUp(pos, Align(type)) + Bytes(type, v)
                          /\ AlignUp(pos, Align(type)) \in Nat /\ pos <= AlignUp(pos, Align(type))
                          /\ AlignUp(pos, Align(type)) < EndOf(type, v, pos)
<1>1. CASE v = Null
  BY <1>1 DEF EndOf
<1>2. CASE v # Null
  <2>1. v \in Nat
    BY <1>2 DEF Values
  <2>2. Align(type) \in {1, 4, 8} /\ Bytes(type, v) \in Nat /\ Bytes(type, v) > 0
    BY <2>1, TypesAre
  <2>3. AlignUp(pos, Align(type)) \in Nat /\ pos <= AlignUp(pos, Align(type))
    BY <2>2, AlignUpIs
  <2>4. EndOf(type, v, pos) = AlignUp(pos, Align(type)) + Bytes(type, v)
    BY <1>2 DEF EndOf
  <2> QED
    BY <1>2, <2>2, <2>3, <2>4
<1> QED
  BY <1>1, <1>2

LEMMA EndsAre ==
    ASSUME NEW desc \in Seq(Types), NEW row \in [1 .. Len(desc) -> Values], NEW hoff \in Nat
    PROVE  LET e == Ends(desc, row, hoff)
           IN  /\ e \in [0 .. Len(desc) -> Nat] /\ e[0] = hoff
               /\ \A i \in 1 .. Len(desc) : e[i] = EndOf(desc[i], row[i], e[i - 1])
               /\ \A i, j \in 0 .. Len(desc) : i <= j => e[i] <= e[j]
<1> DEFINE n == Len(desc)
           step == [i \in 1 .. n |-> [x \in Nat |-> EndOf(desc[i], row[i], x)]]
           e == Ends(desc, row, hoff)
<1>1. n \in Nat /\ \A i \in 1 .. n : desc[i] \in Types /\ row[i] \in Values
  OBVIOUS
<1>2. StepsIn(step, n, Nat)
  BY <1>1, EndIs DEF StepsIn
<1>3. PICK g : Recursion(g, hoff, step, n, Nat)
  <2> HIDE DEF step, n
  <2>1. n \in Nat /\ hoff \in Nat
    BY <1>1
  <2> QED
    BY ONLY <1>2, <2>1, RecursionExists
<1>4. g = [i \in 0 .. n |-> IF i = 0 THEN hoff ELSE EndOf(desc[i], row[i], g[i - 1])]
  <2> DEFINE r == [i \in 0 .. n |-> IF i = 0 THEN hoff ELSE EndOf(desc[i], row[i], g[i - 1])]
  <2>1. g = [i \in 0 .. n |-> g[i]] /\ g[0] = hoff
    BY <1>3 DEF Recursion
  <2>2. ASSUME NEW i \in 1 .. n PROVE g[i] = EndOf(desc[i], row[i], g[i - 1])
    <3>1. g[i - 1] \in Nat /\ g[i] = step[i][g[i - 1]]
      <4> HIDE DEF step
      <4>1. i - 1 \in 0 .. n
        BY <1>1
      <4> QED
        BY <1>3, <4>1 DEF Recursion
    <3> QED
      BY <3>1
  <2>3. \A i \in 0 .. n : i = 0 \/ i \in 1 .. n
    BY <1>1
  <2>4. \A i \in 0 .. n : g[i] = r[i]
    BY <2>1, <2>2, <2>3
  <2>5. g = r
    BY <2>1, <2>4
  <2> QED
    BY <2>5
<1>5. e = [i \in 0 .. n |-> IF i = 0 THEN hoff ELSE EndOf(desc[i], row[i], e[i - 1])]
  BY <1>4 DEF Ends
<1> HIDE DEF e
<1>6. /\ e[0] = hoff /\ \A i \in 1 .. n : e[i] = EndOf(desc[i], row[i], e[i - 1])
      /\ e = [i \in 0 .. n |-> e[i]]
  <2>1. 0 \in 0 .. n /\ \A i \in 1 .. n : i \in 0 .. n /\ i # 0
    BY <1>1
  <2> QED
    BY <1>5, <2>1
<1>7. ASSUME NEW i \in 1 .. n, e[i - 1] \in Nat PROVE e[i] \in Nat
  <2>1. desc[i] \in Types /\ row[i] \in Values /\ e[i] = EndOf(desc[i], row[i], e[i - 1])
    BY <1>1, <1>6
  <2>2. \A x \in Nat : EndOf(desc[i], row[i], x) \in Nat
    BY <2>1, EndIs
  <2> QED
    BY <1>7, <2>1, <2>2
<1>8. \A i \in 0 .. n : e[i] \in Nat
  BY <1>1, <1>6, <1>7, StaysIn
<1>9. e \in [0 .. n -> Nat]
  BY <1>6, <1>8
<1>10. \A i \in 1 .. n : e[i - 1] <= e[i]
  <2> TAKE i \in 1 .. n
  <2>1. e[i - 1] \in Nat
    BY <1>1, <1>8
  <2> QED
    BY <1>1, <1>6, <2>1, EndIs
<1>11. \A i, j \in 0 .. n : i <= j => e[i] <= e[j]
  <2>1. \A i \in 0 .. n : e[i] \in Int
    BY <1>8
  <2> HIDE DEF n
  <2> QED
    BY <1>1, <1>10, <2>1, NeverFalls
<1> QED
  BY <1>6, <1>9, <1>11 DEF e

LEMMA FormIs ==
    ASSUME NEW desc \in Seq(Types), NEW row \in [1 .. Len(desc) -> Values]
    PROVE  LET e == Ends(desc, row, HoffOf(desc, row))
               f == Form(desc, row)
               start(i) == StartOf(desc, i, e[i - 1])
           IN  /\ f.natts = Len(desc) /\ f.hasNull = HasNull(desc, row)
               /\ f.present = Present(desc, row) /\ f.hoff = HoffOf(desc, row)
               /\ f.len = e[Len(desc)]
               /\ DOMAIN f.data = {start(i) : i \in Present(desc, row)}
               /\ \A i \in Present(desc, row) :
                     /\ row[i] \in Nat /\ start(i) \in Nat /\ e[i - 1] <= start(i)
                     /\ e[i] = start(i) + Bytes(desc[i], row[i])
                     /\ f.data[start(i)] = row[i]
<1> DEFINE n == Len(desc)
           e == Ends(desc, row, HoffOf(desc, row))
           f == Form(desc, row)
           present == Present(desc, row)
           start(i) == StartOf(desc, i, e[i - 1])
<1>1. /\ f.natts = n /\ f.hasNull = HasNull(desc, row) /\ f.present = present
      /\ f.hoff = HoffOf(desc, row) /\ f.len = e[n]
      /\ f.data = [o \in {start(i) : i \in present} |->
                      row[CHOOSE i \in present : start(i) = o]]
  BY DEF Form, HasNull, Present, HoffOf
<1>2. HoffOf(desc, row) \in Nat
  <2>1. Len(desc) \in Nat /\ HasNull(desc, row) \in BOOLEAN
    BY DEF HasNull
  <2> QED
    BY <2>1, HoffIs DEF HoffOf
<1>3. /\ e \in [0 .. n -> Nat] /\ \A i \in 1 .. n : e[i] = EndOf(desc[i], row[i], e[i - 1])
      /\ \A i, j \in 0 .. n : i <= j => e[i] <= e[j]
  BY <1>2, EndsAre
<1> HIDE DEF e, f
<1>4. n \in Nat /\ \A i \in 1 .. n : i - 1 \in 0 .. n /\ i \in 0 .. n
  OBVIOUS
<1>5. ASSUME NEW i \in present
      PROVE  /\ i \in 1 .. n /\ row[i] \in Nat /\ start(i) \in Nat /\ e[i - 1] <= start(i)
             /\ e[i] = start(i) + Bytes(desc[i], row[i]) /\ start(i) < e[i]
  <2>1. i \in 1 .. n /\ row[i] # Null /\ row[i] \in Values /\ desc[i] \in Types
    BY DEF Present
  <2>2. row[i] \in Nat
    BY <2>1 DEF Values
  <2>3. PICK x \in Nat : x = e[i - 1]
    BY <1>3, <1>4, <2>1
  <2>4. /\ EndOf(desc[i], row[i], x) = AlignUp(x, Align(desc[i])) + Bytes(desc[i], row[i])
        /\ AlignUp(x, Align(desc[i])) \in Nat /\ x <= AlignUp(x, Align(desc[i]))
        /\ AlignUp(x, Align(desc[i])) < EndOf(desc[i], row[i], x)
    BY <2>1, EndIs
  <2>5. e[i] = EndOf(desc[i], row[i], x)
    BY <1>3, <2>1, <2>3
  <2> QED
    BY <2>1, <2>2, <2>3, <2>4, <2>5 DEF StartOf
<1>6. ASSUME NEW i \in present, NEW j \in present, i < j PROVE start(i) < start(j)
  <2>1. i \in 0 .. n /\ j - 1 \in 0 .. n /\ i <= j - 1
    BY <1>4, <1>5, <1>6
  <2>2. e[i] <= e[j - 1]
    BY <1>3, <2>1
  <2>3. start(i) < e[i] /\ e[j - 1] <= start(j) /\ start(i) \in Nat /\ start(j) \in Nat
    BY <1>5
  <2>4. e[i] \in Nat /\ e[j - 1] \in Nat
    BY <1>3, <2>1
  <2> HIDE DEF start
  <2> QED
    BY <2>2, <2>3, <2>4
<1>7. ASSUME NEW i \in present, NEW j \in present, start(i) = start(j) PROVE i = j
  <2>1. i < j \/ j < i \/ i = j
    BY <1>5
  <2>2. start(i) \in Nat /\ start(j) \in Nat
    BY <1>5
  <2> HIDE DEF start
  <2> QED
    BY <1>6, <1>7, <2>1, <2>2
<1>8. ASSUME NEW i \in present PROVE f.data[start(i)] = row[i]
  <2> DEFINE c == CHOOSE j \in present : start(j) = start(i)
  <2>1. c \in present /\ start(c) = start(i)
    OBVIOUS
  <2>2. c = i
    <3> HIDE DEF c, start
    <3> QED
      BY <1>7, <2>1
  <2>3. f.data[start(i)] = row[c]
    BY <1>1
  <2> QED
    BY <2>2, <2>3
<1>9. DOMAIN f.data = {start(i) : i \in present}
  BY <1>1
<1> QED
  BY <1>1, <1>5, <1>8, <1>9 DEF e, f

LEMMA FormLen ==
    ASSUME NEW desc \in Seq(Types), NEW row \in [1 .. Len(desc) -> Values]
    PROVE  Form(desc, row).len \in Nat /\ 0 < Form(desc, row).len
<1> DEFINE n == Len(desc)
           hoff == HoffOf(desc, row)
           e == Ends(desc, row, hoff)
<1>1. Len(desc) \in Nat /\ HasNull(desc, row) \in BOOLEAN
  BY DEF HasNull
<1>2. hoff \in Nat /\ 24 <= hoff
  BY <1>1, HoffIs DEF HoffOf
<1>3. e \in [0 .. n -> Nat] /\ e[0] = hoff /\ \A i, j \in 0 .. n : i <= j => e[i] <= e[j]
  BY <1>2, EndsAre
<1>4. Form(desc, row).len = e[n]
  BY FormIs
<1> HIDE DEF e, hoff
<1>5. e[0] <= e[n] /\ e[n] \in Nat
  BY <1>1, <1>3
<1> QED
  BY <1>2, <1>3, <1>4, <1>5

\* Deform reads a row back, whatever Insert and its successors have put into
\* the fields of the header that say who sees the tuple.
LEMMA DeformForm ==
    ASSUME NEW desc \in Seq(Types), NEW row \in [1 .. Len(desc) -> Values],
           NEW t, Body(t) = Body(Form(desc, row))
    PROVE  Deform(desc, t) = row
<1> DEFINE n == Len(desc)
           hoff == HoffOf(desc, row)
           e == Ends(desc, row, hoff)
           r == ReadEnds(desc, t)
           start(i) == StartOf(desc, i, e[i - 1])
<1>1. hoff \in Nat /\ 24 <= hoff /\ n \in Nat
  <2>1. Len(desc) \in Nat /\ HasNull(desc, row) \in BOOLEAN
    BY DEF HasNull
  <2> QED
    BY <2>1, HoffIs DEF HoffOf
<1>2. /\ e \in [0 .. n -> Nat] /\ e[0] = hoff
      /\ \A i \in 1 .. n : e[i] = EndOf(desc[i], row[i], e[i - 1])
      /\ \A i, j \in 0 .. n : i <= j => e[i] <= e[j]
  BY <1>1, EndsAre
<1>3. /\ t.natts = n /\ t.hasNull = HasNull(desc, row)
      /\ t.present = Present(desc, row) /\ t.hoff = hoff /\ t.len = e[n]
      /\ \A i \in Present(desc, row) :
            /\ start(i) \in DOMAIN t.data /\ t.data[start(i)] = row[i]
            /\ e[i] = start(i) + Bytes(desc[i], row[i])
  <2> DEFINE f == Form(desc, row)
  <2>1. /\ t.natts = f.natts /\ t.hasNull = f.hasNull /\ t.present = f.present
        /\ t.hoff = f.hoff /\ t.len = f.len /\ t.data = f.data
    <3> HIDE DEF f
    <3>1. Body(t) = Body(f)
      BY DEF f
    <3> QED
      BY <3>1 DEF Body
  <2>2. /\ f.natts = n /\ f.hasNull = HasNull(desc, row)
        /\ f.present = Present(desc, row) /\ f.hoff = hoff /\ f.len = e[n]
        /\ DOMAIN f.data = {start(i) : i \in Present(desc, row)}
        /\ \A i \in Present(desc, row) :
              /\ e[i] = start(i) + Bytes(desc[i], row[i])
              /\ f.data[start(i)] = row[i]
    BY FormIs
  <2> HIDE DEF f, e, start, n, hoff
  <2> QED
    BY <2>1, <2>2
<1> HIDE DEF e, r
<1>4. ASSUME NEW i \in 1 .. n
      PROVE  /\ IsNull(t, i) <=> row[i] = Null
             /\ row[i] = Null => e[i] = e[i - 1]
             /\ row[i] # Null => i \in Present(desc, row)
  <2>1. e[i] = EndOf(desc[i], row[i], e[i - 1])
    BY <1>2
  <2>2. row[i] = Null => HasNull(desc, row)
    BY DEF HasNull
  <2>3. i \in Present(desc, row) <=> row[i] # Null
    BY DEF Present
  <2>4. ~(i > n)
    BY <1>1
  <2>5. IsNull(t, i) <=> (HasNull(desc, row) /\ i \notin Present(desc, row))
    BY <1>3, <2>4 DEF IsNull
  <2> QED
    BY <2>1, <2>2, <2>3, <2>5 DEF EndOf
<1>5. ASSUME NEW i \in 1 .. n, row[i] # Null
      PROVE  /\ ValueAt(t, start(i)) = row[i]
             /\ e[i] = start(i) + Bytes(desc[i], ValueAt(t, start(i)))
  BY <1>3, <1>4, <1>5 DEF ValueAt
<1> DEFINE Reads(g) == [i \in 0 .. n |->
             IF i = 0 THEN t.hoff
             ELSE IF IsNull(t, i) THEN g[i - 1]
             ELSE LET from == StartOf(desc, i, g[i - 1])
                  IN  from + Bytes(desc[i], ValueAt(t, from))]
<1>6. e = Reads(e)
  <2>1. e[0] = t.hoff
    BY <1>2, <1>3
  <2>2. ASSUME NEW i \in 1 .. n
        PROVE  e[i] = IF IsNull(t, i) THEN e[i - 1]
                      ELSE start(i) + Bytes(desc[i], ValueAt(t, start(i)))
    BY <1>4, <1>5
  <2>3. \A i \in 0 .. n : i = 0 \/ i \in 1 .. n
    BY <1>1
  <2>4. \A i \in 0 .. n : e[i] = Reads(e)[i]
    BY <2>1, <2>2, <2>3
  <2>5. e = [i \in 0 .. n |-> e[i]]
    BY <1>2
  <2> QED
    BY <2>4, <2>5
<1>7. r = Reads(r)
  BY <1>6 DEF r, ReadEnds
<1>8. \A i \in 0 .. n : r[i] = e[i]
  <2> DEFINE same == [i \in 0 .. n |-> IF r[i] = e[i] THEN 0 ELSE 1]
  <2>1. same[0] \in {0}
    <3>1. r[0] = t.hoff
      <4>1. Reads(r)[0] = t.hoff
        BY <1>1
      <4> QED
        BY <1>7, <4>1
    <3> QED
      BY <1>1, <1>2, <1>3, <3>1
  <2>2. ASSUME NEW i \in 1 .. n, same[i - 1] \in {0} PROVE same[i] \in {0}
    <3>1. i \in 0 .. n /\ i - 1 \in 0 .. n /\ i # 0
      BY <1>1
    <3>2. r[i - 1] = e[i - 1]
      BY <2>2, <3>1
    <3>3. Reads(r)[i] = Reads(e)[i]
      BY <3>1, <3>2
    <3>4. r[i] = e[i]
      BY <1>6, <1>7, <3>3
    <3> QED
      BY <3>1, <3>4
  <2>3. \A i \in 0 .. n : same[i] \in {0}
    <3> HIDE DEF same
    <3> QED
      BY <1>1, <2>1, <2>2, StaysIn
  <2> QED
    BY <2>3
<1>9. ~ \/ t.len < FixedHeaderSize \/ t.natts > Len(desc) \/ t.hoff > t.len
        \/ \E i \in 1 .. Len(desc) : r[i] > t.len
  <2>1. 0 \in 0 .. n /\ n \in 0 .. n /\ \A i \in 1 .. n : i \in 0 .. n
    BY <1>1
  <2>2. \A i \in 0 .. n : e[i] <= e[n] /\ e[i] \in Nat
    BY <1>1, <1>2, <2>1
  <2>3. \A i \in 1 .. n : r[i] \in Nat /\ r[i] <= t.len
    BY <1>3, <1>8, <2>1, <2>2
  <2>4. hoff <= e[n] /\ e[n] \in Nat
    BY <1>2, <2>1, <2>2
  <2>5. ~(t.len < FixedHeaderSize) /\ ~(t.hoff > t.len)
    <3> HIDE DEF hoff
    <3> QED
      BY <1>1, <1>3, <2>4 DEF FixedHeaderSize
  <2>6. ~(t.natts > Len(desc))
    BY <1>1, <1>3
  <2>7. t.len \in Nat
    BY <1>3, <2>4
  <2> QED
    BY <2>3, <2>5, <2>6, <2>7
<1>10. Deform(desc, t) = [i \in 1 .. n |->
           IF IsNull(t, i) THEN Null ELSE ValueAt(t, StartOf(desc, i, r[i - 1]))]
  BY <1>9 DEF Deform, r
<1>11. ASSUME NEW i \in 1 .. n
       PROVE  row[i] = IF IsNull(t, i) THEN Null ELSE ValueAt(t, StartOf(desc, i, r[i - 1]))
  <2>1. i - 1 \in 0 .. n
    BY <1>1
  <2>2. r[i - 1] = e[i - 1]
    BY <1>8, <2>1
  <2> QED
    BY <1>4, <1>5, <2>2
<1>12. row = [i \in 1 .. n |-> row[i]]
  OBVIOUS
<1> QED
  BY <1>10, <1>11, <1>12

-----------------------------------------------------------------------------
(* Pages.                                                                  *)

Slots == [off : Nat, len : Nat, normal : BOOLEAN]

IsStore(data) ==
    /\ data = [o \in DOMAIN data |-> data[o]]
    /\ \A o \in DOMAIN data : data[o] = [len |-> data[o].len, item |-> data[o].item]

\* A sound page whose data area is cut into eights and has no empty items.
IsPage(p) ==
    /\ p = [lower |-> p.lower, upper |-> p.upper, special |-> p.special,
            lp |-> p.lp, data |-> p.data]
    /\ p.lower \in Nat /\ p.upper \in Nat /\ p.special \in Nat
    /\ p.upper % 8 = 0 /\ p.special % 8 = 0
    /\ p.lp \in [1 .. NumItems(p) -> Slots]
    /\ IsStore(p.data)
    /\ \A n \in Items(p) : p.lp[n].len > 0
    /\ PageOK(p)

LEMMA NumItemsIs ==
    ASSUME NEW p, p.lower \in Nat
    PROVE  /\ NumItems(p) \in Nat
           /\ \A k \in Nat : p.lower = HeaderSize + LinePointerSize * k => NumItems(p) = k
BY DEF NumItems, HeaderSize, LinePointerSize

LEMMA InitIsPage == IsPage(InitPage(0)) /\ Items(InitPage(0)) = {} /\ InitPage(0) # ZeroPage
<1> DEFINE p == InitPage(0)
<1>1. /\ p.lower = 24 /\ p.upper = PageSize /\ p.special = PageSize /\ p.lp = <<>>
      /\ p.data = NoBytes
      /\ p = [lower |-> p.lower, upper |-> p.upper, special |-> p.special,
              lp |-> p.lp, data |-> p.data]
  BY PageAssumption DEF InitPage, HeaderSize, Align8
<1> HIDE DEF p
<1>2. NumItems(p) = 0
  BY <1>1 DEF NumItems, HeaderSize
<1>3. Items(p) = {}
  BY <1>2 DEF Items
<1>4. p.lp \in [1 .. NumItems(p) -> Slots] /\ DOMAIN p.lp = 1 .. NumItems(p)
  BY <1>1, <1>2
<1>5. IsStore(p.data)
  BY <1>1 DEF IsStore, NoBytes
<1>6. PageOK(p)
  BY <1>1, <1>2, <1>3, <1>4, PageAssumption
     DEF PageOK, HeaderOK, ItemsOK, HeaderSize, LinePointerSize
<1>7. IsPage(p)
  BY <1>1, <1>3, <1>4, <1>5, <1>6, PageAssumption DEF IsPage, HeaderSize
<1>8. p # ZeroPage
  BY <1>1 DEF ZeroPage
<1> QED
  BY <1>3, <1>7, <1>8 DEF p

LEMMA PageIs ==
    ASSUME NEW p, IsPage(p)
    PROVE  /\ NumItems(p) \in Nat /\ Items(p) \in SUBSET (1 .. NumItems(p))
           /\ p.lower = 24 + 4 * NumItems(p) /\ p.lower <= p.upper /\ p.upper <= p.special
           /\ p.special <= PageSize /\ p # ZeroPage
           /\ \A n \in 1 .. NumItems(p) : p.lp[n] \in Slots /\ (n \in Items(p) <=> p.lp[n].normal)
BY NumItemsIs DEF IsPage, PageOK, HeaderOK, Items, HeaderSize, LinePointerSize, ZeroPage

LEMMA ItemIs ==
    ASSUME NEW p, IsPage(p), NEW n \in Items(p)
    PROVE  /\ p.lp[n].off \in Nat /\ p.lp[n].len \in Nat /\ 0 < p.lp[n].len
           /\ p.lp[n].normal = TRUE
           /\ p.lp[n].off % 8 = 0
           /\ p.upper <= p.lp[n].off /\ p.lp[n].off + p.lp[n].len <= p.special
           /\ p.lp[n].off \in DOMAIN p.data
           /\ p.data[p.lp[n].off] = [len |-> p.lp[n].len, item |-> GetItem(p, n)]
           /\ \A m \in Items(p) : m # n =>
                 /\ p.lp[m].off # p.lp[n].off
                 /\ \/ p.lp[n].off + p.lp[n].len <= p.lp[m].off
                    \/ p.lp[m].off + p.lp[m].len <= p.lp[n].off
<1>1. n \in 1 .. NumItems(p) /\ p.lp[n] \in Slots /\ p.lp[n].normal
  BY PageIs
<1>2. p.lp[n].off \in Nat /\ p.lp[n].len \in Nat /\ p.lp[n].normal \in BOOLEAN
  BY <1>1 DEF Slots
<1>3. 0 < p.lp[n].len /\ ItemsOK(p) /\ IsStore(p.data)
  BY <1>2 DEF IsPage, PageOK
<1>4. /\ p.lp[n].off % 8 = 0
      /\ p.upper <= p.lp[n].off /\ p.lp[n].off + p.lp[n].len <= p.special
      /\ p.lp[n].off \in DOMAIN p.data /\ p.data[p.lp[n].off].len = p.lp[n].len
  BY <1>3 DEF ItemsOK
<1>5. p.data[p.lp[n].off] = [len |-> p.lp[n].len, item |-> GetItem(p, n)]
  BY <1>3, <1>4 DEF IsStore, GetItem
<1>6. ASSUME NEW m \in Items(p), m # n
      PROVE  /\ p.lp[m].off # p.lp[n].off
             /\ \/ p.lp[n].off + p.lp[n].len <= p.lp[m].off
                \/ p.lp[m].off + p.lp[m].len <= p.lp[n].off
  <2>1. m \in 1 .. NumItems(p) /\ p.lp[m] \in Slots
    BY PageIs
  <2>2. p.lp[m].off \in Nat /\ p.lp[m].len \in Nat
    BY <2>1 DEF Slots
  <2>3. 0 < p.lp[m].len
    BY <2>2 DEF IsPage
  <2>4. m \in Items(p) \ {n}
    BY <1>6
  <2>5. \/ p.lp[n].off + p.lp[n].len <= p.lp[m].off
        \/ p.lp[m].off + p.lp[m].len <= p.lp[n].off
    BY <1>3, <2>4 DEF ItemsOK
  <2> QED
    BY <1>2, <1>3, <2>2, <2>3, <2>5
<1> QED
  BY <1>1, <1>2, <1>3, <1>4, <1>5, <1>6

\* A write through the slice of an item changes that item and no other.
LEMMA PutItemIs ==
    ASSUME NEW p, IsPage(p), NEW n \in Items(p), NEW item
    PROVE  LET q == PutItem(p, n, item)
           IN  /\ IsPage(q) /\ NumItems(q) = NumItems(p) /\ Items(q) = Items(p)
               /\ \A m \in Items(p) : GetItem(q, m) = IF m = n THEN item ELSE GetItem(p, m)
<1> DEFINE q == PutItem(p, n, item)
           at == p.lp[n].off
           new == [len |-> p.lp[n].len, item |-> item]
<1>1. at \in DOMAIN p.data /\ p.data[at] = [len |-> p.lp[n].len, item |-> GetItem(p, n)]
  BY ItemIs
<1>2. [p.data[at] EXCEPT !.item = item] = new
  BY <1>1
<1>3. q = [lower |-> p.lower, upper |-> p.upper, special |-> p.special, lp |-> p.lp,
           data |-> [p.data EXCEPT ![at] = new]]
  <2>1. q = [p EXCEPT !.data = [p.data EXCEPT ![at] = [p.data[at] EXCEPT !.item = item]]]
    BY DEF PutItem
  <2>2. p = [lower |-> p.lower, upper |-> p.upper, special |-> p.special,
             lp |-> p.lp, data |-> p.data]
    BY DEF IsPage
  <2> HIDE DEF q, at, new
  <2> QED
    BY <1>2, <2>1, <2>2
<1>4. /\ q.lower = p.lower /\ q.upper = p.upper /\ q.special = p.special /\ q.lp = p.lp
      /\ q = [lower |-> q.lower, upper |-> q.upper, special |-> q.special,
              lp |-> q.lp, data |-> q.data]
      /\ DOMAIN q.data = DOMAIN p.data
      /\ \A o \in DOMAIN p.data : q.data[o] = IF o = at THEN new ELSE p.data[o]
  <2> HIDE DEF q, at, new
  <2> QED
    BY <1>3
<1> HIDE DEF q
<1>5. NumItems(q) = NumItems(p) /\ Items(q) = Items(p)
  BY <1>4 DEF NumItems, Items
<1>6. IsStore(q.data)
  <2>1. q.data = [o \in DOMAIN q.data |-> q.data[o]]
    BY <1>3, <1>4
  <2>2. IsStore(p.data)
    BY DEF IsPage
  <2> QED
    BY <1>4, <2>1, <2>2 DEF IsStore
<1>7. \A m \in Items(p) : q.data[q.lp[m].off] = IF m = n THEN new ELSE p.data[p.lp[m].off]
  <2> TAKE m \in Items(p)
  <2>1. p.lp[m].off \in DOMAIN p.data /\ (m # n => p.lp[m].off # at)
    BY ItemIs
  <2> QED
    BY <1>4, <2>1
<1>8. \A m \in Items(p) : GetItem(q, m) = IF m = n THEN item ELSE GetItem(p, m)
  BY <1>7 DEF GetItem
<1>9. \A m \in Items(p) : q.data[q.lp[m].off].len = p.lp[m].len
  <2> TAKE m \in Items(p)
  <2>1. p.data[p.lp[m].off] = [len |-> p.lp[m].len, item |-> GetItem(p, m)]
    BY ItemIs
  <2>2. p.data[p.lp[m].off].len = p.lp[m].len
    BY <2>1
  <2> HIDE DEF at
  <2> QED
    BY <1>4, <1>7, <2>2
<1>10. PageOK(q)
  <2>1. HeaderOK(q)
    BY <1>4, <1>5 DEF IsPage, PageOK, HeaderOK
  <2>2. ItemsOK(q)
    BY <1>4, <1>5, <1>9 DEF IsPage, PageOK, ItemsOK
  <2> QED
    BY <2>1, <2>2 DEF PageOK
<1>11. IsPage(q)
  BY <1>4, <1>5, <1>6, <1>10 DEF IsPage
<1> QED
  BY <1>5, <1>8, <1>11 DEF q

\* Copy leaves alone what lies clear of it.
LEMMA CopyIs ==
    ASSUME NEW data, NEW at, NEW len, NEW item, IsStore(data)
    PROVE  LET d == Copy(data, at, len, item)
           IN  /\ IsStore(d) /\ at \in DOMAIN d /\ d[at] = [len |-> len, item |-> item]
               /\ \A o \in DOMAIN data : o # at /\ (o + data[o].len <= at \/ at + len <= o) =>
                     o \in DOMAIN d /\ d[o] = data[o]
<1> DEFINE Clear == {o \in DOMAIN data : o + data[o].len <= at \/ at + len <= o}
           d == Copy(data, at, len, item)
<1>1. d = [o \in {at} \cup Clear |-> IF o = at THEN [len |-> len, item |-> item] ELSE data[o]]
  BY DEF Copy
<1>2. Clear \in SUBSET DOMAIN data
  OBVIOUS
<1>3. \A o \in DOMAIN data : o \in Clear <=> (o + data[o].len <= at \/ at + len <= o)
  OBVIOUS
<1> HIDE DEF d, Clear
<1>4. IsStore(d)
  BY <1>1, <1>2 DEF IsStore
<1> QED
  BY <1>1, <1>3, <1>4 DEF d

\* Each of the k line pointers but n is one of p's, that of was[m].
Carries(p, lp, was, k, n) ==
    /\ \A m \in 1 .. k : m # n /\ lp[m].normal => was[m] \in Items(p) /\ lp[m] = p.lp[was[m]]
    /\ \A m, j \in 1 .. k : m # n /\ j # n /\ m # j => was[m] # was[j]

\* q is p with a new item below the others, at line pointer n.
Placed(q, p, item, len, k, n, lp, was, upper) ==
    /\ upper = p.upper - Align8(len) /\ 24 + 4 * k <= upper
    /\ lp[n] = NormalItem(upper, len)
    /\ Carries(p, lp, was, k, n)
    /\ q = [lower |-> 24 + 4 * k, upper |-> upper, special |-> p.special,
            lp |-> lp, data |-> Copy(p.data, upper, len, item)]

LEMMA PlaceIs ==
    ASSUME NEW p, IsPage(p), NEW item, NEW len \in Nat, 0 < len,
           NEW k \in Nat, NEW n \in 1 .. k, NEW lp \in [1 .. k -> Slots], NEW was,
           NEW upper \in Int, NEW q, Placed(q, p, item, len, k, n, lp, was, upper)
    PROVE  /\ IsPage(q) /\ NumItems(q) = k /\ n \in Items(q) /\ GetItem(q, n) = item
           /\ \A m \in 1 .. k : m # n => /\ m \in Items(q) <=> lp[m].normal
                                         /\ m \in Items(q) => GetItem(q, m) = GetItem(p, was[m])
<1> DEFINE d == Copy(p.data, upper, len, item)
<1> USE DEF Placed
<1>1. /\ Align8(len) \in Nat /\ Align8(len) % 8 = 0 /\ len <= Align8(len)
      /\ p.upper \in Nat /\ p.upper % 8 = 0 /\ p.special \in Nat /\ p.special % 8 = 0
      /\ p.upper <= p.special /\ p.special <= PageSize
  BY Align8Is, PageIs DEF IsPage
<1>2. upper \in Nat /\ upper % 8 = 0 /\ upper + len <= p.upper /\ upper < p.upper
  BY <1>1, Lowered
<1>3. /\ IsStore(d) /\ upper \in DOMAIN d /\ d[upper] = [len |-> len, item |-> item]
      /\ \A o \in DOMAIN p.data : o # upper /\ (o + p.data[o].len <= upper \/ upper + len <= o) =>
            o \in DOMAIN d /\ d[o] = p.data[o]
  <2>1. IsStore(p.data)
    BY DEF IsPage
  <2> QED
    BY <2>1, CopyIs
<1>4. /\ q.lower = 24 + 4 * k /\ q.upper = upper /\ q.special = p.special /\ q.lp = lp
      /\ q.data = d
      /\ q = [lower |-> q.lower, upper |-> q.upper, special |-> q.special,
              lp |-> q.lp, data |-> q.data]
  OBVIOUS
<1> HIDE DEF d
<1>5. NumItems(q) = k
  BY <1>4, NumItemsIs DEF HeaderSize, LinePointerSize
<1>6. Items(q) = {m \in 1 .. k : lp[m].normal}
  BY <1>4, <1>5 DEF Items
<1>7. /\ lp[n].off = upper /\ lp[n].len = len /\ lp[n].normal = TRUE /\ n \in Items(q)
  BY <1>6 DEF NormalItem
<1>8. ASSUME NEW m \in Items(q), m # n
      PROVE  /\ was[m] \in Items(p) /\ lp[m] = p.lp[was[m]]
             /\ lp[m].off \in Nat /\ lp[m].len \in Nat /\ 0 < lp[m].len /\ lp[m].off % 8 = 0
             /\ upper + len <= lp[m].off /\ lp[m].off + lp[m].len <= p.special
             /\ lp[m].off \in DOMAIN d
             /\ d[lp[m].off] = [len |-> lp[m].len, item |-> GetItem(p, was[m])]
  <2> DEFINE w == was[m]
             s == lp[m]
  <2>1. w \in Items(p) /\ s = p.lp[w]
    BY <1>6, <1>8 DEF Carries
  <2> HIDE DEF w, s
  <2>2. /\ s.off \in Nat /\ s.len \in Nat /\ 0 < s.len /\ s.off % 8 = 0
        /\ p.upper <= s.off /\ s.off + s.len <= p.special /\ s.off \in DOMAIN p.data
        /\ p.data[s.off] = [len |-> s.len, item |-> GetItem(p, w)]
    BY ONLY IsPage(p), <2>1, ItemIs
  <2>3. upper + len <= s.off /\ s.off # upper
    BY ONLY <1>1, <1>2, <2>2, len \in Nat, 0 < len
  <2>4. s.off \in DOMAIN d /\ d[s.off] = p.data[s.off]
    BY <1>3, <2>2, <2>3
  <2> QED
    BY ONLY <2>1, <2>2, <2>3, <2>4 DEF w, s
<1>9. ASSUME NEW m \in Items(q), NEW j \in Items(q), m # j
      PROVE  lp[m].off + lp[m].len <= lp[j].off \/ lp[j].off + lp[j].len <= lp[m].off
  <2>1. CASE m = n
    BY <1>7, <1>8, <1>9, <2>1
  <2>2. CASE j = n
    BY <1>7, <1>8, <1>9, <2>2
  <2>3. CASE m # n /\ j # n
    <3> DEFINE v == was[m]
               w == was[j]
    <3>1. v # w
      BY <1>6, <1>9, <2>3 DEF Carries
    <3>2. v \in Items(p) /\ w \in Items(p) /\ lp[m] = p.lp[v] /\ lp[j] = p.lp[w]
      BY <1>8, <2>3
    <3> HIDE DEF v, w
    <3>3. p.lp[v].off + p.lp[v].len <= p.lp[w].off \/ p.lp[w].off + p.lp[w].len <= p.lp[v].off
      BY ONLY IsPage(p), <3>1, <3>2, ItemIs
    <3> QED
      BY ONLY <3>2, <3>3
  <2> QED
    BY <2>1, <2>2, <2>3
<1>10. ASSUME NEW m \in Items(q)
       PROVE  /\ lp[m].off % 8 = 0 /\ upper <= lp[m].off /\ lp[m].off + lp[m].len <= p.special
              /\ lp[m].off \in DOMAIN d /\ d[lp[m].off].len = lp[m].len /\ lp[m].len > 0
  <2> DEFINE s == lp[m]
  <2>1. CASE m = n
    <3>1. s.off = upper /\ s.len = len
      BY <1>7, <2>1
    <3>2. upper + len <= p.special
      BY ONLY <1>1, <1>2, len \in Nat
    <3> HIDE DEF s
    <3>3. /\ s.off % 8 = 0 /\ upper <= s.off /\ s.off + s.len <= p.special
          /\ s.off \in DOMAIN d /\ d[s.off].len = s.len /\ s.len > 0
      BY ONLY <1>2, <1>3, <3>1, <3>2, len \in Nat, 0 < len
    <3> QED
      BY ONLY <3>3 DEF s
  <2>2. CASE m # n
    <3>1. /\ s.off \in Nat /\ s.len \in Nat /\ 0 < s.len /\ s.off % 8 = 0
          /\ upper + len <= s.off /\ s.off + s.len <= p.special
          /\ s.off \in DOMAIN d
          /\ d[s.off] = [len |-> s.len, item |-> GetItem(p, was[m])]
      BY <1>8, <2>2
    <3> HIDE DEF s
    <3>2. upper <= s.off /\ d[s.off].len = s.len
      BY ONLY <1>2, <3>1, len \in Nat, 0 < len
    <3>3. /\ s.off % 8 = 0 /\ upper <= s.off /\ s.off + s.len <= p.special
          /\ s.off \in DOMAIN d /\ d[s.off].len = s.len /\ s.len > 0
      BY ONLY <3>1, <3>2
    <3> QED
      BY ONLY <3>3 DEF s
  <2> QED
    BY <2>1, <2>2
<1>11. PageOK(q)
  <2>1. HeaderOK(q)
    <3>1. DOMAIN q.lp = 1 .. NumItems(q)
      BY ONLY <1>4, <1>5, lp \in [1 .. k -> Slots]
    <3>2. 24 + 4 * k <= upper /\ upper <= p.special
      BY ONLY <1>1, <1>2, Placed(q, p, item, len, k, n, lp, was, upper) DEF Placed
    <3> QED
      BY ONLY <1>1, <1>2, <1>4, <1>5, <3>1, <3>2, k \in Nat
         DEF HeaderOK, HeaderSize, LinePointerSize
  <2>2. ItemsOK(q)
    BY <1>4, <1>9, <1>10 DEF ItemsOK
  <2> QED
    BY <2>1, <2>2 DEF PageOK
<1>12. IsPage(q)
  <2>1. /\ q.lower \in Nat /\ q.upper \in Nat /\ q.special \in Nat
        /\ q.upper % 8 = 0 /\ q.special % 8 = 0
    BY ONLY <1>1, <1>2, <1>4, k \in Nat
  <2>2. q.lp \in [1 .. NumItems(q) -> Slots]
    BY ONLY <1>4, <1>5, lp \in [1 .. k -> Slots]
  <2>3. IsStore(q.data)
    BY ONLY <1>3, <1>4
  <2>4. \A m \in Items(q) : q.lp[m].len > 0
    BY ONLY <1>4, <1>10
  <2> QED
    BY ONLY <1>4, <1>11, <2>1, <2>2, <2>3, <2>4 DEF IsPage
<1>13. GetItem(q, n) = item
  <2>1. d[lp[n].off].item = item
    BY <1>3, <1>7
  <2> QED
    BY <1>4, <2>1 DEF GetItem
<1>14. ASSUME NEW m \in Items(q), m # n PROVE GetItem(q, m) = GetItem(p, was[m])
  <2>1. d[lp[m].off] = [len |-> lp[m].len, item |-> GetItem(p, was[m])]
    BY <1>8, <1>14
  <2>2. d[lp[m].off].item = GetItem(p, was[m])
    BY ONLY <2>1
  <2> QED
    BY <1>4, <2>2 DEF GetItem
<1> QED
  BY <1>5, <1>6, <1>7, <1>12, <1>13, <1>14

LEMMA FreePointerIs ==
    ASSUME NEW p, IsPage(p)
    PROVE  FreePointer(p) \in 1 .. NumItems(p) + 1 /\ FreePointer(p) \notin Items(p)
<1> DEFINE unused == 1 .. NumItems(p) \ Items(p)
<1>1. NumItems(p) \in Nat /\ Items(p) \in SUBSET (1 .. NumItems(p))
  BY PageIs
<1>2. CASE unused = {}
  <2>1. FreePointer(p) = NumItems(p) + 1
    BY <1>2 DEF FreePointer
  <2> QED
    BY <1>1, <2>1
<1>3. CASE unused # {}
  <2>1. unused \in SUBSET Nat
    BY <1>1
  <2>2. PICK n \in unused : \A m \in unused : n <= m
    <3> HIDE DEF unused
    <3> QED
      BY <1>3, <2>1, SmallestOf
  <2>3. FreePointer(p) = CHOOSE x \in unused : \A m \in unused : x <= m
    BY <1>3 DEF FreePointer
  <2>4. FreePointer(p) \in unused
    <3> HIDE DEF unused
    <3> QED
      BY <2>2, <2>3
  <2> QED
    BY <1>1, <2>4
<1> QED
  BY <1>2, <1>3

\* Page q has item n, and the items of p in their places.
Grown(q, p, n, item) ==
    /\ Items(q) = Items(p) \cup {n}
    /\ \A m \in Items(q) : GetItem(q, m) = IF m = n THEN item ELSE GetItem(p, m)

\* An item that goes in takes a pointer no item had, and the others stay.
LEMMA AddItemIs ==
    ASSUME NEW p, IsPage(p), NEW item, NEW len \in Nat, 0 < len,
           NEW r, r = AddItem(p, item, len), r.err = "none"
    PROVE  /\ IsPage(r.page) /\ r.off \notin Items(p) /\ r.off \in Nat \ {0}
           /\ Grown(r.page, p, r.off, item)
<1> DEFINE n == FreePointer(p)
           k == IF n > NumItems(p) THEN NumItems(p) + 1 ELSE NumItems(p)
           lower == IF n > NumItems(p) THEN p.lower + LinePointerSize ELSE p.lower
           upper == p.upper - Align8(len)
           lp == [m \in 1 .. NumItems(p) \cup {n} |->
                    IF m = n THEN NormalItem(upper, len) ELSE p.lp[m]]
           was == [m \in 1 .. k |-> m]
           q == [lower |-> lower, upper |-> upper, special |-> p.special,
                 lp |-> lp, data |-> Copy(p.data, upper, len, item)]
<1>1. ~(len > MaxItemSize) /\ ~(upper < lower) /\ r = Stored(q, n)
  <2> DEFINE Room == ~(len > MaxItemSize) /\ ~(upper < lower)
  <2>1. r = IF len > MaxItemSize THEN Failed(p, "ErrItemTooLarge")
            ELSE IF upper < lower THEN Failed(p, "ErrNoSpace") ELSE Stored(q, n)
    BY DEF AddItem
  <2> HIDE DEF q, n, upper, lower
  <2> QED
    BY <2>1 DEF Failed
<1>2. r.page = q /\ r.off = n
  <2> HIDE DEF q, n
  <2> QED
    BY <1>1 DEF Stored
<1>3. n \in 1 .. NumItems(p) + 1 /\ n \notin Items(p)
  BY FreePointerIs
<1>4. /\ NumItems(p) \in Nat /\ Items(p) \in SUBSET (1 .. NumItems(p))
      /\ p.lower = 24 + 4 * NumItems(p)
      /\ \A m \in 1 .. NumItems(p) : p.lp[m] \in Slots /\ (m \in Items(p) <=> p.lp[m].normal)
  BY PageIs
<1> HIDE DEF n
<1>5. k \in Nat /\ n \in 1 .. k /\ 1 .. NumItems(p) \cup {n} = 1 .. k /\ lower = 24 + 4 * k
      /\ \A m \in 1 .. k : m # n => m \in 1 .. NumItems(p)
  BY <1>3, <1>4 DEF LinePointerSize
<1>6. upper \in Nat /\ 24 + 4 * k <= upper
  <2>1. Align8(len) \in Nat /\ p.upper \in Nat
    BY Align8Is DEF IsPage
  <2> QED
    BY <1>1, <1>5, <2>1
<1>7. lp \in [1 .. k -> Slots] /\ lp[n] = NormalItem(upper, len)
      /\ \A m \in 1 .. k : m # n => lp[m] = p.lp[m]
  <2>1. NormalItem(upper, len) \in Slots
    BY <1>6 DEF NormalItem, Slots
  <2> HIDE DEF upper, k
  <2> QED
    BY <1>4, <1>5, <2>1
<1>8. q = [lower |-> 24 + 4 * k, upper |-> upper, special |-> p.special,
           lp |-> lp, data |-> Copy(p.data, upper, len, item)]
  <2> HIDE DEF lower, k, upper, lp
  <2> QED
    BY <1>5
<1>9. \A m \in 1 .. k : m # n /\ lp[m].normal => was[m] \in Items(p) /\ lp[m] = p.lp[was[m]]
  BY <1>4, <1>5, <1>7
<1>10. \A m, j \in 1 .. k : m # n /\ j # n /\ m # j => was[m] # was[j]
  <2>1. \A m \in 1 .. k : was[m] = m
    OBVIOUS
  <2> HIDE DEF k, lp, was
  <2> QED
    BY <2>1
<1>11. upper = p.upper - Align8(len)
  OBVIOUS
<1>12. \A m \in 1 .. k : was[m] = m
  OBVIOUS
<1> HIDE DEF lower, k, upper, lp, was, q
<1>13. Placed(q, p, item, len, k, n, lp, was, upper)
  BY <1>6, <1>7, <1>8, <1>9, <1>10, <1>11 DEF Carries, Placed
<1>14. /\ IsPage(q) /\ NumItems(q) = k /\ n \in Items(q) /\ GetItem(q, n) = item
       /\ \A m \in 1 .. k : m # n => /\ m \in Items(q) <=> lp[m].normal
                                     /\ m \in Items(q) => GetItem(q, m) = GetItem(p, was[m])
  <2>1. k \in Nat /\ n \in 1 .. k /\ lp \in [1 .. k -> Slots] /\ upper \in Int
    BY <1>5, <1>6, <1>7
  <2> QED
    BY ONLY IsPage(p), len \in Nat, 0 < len, <1>13, <2>1, PlaceIs
<1>15. Items(q) \in SUBSET (1 .. k)
  BY <1>14, PageIs
<1>16. Items(q) = Items(p) \cup {n}
  <2>1. \A m \in 1 .. k : m # n => (m \in Items(q) <=> m \in Items(p))
    BY <1>4, <1>5, <1>7, <1>14
  <2>2. Items(p) \in SUBSET (1 .. k)
    BY <1>4, <1>5
  <2> QED
    BY <1>14, <1>15, <2>1, <2>2
<1>17. \A m \in Items(q) : GetItem(q, m) = IF m = n THEN item ELSE GetItem(p, m)
  BY <1>12, <1>14, <1>15
<1>18. n \in Nat \ {0}
  BY <1>3, <1>4
<1> QED
  BY <1>2, <1>3, <1>14, <1>16, <1>17, <1>18 DEF Grown

\* Page q has item n, and the items of p, those from n on one place up.
MovedUp(q, p, n, item) ==
    \A m \in Items(q) : GetItem(q, m) = IF m = n THEN item
                                        ELSE GetItem(p, IF m < n THEN m ELSE m - 1)

LEMMA InsertItemIs ==
    ASSUME NEW p, IsPage(p), NEW item, NEW len \in Nat, 0 < len, NEW n,
           NEW r, r = InsertItem(p, n, item, len), r.err = "none"
    PROVE  IsPage(r.page) /\ MovedUp(r.page, p, n, item)
<1> DEFINE k == NumItems(p) + 1
           lower == p.lower + LinePointerSize
           upper == p.upper - Align8(len)
           lp == [m \in 1 .. NumItems(p) + 1 |-> IF m < n THEN p.lp[m]
                                                 ELSE IF m = n THEN NormalItem(upper, len)
                                                 ELSE p.lp[m - 1]]
           was == [m \in 1 .. k |-> IF m < n THEN m ELSE m - 1]
           q == [lower |-> lower, upper |-> upper, special |-> p.special,
                 lp |-> lp, data |-> Copy(p.data, upper, len, item)]
<1>1. n \in 1 .. k /\ ~(upper < lower) /\ r = Stored(q, n)
  <2>1. r = IF len > MaxItemSize THEN Failed(p, "ErrItemTooLarge")
            ELSE IF n \notin 1 .. k THEN Failed(p, "ErrInvalidOffset")
            ELSE IF upper < lower THEN Failed(p, "ErrNoSpace") ELSE Stored(q, n)
    BY DEF InsertItem
  <2> HIDE DEF q, upper, lower, k
  <2> QED
    BY <2>1 DEF Failed
<1>2. r.page = q
  <2> HIDE DEF q
  <2> QED
    BY <1>1 DEF Stored
<1>3. /\ NumItems(p) \in Nat /\ p.lower = 24 + 4 * NumItems(p)
      /\ \A m \in 1 .. NumItems(p) : p.lp[m] \in Slots /\ (m \in Items(p) <=> p.lp[m].normal)
  BY PageIs
<1>4. k \in Nat /\ n \in Int /\ lower = 24 + 4 * k
  <2>1. k \in Nat /\ lower = 24 + 4 * k
    BY <1>3 DEF LinePointerSize
  <2>2. n \in 1 .. k
    BY <1>1
  <2> HIDE DEF k
  <2> QED
    BY <2>1, <2>2
<1>5. upper \in Nat /\ 24 + 4 * k <= upper
  <2>1. Align8(len) \in Nat /\ p.upper \in Nat
    BY Align8Is DEF IsPage
  <2> QED
    BY <1>1, <1>4, <2>1
<1>6. \A m \in 1 .. k : m # n => was[m] \in 1 .. NumItems(p)
  BY <1>1, <1>3, <1>4
<1>7. \A m \in 1 .. k : lp[m] = IF m = n THEN NormalItem(upper, len) ELSE p.lp[was[m]]
  <2>1. \A m \in 1 .. k : m \in Int /\ (m = n => ~(m < n))
    BY <1>4
  <2> HIDE DEF upper
  <2> QED
    BY <2>1
<1>8. lp \in [1 .. k -> Slots]
  <2>1. NormalItem(upper, len) \in Slots
    BY <1>5 DEF NormalItem, Slots
  <2>2. \A m \in 1 .. k : lp[m] \in Slots
    BY <1>3, <1>6, <1>7, <2>1
  <2>3. lp = [m \in 1 .. k |-> lp[m]]
    OBVIOUS
  <2> HIDE DEF lp, k
  <2> QED
    BY <2>2, <2>3
<1>9. q = [lower |-> 24 + 4 * k, upper |-> upper, special |-> p.special,
           lp |-> lp, data |-> Copy(p.data, upper, len, item)]
  <2> HIDE DEF lower, k, upper, lp
  <2> QED
    BY <1>4
<1>10. \A m, j \in 1 .. k : m # n /\ j # n /\ m # j => was[m] # was[j]
  <2>1. ASSUME NEW m \in 1 .. k, NEW j \in 1 .. k, m # n, j # n, m # j
        PROVE  was[m] # was[j]
    <3>1. m \in Int /\ j \in Int
      BY <1>4
    <3>2. was[m] = (IF m < n THEN m ELSE m - 1) /\ was[j] = IF j < n THEN j ELSE j - 1
      OBVIOUS
    <3> HIDE DEF k, was
    <3> QED
      BY <1>4, <2>1, <3>1, <3>2
  <2> HIDE DEF k, lp, was
  <2> QED
    BY <2>1
<1>11. upper = p.upper - Align8(len)
  OBVIOUS
<1>12. \A m \in 1 .. k : was[m] = IF m < n THEN m ELSE m - 1
  OBVIOUS
<1> HIDE DEF lower, k, upper, lp, was, q
<1>13. \A m \in 1 .. k : m # n /\ lp[m].normal => was[m] \in Items(p) /\ lp[m] = p.lp[was[m]]
  BY <1>3, <1>6, <1>7
<1>14. lp[n] = NormalItem(upper, len)
  BY <1>1, <1>7
<1>15. Placed(q, p, item, len, k, n, lp, was, upper)
  BY <1>5, <1>9, <1>10, <1>11, <1>13, <1>14 DEF Carries, Placed
<1>16. /\ IsPage(q) /\ NumItems(q) = k /\ n \in Items(q) /\ GetItem(q, n) = item
       /\ \A m \in 1 .. k : m # n => /\ m \in Items(q) <=> lp[m].normal
                                     /\ m \in Items(q) => GetItem(q, m) = GetItem(p, was[m])
  <2>1. k \in Nat /\ n \in 1 .. k /\ lp \in [1 .. k -> Slots] /\ upper \in Int
    BY <1>1, <1>4, <1>5, <1>8
  <2> QED
    BY ONLY IsPage(p), len \in Nat, 0 < len, <1>15, <2>1, PlaceIs
<1>17. Items(q) \in SUBSET (1 .. k)
  BY <1>16, PageIs
<1>18. MovedUp(q, p, n, item)
  BY <1>12, <1>16, <1>17 DEF MovedUp
<1> QED
  BY <1>2, <1>16, <1>18

\* A zeroed page takes nothing.
LEMMA ZeroPageIsFull ==
    ASSUME NEW item, NEW len \in Nat, 0 < len
    PROVE  /\ AddItem(ZeroPage, item, len).err # "none"
           /\ \A n : InsertItem(ZeroPage, n, item, len).err # "none"
           /\ NumItems(ZeroPage) = 0 /\ Items(ZeroPage) = {}
<1> DEFINE p == ZeroPage
           upper == p.upper - Align8(len)
<1>1. p.lower = 0 /\ p.upper = 0
  BY DEF ZeroPage
<1>2. NumItems(p) = 0
  BY <1>1 DEF NumItems, HeaderSize
<1>3. Items(p) = {}
  BY <1>2 DEF Items
<1>4. upper \in Int /\ upper < 0
  BY <1>1, Align8Is
<1> HIDE DEF p, upper
<1>5. ASSUME NEW n PROVE InsertItem(p, n, item, len).err # "none"
  <2> DEFINE lower == p.lower + LinePointerSize
  <2>1. upper < lower
    BY <1>1, <1>4 DEF LinePointerSize
  <2>2. \/ InsertItem(p, n, item, len) = Failed(p, "ErrItemTooLarge")
        \/ InsertItem(p, n, item, len) = Failed(p, "ErrInvalidOffset")
        \/ InsertItem(p, n, item, len) = Failed(p, "ErrNoSpace")
    BY <2>1 DEF InsertItem, upper
  <2> QED
    BY <2>2 DEF Failed
<1>6. AddItem(p, item, len).err # "none"
  <2> DEFINE lower == IF FreePointer(p) > NumItems(p) THEN p.lower + LinePointerSize ELSE p.lower
  <2>1. upper < lower
    BY <1>1, <1>4 DEF LinePointerSize
  <2>2. \/ AddItem(p, item, len) = Failed(p, "ErrItemTooLarge")
        \/ AddItem(p, item, len) = Failed(p, "ErrNoSpace")
    BY <2>1 DEF AddItem, upper
  <2> QED
    BY <2>2 DEF Failed
<1> QED
  BY <1>2, <1>3, <1>5, <1>6 DEF p

IsTuple(t) ==
    t = [xmin |-> t.xmin, xmax |-> t.xmax, ctid |-> t.ctid, natts |-> t.natts,
         hasNull |-> t.hasNull, present |-> t.present, hoff |-> t.hoff, len |-> t.len,
         data |-> t.data]

LEMMA PutOnIs ==
    ASSUME NEW p, p = ZeroPage \/ IsPage(p), NEW blk, NEW t, t.len \in Nat, 0 < t.len,
           NEW r, r = PutOn(p, blk, t), r.err = "none"
    PROVE  /\ IsPage(p) /\ IsPage(r.page) /\ r.off \notin Items(p) /\ r.off \in Nat \ {0}
           /\ Grown(r.page, p, r.off, [t EXCEPT !.ctid = <<blk, r.off>>])
<1> DEFINE a == AddItem(p, t, t.len)
           new == [t EXCEPT !.ctid = <<blk, a.off>>]
<1>1. a = [page |-> a.page, off |-> a.off, err |-> a.err]
  BY DEF AddItem, Failed, Stored
<1>2. r = IF a.err # "none" THEN a ELSE [a EXCEPT !.page = PutItem(a.page, a.off, new)]
  BY DEF PutOn
<1> HIDE DEF a
<1>3. a.err = "none"
  BY <1>2
<1>4. r.page = PutItem(a.page, a.off, new) /\ r.off = a.off
  <2>1. r = [a EXCEPT !.page = PutItem(a.page, a.off, new)]
    BY <1>2, <1>3
  <2> HIDE DEF new
  <2> QED
    BY <1>1, <2>1
<1>5. IsPage(p)
  <2>1. p # ZeroPage
    BY <1>3, ZeroPageIsFull DEF a
  <2> QED
    BY <2>1
<1>6. /\ IsPage(a.page) /\ a.off \notin Items(p) /\ a.off \in Nat \ {0}
      /\ Items(a.page) = Items(p) \cup {a.off}
      /\ \A m \in Items(a.page) : GetItem(a.page, m) = IF m = a.off THEN t ELSE GetItem(p, m)
  BY <1>3, <1>5, AddItemIs DEF a, Grown
<1> HIDE DEF new
<1>7. /\ IsPage(r.page) /\ Items(r.page) = Items(a.page)
      /\ \A m \in Items(a.page) : GetItem(r.page, m) = IF m = a.off THEN new ELSE GetItem(a.page, m)
  <2>1. a.off \in Items(a.page)
    BY <1>6
  <2> QED
    BY <1>4, <1>6, <2>1, PutItemIs
<1>8. Grown(r.page, p, a.off, new)
  BY <1>6, <1>7 DEF Grown
<1> QED
  BY <1>4, <1>5, <1>6, <1>7, <1>8 DEF new

LEMMA DeleteItemIs ==
    ASSUME NEW p, IsPage(p), NEW n \in Items(p)
    PROVE  LET q == DeleteItem(p, n).page
           IN  /\ IsPage(q) /\ Items(q) = Items(p) \ {n}
               /\ \A m \in Items(q) : GetItem(q, m) = GetItem(p, m)
<1> DEFINE q == [p EXCEPT !.lp[n] = UnusedItem]
<1>1. n \in 1 .. NumItems(p) /\ p.lp[n].normal /\ p.lp \in [1 .. NumItems(p) -> Slots]
  BY PageIs DEF IsPage
<1>2. DeleteItem(p, n).page = q
  <2>1. DeleteItem(p, n) = Stored(q, n)
    BY <1>1 DEF DeleteItem
  <2> HIDE DEF q
  <2> QED
    BY <2>1 DEF Stored
<1>3. q = [lower |-> p.lower, upper |-> p.upper, special |-> p.special,
           lp |-> [p.lp EXCEPT ![n] = UnusedItem], data |-> p.data]
  BY DEF IsPage
<1>4. /\ q.lower = p.lower /\ q.upper = p.upper /\ q.special = p.special /\ q.data = p.data
      /\ q = [lower |-> q.lower, upper |-> q.upper, special |-> q.special,
              lp |-> q.lp, data |-> q.data]
      /\ q.lp = [p.lp EXCEPT ![n] = UnusedItem]
  <2> HIDE DEF q
  <2> QED
    BY <1>3
<1> HIDE DEF q
<1>5. NumItems(q) = NumItems(p)
  BY <1>4 DEF NumItems
<1>6. /\ UnusedItem \in Slots /\ q.lp \in [1 .. NumItems(p) -> Slots]
      /\ \A m \in 1 .. NumItems(p) : m # n => q.lp[m] = p.lp[m]
      /\ q.lp[n].normal = FALSE
  <2>1. UnusedItem \in Slots /\ UnusedItem.normal = FALSE
    BY DEF UnusedItem, Slots
  <2> QED
    BY <1>1, <1>4, <2>1
<1>7. Items(q) = Items(p) \ {n}
  BY <1>5, <1>6 DEF Items
<1>8. \A m \in Items(q) : m \in Items(p) /\ m # n /\ m \in 1 .. NumItems(p) /\ q.lp[m] = p.lp[m]
  BY <1>6, <1>7, PageIs
<1>9. PageOK(q)
  <2>1. HeaderOK(q)
    BY <1>4, <1>5, <1>6 DEF IsPage, PageOK, HeaderOK
  <2>2. ItemsOK(q)
    BY <1>4, <1>7, <1>8 DEF IsPage, PageOK, ItemsOK
  <2> QED
    BY <2>1, <2>2 DEF PageOK
<1>10. \A m \in Items(q) : q.lp[m].len > 0
  BY <1>8 DEF IsPage
<1>11. IsPage(q)
  BY <1>4, <1>5, <1>6, <1>9, <1>10 DEF IsPage
<1>12. \A m \in Items(q) : GetItem(q, m) = GetItem(p, m)
  BY <1>4, <1>8 DEF GetItem
<1> QED
  BY <1>2, <1>7, <1>11, <1>12

\* What item n takes of the data area.
Taken(p, n) == IF n \in Items(p) THEN Align8(p.lp[n].len) ELSE 0

LEMMA BelowIs ==
    ASSUME NEW p, IsPage(p)
    PROVE  LET b == Below(p)
               k == NumItems(p)
           IN  /\ b \in [0 .. k -> Int] /\ b[0] = p.special
               /\ \A n \in 1 .. k : Taken(p, n) \in Nat /\ b[n] = b[n - 1] - Taken(p, n)
<1> DEFINE k == NumItems(p)
           step == [n \in 1 .. k |-> [x \in Int |-> x - Taken(p, n)]]
           Lays(b) == [n \in 0 .. k |-> IF n = 0 THEN p.special ELSE b[n - 1] - Taken(p, n)]
           below == Below(p)
<1>1. k \in Nat /\ p.special \in Int
  BY PageIs DEF IsPage
<1>2. ASSUME NEW n \in 1 .. k PROVE Taken(p, n) \in Nat
  <2>1. CASE n \in Items(p)
    <3>1. p.lp[n].len \in Nat
      BY <2>1, ItemIs
    <3> QED
      BY <2>1, <3>1, Align8Is DEF Taken
  <2>2. CASE n \notin Items(p)
    BY <2>2 DEF Taken
  <2> QED
    BY <2>1, <2>2
<1>3. StepsIn(step, k, Int)
  BY <1>2 DEF StepsIn
<1>4. PICK g : Recursion(g, p.special, step, k, Int)
  <2> HIDE DEF step, k
  <2> QED
    BY ONLY <1>1, <1>3, RecursionExists
<1>5. g = Lays(g)
  <2>1. g = [n \in 0 .. k |-> g[n]] /\ g[0] = p.special
    BY <1>4 DEF Recursion
  <2>2. ASSUME NEW n \in 1 .. k PROVE g[n] = g[n - 1] - Taken(p, n)
    <3>1. g[n - 1] \in Int /\ g[n] = step[n][g[n - 1]]
      <4> HIDE DEF step
      <4>1. n - 1 \in 0 .. k
        BY <1>1
      <4> QED
        BY <1>4, <4>1 DEF Recursion
    <3> QED
      BY <3>1
  <2>3. \A n \in 0 .. k : n = 0 \/ n \in 1 .. k
    BY <1>1
  <2>4. \A n \in 0 .. k : g[n] = Lays(g)[n]
    BY <2>1, <2>2, <2>3
  <2> QED
    BY <2>1, <2>4
<1>6. below = Lays(below)
  BY <1>5 DEF Below, Taken
<1> HIDE DEF below
<1>7. below[0] = p.special /\ \A n \in 1 .. k : below[n] = below[n - 1] - Taken(p, n)
  <2>1. 0 \in 0 .. k /\ \A n \in 1 .. k : n \in 0 .. k /\ n # 0
    BY <1>1
  <2> QED
    BY <1>6, <2>1
<1>8. \A n \in 0 .. k : below[n] \in Int
  <2>1. ASSUME NEW n \in 1 .. k, below[n - 1] \in Int PROVE below[n] \in Int
    BY <1>2, <1>7, <2>1
  <2> HIDE DEF k
  <2> QED
    BY <1>1, <1>7, <2>1, StaysIn
<1> QED
  BY <1>2, <1>6, <1>7, <1>8 DEF below

\* The bytes of item n, its padding with them, and those of the first n items.
Span(p, n)  == p.lp[n].off .. p.lp[n].off + Align8(p.lp[n].len) - 1
Spans(p, n) == UNION {Span(p, m) : m \in {j \in Items(p) : j <= n}}

LEMMA SpanIs ==
    ASSUME NEW p, IsPage(p), NEW n \in Items(p)
    PROVE  /\ IsFiniteSet(Span(p, n)) /\ Cardinality(Span(p, n)) = Taken(p, n)
           /\ Span(p, n) \in SUBSET (p.upper .. p.special - 1)
           /\ \A m \in Items(p) : m # n => Span(p, n) \cap Span(p, m) = {}
<1>1. /\ p.special \in Nat /\ p.special % 8 = 0 /\ p.upper \in Nat
  BY DEF IsPage
<1>2. ASSUME NEW m \in Items(p)
      PROVE  /\ p.lp[m].off \in Nat /\ p.lp[m].len \in Nat /\ 0 < p.lp[m].len
             /\ p.lp[m].off % 8 = 0 /\ p.upper <= p.lp[m].off
             /\ p.lp[m].off + p.lp[m].len <= p.special
             /\ Align8(p.lp[m].len) \in Nat /\ p.lp[m].len <= Align8(p.lp[m].len)
  <2>1. /\ p.lp[m].off \in Nat /\ p.lp[m].len \in Nat /\ 0 < p.lp[m].len
        /\ p.lp[m].off % 8 = 0 /\ p.upper <= p.lp[m].off
        /\ p.lp[m].off + p.lp[m].len <= p.special
    BY ItemIs
  <2> QED
    BY <2>1, Align8Is
<1>3. p.lp[n].off + Align8(p.lp[n].len) <= p.special
  BY <1>1, <1>2, Padded
<1>4. IsFiniteSet(Span(p, n)) /\ Cardinality(Span(p, n)) = Taken(p, n)
  <2> DEFINE a == p.lp[n].off
             l == Align8(p.lp[n].len)
  <2>1. a \in Nat /\ l \in Nat /\ 0 < l
    BY <1>2
  <2> HIDE DEF a, l
  <2>2. a + l - 1 \in Int /\ a <= a + l - 1 /\ a + l - 1 - a + 1 = l
    BY <2>1
  <2>3. IsFiniteSet(a .. a + l - 1) /\ Cardinality(a .. a + l - 1) = l
    BY <2>1, <2>2, FS_Interval
  <2> QED
    BY <2>3 DEF Span, Taken, a, l
<1>5. Span(p, n) \in SUBSET (p.upper .. p.special - 1)
  BY <1>1, <1>2, <1>3 DEF Span
<1>6. ASSUME NEW m \in Items(p), m # n PROVE Span(p, n) \cap Span(p, m) = {}
  <2>1. \/ p.lp[n].off + p.lp[n].len <= p.lp[m].off
        \/ p.lp[m].off + p.lp[m].len <= p.lp[n].off
    BY <1>6, ItemIs
  <2>2. \/ p.lp[n].off + Align8(p.lp[n].len) <= p.lp[m].off
        \/ p.lp[m].off + Align8(p.lp[m].len) <= p.lp[n].off
    BY <1>2, <2>1, Padded
  <2> QED
    BY <1>2, <2>2 DEF Span
<1> QED
  BY <1>4, <1>5, <1>6

\* Compact has room: the items it lays out are clear of each other before it.
LEMMA BelowStaysAbove ==
    ASSUME NEW p, IsPage(p)
    PROVE  LET b == Below(p)
           IN  /\ p.upper <= b[NumItems(p)]
               /\ \A m, n \in 0 .. NumItems(p) : m <= n => b[n] <= b[m]
<1> DEFINE k == NumItems(p)
           b == Below(p)
           fills == [n \in 0 .. k |->
                       IF /\ IsFiniteSet(Spans(p, n))
                          /\ Cardinality(Spans(p, n)) = p.special - b[n] THEN 0 ELSE 1]
           minus == [n \in 0 .. k |-> - b[n]]
<1>1. /\ k \in Nat /\ p.special \in Nat /\ p.upper \in Nat /\ p.upper <= p.special
      /\ Items(p) \in SUBSET (1 .. k)
  BY PageIs DEF IsPage
<1>2. /\ b \in [0 .. k -> Int] /\ b[0] = p.special
      /\ \A n \in 1 .. k : Taken(p, n) \in Nat /\ b[n] = b[n - 1] - Taken(p, n)
  BY BelowIs
<1> HIDE DEF k, b
<1>3. fills[0] \in {0}
  <2>1. {j \in Items(p) : j <= 0} = {}
    BY <1>1
  <2>2. Spans(p, 0) = {}
    BY <2>1 DEF Spans
  <2>3. IsFiniteSet(Spans(p, 0)) /\ Cardinality(Spans(p, 0)) = p.special - b[0]
    <3>1. p.special - b[0] = 0
      BY <1>1, <1>2
    <3> QED
      BY ONLY <2>2, <3>1, FS_EmptySet
  <2>4. 0 \in 0 .. k
    BY <1>1
  <2> QED
    BY <2>3, <2>4
<1>4. ASSUME NEW n \in 1 .. k, fills[n - 1] \in {0} PROVE fills[n] \in {0}
  <2>1. n - 1 \in 0 .. k /\ n \in 0 .. k
    BY <1>1
  <2>2. /\ IsFiniteSet(Spans(p, n - 1))
        /\ Cardinality(Spans(p, n - 1)) = p.special - b[n - 1]
    BY <1>4, <2>1
  <2>3. IsFiniteSet(Spans(p, n)) /\ Cardinality(Spans(p, n)) = p.special - b[n]
    <3>1. CASE n \notin Items(p)
      <4>1. {j \in Items(p) : j <= n} = {j \in Items(p) : j <= n - 1}
        BY <1>1, <3>1
      <4>2. Spans(p, n) = Spans(p, n - 1)
        BY <4>1 DEF Spans
      <4>3. b[n] = b[n - 1] - 0 /\ b[n - 1] \in Int
        BY <1>2, <2>1, <3>1 DEF Taken
      <4> QED
        BY <2>2, <4>2, <4>3
    <3>2. CASE n \in Items(p)
      <4>1. {j \in Items(p) : j <= n} = {j \in Items(p) : j <= n - 1} \cup {n}
        BY <1>1, <3>2
      <4>2. Spans(p, n) = Spans(p, n - 1) \cup Span(p, n)
        BY <4>1 DEF Spans
      <4>3. /\ IsFiniteSet(Span(p, n)) /\ Cardinality(Span(p, n)) = Taken(p, n)
            /\ \A m \in Items(p) : m # n => Span(p, n) \cap Span(p, m) = {}
        BY <3>2, SpanIs
      <4>4. Spans(p, n - 1) \cap Span(p, n) = {}
        <5>1. \A m \in {j \in Items(p) : j <= n - 1} : m \in Items(p) /\ m # n
          BY <1>1
        <5> QED
          BY <4>3, <5>1 DEF Spans
      <4>5. /\ IsFiniteSet(Spans(p, n))
            /\ Cardinality(Spans(p, n)) = Cardinality(Spans(p, n - 1)) + Taken(p, n) - 0
        BY ONLY <2>2, <4>2, <4>3, <4>4, FS_Union, FS_EmptySet
      <4>6. b[n] = b[n - 1] - Taken(p, n) /\ b[n - 1] \in Int /\ Taken(p, n) \in Nat
        BY <1>2, <2>1
      <4> QED
        BY <1>1, <2>2, <4>5, <4>6
    <3> QED
      BY <3>1, <3>2
  <2> QED
    BY <2>1, <2>3
<1>5. fills[k] \in {0} /\ k \in 0 .. k
  <2>1. \A n \in 0 .. k : fills[n] \in {0}
    <3> HIDE DEF fills
    <3> QED
      BY <1>1, <1>3, <1>4, StaysIn
  <2> QED
    BY <1>1, <2>1
<1>6. Cardinality(Spans(p, k)) = p.special - b[k]
  BY <1>5
<1>7. Cardinality(Spans(p, k)) <= p.special - p.upper
  <2>1. Spans(p, k) \in SUBSET (p.upper .. p.special - 1)
    BY SpanIs DEF Spans
  <2>2. /\ IsFiniteSet(p.upper .. p.special - 1)
        /\ Cardinality(p.upper .. p.special - 1) = p.special - p.upper
    <3>1. p.upper \in Int /\ p.special - 1 \in Int
      BY <1>1
    <3>2. /\ IsFiniteSet(p.upper .. p.special - 1)
          /\ Cardinality(p.upper .. p.special - 1)
                = IF p.upper > p.special - 1 THEN 0 ELSE p.special - 1 - p.upper + 1
      BY <3>1, FS_Interval
    <3> QED
      BY <1>1, <3>2
  <2> DEFINE S == Spans(p, k)
             T == p.upper .. p.special - 1
  <2>3. S \in SUBSET T /\ IsFiniteSet(T)
    BY <2>1, <2>2
  <2> HIDE DEF S, T
  <2>4. Cardinality(S) <= Cardinality(T)
    BY ONLY <2>3, FS_Subset
  <2> QED
    BY ONLY <2>2, <2>4 DEF S, T
<1>8. p.upper <= b[k]
  <2>1. b[k] \in Int
    BY <1>2, <1>5
  <2> QED
    BY <1>1, <1>6, <1>7, <2>1
<1>9. \A n \in 0 .. k : minus[n] \in Int /\ minus[n] = - b[n] /\ b[n] \in Int
  BY <1>2
<1>10. \A n \in 1 .. k : minus[n - 1] <= minus[n]
  <2> TAKE n \in 1 .. k
  <2>1. n - 1 \in 0 .. k /\ n \in 0 .. k
    BY <1>1
  <2> QED
    BY <1>2, <1>9, <2>1
<1>11. \A m, n \in 0 .. k : m <= n => minus[m] <= minus[n]
  <2> HIDE DEF minus
  <2> QED
    BY <1>1, <1>9, <1>10, NeverFalls
<1>12. \A m, n \in 0 .. k : m <= n => b[n] <= b[m]
  <2> HIDE DEF minus
  <2> QED
    BY <1>9, <1>11
<1> QED
  BY <1>8, <1>12 DEF k, b

\* Compact leaves the other items their numbers and their bytes.
LEMMA CompactIs ==
    ASSUME NEW p, IsPage(p)
    PROVE  PageOK(Compact(p)) /\ Contents(Compact(p)) = [n \in Items(p) |-> GetItem(p, n)]
<1> DEFINE k == NumItems(p)
           b == Below(p)
           last == CHOOSE n \in Items(p) \cup {0} : \A m \in Items(p) : m <= n
           lp == [n \in 1 .. last |-> IF n \in Items(p) THEN NormalItem(b[n], p.lp[n].len)
                                      ELSE UnusedItem]
           data == [o \in {b[n] : n \in Items(p)} |->
                      LET n == CHOOSE n \in Items(p) : b[n] = o
                      IN  [len |-> p.lp[n].len, item |-> GetItem(p, n)]]
           c == [lower |-> HeaderSize + LinePointerSize * last, upper |-> b[k],
                 special |-> p.special, lp |-> lp, data |-> data]
<1>1. Compact(p) = c
  BY DEF Compact
<1>2. /\ k \in Nat /\ p.special \in Nat /\ p.special % 8 = 0 /\ p.upper \in Nat
      /\ p.upper <= p.special /\ p.special <= PageSize /\ Items(p) \in SUBSET (1 .. k)
      /\ p.lower = 24 + 4 * k /\ p.lower <= p.upper
  BY PageIs DEF IsPage
<1>3. /\ b \in [0 .. k -> Int] /\ b[0] = p.special
      /\ \A n \in 1 .. k : Taken(p, n) \in Nat /\ b[n] = b[n - 1] - Taken(p, n)
      /\ p.upper <= b[k] /\ \A m, n \in 0 .. k : m <= n => b[n] <= b[m]
  BY BelowIs, BelowStaysAbove
<1>4. /\ last \in 0 .. k /\ Items(p) \in SUBSET (1 .. last)
  <2> DEFINE Bounds == {n \in 0 .. k : \A m \in Items(p) : m <= n}
  <2>1. k \in Bounds
    BY <1>2
  <2>2. PICK n \in Bounds : \A m \in Bounds : n <= m
    <3>1. Bounds \in SUBSET Nat
      OBVIOUS
    <3> HIDE DEF Bounds
    <3> QED
      BY <2>1, <3>1, SmallestOf
  <2>3. n \in Items(p) \cup {0}
    <3> SUFFICES ASSUME n \notin Items(p), n # 0 PROVE FALSE
      OBVIOUS
    <3>1. n - 1 \in 0 .. k /\ ~(n <= n - 1)
      BY <1>2, <2>2
    <3>2. \A m \in Items(p) : m <= n - 1
      BY <1>2, <2>2
    <3> QED
      BY <2>2, <3>1, <3>2
  <2>4. last \in Items(p) \cup {0} /\ \A m \in Items(p) : m <= last
    BY <2>2, <2>3
  <2> HIDE DEF last, Bounds
  <2> QED
    BY <1>2, <2>4
<1> HIDE DEF k, b, last, lp, data
<1>5. ASSUME NEW n \in Items(p)
      PROVE  /\ n \in 1 .. k /\ n \in 1 .. last /\ p.lp[n].len \in Nat /\ 0 < p.lp[n].len
             /\ b[n] \in Int /\ b[n - 1] \in Int /\ b[n] + p.lp[n].len <= b[n - 1]
             /\ p.upper <= b[n] /\ b[k] <= b[n] /\ b[n - 1] <= p.special
             /\ \A m \in Items(p) : m < n => b[n - 1] <= b[m]
  <2>1. /\ n \in 1 .. k /\ n \in 1 .. last /\ n - 1 \in 0 .. k /\ n \in 0 .. k /\ k \in 0 .. k
        /\ n <= k /\ 0 <= n - 1 /\ 0 \in 0 .. k
    BY <1>2, <1>4
  <2>2. p.lp[n].len \in Nat /\ 0 < p.lp[n].len
    BY ItemIs
  <2>3. /\ Taken(p, n) = Align8(p.lp[n].len) /\ Taken(p, n) \in Nat
        /\ p.lp[n].len <= Taken(p, n)
    BY <2>2, Align8Is DEF Taken
  <2>4. b[n] \in Int /\ b[n - 1] \in Int /\ b[k] \in Int /\ b[n] = b[n - 1] - Taken(p, n)
    BY <1>3, <2>1
  <2>5. b[n] + p.lp[n].len <= b[n - 1]
    BY ONLY <2>2, <2>3, <2>4
  <2>6. b[k] <= b[n] /\ b[n - 1] <= b[0]
    BY <1>3, <2>1
  <2>7. p.upper <= b[n]
    <3>1. p.upper <= b[k] /\ p.upper \in Nat
      BY ONLY <1>2, <1>3
    <3> QED
      BY ONLY <2>4, <2>6, <3>1
  <2>8. ASSUME NEW m \in Items(p), m < n PROVE b[n - 1] <= b[m]
    <3>1. m \in 0 .. k /\ m <= n - 1
      BY <1>2, <2>1, <2>8
    <3> QED
      BY <1>3, <2>1, <3>1
  <2> QED
    BY <1>3, <2>1, <2>2, <2>4, <2>5, <2>6, <2>7, <2>8
<1>6. ASSUME NEW m \in Items(p), NEW n \in Items(p), m # n
      PROVE  b[m] # b[n] /\ (b[n] + p.lp[n].len <= b[m] \/ b[m] + p.lp[m].len <= b[n])
  <2>1. m < n \/ n < m
    BY <1>5, <1>6
  <2>2. CASE m < n
    <3>1. b[n - 1] <= b[m]
      BY <1>5, <2>2
    <3>2. /\ b[n] + p.lp[n].len <= b[n - 1] /\ b[n] \in Int /\ b[n - 1] \in Int /\ b[m] \in Int
          /\ p.lp[n].len \in Nat /\ 0 < p.lp[n].len
      BY <1>5
    <3> QED
      BY ONLY <3>1, <3>2
  <2>3. CASE n < m
    <3>1. b[m - 1] <= b[n]
      BY <1>5, <2>3
    <3>2. /\ b[m] + p.lp[m].len <= b[m - 1] /\ b[m] \in Int /\ b[m - 1] \in Int /\ b[n] \in Int
          /\ p.lp[m].len \in Nat /\ 0 < p.lp[m].len
      BY <1>5
    <3> QED
      BY ONLY <3>1, <3>2
  <2> QED
    BY <2>1, <2>2, <2>3
<1>7. \A n \in 0 .. k : b[n] % 8 = 0
  <2>1. b[0] % 8 = 0
    BY <1>2, <1>3
  <2>2. ASSUME NEW n \in 1 .. k, b[n - 1] \in {x \in Int : x % 8 = 0}
        PROVE  b[n] \in {x \in Int : x % 8 = 0}
    <3>1. Taken(p, n) \in Nat /\ Taken(p, n) % 8 = 0 /\ b[n] = b[n - 1] - Taken(p, n)
      <4>1. CASE n \in Items(p)
        BY <1>3, <1>5, <4>1, Align8Is DEF Taken
      <4>2. CASE n \notin Items(p)
        BY <1>3, <4>2 DEF Taken
      <4> QED
        BY <4>1, <4>2
    <3>2. b[n - 1] \in Int /\ b[n - 1] % 8 = 0
      BY <2>2
    <3> QED
      BY ONLY <3>1, <3>2
  <2>3. b[0] \in {x \in Int : x % 8 = 0}
    BY <1>2, <1>3, <2>1
  <2>4. \A n \in 0 .. k : b[n] \in {x \in Int : x % 8 = 0}
    BY <1>2, <2>2, <2>3, StaysIn
  <2> QED
    BY <2>4
<1>8. ASSUME NEW n \in Items(p)
      PROVE  b[n] \in DOMAIN data /\ data[b[n]] = [len |-> p.lp[n].len, item |-> GetItem(p, n)]
  <2> DEFINE the == CHOOSE m \in Items(p) : b[m] = b[n]
  <2>1. the \in Items(p) /\ b[the] = b[n]
    OBVIOUS
  <2>2. data[b[n]] = [len |-> p.lp[the].len, item |-> GetItem(p, the)] /\ b[n] \in DOMAIN data
    BY DEF data
  <2> HIDE DEF the
  <2>3. the = n
    BY <1>6, <2>1
  <2> QED
    BY <2>2, <2>3
<1>9. /\ c.lower = 24 + 4 * last /\ c.upper = b[k] /\ c.special = p.special /\ c.lp = lp
      /\ c.data = data
  BY DEF HeaderSize, LinePointerSize
<1> HIDE DEF c
<1>10. NumItems(c) = last
  BY <1>2, <1>4, <1>9, NumItemsIs DEF HeaderSize, LinePointerSize
<1>11. /\ DOMAIN lp = 1 .. last
       /\ \A n \in Items(p) : lp[n].off = b[n] /\ lp[n].len = p.lp[n].len /\ lp[n].normal = TRUE
       /\ \A n \in 1 .. last : n \notin Items(p) => lp[n].normal = FALSE
  BY <1>4 DEF lp, NormalItem, UnusedItem
<1>12. Items(c) = Items(p)
  BY <1>4, <1>9, <1>10, <1>11 DEF Items
<1>13. HeaderOK(c)
  <2>1. b[k] \in Int /\ b[k] <= p.special /\ k \in 0 .. k
    <3>1. 0 \in 0 .. k /\ k \in 0 .. k /\ 0 <= k
      BY <1>2
    <3> QED
      BY <1>3, <3>1
  <2>2. 24 <= 24 + 4 * last /\ 24 + 4 * last <= b[k]
    BY <1>2, <1>3, <1>4, <2>1
  <2> QED
    BY <1>2, <1>9, <1>10, <1>11, <2>1, <2>2 DEF HeaderOK, HeaderSize, LinePointerSize
<1>14. ItemsOK(c)
  <2> SUFFICES ASSUME NEW n \in Items(p)
               PROVE  /\ b[n] % 8 = 0
                      /\ b[k] <= b[n] /\ b[n] + p.lp[n].len <= p.special
                      /\ b[n] \in DOMAIN data /\ data[b[n]].len = p.lp[n].len
                      /\ \A m \in Items(p) \ {n} : \/ b[n] + p.lp[n].len <= b[m]
                                                   \/ b[m] + p.lp[m].len <= b[n]
    BY <1>9, <1>11, <1>12 DEF ItemsOK
  <2>1. b[n] % 8 = 0
    BY <1>2, <1>5, <1>7
  <2>2. b[k] <= b[n]
    BY <1>5
  <2>3. b[n] + p.lp[n].len <= p.special
    <3>1. /\ b[n] \in Int /\ b[n - 1] \in Int /\ b[n] + p.lp[n].len <= b[n - 1]
          /\ b[n - 1] <= p.special /\ p.lp[n].len \in Nat
      BY <1>5
    <3> QED
      BY ONLY <1>2, <3>1
  <2>4. b[n] \in DOMAIN data /\ data[b[n]].len = p.lp[n].len
    <3>1. b[n] \in DOMAIN data /\ data[b[n]] = [len |-> p.lp[n].len, item |-> GetItem(p, n)]
      BY <1>8
    <3> QED
      BY ONLY <3>1
  <2> QED
    BY <1>6, <2>1, <2>2, <2>3, <2>4
<1>15. \A n \in Items(p) : GetItem(c, n) = GetItem(p, n)
  <2> TAKE n \in Items(p)
  <2>1. data[b[n]].item = GetItem(p, n)
    <3>1. data[b[n]] = [len |-> p.lp[n].len, item |-> GetItem(p, n)]
      BY <1>8
    <3> QED
      BY ONLY <3>1
  <2>2. GetItem(c, n) = data[b[n]].item
    BY <1>9, <1>11 DEF GetItem
  <2> QED
    BY <2>1, <2>2
<1>16. Contents(c) = [n \in Items(p) |-> GetItem(p, n)]
  BY <1>12, <1>15 DEF Contents
<1> QED
  BY <1>1, <1>13, <1>14, <1>16 DEF PageOK

LEMMA NoTupleIs == NoTuple.len \in Nat /\ 0 < NoTuple.len
<1> DEFINE none == <<>>
<1>1. none \in Seq(Types) /\ Len(none) = 0
  OBVIOUS
<1>2. none = [i \in 1 .. 0 |-> none[i]]
  OBVIOUS
<1>3. none \in [1 .. Len(none) -> Values]
  <2> HIDE DEF none
  <2> QED
    BY <1>1, <1>2
<1>4. NoTuple = Form(none, none)
  BY DEF NoTuple
<1> HIDE DEF none
<1> QED
  BY <1>1, <1>3, <1>4, FormLen

\* On a sound page DeleteItem, Compact and InsertItem do what they say.
LEMMA SoundPageOps ==
    ASSUME NEW p, IsPage(p)
    PROVE  /\ \A n \in Items(p) :
                 LET c == Compact(DeleteItem(p, n).page)
                 IN  PageOK(c) /\ Contents(c) = [m \in Items(p) \ {n} |-> GetItem(p, m)]
           /\ \A n \in 1 .. NumItems(p) + 1 :
                 LET i == InsertItem(p, n, NoTuple, NoTuple.len)
                 IN  i.err = "none" =>
                       /\ PageOK(i.page)
                       /\ Contents(i.page) = [m \in Items(i.page) |->
                             IF m = n THEN NoTuple ELSE GetItem(p, IF m < n THEN m ELSE m - 1)]
<1>1. ASSUME NEW n \in Items(p)
      PROVE  LET c == Compact(DeleteItem(p, n).page)
             IN  PageOK(c) /\ Contents(c) = [m \in Items(p) \ {n} |-> GetItem(p, m)]
  <2> DEFINE q == DeleteItem(p, n).page
  <2>1. /\ IsPage(q) /\ Items(q) = Items(p) \ {n}
        /\ \A m \in Items(q) : GetItem(q, m) = GetItem(p, m)
    BY DeleteItemIs
  <2> HIDE DEF q
  <2>2. PageOK(Compact(q)) /\ Contents(Compact(q)) = [m \in Items(q) |-> GetItem(q, m)]
    BY <2>1, CompactIs
  <2>3. [m \in Items(q) |-> GetItem(q, m)] = [m \in Items(p) \ {n} |-> GetItem(p, m)]
    BY <2>1
  <2>4. /\ PageOK(Compact(q))
        /\ Contents(Compact(q)) = [m \in Items(p) \ {n} |-> GetItem(p, m)]
    BY <2>2, <2>3
  <2> QED
    BY <2>4 DEF q
<1>2. ASSUME NEW n \in 1 .. NumItems(p) + 1,
             InsertItem(p, n, NoTuple, NoTuple.len).err = "none"
      PROVE  LET i == InsertItem(p, n, NoTuple, NoTuple.len)
             IN  /\ PageOK(i.page)
                 /\ Contents(i.page) = [m \in Items(i.page) |->
                       IF m = n THEN NoTuple ELSE GetItem(p, IF m < n THEN m ELSE m - 1)]
  <2> DEFINE i == InsertItem(p, n, NoTuple, NoTuple.len)
  <2>1. IsPage(i.page) /\ MovedUp(i.page, p, n, NoTuple)
    BY <1>2, NoTupleIs, InsertItemIs
  <2> HIDE DEF i
  <2>2. Contents(i.page) = [m \in Items(i.page) |->
           IF m = n THEN NoTuple ELSE GetItem(p, IF m < n THEN m ELSE m - 1)]
    BY <2>1 DEF Contents, MovedUp
  <2>3. PageOK(i.page)
    BY <2>1 DEF IsPage
  <2> QED
    BY <2>2, <2>3 DEF i
<1> QED
  BY <1>1, <1>2

-----------------------------------------------------------------------------
(* The heap.                                                               *)

\* The tuple is that of the row, whatever became of its header since.
Of(t, rel, row) ==
    /\ row \in [1 .. Len(Desc[rel]) -> Values]
    /\ IsTuple(t) /\ Body(t) = Body(Form(Desc[rel], row))

LEMMA OfStays ==
    ASSUME NEW t, NEW x, IsTuple(t), NEW u,
           u \in {[t EXCEPT !.xmin = x], [t EXCEPT !.xmax = x], [t EXCEPT !.ctid = x]}
    PROVE  IsTuple(u) /\ Body(u) = Body(t)
<1>1. ASSUME NEW a, NEW b, NEW c,
             u = [xmin |-> a, xmax |-> b, ctid |-> c, natts |-> t.natts,
                  hasNull |-> t.hasNull, present |-> t.present, hoff |-> t.hoff, len |-> t.len,
                  data |-> t.data]
      PROVE  IsTuple(u) /\ Body(u) = Body(t)
  BY <1>1 DEF IsTuple, Body
<1>2. CASE u = [t EXCEPT !.xmin = x]
  <2>1. u = [xmin |-> x, xmax |-> t.xmax, ctid |-> t.ctid, natts |-> t.natts,
             hasNull |-> t.hasNull, present |-> t.present, hoff |-> t.hoff, len |-> t.len,
             data |-> t.data]
    BY <1>2 DEF IsTuple
  <2> QED
    BY <1>1, <2>1
<1>3. CASE u = [t EXCEPT !.xmax = x]
  <2>1. u = [xmin |-> t.xmin, xmax |-> x, ctid |-> t.ctid, natts |-> t.natts,
             hasNull |-> t.hasNull, present |-> t.present, hoff |-> t.hoff, len |-> t.len,
             data |-> t.data]
    BY <1>3 DEF IsTuple
  <2> QED
    BY <1>1, <2>1
<1>4. CASE u = [t EXCEPT !.ctid = x]
  <2>1. u = [xmin |-> t.xmin, xmax |-> t.xmax, ctid |-> x, natts |-> t.natts,
             hasNull |-> t.hasNull, present |-> t.present, hoff |-> t.hoff, len |-> t.len,
             data |-> t.data]
    BY <1>4 DEF IsTuple
  <2> QED
    BY <1>1, <2>1
<1> QED
  BY <1>2, <1>3, <1>4

LEMMA MarkedIs ==
    ASSUME NEW t, NEW x, NEW c, IsTuple(t)
    PROVE  IsTuple(Marked(t, x, c)) /\ Body(Marked(t, x, c)) = Body(t)
<1> DEFINE u == [t EXCEPT !.xmax = x]
           v == [u EXCEPT !.ctid = IF c = NoTid THEN u.ctid ELSE c]
<1>1. IsTuple(u) /\ Body(u) = Body(t)
  BY OfStays
<1>2. Marked(t, x, c) = v
  <2>1. u.ctid = t.ctid
    BY DEF IsTuple
  <2> QED
    BY <2>1 DEF Marked
<1> HIDE DEF u
<1>3. IsTuple(v) /\ Body(v) = Body(u)
  BY <1>1, OfStays
<1> QED
  BY <1>1, <1>2, <1>3

IsInsert(i) ==
    i = [pc |-> i.pc, rel |-> i.rel, row |-> i.row, tuple |-> i.tuple, blk |-> i.blk,
         tid |-> i.tid]

LEMMA GoesOnIs ==
    ASSUME NEW i, NEW pc, NEW blk, IsInsert(i)
    PROVE  LET j == GoesOn(i, pc, blk)
           IN  /\ IsInsert(j) /\ j.pc = pc /\ j.blk = blk
               /\ j.rel = i.rel /\ j.row = i.row /\ j.tuple = i.tuple
<1> DEFINE u == [i EXCEPT !.pc = pc]
           v == [u EXCEPT !.blk = blk]
<1>1. u = [pc |-> pc, rel |-> i.rel, row |-> i.row, tuple |-> i.tuple, blk |-> i.blk,
           tid |-> i.tid]
  BY DEF IsInsert
<1>2. GoesOn(i, pc, blk) = v
  BY DEF GoesOn
<1> HIDE DEF u
<1>3. v = [pc |-> pc, rel |-> i.rel, row |-> i.row, tuple |-> i.tuple, blk |-> blk,
           tid |-> i.tid]
  BY <1>1
<1> QED
  BY <1>2, <1>3 DEF IsInsert

IsSeq(x) == x \in Seq({x[i] : i \in 1 .. Len(x)})

\* A page: a zeroed one, or a sound one that holds tuples.
Good(p) == (p = ZeroPage \/ IsPage(p)) /\ \A n \in Items(p) : IsTuple(GetItem(p, n))

\* What is on disk is an earlier state of the page in the pool.
Behind(d, p) ==
    \A n \in Items(d) : n \in Items(p) /\ Body(GetItem(d, n)) = Body(GetItem(p, n))

FilesOK(f, d) ==
    /\ f = [r \in Rels |-> f[r]] /\ d = [r \in Rels |-> d[r]]
    /\ \A r \in Rels :
          /\ IsSeq(f[r]) /\ IsSeq(d[r]) /\ Len(d[r]) = Len(f[r])
          /\ \A b \in 1 .. Len(f[r]) :
                Good(f[r][b]) /\ Good(d[r][b]) /\ Behind(d[r][b], f[r][b])

\* Every TID handed out has its row's tuple.
HandedOK(h, f) ==
    /\ h = [r \in Rels |-> h[r]]
    /\ \A r \in Rels : \A i \in DOMAIN h[r] :
          \E b \in 1 .. Len(f[r]) : \E n \in Items(f[r][b]) :
             i = <<b - 1, n>> /\ Of(GetItem(f[r][b], n), r, h[r][i])

TargetOK(t, f) ==
    /\ t = [s \in Sessions |-> t[s]]
    /\ \A s \in Sessions :
          /\ t[s] = [r \in Rels |-> t[s][r]]
          /\ \A r \in Rels : t[s][r] \in {NoBlock} \cup 0 .. Len(f[r]) - 1

\* A session that has extended a relation finds its block still zeroed.
InsertOK(i, f) ==
    /\ IsInsert(i)
    /\ i.pc \in {"pick", "try", "extend", "init", "put"} =>
          i.rel \in Rels /\ Of(i.tuple, i.rel, i.row)
    /\ i.pc \in {"try", "init", "put"} => i.blk + 1 \in 1 .. Len(f[i.rel]) /\ i.blk \in Nat
    /\ i.pc = "init" => f[i.rel][i.blk + 1] = ZeroPage

\* No two sessions have extended a relation by the same block.
Apart(ins) ==
    \A s, t \in Sessions : s # t /\ ins[s].pc = "init" /\ ins[t].pc = "init"
                             => ins[s].rel # ins[t].rel \/ ins[s].blk # ins[t].blk

InsertsOK(ins, f) ==
    /\ ins = [s \in Sessions |-> ins[s]]
    /\ \A s \in Sessions : InsertOK(ins[s], f)
    /\ Apart(ins)

HeapInv == /\ FilesOK(files, disk) /\ HandedOK(handed, files) /\ TargetOK(target, files)
           /\ InsertsOK(insert, files)

LEMMA SeqIs ==
    ASSUME NEW x, IsSeq(x)
    PROVE  Len(x) \in Nat /\ x = [b \in 1 .. Len(x) |-> x[b]]
BY DEF IsSeq

LEMMA SeqMade ==
    ASSUME NEW x, NEW n \in Nat, x = [b \in 1 .. n |-> x[b]]
    PROVE  IsSeq(x) /\ Len(x) = n
<1> DEFINE S == {x[b] : b \in 1 .. n}
<1>1. x \in [1 .. n -> S]
  OBVIOUS
<1>2. x \in Seq(S) /\ Len(x) = n
  <2> HIDE DEF S
  <2> QED
    BY <1>1
<1> QED
  BY <1>2 DEF IsSeq

\* y is x with e in place b; y is x with e behind it.
WithAt(y, x, b, e) ==
    /\ IsSeq(y) /\ Len(y) = Len(x)
    /\ \A c \in 1 .. Len(x) : y[c] = IF c = b THEN e ELSE x[c]

WithLast(y, x, e) ==
    /\ IsSeq(y) /\ Len(y) = Len(x) + 1 /\ y[Len(x) + 1] = e
    /\ \A c \in 1 .. Len(x) : y[c] = x[c]

LEMMA SeqPut ==
    ASSUME NEW x, IsSeq(x), NEW b \in 1 .. Len(x), NEW e, NEW y, y = [x EXCEPT ![b] = e]
    PROVE  WithAt(y, x, b, e)
<1> DEFINE n == Len(x)
<1>1. n \in Nat /\ x = [c \in 1 .. n |-> x[c]]
  BY SeqIs
<1> HIDE DEF n
<1>2. DOMAIN x = 1 .. n
  BY <1>1
<1>3. y = [c \in 1 .. n |-> y[c]] /\ \A c \in 1 .. n : y[c] = IF c = b THEN e ELSE x[c]
  BY <1>2
<1>4. IsSeq(y) /\ Len(y) = n
  BY ONLY <1>1, <1>3, SeqMade
<1> QED
  BY <1>3, <1>4 DEF n, WithAt

LEMMA SeqMore ==
    ASSUME NEW x, IsSeq(x), NEW e, NEW y, y = Append(x, e)
    PROVE  WithLast(y, x, e)
<1> DEFINE n == Len(x)
           S == {x[c] : c \in 1 .. n} \cup {e}
<1>1. n \in Nat /\ x = [c \in 1 .. n |-> x[c]]
  BY SeqIs
<1>2. \A c \in 1 .. n : x[c] \in S
  OBVIOUS
<1>3. e \in S
  OBVIOUS
<1> HIDE DEF n, S
<1>4. x \in [1 .. n -> S]
  BY ONLY <1>1, <1>2
<1>5. x \in Seq(S) /\ Len(x) = n
  BY ONLY <1>1, <1>4
<1>6. /\ y \in Seq(S) /\ Len(y) = n + 1 /\ y[n + 1] = e
      /\ \A c \in 1 .. n : y[c] = x[c]
  BY ONLY <1>1, <1>3, <1>5, y = Append(x, e)
<1>7. IsSeq(y)
  <2>1. Len(y) \in Nat /\ y = [c \in 1 .. Len(y) |-> y[c]]
    BY ONLY <1>6
  <2> QED
    BY ONLY <2>1, SeqMade
<1> QED
  BY ONLY <1>5, <1>6, <1>7 DEF WithLast

\* g is f with p as page b of rel.
PageWritten(g, f, rel, b, p) ==
    /\ g = [r \in Rels |-> g[r]] /\ WithAt(g[rel], f[rel], b, p)
    /\ \A r \in Rels : r # rel => g[r] = f[r]

LEMMA FilesPut ==
    ASSUME NEW f, f = [r \in Rels |-> f[r]], NEW rel \in Rels, IsSeq(f[rel]),
           NEW b \in 1 .. Len(f[rel]), NEW p, NEW g, g = [f EXCEPT ![rel][b] = p]
    PROVE  PageWritten(g, f, rel, b, p)
<1> DEFINE x == [f[rel] EXCEPT ![b] = p]
           y == f[rel]
<1>1. WithAt(x, y, b, p)
  <2>1. IsSeq(y) /\ b \in 1 .. Len(y) /\ x = [y EXCEPT ![b] = p]
    OBVIOUS
  <2> HIDE DEF x, y
  <2> QED
    BY ONLY <2>1, SeqPut
<1>2. g = [f EXCEPT ![rel] = x]
  OBVIOUS
<1> HIDE DEF x
<1>3. DOMAIN f = Rels
  OBVIOUS
<1>4. g = [r \in Rels |-> g[r]] /\ g[rel] = x /\ \A r \in Rels : r # rel => g[r] = f[r]
  BY ONLY <1>2, <1>3, rel \in Rels
<1> QED
  BY <1>1, <1>4 DEF PageWritten, y

\* g is f with p behind the pages of rel.
PageAdded(g, f, rel, p) ==
    /\ g = [r \in Rels |-> g[r]] /\ WithLast(g[rel], f[rel], p)
    /\ \A r \in Rels : r # rel => g[r] = f[r]

LEMMA FilesMore ==
    ASSUME NEW f, f = [r \in Rels |-> f[r]], NEW rel \in Rels, IsSeq(f[rel]),
           NEW p, NEW g, g = [f EXCEPT ![rel] = Append(@, p)]
    PROVE  PageAdded(g, f, rel, p)
<1> DEFINE x == Append(f[rel], p)
           y == f[rel]
<1>1. WithLast(x, y, p)
  <2>1. IsSeq(y) /\ x = Append(y, p)
    OBVIOUS
  <2> HIDE DEF x, y
  <2> QED
    BY ONLY <2>1, SeqMore
<1>2. g = [f EXCEPT ![rel] = x]
  OBVIOUS
<1> HIDE DEF x
<1>3. DOMAIN f = Rels
  OBVIOUS
<1>4. g = [r \in Rels |-> g[r]] /\ g[rel] = x /\ \A r \in Rels : r # rel => g[r] = f[r]
  BY ONLY <1>2, <1>3, rel \in Rels
<1> QED
  BY <1>1, <1>4 DEF PageAdded, y

LEMMA ZeroIsGood == Items(ZeroPage) = {} /\ Good(ZeroPage)
<1>1. NumItems(ZeroPage) = 0
  BY DEF NumItems, HeaderSize, ZeroPage
<1>2. Items(ZeroPage) = {}
  BY <1>1 DEF Items
<1> QED
  BY <1>2 DEF Good

LEMMA BehindGoesOn ==
    ASSUME NEW p, NEW q, NEW r, Behind(p, q), Behind(q, r)
    PROVE  Behind(p, r)
BY DEF Behind

\* One page of a relation written, its items all there still: what the files,
\* the TIDs and the handles say goes on being true.
LEMMA WrittenOK ==
    ASSUME NEW f, NEW d, FilesOK(f, d), NEW rel \in Rels, NEW b \in 1 .. Len(f[rel]),
           NEW p, Good(p), Behind(f[rel][b], p), NEW g, PageWritten(g, f, rel, b, p)
    PROVE  /\ FilesOK(g, d)
           /\ \A r \in Rels : Len(g[r]) = Len(f[r])
           /\ \A h : HandedOK(h, f) => HandedOK(h, g)
           /\ \A t : TargetOK(t, f) => TargetOK(t, g)
           /\ \A i : InsertOK(i, f) /\ (f[rel][b] # ZeroPage
                                        \/ i.pc # "init" \/ i.rel # rel \/ i.blk # b - 1)
                        => InsertOK(i, g)
<1>1. /\ g = [r \in Rels |-> g[r]] /\ IsSeq(g[rel]) /\ Len(g[rel]) = Len(f[rel])
      /\ \A c \in 1 .. Len(f[rel]) : g[rel][c] = IF c = b THEN p ELSE f[rel][c]
      /\ \A r \in Rels : r # rel => g[r] = f[r]
  BY DEF PageWritten, WithAt
<1>2. \A r \in Rels : Len(g[r]) = Len(f[r])
  BY <1>1
<1>3. ASSUME NEW r \in Rels, NEW c \in 1 .. Len(f[r])
      PROVE  /\ \/ g[r][c] = f[r][c]
                \/ r = rel /\ c = b /\ g[r][c] = p
             /\ Good(g[r][c]) /\ Behind(f[r][c], g[r][c])
             /\ (r # rel \/ c # b) => g[r][c] = f[r][c]
  <2>1. CASE r = rel /\ c = b
    BY <1>1, <2>1
  <2>2. CASE r # rel \/ c # b
    <3>1. g[r][c] = f[r][c]
      BY <1>1, <2>2
    <3>2. Good(f[r][c])
      BY DEF FilesOK
    <3>3. Behind(f[r][c], f[r][c])
      BY DEF Behind
    <3> QED
      BY <2>2, <3>1, <3>2, <3>3
  <2> QED
    BY <2>1, <2>2
<1>4. FilesOK(g, d)
  <2>1. d = [r \in Rels |-> d[r]]
    BY DEF FilesOK
  <2>2. ASSUME NEW r \in Rels
        PROVE  /\ IsSeq(g[r]) /\ IsSeq(d[r]) /\ Len(d[r]) = Len(g[r])
               /\ \A c \in 1 .. Len(g[r]) :
                     Good(g[r][c]) /\ Good(d[r][c]) /\ Behind(d[r][c], g[r][c])
    <3>1. /\ IsSeq(f[r]) /\ IsSeq(d[r]) /\ Len(d[r]) = Len(f[r])
          /\ \A c \in 1 .. Len(f[r]) : Good(d[r][c]) /\ Behind(d[r][c], f[r][c])
      BY DEF FilesOK
    <3>2. IsSeq(g[r]) /\ Len(g[r]) = Len(f[r])
      BY <1>1, <3>1
    <3>3. ASSUME NEW c \in 1 .. Len(f[r])
          PROVE  Good(g[r][c]) /\ Good(d[r][c]) /\ Behind(d[r][c], g[r][c])
      BY <1>3, <3>1, BehindGoesOn
    <3> QED
      BY <3>1, <3>2, <3>3
  <2> QED
    BY <1>1, <2>1, <2>2 DEF FilesOK
<1>5. ASSUME NEW h, HandedOK(h, f) PROVE HandedOK(h, g)
  <2>1. ASSUME NEW r \in Rels, NEW i \in DOMAIN h[r]
        PROVE  \E c \in 1 .. Len(g[r]) : \E n \in Items(g[r][c]) :
                  i = <<c - 1, n>> /\ Of(GetItem(g[r][c], n), r, h[r][i])
    <3>1. PICK c \in 1 .. Len(f[r]) : \E n \in Items(f[r][c]) :
             i = <<c - 1, n>> /\ Of(GetItem(f[r][c], n), r, h[r][i])
      BY <1>5 DEF HandedOK
    <3>2. PICK n \in Items(f[r][c]) : i = <<c - 1, n>> /\ Of(GetItem(f[r][c], n), r, h[r][i])
      BY <3>1
    <3>3. Good(g[r][c]) /\ Behind(f[r][c], g[r][c])
      BY <1>3
    <3>4. /\ n \in Items(g[r][c])
          /\ Body(GetItem(g[r][c], n)) = Body(GetItem(f[r][c], n))
      BY <3>3 DEF Behind
    <3>5. IsTuple(GetItem(g[r][c], n))
      BY <3>3, <3>4 DEF Good
    <3>6. Of(GetItem(g[r][c], n), r, h[r][i])
      BY <3>2, <3>4, <3>5 DEF Of
    <3>7. c \in 1 .. Len(g[r])
      BY <1>2
    <3> QED
      BY <3>2, <3>4, <3>6, <3>7
  <2> QED
    BY <1>5, <2>1 DEF HandedOK
<1>6. ASSUME NEW t, TargetOK(t, f) PROVE TargetOK(t, g)
  BY <1>2, <1>6 DEF TargetOK
<1>7. ASSUME NEW i, InsertOK(i, f),
             f[rel][b] # ZeroPage \/ i.pc # "init" \/ i.rel # rel \/ i.blk # b - 1
      PROVE  InsertOK(i, g)
  <2>1. CASE i.pc \in {"try", "init", "put"}
    <3>1. i.rel \in Rels /\ i.blk + 1 \in 1 .. Len(f[i.rel]) /\ i.blk \in Nat
      BY <1>7, <2>1 DEF InsertOK
    <3>2. i.blk + 1 \in 1 .. Len(g[i.rel])
      BY <1>2, <3>1
    <3>3. CASE i.pc = "init"
      <4>1. f[i.rel][i.blk + 1] = ZeroPage
        BY <1>7, <3>3 DEF InsertOK
      <4>2. i.rel # rel \/ i.blk + 1 # b
        BY <1>7, <3>1, <3>3, <4>1
      <4>3. g[i.rel][i.blk + 1] = ZeroPage
        BY <1>3, <3>1, <4>1, <4>2
      <4> QED
        BY <1>7, <3>1, <3>2, <4>3 DEF InsertOK
    <3>4. CASE i.pc # "init"
      BY <1>7, <3>1, <3>2, <3>4 DEF InsertOK
    <3> QED
      BY <3>3, <3>4
  <2>2. CASE i.pc \notin {"try", "init", "put"}
    BY <1>7, <2>2 DEF InsertOK
  <2> QED
    BY <2>1, <2>2
<1> QED
  BY <1>2, <1>4, <1>5, <1>6, <1>7

\* A relation extended, on disk first as Pool.Extend does.
LEMMA AddedOK ==
    ASSUME NEW f, NEW d, FilesOK(f, d), NEW rel \in Rels,
           NEW g, PageAdded(g, f, rel, ZeroPage), NEW e, PageAdded(e, d, rel, ZeroPage)
    PROVE  /\ FilesOK(g, e)
           /\ Len(f[rel]) \in Nat /\ Len(g[rel]) = Len(f[rel]) + 1
           /\ g[rel][Len(f[rel]) + 1] = ZeroPage
           /\ \A h : HandedOK(h, f) => HandedOK(h, g)
           /\ \A t : TargetOK(t, f) => TargetOK(t, g)
           /\ \A i : InsertOK(i, f) => InsertOK(i, g)
<1>1. /\ g = [r \in Rels |-> g[r]] /\ IsSeq(g[rel]) /\ Len(g[rel]) = Len(f[rel]) + 1
      /\ g[rel][Len(f[rel]) + 1] = ZeroPage
      /\ \A c \in 1 .. Len(f[rel]) : g[rel][c] = f[rel][c]
      /\ \A r \in Rels : r # rel => g[r] = f[r]
  BY DEF PageAdded, WithLast
<1>2. /\ e = [r \in Rels |-> e[r]] /\ IsSeq(e[rel]) /\ Len(e[rel]) = Len(d[rel]) + 1
      /\ e[rel][Len(d[rel]) + 1] = ZeroPage
      /\ \A c \in 1 .. Len(d[rel]) : e[rel][c] = d[rel][c]
      /\ \A r \in Rels : r # rel => e[r] = d[r]
  BY DEF PageAdded, WithLast
<1>3. ASSUME NEW r \in Rels
      PROVE  /\ Len(f[r]) \in Nat /\ IsSeq(f[r]) /\ IsSeq(d[r]) /\ Len(d[r]) = Len(f[r])
             /\ \A c \in 1 .. Len(f[r]) :
                   Good(f[r][c]) /\ Good(d[r][c]) /\ Behind(d[r][c], f[r][c])
  <2>1. /\ IsSeq(f[r]) /\ IsSeq(d[r]) /\ Len(d[r]) = Len(f[r])
        /\ \A c \in 1 .. Len(f[r]) :
              Good(f[r][c]) /\ Good(d[r][c]) /\ Behind(d[r][c], f[r][c])
    BY DEF FilesOK
  <2> QED
    BY <2>1, SeqIs
<1>4. ASSUME NEW r \in Rels, NEW c \in 1 .. Len(f[r])
      PROVE  c \in 1 .. Len(g[r]) /\ g[r][c] = f[r][c] /\ e[r][c] = d[r][c]
  <2>1. Len(f[r]) \in Nat /\ Len(d[r]) = Len(f[r])
    BY <1>3
  <2>2. CASE r = rel
    BY <1>1, <1>2, <2>1, <2>2
  <2>3. CASE r # rel
    BY <1>1, <1>2, <2>1, <2>3
  <2> QED
    BY <2>2, <2>3
<1>5. FilesOK(g, e)
  <2>1. ASSUME NEW r \in Rels
        PROVE  /\ IsSeq(g[r]) /\ IsSeq(e[r]) /\ Len(e[r]) = Len(g[r])
               /\ \A c \in 1 .. Len(g[r]) :
                     Good(g[r][c]) /\ Good(e[r][c]) /\ Behind(e[r][c], g[r][c])
    <3>1. CASE r = rel
      <4>1. ASSUME NEW c \in 1 .. Len(g[r])
            PROVE  Good(g[r][c]) /\ Good(e[r][c]) /\ Behind(e[r][c], g[r][c])
        <5>1. c \in 1 .. Len(f[r]) \/ c = Len(f[r]) + 1
          BY <1>1, <1>3, <3>1
        <5>2. CASE c \in 1 .. Len(f[r])
          BY <1>3, <1>4, <5>2
        <5>3. CASE c = Len(f[r]) + 1
          <6>1. g[r][c] = ZeroPage /\ e[r][c] = ZeroPage
            BY <1>1, <1>2, <1>3, <3>1, <5>3
          <6> QED
            BY <6>1, ZeroIsGood DEF Behind
        <5> QED
          BY <5>1, <5>2, <5>3
      <4> QED
        BY <1>1, <1>2, <1>3, <3>1, <4>1
    <3>2. CASE r # rel
      BY <1>1, <1>2, <1>3, <3>2
    <3> QED
      BY <3>1, <3>2
  <2> QED
    BY <1>1, <1>2, <2>1 DEF FilesOK
<1>6. ASSUME NEW h, HandedOK(h, f) PROVE HandedOK(h, g)
  <2>1. ASSUME NEW r \in Rels, NEW i \in DOMAIN h[r]
        PROVE  \E c \in 1 .. Len(g[r]) : \E n \in Items(g[r][c]) :
                  i = <<c - 1, n>> /\ Of(GetItem(g[r][c], n), r, h[r][i])
    <3>1. PICK c \in 1 .. Len(f[r]) : \E n \in Items(f[r][c]) :
             i = <<c - 1, n>> /\ Of(GetItem(f[r][c], n), r, h[r][i])
      BY <1>6 DEF HandedOK
    <3> QED
      BY <1>4, <3>1
  <2> QED
    BY <1>6, <2>1 DEF HandedOK
<1>7. ASSUME NEW t, TargetOK(t, f) PROVE TargetOK(t, g)
  <2>1. ASSUME NEW s \in Sessions, NEW r \in Rels
        PROVE  t[s][r] \in {NoBlock} \cup 0 .. Len(g[r]) - 1
    <3>1. t[s][r] \in {NoBlock} \cup 0 .. Len(f[r]) - 1
      BY <1>7 DEF TargetOK
    <3>2. Len(f[r]) \in Nat /\ (Len(g[r]) = Len(f[r]) \/ Len(g[r]) = Len(f[r]) + 1)
      BY <1>1, <1>3
    <3> QED
      BY <3>1, <3>2
  <2> QED
    BY <1>7, <2>1 DEF TargetOK
<1>8. ASSUME NEW i, InsertOK(i, f) PROVE InsertOK(i, g)
  <2>1. CASE i.pc \in {"try", "init", "put"}
    <3>1. i.rel \in Rels /\ i.blk + 1 \in 1 .. Len(f[i.rel]) /\ i.blk \in Nat
      BY <1>8, <2>1 DEF InsertOK
    <3>2. i.blk + 1 \in 1 .. Len(g[i.rel]) /\ g[i.rel][i.blk + 1] = f[i.rel][i.blk + 1]
      BY <1>4, <3>1
    <3> QED
      BY <1>8, <2>1, <3>1, <3>2 DEF InsertOK
  <2>2. CASE i.pc \notin {"try", "init", "put"}
    BY <1>8, <2>2 DEF InsertOK
  <2> QED
    BY <2>1, <2>2
<1> QED
  BY <1>1, <1>3, <1>5, <1>6, <1>7, <1>8

\* A tuple stored: its page keeps the others, and its TID is handed out.
LEMMA StoredOK ==
    ASSUME NEW p, Good(p), NEW blk, NEW rel \in Rels, NEW t, NEW row, Of(t, rel, row),
           NEW r, r = PutOn(p, blk, t), r.err = "none"
    PROVE  /\ Good(r.page) /\ Behind(p, r.page) /\ p # ZeroPage
           /\ r.off \in Items(r.page) /\ Of(GetItem(r.page, r.off), rel, row)
<1> DEFINE new == [t EXCEPT !.ctid = <<blk, r.off>>]
<1>1. t.len \in Nat /\ 0 < t.len
  <2>1. Desc[rel] \in Seq(Types)
    BY HeapAssumption
  <2>2. row \in [1 .. Len(Desc[rel]) -> Values] /\ Body(t) = Body(Form(Desc[rel], row))
    BY DEF Of
  <2>3. t.len = Form(Desc[rel], row).len
    BY <2>2 DEF Body
  <2> QED
    BY <2>1, <2>2, <2>3, FormLen
<1>2. p = ZeroPage \/ IsPage(p)
  BY DEF Good
<1>3. /\ IsPage(p) /\ IsPage(r.page) /\ r.off \notin Items(p)
      /\ Grown(r.page, p, r.off, new)
  BY <1>1, <1>2, PutOnIs
<1>4. IsTuple(new) /\ Body(new) = Body(t)
  BY OfStays DEF Of
<1> HIDE DEF new
<1>5. Good(r.page)
  BY <1>3, <1>4 DEF Good, Grown
<1>6. Behind(p, r.page)
  BY <1>3 DEF Behind, Grown
<1>7. GetItem(r.page, r.off) = new /\ r.off \in Items(r.page)
  BY <1>3 DEF Grown
<1>8. Of(new, rel, row)
  BY <1>4 DEF Of
<1>9. p # ZeroPage
  BY <1>3, PageIs
<1> QED
  BY <1>5, <1>6, <1>7, <1>8, <1>9

-----------------------------------------------------------------------------
(* Steps.                                                                  *)

LEMMA NoInsertIs == \A f : InsertOK(NoInsert, f)
BY DEF InsertOK, IsInsert, NoInsert

\* One session's Insert goes on, the others' are where they were.
LEMMA OneInsert ==
    ASSUME NEW ins, NEW f, InsertsOK(ins, f), NEW s \in Sessions, NEW i, NEW g,
           \A u \in Sessions : u # s => InsertOK(ins[u], g),
           InsertOK(i, g),
           \A u \in Sessions : u # s /\ ins[u].pc = "init" /\ i.pc = "init"
                                 => i.rel # ins[u].rel \/ i.blk # ins[u].blk,
           NEW next, next = [ins EXCEPT ![s] = i]
    PROVE  InsertsOK(next, g)
<1>1. ins = [u \in Sessions |-> ins[u]] /\ Apart(ins)
  BY DEF InsertsOK
<1>2. DOMAIN ins = Sessions
  BY ONLY <1>1
<1>3. /\ next = [u \in Sessions |-> next[u]] /\ next[s] = i
      /\ \A u \in Sessions : u # s => next[u] = ins[u]
  BY ONLY <1>2, s \in Sessions, next = [ins EXCEPT ![s] = i]
<1>4. \A u \in Sessions : InsertOK(next[u], g)
  BY <1>3
<1>5. Apart(next)
  <2> SUFFICES ASSUME NEW u \in Sessions, NEW v \in Sessions, u # v,
                      next[u].pc = "init", next[v].pc = "init"
               PROVE  next[u].rel # next[v].rel \/ next[u].blk # next[v].blk
    BY DEF Apart
  <2>1. CASE u = s
    BY <1>3, <2>1
  <2>2. CASE v = s
    BY <1>3, <2>2
  <2>3. CASE u # s /\ v # s
    BY <1>1, <1>3, <2>3 DEF Apart
  <2> QED
    BY <2>1, <2>2, <2>3
<1> QED
  BY <1>3, <1>4, <1>5 DEF InsertsOK

\* What is there of an Insert under way.
LEMMA UnderWay ==
    ASSUME HeapInv, NEW s \in Sessions
    PROVE  /\ InsertOK(insert[s], files)
           /\ insert[s].pc \in {"pick", "try", "extend", "init", "put"} =>
                 /\ insert[s].rel \in Rels /\ Of(insert[s].tuple, insert[s].rel, insert[s].row)
                 /\ IsSeq(files[insert[s].rel]) /\ Len(files[insert[s].rel]) \in Nat
           /\ insert[s].pc \in {"try", "init", "put"} =>
                 /\ insert[s].blk + 1 \in 1 .. Len(files[insert[s].rel]) /\ insert[s].blk \in Nat
                 /\ insert[s].blk = (insert[s].blk + 1) - 1
<1>1. InsertOK(insert[s], files)
  BY DEF HeapInv, InsertsOK
<1>2. \A r \in Rels : IsSeq(files[r]) /\ Len(files[r]) \in Nat
  <2>1. \A r \in Rels : IsSeq(files[r])
    BY DEF HeapInv, FilesOK
  <2> QED
    BY <2>1, SeqIs
<1>3. insert[s].pc \in {"pick", "try", "extend", "init", "put"} =>
         insert[s].rel \in Rels /\ Of(insert[s].tuple, insert[s].rel, insert[s].row)
  BY <1>1 DEF InsertOK
<1>4. insert[s].pc \in {"try", "init", "put"} =>
         insert[s].blk + 1 \in 1 .. Len(files[insert[s].rel]) /\ insert[s].blk \in Nat
  BY <1>1 DEF InsertOK
<1> QED
  BY <1>1, <1>2, <1>3, <1>4

\* An Insert that moves on and touches nothing else.
LEMMA MovedOn ==
    ASSUME HeapInv, NEW s \in Sessions, NEW i, InsertOK(i, files), i.pc # "init",
           insert' = [insert EXCEPT ![s] = i], UNCHANGED <<files, disk, target, handed>>
    PROVE  HeapInv'
<1>1. \A u \in Sessions : InsertOK(insert[u], files)
  BY DEF HeapInv, InsertsOK
<1>2. InsertsOK(insert, files)
  BY DEF HeapInv
<1>3. InsertsOK(insert', files)
  BY <1>1, <1>2, OneInsert
<1> QED
  BY <1>3 DEF HeapInv

LEMMA PickStep ==
    ASSUME HeapInv, NEW s \in Sessions, InsertPick(s)
    PROVE  HeapInv'
<1> DEFINE i == insert[s]
           rel == i.rel
           blk == IF target[s][rel] # NoBlock THEN target[s][rel] ELSE NBlocks(rel) - 1
           pc == IF blk = NoBlock THEN "extend" ELSE "try"
           j == GoesOn(i, pc, blk)
<1>1. /\ insert[s].pc = "pick" /\ UNCHANGED <<files, disk, target, handed>>
      /\ insert' = [insert EXCEPT ![s] = j]
  BY DEF InsertPick
<1>2. /\ InsertOK(i, files) /\ rel \in Rels /\ Of(i.tuple, rel, i.row)
      /\ Len(files[rel]) \in Nat
  BY <1>1, UnderWay
<1>3. blk \in {NoBlock} \cup 0 .. Len(files[rel]) - 1
  <2>1. target[s][rel] \in {NoBlock} \cup 0 .. Len(files[rel]) - 1
    BY <1>2 DEF HeapInv, TargetOK
  <2> QED
    BY <1>2, <2>1 DEF NBlocks, NoBlock
<1> HIDE DEF blk
<1>4. pc = "try" => blk + 1 \in 1 .. Len(files[rel]) /\ blk \in Nat
  BY <1>2, <1>3
<1>5. pc = "try" \/ pc = "extend"
  OBVIOUS
<1> HIDE DEF pc
<1>6. /\ IsInsert(j) /\ j.pc = pc /\ j.blk = blk
      /\ j.rel = i.rel /\ j.row = i.row /\ j.tuple = i.tuple
  BY <1>2, GoesOnIs DEF InsertOK
<1> HIDE DEF j
<1>7. InsertOK(j, files) /\ j.pc # "init"
  BY <1>2, <1>4, <1>5, <1>6 DEF InsertOK
<1> QED
  BY <1>1, <1>7, MovedOn

LEMMA FailsStep ==
    ASSUME HeapInv, NEW s \in Sessions, insert[s].pc \in {"try", "put"},
           NEW pc \in {"extend", "failed"}, PutFails(s, pc)
    PROVE  HeapInv'
<1> DEFINE i == insert[s]
           j == [i EXCEPT !.pc = pc]
<1>1. UNCHANGED <<files, disk, target, handed>> /\ insert' = [insert EXCEPT ![s] = j]
  BY DEF PutFails
<1>2. InsertOK(i, files) /\ i.rel \in Rels /\ Of(i.tuple, i.rel, i.row)
  BY UnderWay
<1>3. j = [pc |-> pc, rel |-> i.rel, row |-> i.row, tuple |-> i.tuple, blk |-> i.blk,
           tid |-> i.tid]
  <2>1. i = [pc |-> i.pc, rel |-> i.rel, row |-> i.row, tuple |-> i.tuple, blk |-> i.blk,
             tid |-> i.tid]
    BY <1>2 DEF InsertOK, IsInsert
  <2> HIDE DEF i
  <2> QED
    BY ONLY <2>1
<1> HIDE DEF j
<1>4. InsertOK(j, files) /\ j.pc # "init"
  BY <1>2, <1>3 DEF InsertOK, IsInsert
<1> QED
  BY <1>1, <1>4, MovedOn

LEMMA ExtendStep ==
    ASSUME HeapInv, NEW s \in Sessions, InsertExtend(s)
    PROVE  HeapInv'
<1> DEFINE i == insert[s]
           rel == i.rel
           j == GoesOn(i, "init", NBlocks(rel))
<1>1. /\ i.pc = "extend" /\ UNCHANGED <<target, handed>>
      /\ files' = [files EXCEPT ![rel] = Append(@, ZeroPage)]
      /\ disk' = [disk EXCEPT ![rel] = Append(@, ZeroPage)]
      /\ insert' = [insert EXCEPT ![s] = j]
  BY DEF InsertExtend
<1>2. InsertOK(i, files) /\ rel \in Rels /\ Of(i.tuple, rel, i.row)
  BY <1>1, UnderWay
<1>3. FilesOK(files, disk)
  BY DEF HeapInv
<1>4. PageAdded(files', files, rel, ZeroPage) /\ PageAdded(disk', disk, rel, ZeroPage)
  <2>1. /\ files = [r \in Rels |-> files[r]] /\ disk = [r \in Rels |-> disk[r]]
        /\ IsSeq(files[rel]) /\ IsSeq(disk[rel])
    BY <1>2, <1>3 DEF FilesOK
  <2> HIDE DEF i, rel
  <2> QED
    BY ONLY <1>1, <1>2, <2>1, FilesMore
<1>5. /\ FilesOK(files', disk')
      /\ Len(files[rel]) \in Nat /\ Len(files'[rel]) = Len(files[rel]) + 1
      /\ files'[rel][Len(files[rel]) + 1] = ZeroPage
      /\ \A h : HandedOK(h, files) => HandedOK(h, files')
      /\ \A t : TargetOK(t, files) => TargetOK(t, files')
      /\ \A k : InsertOK(k, files) => InsertOK(k, files')
  <2> HIDE DEF i, rel
  <2> QED
    BY ONLY <1>2, <1>3, <1>4, AddedOK
<1>6. HandedOK(handed, files') /\ TargetOK(target, files')
  BY <1>5 DEF HeapInv
<1>7. /\ IsInsert(j) /\ j.pc = "init" /\ j.blk = Len(files[rel])
      /\ j.rel = rel /\ j.row = i.row /\ j.tuple = i.tuple
  BY <1>2, GoesOnIs DEF InsertOK, NBlocks
<1> HIDE DEF j
<1>8. InsertOK(j, files')
  <2>1. Len(files[rel]) + 1 \in 1 .. Len(files'[rel])
    BY <1>5
  <2> QED
    BY <1>2, <1>5, <1>7, <2>1 DEF InsertOK
<1>9. ASSUME NEW u \in Sessions, u # s, insert[u].pc = "init"
      PROVE  rel # insert[u].rel \/ Len(files[rel]) # insert[u].blk
  <2>1. insert[u].blk + 1 \in 1 .. Len(files[insert[u].rel]) /\ insert[u].blk \in Nat
    BY <1>9, UnderWay
  <2> QED
    BY <1>5, <2>1
<1>10. InsertsOK(insert', files')
  <2>1. \A u \in Sessions : InsertOK(insert[u], files')
    BY <1>5 DEF HeapInv, InsertsOK
  <2>2. InsertsOK(insert, files)
    BY DEF HeapInv
  <2>3. \A u \in Sessions : u # s /\ insert[u].pc = "init" /\ j.pc = "init"
                              => j.rel # insert[u].rel \/ j.blk # insert[u].blk
    BY <1>7, <1>9
  <2> QED
    BY <1>1, <1>8, <2>1, <2>2, <2>3, OneInsert
<1> QED
  BY <1>1, <1>5, <1>6, <1>10 DEF HeapInv

LEMMA InitStep ==
    ASSUME HeapInv, NEW s \in Sessions, InsertInit(s)
    PROVE  HeapInv'
<1> DEFINE i == insert[s]
           rel == i.rel
           b == i.blk + 1
           j == [i EXCEPT !.pc = "put"]
           p == InitPage(0)
<1>1. /\ i.pc = "init" /\ UNCHANGED <<disk, target, handed>>
      /\ files' = [files EXCEPT ![rel][b] = p]
      /\ insert' = [insert EXCEPT ![s] = j]
  BY DEF InsertInit
<1>2. /\ InsertOK(i, files) /\ rel \in Rels /\ Of(i.tuple, rel, i.row)
      /\ b \in 1 .. Len(files[rel]) /\ i.blk = b - 1 /\ i.blk \in Nat
      /\ files[rel][b] = ZeroPage
  <2>1. /\ InsertOK(i, files) /\ rel \in Rels /\ Of(i.tuple, rel, i.row)
        /\ b \in 1 .. Len(files[rel]) /\ i.blk = b - 1 /\ i.blk \in Nat
    BY <1>1, UnderWay
  <2> QED
    BY <1>1, <2>1 DEF InsertOK
<1>3. FilesOK(files, disk)
  BY DEF HeapInv
<1>4. PageWritten(files', files, rel, b, p)
  <2>1. files = [r \in Rels |-> files[r]] /\ IsSeq(files[rel])
    BY <1>2, <1>3 DEF FilesOK
  <2> HIDE DEF i, rel, b, p
  <2> QED
    BY ONLY <1>1, <1>2, <2>1, FilesPut
<1>5. Good(p) /\ Behind(files[rel][b], p)
  BY <1>2, InitIsPage, ZeroIsGood DEF Good, Behind
<1>6. /\ FilesOK(files', disk)
      /\ \A r \in Rels : Len(files'[r]) = Len(files[r])
      /\ \A h : HandedOK(h, files) => HandedOK(h, files')
      /\ \A t : TargetOK(t, files) => TargetOK(t, files')
      /\ \A k : InsertOK(k, files) /\ (files[rel][b] # ZeroPage
                                       \/ k.pc # "init" \/ k.rel # rel \/ k.blk # b - 1)
                   => InsertOK(k, files')
  <2> HIDE DEF i, rel, b, p
  <2> QED
    BY ONLY <1>2, <1>3, <1>4, <1>5, WrittenOK
<1>7. HandedOK(handed, files') /\ TargetOK(target, files')
  BY <1>6 DEF HeapInv
<1>8. j = [pc |-> "put", rel |-> i.rel, row |-> i.row, tuple |-> i.tuple, blk |-> i.blk,
           tid |-> i.tid]
  <2>1. i = [pc |-> i.pc, rel |-> i.rel, row |-> i.row, tuple |-> i.tuple, blk |-> i.blk,
             tid |-> i.tid]
    BY <1>2 DEF InsertOK, IsInsert
  <2> HIDE DEF i
  <2> QED
    BY ONLY <2>1
<1> HIDE DEF j
<1>9. InsertOK(j, files') /\ j.pc # "init"
  <2>1. b \in 1 .. Len(files'[rel])
    BY <1>2, <1>6
  <2> QED
    BY <1>2, <1>8, <2>1 DEF InsertOK, IsInsert
<1>10. ASSUME NEW u \in Sessions, u # s PROVE InsertOK(insert[u], files')
  <2>1. InsertOK(insert[u], files)
    BY UnderWay
  <2>2. insert[u].pc # "init" \/ insert[u].rel # rel \/ insert[u].blk # b - 1
    <3>1. Apart(insert)
      BY DEF HeapInv, InsertsOK
    <3> QED
      BY <1>1, <1>2, <1>10, <3>1 DEF Apart
  <2> QED
    BY <1>6, <2>1, <2>2
<1>11. InsertsOK(insert', files')
  <2>1. InsertsOK(insert, files)
    BY DEF HeapInv
  <2> QED
    BY <1>1, <1>9, <1>10, <2>1, OneInsert
<1> QED
  BY <1>1, <1>6, <1>7, <1>11 DEF HeapInv

\* The row of a TID that is handed out joins those of the others.
LEMMA HandedMore ==
    ASSUME NEW h, NEW f, HandedOK(h, f), NEW rel \in Rels, NEW b \in 1 .. Len(f[rel]),
           NEW n \in Items(f[rel][b]), NEW row, Of(GetItem(f[rel][b], n), rel, row),
           NEW g, g = [h EXCEPT ![rel] = HandOut(@, <<b - 1, n>>, row)]
    PROVE  HandedOK(g, f)
<1> DEFINE tid == <<b - 1, n>>
           x == HandOut(h[rel], tid, row)
<1>1. h = [r \in Rels |-> h[r]]
  BY DEF HandedOK
<1>2. DOMAIN h = Rels
  BY ONLY <1>1
<1>3. g = [h EXCEPT ![rel] = x]
  OBVIOUS
<1>4. /\ DOMAIN x = {tid} \cup DOMAIN h[rel] /\ x[tid] = row
      /\ \A i \in DOMAIN h[rel] : i # tid => x[i] = h[rel][i]
  <2> HIDE DEF tid
  <2> QED
    BY DEF HandOut
<1> HIDE DEF x
<1>5. g = [r \in Rels |-> g[r]] /\ g[rel] = x /\ \A r \in Rels : r # rel => g[r] = h[r]
  BY ONLY <1>2, <1>3, rel \in Rels
<1>6. ASSUME NEW r \in Rels, NEW i \in DOMAIN g[r]
      PROVE  \E c \in 1 .. Len(f[r]) : \E m \in Items(f[r][c]) :
                i = <<c - 1, m>> /\ Of(GetItem(f[r][c], m), r, g[r][i])
  <2>1. CASE r = rel /\ i = tid
    BY <1>4, <1>5, <2>1
  <2>2. CASE r # rel \/ i # tid
    <3>1. i \in DOMAIN h[r] /\ g[r][i] = h[r][i]
      BY <1>4, <1>5, <1>6, <2>2
    <3> QED
      BY <3>1 DEF HandedOK
  <2> QED
    BY <2>1, <2>2
<1> QED
  BY <1>5, <1>6 DEF HandedOK
\* The block a handle last inserted into.
LEMMA TargetMore ==
    ASSUME NEW t, NEW f, TargetOK(t, f), NEW s \in Sessions, NEW rel \in Rels,
           NEW blk \in {NoBlock} \cup 0 .. Len(f[rel]) - 1,
           NEW g, g = [t EXCEPT ![s][rel] = blk]
    PROVE  TargetOK(g, f)
<1> DEFINE y == t[s]
           x == [y EXCEPT ![rel] = blk]
<1>1. /\ t = [u \in Sessions |-> t[u]]
      /\ \A u \in Sessions :
            /\ t[u] = [r \in Rels |-> t[u][r]]
            /\ \A r \in Rels : t[u][r] \in {NoBlock} \cup 0 .. Len(f[r]) - 1
  BY DEF TargetOK
<1>2. DOMAIN t = Sessions /\ DOMAIN y = Rels
  BY <1>1
<1>3. g = [t EXCEPT ![s] = x]
  OBVIOUS
<1>4. /\ x = [r \in Rels |-> x[r]] /\ x[rel] = blk
      /\ \A r \in Rels : r # rel => x[r] = y[r]
  <2> HIDE DEF y
  <2> QED
    BY ONLY <1>2, rel \in Rels DEF x
<1> HIDE DEF x
<1>5. g = [u \in Sessions |-> g[u]] /\ g[s] = x /\ \A u \in Sessions : u # s => g[u] = t[u]
  BY ONLY <1>2, <1>3, s \in Sessions
<1>6. \A r \in Rels : x[r] \in {NoBlock} \cup 0 .. Len(f[r]) - 1
  BY <1>1, <1>4
<1>7. ASSUME NEW u \in Sessions
      PROVE  /\ g[u] = [r \in Rels |-> g[u][r]]
             /\ \A r \in Rels : g[u][r] \in {NoBlock} \cup 0 .. Len(f[r]) - 1
  <2>1. CASE u = s
    BY <1>4, <1>5, <1>6, <2>1
  <2>2. CASE u # s
    BY <1>1, <1>5, <2>2
  <2> QED
    BY <2>1, <2>2
<1> QED
  BY <1>5, <1>7 DEF TargetOK

LEMMA PutStep ==
    ASSUME HeapInv, NEW s \in Sessions, insert[s].pc \in {"try", "put"}, PutSucceeds(s)
    PROVE  HeapInv'
<1> DEFINE i == insert[s]
           rel == i.rel
           b == i.blk + 1
           r == PutOn(files[rel][b], b - 1, i.tuple)
           tid == <<b - 1, r.off>>
           j == [pc |-> "done", rel |-> rel, row |-> <<>>, tuple |-> NoTuple,
                 blk |-> NoBlock, tid |-> tid]
<1>1. /\ InsertOK(i, files) /\ rel \in Rels /\ Of(i.tuple, rel, i.row)
      /\ b \in 1 .. Len(files[rel]) /\ i.blk = b - 1 /\ i.blk \in Nat
  BY UnderWay
<1>2. /\ r.err = "none" /\ disk' = disk
      /\ files' = [files EXCEPT ![rel][b] = r.page]
      /\ target' = [target EXCEPT ![s][rel] = i.blk]
      /\ insert' = [insert EXCEPT ![s] = j]
      /\ handed' = [handed EXCEPT ![rel] = HandOut(@, tid, i.row)]
  <2>1. PutTuple(rel, i.blk, i.tuple) = r /\ <<i.blk, r.off>> = tid
    BY <1>1 DEF PutTuple, PageAt
  <2> HIDE DEF r, tid
  <2> QED
    BY <2>1 DEF PutSucceeds
<1>3. FilesOK(files, disk) /\ HandedOK(handed, files) /\ TargetOK(target, files)
  BY DEF HeapInv
<1> HIDE DEF r
<1>4. /\ Good(r.page) /\ Behind(files[rel][b], r.page) /\ files[rel][b] # ZeroPage
      /\ r.off \in Items(r.page) /\ Of(GetItem(r.page, r.off), rel, i.row)
  <2>1. r = PutOn(files[rel][b], b - 1, i.tuple) /\ Good(files[rel][b])
    BY <1>1, <1>3 DEF r, FilesOK
  <2> HIDE DEF i, rel, b
  <2> QED
    BY ONLY <1>1, <1>2, <1>3, <2>1, StoredOK
<1>5. PageWritten(files', files, rel, b, r.page)
  <2>1. files = [q \in Rels |-> files[q]] /\ IsSeq(files[rel])
    BY <1>1, <1>3 DEF FilesOK
  <2> HIDE DEF i, rel, b
  <2> QED
    BY ONLY <1>1, <1>2, <2>1, FilesPut
<1>6. /\ FilesOK(files', disk)
      /\ \A q \in Rels : Len(files'[q]) = Len(files[q])
      /\ HandedOK(handed, files') /\ TargetOK(target, files')
      /\ \A k : InsertOK(k, files) => InsertOK(k, files')
  <2> HIDE DEF i, rel, b
  <2>1. /\ FilesOK(files', disk)
        /\ \A q \in Rels : Len(files'[q]) = Len(files[q])
        /\ \A h : HandedOK(h, files) => HandedOK(h, files')
        /\ \A t : TargetOK(t, files) => TargetOK(t, files')
        /\ \A k : InsertOK(k, files) /\ (files[rel][b] # ZeroPage
                                         \/ k.pc # "init" \/ k.rel # rel \/ k.blk # b - 1)
                     => InsertOK(k, files')
    BY ONLY <1>1, <1>3, <1>4, <1>5, WrittenOK
  <2> QED
    BY ONLY <1>3, <1>4, <2>1
<1>7. HandedOK(handed', files')
  <2>1. b \in 1 .. Len(files'[rel]) /\ files'[rel][b] = r.page
    BY <1>1, <1>5, <1>6 DEF PageWritten, WithAt
  <2> HIDE DEF i, rel, b
  <2> QED
    BY ONLY <1>1, <1>2, <1>4, <1>6, <2>1, HandedMore DEF tid
<1>8. TargetOK(target', files')
  <2>1. i.blk \in {NoBlock} \cup 0 .. Len(files'[rel]) - 1
    BY <1>1, <1>6
  <2> HIDE DEF i, rel, b
  <2> QED
    BY ONLY <1>1, <1>2, <1>6, <2>1, TargetMore
<1>9. InsertOK(j, files') /\ j.pc # "init"
  BY DEF InsertOK, IsInsert
<1> HIDE DEF j
<1>10. InsertsOK(insert', files')
  <2>1. InsertsOK(insert, files)
    BY DEF HeapInv
  <2>2. \A u \in Sessions : u # s => InsertOK(insert[u], files')
    BY <1>6, UnderWay
  <2> HIDE DEF i
  <2> QED
    BY ONLY <1>2, <1>9, <2>1, <2>2, OneInsert, s \in Sessions
<1> QED
  BY <1>2, <1>6, <1>7, <1>8, <1>10 DEF HeapInv

LEMMA BeginStep ==
    ASSUME HeapInv, NEW s \in Sessions, BeginInsert(s)
    PROVE  HeapInv'
<1>1. PICK r \in Rels : \E row \in Rows[r], x \in Xids : StartInsert(s, r, row, x)
  BY DEF BeginInsert
<1>2. PICK row \in Rows[r] : \E x \in Xids : StartInsert(s, r, row, x)
  BY <1>1
<1>3. PICK x \in Xids : StartInsert(s, r, row, x)
  BY <1>2
<1> DEFINE form == Form(Desc[r], row)
           t == [form EXCEPT !.xmin = x]
           j == IF t.len > MaxItemSize
                THEN [NoInsert EXCEPT !.pc = "failed"]
                ELSE [pc |-> "pick", rel |-> r, row |-> row, tuple |-> t,
                      blk |-> NoBlock, tid |-> NoTid]
<1>4. UNCHANGED <<files, disk, target, handed>> /\ insert' = [insert EXCEPT ![s] = j]
  BY <1>3 DEF BeginInsert, StartInsert
<1>5. row \in [1 .. Len(Desc[r]) -> Values]
  BY HeapAssumption
<1>6. IsTuple(form)
  BY DEF Form, IsTuple
<1> HIDE DEF form
<1>7. IsTuple(t) /\ Body(t) = Body(form)
  BY <1>6, OfStays
<1> HIDE DEF t
<1>8. Of(t, r, row)
  BY <1>5, <1>7 DEF Of, form
<1>9. [NoInsert EXCEPT !.pc = "failed"]
        = [pc |-> "failed", rel |-> NoInsert.rel, row |-> NoInsert.row,
           tuple |-> NoInsert.tuple, blk |-> NoInsert.blk, tid |-> NoInsert.tid]
  <2>1. IsInsert(NoInsert)
    BY NoInsertIs DEF InsertOK
  <2> QED
    BY ONLY <2>1 DEF IsInsert
<1>10. InsertOK(j, files) /\ j.pc # "init"
  BY <1>8, <1>9 DEF InsertOK, IsInsert
<1> HIDE DEF j
<1> QED
  BY <1>4, <1>10, MovedOn

LEMMA ForgetKeeps ==
    ASSUME NEW f, InsertsOK(insert, f),
           UNCHANGED insert \/ \E s \in Sessions : Forget(s)
    PROVE  InsertsOK(insert', f)
<1>1. CASE UNCHANGED insert
  BY <1>1
<1>2. ASSUME NEW s \in Sessions, Forget(s) PROVE InsertsOK(insert', f)
  <2>1. insert' = [insert EXCEPT ![s] = NoInsert]
    BY <1>2 DEF Forget
  <2>2. InsertOK(NoInsert, f) /\ NoInsert.pc # "init"
    BY NoInsertIs DEF NoInsert
  <2>3. \A u \in Sessions : u # s => InsertOK(insert[u], f)
    BY DEF InsertsOK
  <2> QED
    BY <2>1, <2>2, <2>3, OneInsert
<1> QED
  BY <1>1, <1>2

\* An old version that gets its xmax, as markDeleted sets it.
LEMMA MarkKeeps ==
    ASSUME HeapInv, MarkOld
    PROVE  /\ FilesOK(files', disk) /\ HandedOK(handed, files') /\ TargetOK(target, files')
           /\ InsertsOK(insert, files') /\ UNCHANGED <<disk, target, handed>>
<1>1. PICK r \in Rels : \E tid \in TidsOf(r) : \E x \in Xids :
                           \E ctid \in TidsOf(r) \cup {NoTid} : MarkDeleted(r, tid, x, ctid)
  BY DEF MarkOld
<1>2. PICK tid \in TidsOf(r) : \E x \in Xids :
                           \E ctid \in TidsOf(r) \cup {NoTid} : MarkDeleted(r, tid, x, ctid)
  BY <1>1
<1>3. PICK x \in Xids : \E ctid \in TidsOf(r) \cup {NoTid} : MarkDeleted(r, tid, x, ctid)
  BY <1>2
<1>4. PICK ctid \in TidsOf(r) \cup {NoTid} : MarkDeleted(r, tid, x, ctid)
  BY <1>3
<1>5. FilesOK(files, disk) /\ HandedOK(handed, files) /\ TargetOK(target, files)
  BY DEF HeapInv
<1>6. IsSeq(files[r]) /\ Len(files[r]) \in Nat
  <2>1. IsSeq(files[r])
    BY <1>5 DEF FilesOK
  <2> QED
    BY <2>1, SeqIs
<1>7. PICK c \in 0 .. NBlocks(r) - 1 : tid \in {<<c, m>> : m \in Items(PageAt(r, c))}
  BY <1>2 DEF TidsOf
<1>8. PICK n \in Items(PageAt(r, c)) : tid = <<c, n>>
  BY <1>7
<1> DEFINE b == c + 1
           p == files[r][b]
           old == GetItem(p, n)
           new == Marked(old, x, ctid)
           q == PutItem(p, n, new)
<1>9. b \in 1 .. Len(files[r]) /\ n \in Items(p)
  BY <1>6, <1>7, <1>8 DEF NBlocks, PageAt
<1>10. files' = [files EXCEPT ![r][b] = q] /\ UNCHANGED <<disk, target, handed>>
  <2>1. tid[1] = c /\ tid[2] = n
    BY <1>8
  <2>2. PageAt(r, tid[1]) = p
    BY <2>1 DEF PageAt
  <2> HIDE DEF p
  <2>3. PutItem(p, tid[2], Marked(GetItem(p, tid[2]), x, ctid)) = q
    BY <2>1
  <2>4. tid[1] + 1 = b
    BY <2>1
  <2> HIDE DEF q, b
  <2>5. files' = [files EXCEPT ![r][tid[1] + 1] =
                     PutItem(p, tid[2], Marked(GetItem(p, tid[2]), x, ctid))]
    BY ONLY <1>4, <2>2 DEF MarkDeleted
  <2>6. UNCHANGED <<disk, target, handed>>
    BY ONLY <1>4 DEF MarkDeleted
  <2> QED
    BY ONLY <2>3, <2>4, <2>5, <2>6
<1>11. IsPage(p) /\ p # ZeroPage /\ \A m \in Items(p) : IsTuple(GetItem(p, m))
  <2>1. Good(p)
    BY <1>5, <1>9 DEF FilesOK
  <2> HIDE DEF p
  <2> QED
    BY <1>9, <2>1, ZeroIsGood DEF Good
<1>12. IsTuple(new) /\ Body(new) = Body(old)
  <2> HIDE DEF p
  <2>1. IsTuple(old)
    BY <1>9, <1>11
  <2> HIDE DEF old
  <2> QED
    BY <2>1, MarkedIs
<1> HIDE DEF new
<1>13. Good(q) /\ Behind(p, q)
  <2> HIDE DEF p
  <2>1. /\ IsPage(q) /\ Items(q) = Items(p)
        /\ \A m \in Items(p) : GetItem(q, m) = IF m = n THEN new ELSE GetItem(p, m)
    BY <1>9, <1>11, PutItemIs
  <2> HIDE DEF q
  <2>2. \A m \in Items(p) : IsTuple(GetItem(q, m)) /\ Body(GetItem(q, m)) = Body(GetItem(p, m))
    BY <1>11, <1>12, <2>1 DEF old
  <2> QED
    BY <2>1, <2>2 DEF Good, Behind
<1> HIDE DEF q
<1>14. PageWritten(files', files, r, b, q)
  <2>1. files = [k \in Rels |-> files[k]]
    BY <1>5 DEF FilesOK
  <2> HIDE DEF b
  <2> QED
    BY ONLY <1>6, <1>9, <1>10, <2>1, FilesPut, r \in Rels
<1>15. /\ FilesOK(files', disk)
       /\ \A k \in Rels : Len(files'[k]) = Len(files[k])
       /\ \A h : HandedOK(h, files) => HandedOK(h, files')
       /\ \A t : TargetOK(t, files) => TargetOK(t, files')
       /\ \A k : InsertOK(k, files) /\ (files[r][b] # ZeroPage
                                        \/ k.pc # "init" \/ k.rel # r \/ k.blk # b - 1)
                    => InsertOK(k, files')
  <2> HIDE DEF b
  <2> QED
    BY ONLY <1>5, <1>9, <1>13, <1>14, WrittenOK, r \in Rels DEF p
<1>16. InsertsOK(insert, files')
  BY <1>11, <1>15 DEF HeapInv, InsertsOK
<1> QED
  BY <1>5, <1>10, <1>15, <1>16

LEMMA CrashStep ==
    ASSUME HeapInv, HeapCrash
    PROVE  HeapInv'
<1>1. PICK choice : /\ files' = Survives(choice) /\ disk' = Survives(choice)
  BY DEF HeapCrash
<1> DEFINE g == Survives(choice)
           x(r) == [b \in 1 .. NBlocks(r) |->
                       IF <<r, b>> \in choice THEN files[r][b] ELSE disk[r][b]]
<1>2. /\ target' = [s \in Sessions |-> FreshHandle]
      /\ insert' = [s \in Sessions |-> NoInsert]
      /\ handed' = [r \in Rels |->
                      [i \in {i \in DOMAIN handed[r] :
                                 i[2] \in Items(files'[r][i[1] + 1])} |-> handed[r][i]]]
  BY DEF HeapCrash
<1>3. FilesOK(files, disk) /\ HandedOK(handed, files)
  BY DEF HeapInv
<1>4. g = [r \in Rels |-> g[r]] /\ \A r \in Rels : g[r] = x(r)
  BY DEF Survives
<1>5. ASSUME NEW r \in Rels
      PROVE  /\ IsSeq(g[r]) /\ Len(g[r]) = Len(files[r]) /\ Len(files[r]) \in Nat
             /\ \A b \in 1 .. Len(files[r]) : g[r][b] \in {files[r][b], disk[r][b]}
  <2>1. IsSeq(files[r])
    BY <1>3 DEF FilesOK
  <2>2. Len(files[r]) \in Nat
    BY <2>1, SeqIs
  <2> DEFINE y == x(r)
             n == Len(files[r])
  <2>3. y = [b \in 1 .. n |-> y[b]] /\ \A b \in 1 .. n : y[b] \in {files[r][b], disk[r][b]}
    BY DEF NBlocks
  <2> HIDE DEF y, n
  <2>4. IsSeq(y) /\ Len(y) = n
    BY ONLY <2>2, <2>3, SeqMade DEF n
  <2>5. g[r] = y
    BY <1>4 DEF y
  <2> QED
    BY ONLY <2>2, <2>3, <2>4, <2>5 DEF n
<1> HIDE DEF g
<1>6. ASSUME NEW r \in Rels, NEW b \in 1 .. Len(files[r])
      PROVE  /\ Good(g[r][b])
             /\ \A n \in Items(g[r][b]) :
                   Body(GetItem(g[r][b], n)) = Body(GetItem(files[r][b], n))
  <2>1. Good(files[r][b]) /\ Good(disk[r][b]) /\ Behind(disk[r][b], files[r][b])
    BY <1>3 DEF FilesOK
  <2>2. CASE g[r][b] = files[r][b]
    BY <2>1, <2>2
  <2>3. CASE g[r][b] = disk[r][b]
    BY <2>1, <2>3 DEF Behind
  <2> QED
    BY <1>5, <2>2, <2>3
<1>7. FilesOK(g, g)
  BY <1>4, <1>5, <1>6 DEF FilesOK, Behind
<1>8. HandedOK(handed', g)
  <2>1. files' = g
    BY <1>1 DEF g
  <2>2. ASSUME NEW r \in Rels, NEW i \in DOMAIN handed'[r]
        PROVE  \E b \in 1 .. Len(g[r]) : \E n \in Items(g[r][b]) :
                  i = <<b - 1, n>> /\ Of(GetItem(g[r][b], n), r, handed'[r][i])
    <3>1. /\ i \in DOMAIN handed[r] /\ i[2] \in Items(g[r][i[1] + 1])
          /\ handed'[r][i] = handed[r][i]
      BY <1>2, <2>1, <2>2
    <3>2. PICK b \in 1 .. Len(files[r]) : \E n \in Items(files[r][b]) :
             i = <<b - 1, n>> /\ Of(GetItem(files[r][b], n), r, handed[r][i])
      BY <1>3, <3>1 DEF HandedOK
    <3>3. PICK n \in Items(files[r][b]) :
             i = <<b - 1, n>> /\ Of(GetItem(files[r][b], n), r, handed[r][i])
      BY <3>2
    <3>4. b \in 1 .. Len(g[r]) /\ i[1] + 1 = b /\ i[2] = n
      BY <1>5, <3>3
    <3>5. n \in Items(g[r][b])
      BY <3>1, <3>4
    <3>6. /\ IsTuple(GetItem(g[r][b], n))
          /\ Body(GetItem(g[r][b], n)) = Body(GetItem(files[r][b], n))
      BY <1>6, <3>5 DEF Good
    <3>7. Of(GetItem(g[r][b], n), r, handed'[r][i])
      BY <3>1, <3>3, <3>6 DEF Of
    <3> QED
      BY <3>3, <3>4, <3>5, <3>7
  <2>3. handed' = [r \in Rels |-> handed'[r]]
    BY <1>2
  <2> QED
    BY <2>2, <2>3 DEF HandedOK
<1>9. TargetOK(target', g)
  BY <1>2 DEF TargetOK, FreshHandle
<1>10. InsertsOK(insert', g)
  BY <1>2, NoInsertIs DEF InsertsOK, Apart, NoInsert
<1> QED
  BY <1>1, <1>7, <1>8, <1>9, <1>10 DEF HeapInv, g

LEMMA FlushStep ==
    ASSUME HeapInv, FlushAll
    PROVE  FilesOK(files, disk')
BY DEF HeapInv, FlushAll, FilesOK, Behind

LEMMA BetweenStep ==
    ASSUME HeapInv, Between
    PROVE  HeapInv'
<1>1. UNCHANGED insert \/ \E s \in Sessions : Forget(s)
  BY DEF Between
<1>2. CASE UNCHANGED <<files, disk, target, handed>>
  <2>1. InsertsOK(insert', files)
    BY <1>1, ForgetKeeps DEF HeapInv
  <2> QED
    BY <1>2, <2>1 DEF HeapInv
<1>3. CASE FlushAll /\ UNCHANGED <<files, target, handed>>
  <2>1. InsertsOK(insert', files)
    BY <1>1, ForgetKeeps DEF HeapInv
  <2>2. FilesOK(files, disk')
    BY <1>3, FlushStep
  <2> QED
    BY <1>3, <2>1, <2>2 DEF HeapInv
<1>4. CASE MarkOld
  <2>1. /\ FilesOK(files', disk) /\ HandedOK(handed, files') /\ TargetOK(target, files')
        /\ InsertsOK(insert, files') /\ UNCHANGED <<disk, target, handed>>
    BY <1>4, MarkKeeps
  <2>2. InsertsOK(insert', files')
    BY ONLY <1>1, <2>1, ForgetKeeps
  <2> QED
    BY <2>1, <2>2 DEF HeapInv
<1> QED
  BY <1>2, <1>3, <1>4 DEF Between

LEMMA StepKeeps ==
    ASSUME HeapInv, [HeapNext]_heapVars
    PROVE  HeapInv'
<1>1. ASSUME NEW s \in Sessions, InsertStep(s) PROVE HeapInv'
  <2>1. CASE InsertPick(s)
    BY <2>1, PickStep
  <2>2. CASE InsertTry(s)
    <3>1. insert[s].pc \in {"try", "put"} /\ (PutSucceeds(s) \/ PutFails(s, "extend"))
      BY <2>2 DEF InsertTry
    <3> QED
      BY <3>1, PutStep, FailsStep
  <2>3. CASE InsertExtend(s)
    BY <2>3, ExtendStep
  <2>4. CASE InsertInit(s)
    BY <2>4, InitStep
  <2>5. CASE InsertPut(s)
    <3>1. insert[s].pc \in {"try", "put"} /\ (PutSucceeds(s) \/ PutFails(s, "failed"))
      BY <2>5 DEF InsertPut
    <3> QED
      BY <3>1, PutStep, FailsStep
  <2> QED
    BY <1>1, <2>1, <2>2, <2>3, <2>4, <2>5 DEF InsertStep
<1>2. CASE UNCHANGED heapVars
  BY <1>2 DEF heapVars, HeapInv
<1> QED
  BY <1>1, <1>2, BeginStep, BetweenStep, CrashStep DEF HeapNext

-----------------------------------------------------------------------------
(* The rows relations start with.                                          *)

\* An empty page has room for every tuple Insert takes.
LEMMA EmptyPageTakes ==
    ASSUME NEW blk, NEW t, t.len \in Nat, 0 < t.len, t.len <= MaxItemSize
    PROVE  PutOn(InitPage(0), blk, t).err = "none"
<1> DEFINE p == InitPage(0)
           len == t.len
           a == AddItem(p, t, len)
<1>1. IsPage(p) /\ p.lower = 24 /\ p.upper = PageSize
  BY InitIsPage, PageAssumption DEF InitPage, Align8, HeaderSize
<1> HIDE DEF p
<1>2. Align8(len) \in Nat /\ 28 <= PageSize - Align8(len)
  <2> DEFINE k == (PageSize - 28) \div 8
  <2>1. MaxItemSize = 8 * k /\ k \in Int /\ 8 * k <= PageSize - 28
    BY PageAssumption DEF MaxItemSize, HeaderSize, LinePointerSize
  <2> HIDE DEF k
  <2>2. 8 * k \in Nat /\ (8 * k) % 8 = 0 /\ len <= 8 * k
    BY <2>1
  <2>3. Align8(len) \in Nat /\ Align8(len) <= 8 * k
    BY ONLY <2>2, Align8Is, t.len \in Nat DEF len
  <2> QED
    BY ONLY <2>1, <2>3, PageAssumption
<1>3. \E q, n : a = Stored(q, n)
  <2> DEFINE n == FreePointer(p)
             lower == IF n > NumItems(p) THEN p.lower + LinePointerSize ELSE p.lower
             upper == p.upper - Align8(len)
             q == [lower |-> lower, upper |-> upper, special |-> p.special,
                   lp |-> [m \in 1 .. NumItems(p) \cup {n} |->
                              IF m = n THEN NormalItem(upper, len) ELSE p.lp[m]],
                   data |-> Copy(p.data, upper, len, t)]
  <2>1. a = IF len > MaxItemSize THEN Failed(p, "ErrItemTooLarge")
            ELSE IF upper < lower THEN Failed(p, "ErrNoSpace") ELSE Stored(q, n)
    BY DEF AddItem
  <2>2. MaxItemSize \in Int
    BY PageAssumption DEF MaxItemSize, HeaderSize, LinePointerSize
  <2>3. ~(len > MaxItemSize)
    BY <2>2
  <2>4. ~(upper < lower)
    <3>1. lower \in {24, 28} /\ upper \in Int /\ 28 <= upper
      BY <1>1, <1>2, PageAssumption DEF LinePointerSize
    <3> HIDE DEF lower, upper
    <3> QED
      BY <3>1
  <2> HIDE DEF q, n, lower, upper
  <2> QED
    BY <2>1, <2>3, <2>4
<1>4. PICK q, n : a = Stored(q, n)
  BY <1>3
<1> HIDE DEF a
<1>5. /\ a.err = "none"
      /\ [a EXCEPT !.page = PutItem(q, n, [t EXCEPT !.ctid = <<blk, n>>])].err = "none"
  BY <1>4 DEF Stored
<1>6. a.page = q /\ a.off = n
  BY <1>4 DEF Stored
<1> QED
  BY <1>5, <1>6 DEF PutOn, p, a

\* Good pages, and the row's tuple behind every TID that is out.
LoadOK(x, rel) ==
    /\ IsSeq(x.pages) /\ \A b \in 1 .. Len(x.pages) : Good(x.pages[b])
    /\ \A i \in DOMAIN x.handed :
          \E b \in 1 .. Len(x.pages) : \E n \in Items(x.pages[b]) :
             i = <<b - 1, n>> /\ Of(GetItem(x.pages[b], n), rel, x.handed[i])

\* A page that gets a tuple, and the tuple's TID.
LEMMA LoadedMore ==
    ASSUME NEW rel \in Rels, NEW x, LoadOK(x, rel), NEW row, NEW y, NEW b, NEW m,
           IsSeq(y.pages), Len(x.pages) <= Len(y.pages), b \in 1 .. Len(y.pages),
           \A c \in 1 .. Len(y.pages) : c # b => c \in 1 .. Len(x.pages)
                                              /\ y.pages[c] = x.pages[c],
           Good(y.pages[b]), b \in 1 .. Len(x.pages) => Behind(x.pages[b], y.pages[b]),
           m \in Items(y.pages[b]), Of(GetItem(y.pages[b], m), rel, row),
           y.handed = HandOut(x.handed, <<b - 1, m>>, row)
    PROVE  LoadOK(y, rel)
<1>1. \A c \in 1 .. Len(y.pages) : Good(y.pages[c])
  BY DEF LoadOK
<1>2. ASSUME NEW i \in DOMAIN y.handed
      PROVE  \E c \in 1 .. Len(y.pages) : \E n \in Items(y.pages[c]) :
                i = <<c - 1, n>> /\ Of(GetItem(y.pages[c], n), rel, y.handed[i])
  <2>1. /\ i = <<b - 1, m>> \/ i \in DOMAIN x.handed
        /\ y.handed[i] = IF i = <<b - 1, m>> THEN row ELSE x.handed[i]
    BY <1>2 DEF HandOut
  <2>2. CASE i = <<b - 1, m>>
    BY <2>1, <2>2
  <2>3. CASE i # <<b - 1, m>>
    <3>1. i \in DOMAIN x.handed /\ y.handed[i] = x.handed[i]
      BY <2>1, <2>3
    <3>2. PICK c \in 1 .. Len(x.pages) : \E n \in Items(x.pages[c]) :
             i = <<c - 1, n>> /\ Of(GetItem(x.pages[c], n), rel, x.handed[i])
      BY <3>1 DEF LoadOK
    <3>3. PICK n \in Items(x.pages[c]) :
             i = <<c - 1, n>> /\ Of(GetItem(x.pages[c], n), rel, x.handed[i])
      BY <3>2
    <3>4. c \in 1 .. Len(y.pages)
      <4>1. Len(x.pages) \in Nat /\ Len(y.pages) \in Nat
        BY SeqIs DEF LoadOK
      <4> QED
        BY <3>2, <4>1
    <3>5. n \in Items(y.pages[c]) /\ Of(GetItem(y.pages[c], n), rel, x.handed[i])
      <4>1. CASE c = b
        <5>1. /\ n \in Items(y.pages[c])
              /\ Body(GetItem(y.pages[c], n)) = Body(GetItem(x.pages[c], n))
          BY <3>3, <4>1 DEF Behind
        <5>2. IsTuple(GetItem(y.pages[c], n))
          BY <4>1, <5>1 DEF Good
        <5> QED
          BY <3>3, <5>1, <5>2 DEF Of
      <4>2. CASE c # b
        BY <3>3, <3>4, <4>2
      <4> QED
        BY <4>1, <4>2
    <3> QED
      BY <3>1, <3>3, <3>4, <3>5
  <2> QED
    BY <2>2, <2>3
<1> QED
  BY <1>1, <1>2 DEF LoadOK

LEMMA LoadRowKeeps ==
    ASSUME NEW rel \in Rels, NEW x, LoadOK(x, rel), NEW row \in Rows[rel],
           Form(Desc[rel], row).len <= MaxItemSize
    PROVE  LoadOK(LoadRow(rel, x, row), rel)
<1> DEFINE form == Form(Desc[rel], row)
           t == [form EXCEPT !.xmin = FrozenXID]
           blk == Len(x.pages)
           old == IF blk = 0 THEN Failed(ZeroPage, "ErrNoSpace")
                  ELSE PutOn(x.pages[blk], blk - 1, t)
           new == PutOn(InitPage(0), blk, t)
           y == IF old.err = "none"
                THEN [pages  |-> [x.pages EXCEPT ![blk] = old.page],
                      handed |-> HandOut(x.handed, <<blk - 1, old.off>>, row)]
                ELSE [pages  |-> Append(x.pages, new.page),
                      handed |-> HandOut(x.handed, <<blk, new.off>>, row)]
<1>1. LoadRow(rel, x, row) = y
  BY DEF LoadRow
<1>2. /\ IsSeq(x.pages) /\ blk \in Nat
      /\ \A b \in 1 .. blk : Good(x.pages[b])
  BY SeqIs DEF LoadOK
<1>3. row \in [1 .. Len(Desc[rel]) -> Values] /\ Desc[rel] \in Seq(Types)
  BY HeapAssumption
<1>4. form.len \in Nat /\ 0 < form.len /\ form.len <= MaxItemSize /\ IsTuple(form)
  <2>1. form.len \in Nat /\ 0 < form.len
    BY <1>3, FormLen
  <2>2. IsTuple(form)
    BY DEF Form, IsTuple
  <2> QED
    BY <2>1, <2>2
<1> HIDE DEF form
<1>5. IsTuple(t) /\ Body(t) = Body(form)
  BY <1>4, OfStays
<1> HIDE DEF t
<1>6. Of(t, rel, row) /\ t.len = form.len
  BY <1>3, <1>5 DEF Of, form, Body
<1>7. CASE old.err = "none"
  <2>1. blk # 0 /\ blk \in 1 .. blk
    <3>1. blk # 0
      BY <1>7 DEF Failed
    <3> QED
      BY <1>2, <3>1
  <2> DEFINE p == x.pages[blk]
  <2>2. Good(p) /\ old = PutOn(p, blk - 1, t)
    BY <1>2, <2>1
  <2> HIDE DEF old
  <2>3. /\ Good(old.page) /\ Behind(p, old.page)
        /\ old.off \in Items(old.page) /\ Of(GetItem(old.page, old.off), rel, row)
    <3> HIDE DEF p, blk
    <3> QED
      BY ONLY <1>6, <1>7, <2>2, StoredOK, rel \in Rels
  <2> DEFINE s == x.pages
             z == [s EXCEPT ![blk] = old.page]
  <2>4. WithAt(z, s, blk, old.page)
    <3>1. IsSeq(s) /\ blk \in 1 .. Len(s)
      BY <1>2, <2>1
    <3> HIDE DEF s, blk
    <3> QED
      BY ONLY <3>1, SeqPut
  <2>5. y.pages = z /\ y.handed = HandOut(x.handed, <<blk - 1, old.off>>, row)
    BY <1>7
  <2> HIDE DEF y, z
  <2> QED
    <3> DEFINE l == LoadRow(rel, x, row)
    <3>1. l.pages = z /\ l.handed = HandOut(x.handed, <<blk - 1, old.off>>, row)
      BY <1>1, <2>5
    <3> HIDE DEF l
    <3>2. IsSeq(z) /\ Len(z) = blk /\ \A c \in 1 .. blk :
             z[c] = IF c = blk THEN old.page ELSE x.pages[c]
      BY <2>4 DEF WithAt
    <3>3. /\ IsSeq(l.pages) /\ Len(x.pages) <= Len(l.pages) /\ blk \in 1 .. Len(l.pages)
          /\ \A c \in 1 .. Len(l.pages) : c # blk => c \in 1 .. Len(x.pages)
                                                       /\ l.pages[c] = x.pages[c]
          /\ l.pages[blk] = old.page /\ Behind(x.pages[blk], l.pages[blk])
      BY <1>2, <2>1, <2>3, <3>1, <3>2
    <3> HIDE DEF blk
    <3>4. LoadOK(l, rel)
      BY ONLY <2>3, <3>1, <3>3, LoadedMore, rel \in Rels, LoadOK(x, rel)
    <3> QED
      BY <3>4 DEF l
<1>8. CASE old.err # "none"
  <2>1. new.err = "none"
    BY <1>4, <1>6, EmptyPageTakes
  <2> DEFINE p == InitPage(0)
  <2>2. Good(p) /\ new = PutOn(p, blk, t)
    BY InitIsPage DEF Good
  <2> HIDE DEF new
  <2>3. /\ Good(new.page)
        /\ new.off \in Items(new.page) /\ Of(GetItem(new.page, new.off), rel, row)
    <3> HIDE DEF p, blk
    <3> QED
      BY ONLY <1>6, <2>1, <2>2, StoredOK, rel \in Rels
  <2> DEFINE s == x.pages
             z == Append(s, new.page)
  <2>4. WithLast(z, s, new.page)
    <3>1. IsSeq(s)
      BY <1>2
    <3> HIDE DEF s
    <3> QED
      BY ONLY <3>1, SeqMore
  <2>5. y.pages = z /\ y.handed = HandOut(x.handed, <<blk, new.off>>, row)
    BY <1>8
  <2> HIDE DEF y, z
  <2>6. (blk + 1) - 1 = blk /\ blk + 1 \in 1 .. blk + 1 /\ blk + 1 \notin 1 .. blk
        /\ \A c \in 1 .. blk + 1 : c # blk + 1 => c \in 1 .. blk
    BY <1>2
  <2> QED
    <3> DEFINE l == LoadRow(rel, x, row)
    <3>1. l.pages = z /\ l.handed = HandOut(x.handed, <<blk, new.off>>, row)
      BY <1>1, <2>5
    <3> HIDE DEF l
    <3>2. /\ IsSeq(z) /\ Len(z) = blk + 1 /\ z[blk + 1] = new.page
          /\ \A c \in 1 .. blk : z[c] = x.pages[c]
      BY <2>4 DEF WithLast
    <3> DEFINE b == blk + 1
    <3>3. /\ IsSeq(l.pages) /\ Len(x.pages) <= Len(l.pages) /\ b \in 1 .. Len(l.pages)
          /\ \A c \in 1 .. Len(l.pages) : c # b => c \in 1 .. Len(x.pages)
                                                     /\ l.pages[c] = x.pages[c]
          /\ l.pages[b] = new.page /\ b \notin 1 .. Len(x.pages)
      BY <1>2, <2>6, <3>1, <3>2
    <3>4. l.handed = HandOut(x.handed, <<b - 1, new.off>>, row)
      BY <2>6, <3>1
    <3> HIDE DEF b
    <3>5. LoadOK(l, rel)
      BY ONLY <2>3, <3>3, <3>4, LoadedMore, rel \in Rels, LoadOK(x, rel)
    <3> QED
      BY <3>5 DEF l
<1> QED
  BY <1>7, <1>8

\* g is what rows 1 to k leave, one after the other.
LoadsTo(g, rel, k) ==
    g = [n \in 0 .. k |-> IF n = 0 THEN [pages |-> <<>>, handed |-> <<>>]
                          ELSE LoadRow(rel, g[n - 1], InitRows[rel][n])]

LEMMA LoadsGrow ==
    ASSUME NEW rel, NEW k \in Nat, \E g : LoadsTo(g, rel, k)
    PROVE  \E g : LoadsTo(g, rel, k + 1)
<1>1. PICK g : LoadsTo(g, rel, k)
  OBVIOUS
<1> DEFINE first == [pages |-> <<>>, handed |-> <<>>]
           last == LoadRow(rel, g[k], InitRows[rel][k + 1])
           h == [n \in 0 .. k + 1 |-> IF n = k + 1 THEN last ELSE g[n]]
           next(f) == [n \in 0 .. k + 1 |-> IF n = 0 THEN first
                                            ELSE LoadRow(rel, f[n - 1], InitRows[rel][n])]
<1>2. (\A n \in 0 .. k : h[n] = g[n]) /\ h[k + 1] = last
  <2> HIDE DEF last
  <2> QED
    OBVIOUS
<1>3. ASSUME NEW n \in 0 .. k + 1 PROVE h[n] = next(h)[n]
  <2>1. next(h)[n] = IF n = 0 THEN first ELSE LoadRow(rel, h[n - 1], InitRows[rel][n])
    <3> HIDE DEF first, h
    <3> QED
      OBVIOUS
  <2> HIDE DEF h, next
  <2>2. CASE n = k + 1
    <3>1. n # 0 /\ n - 1 = k /\ k \in 0 .. k
      BY <2>2
    <3>2. h[n - 1] = g[k]
      BY <1>2, <3>1
    <3> QED
      BY <1>2, <2>1, <2>2, <3>1, <3>2
  <2>3. CASE n = 0
    <3>1. 0 \in 0 .. k
      OBVIOUS
    <3>2. g[0] = first
      BY <1>1, <3>1 DEF LoadsTo
    <3> HIDE DEF first
    <3> QED
      BY <1>2, <2>1, <2>3, <3>1, <3>2
  <2>4. CASE n # 0 /\ n # k + 1
    <3>1. n \in 0 .. k /\ n - 1 \in 0 .. k
      BY <2>4
    <3>2. g[n] = LoadRow(rel, g[n - 1], InitRows[rel][n])
      BY <1>1, <2>4, <3>1 DEF LoadsTo
    <3>3. h[n] = g[n] /\ h[n - 1] = g[n - 1]
      BY <1>2, <3>1
    <3> QED
      BY <2>1, <2>4, <3>2, <3>3
  <2> QED
    BY <2>2, <2>3, <2>4
<1>4. h = next(h)
  <2>1. DOMAIN h = DOMAIN next(h)
    OBVIOUS
  <2>2. h = [n \in 0 .. k + 1 |-> h[n]] /\ next(h) = [n \in 0 .. k + 1 |-> next(h)[n]]
    OBVIOUS
  <2> HIDE DEF h, next
  <2> QED
    BY ONLY <1>3, <2>1, <2>2
<1>5. LoadsTo(h, rel, k + 1)
  <2> HIDE DEF h
  <2> QED
    BY <1>4 DEF LoadsTo
<1> QED
  BY <1>5

LEMMA LoadsExist ==
    ASSUME NEW rel, NEW k \in Nat
    PROVE  \E g : LoadsTo(g, rel, k)
<1> DEFINE Bad == {n \in Nat : ~\E g : LoadsTo(g, rel, n)}
<1>1. SUFFICES ASSUME Bad # {} PROVE FALSE
  OBVIOUS
<1>2. PICK m \in Bad : \A n \in Bad : m <= n
  BY <1>1, SmallestOf
<1>3. CASE m = 0
  <2> DEFINE first == [pages |-> <<>>, handed |-> <<>>]
             g == [n \in 0 .. 0 |-> first]
  <2>1. g = [n \in 0 .. 0 |-> IF n = 0 THEN first
                              ELSE LoadRow(rel, g[n - 1], InitRows[rel][n])]
    <3> HIDE DEF first
    <3> QED
      OBVIOUS
  <2>2. LoadsTo(g, rel, 0)
    BY <2>1 DEF LoadsTo
  <2> QED
    BY <1>3, <2>2
<1>4. CASE m # 0
  <2>1. m - 1 \in Nat /\ (m - 1) + 1 = m /\ ~(m <= m - 1)
    BY <1>4
  <2>2. \E g : LoadsTo(g, rel, m - 1)
    BY <1>2, <2>1
  <2>3. \E g : LoadsTo(g, rel, m)
    BY <2>1, <2>2, LoadsGrow
  <2> QED
    BY <2>3
<1> QED
  BY <1>3, <1>4

LEMMA LoadedIs ==
    ASSUME NEW rel \in Rels
    PROVE  LoadOK(Loaded(rel), rel)
<1> DEFINE k == Len(InitRows[rel])
           g == Loads(rel)
<1>1. InitRows[rel] \in Seq(Rows[rel])
  BY HeapAssumption
<1>2. k \in Nat /\ \A n \in 1 .. k : n \in DOMAIN InitRows[rel] /\ InitRows[rel][n] \in Rows[rel]
  BY <1>1
<1>3. LoadsTo(g, rel, k)
  <2>1. \E f : LoadsTo(f, rel, k)
    BY <1>2, LoadsExist
  <2> QED
    BY <2>1 DEF Loads, LoadsTo
<1> HIDE DEF g
<1>4. LoadOK(g[0], rel)
  <2> DEFINE first == [pages |-> <<>>, handed |-> <<>>]
             none == <<>>
  <2>1. g[0] = first
    <3> HIDE DEF k
    <3>1. 0 \in 0 .. k
      BY <1>2
    <3> QED
      BY <1>3, <3>1 DEF LoadsTo
  <2>2. none \in Seq({}) /\ Len(none) = 0 /\ DOMAIN none = {}
    OBVIOUS
  <2>3. IsSeq(none)
    BY <2>2 DEF IsSeq
  <2>4. g[0].pages = none /\ g[0].handed = none
    BY <2>1
  <2> HIDE DEF none
  <2> QED
    BY <2>2, <2>3, <2>4 DEF LoadOK
<1>5. ASSUME NEW n \in 1 .. k, LoadOK(g[n - 1], rel) PROVE LoadOK(g[n], rel)
  <2>1. g[n] = LoadRow(rel, g[n - 1], InitRows[rel][n])
    <3> HIDE DEF k
    <3>1. n \in 0 .. k /\ n # 0
      BY <1>2
    <3> QED
      BY <1>3, <3>1 DEF LoadsTo
  <2>2. Form(Desc[rel], InitRows[rel][n]).len <= MaxItemSize
    BY <1>2, HeapAssumption
  <2> QED
    BY <1>2, <1>5, <2>1, <2>2, LoadRowKeeps
<1> HIDE DEF k
<1>6. \A n \in 0 .. k : LoadOK(g[n], rel)
  <2> DEFINE Bad == {n \in 0 .. k : ~LoadOK(g[n], rel)}
  <2>1. SUFFICES ASSUME Bad # {} PROVE FALSE
    OBVIOUS
  <2>2. PICK m \in Bad : \A n \in Bad : m <= n
    <3>1. Bad \in SUBSET Nat
      OBVIOUS
    <3> HIDE DEF Bad
    <3> QED
      BY <2>1, <3>1, SmallestOf
  <2>3. m # 0
    BY <1>4, <2>2
  <2>4. m \in 1 .. k /\ m - 1 \in 0 .. k /\ ~(m <= m - 1)
    BY <1>2, <2>2, <2>3
  <2> QED
    BY <1>5, <2>2, <2>4
<1> QED
  BY <1>2, <1>6 DEF Loaded, g, k

LEMMA InitHolds ==
    ASSUME HeapInit
    PROVE  HeapInv
<1>1. ASSUME NEW r \in Rels
      PROVE  LoadOK(Loaded(r), r) /\ files[r] = Loaded(r).pages /\ handed[r] = Loaded(r).handed
  BY LoadedIs DEF HeapInit
<1>2. FilesOK(files, disk)
  <2>1. files = [r \in Rels |-> files[r]] /\ disk = files
    BY DEF HeapInit
  <2>2. \A r \in Rels : IsSeq(files[r]) /\ \A b \in 1 .. Len(files[r]) : Good(files[r][b])
    BY <1>1 DEF LoadOK
  <2> QED
    BY <2>1, <2>2 DEF FilesOK, Behind
<1>3. HandedOK(handed, files)
  <2>1. handed = [r \in Rels |-> handed[r]]
    BY DEF HeapInit
  <2> QED
    BY <1>1, <2>1 DEF LoadOK, HandedOK
<1>4. TargetOK(target, files)
  BY DEF HeapInit, TargetOK, FreshHandle
<1>5. InsertsOK(insert, files)
  BY NoInsertIs DEF HeapInit, InsertsOK, Apart, NoInsert
<1> QED
  BY <1>2, <1>3, <1>4, <1>5 DEF HeapInv

-----------------------------------------------------------------------------
(* Theorems.                                                               *)

\* The strengthening that keeps itself: good pages, on disk no item the pool
\* does not have with the same bytes, the row's tuple behind every TID handed
\* out, and for every session that has extended a relation a block of its own
\* that is still zeroed.  Nothing outside one page's lock is relied on, and a
\* crash that takes back any blocks keeps it (Relation.Insert, Pool.Extend).
THEOREM HeapStaysInOrder == HeapSpec => []HeapInv
<1>1. HeapInit => HeapInv
  BY InitHolds
<1>2. HeapInv /\ [HeapNext]_heapVars => HeapInv'
  BY StepKeeps
<1> QED
  BY <1>1, <1>2, PTL DEF HeapSpec

LEMMA PageInPlace ==
    ASSUME HeapInv, NEW r \in Rels, NEW b \in DOMAIN files[r]
    PROVE  b \in 1 .. Len(files[r]) /\ Good(files[r][b])
<1>1. IsSeq(files[r])
  BY DEF HeapInv, FilesOK
<1>2. Len(files[r]) \in Nat /\ files[r] = [c \in 1 .. Len(files[r]) |-> files[r][c]]
  BY <1>1, SeqIs
<1>3. DOMAIN files[r] = 1 .. Len(files[r])
  BY ONLY <1>2
<1> QED
  BY <1>3 DEF HeapInv, FilesOK

\* Whatever order the sessions extend, initialise and fill blocks in and
\* whichever blocks a crash takes back, every page is a zeroed one or sound
\* (page.AddItem, page.Init, Relation.Insert).
THEOREM PagesStaySound == HeapSpec => []PagesAreSound
<1>1. HeapInv => PagesAreSound
  <2> SUFFICES ASSUME HeapInv, NEW r \in Rels, NEW b \in DOMAIN files[r]
               PROVE  files[r][b] = ZeroPage \/ PageOK(files[r][b])
    BY DEF PagesAreSound
  <2> QED
    BY PageInPlace DEF Good, IsPage
<1> QED
  BY <1>1, HeapStaysInOrder, PTL

\* A TID Insert has returned leads to the row it was formed from, NULLs and
\* alignment gaps included, for as long as no crash has taken the item back
\* (Relation.Insert, tuple.Form, tuple.Deform).
THEOREM RowsStayReadable == HeapSpec => []RowsStay
<1>1. HeapInv => RowsStay
  <2> SUFFICES ASSUME HeapInv, NEW r \in Rels, NEW i \in DOMAIN handed[r]
               PROVE  /\ i \in TidsOf(r)
                      /\ Deform(Desc[r], TupleAt(r, i)) = handed[r][i]
    BY DEF RowsStay
  <2>1. PICK b \in 1 .. Len(files[r]) : \E n \in Items(files[r][b]) :
           i = <<b - 1, n>> /\ Of(GetItem(files[r][b], n), r, handed[r][i])
    BY DEF HeapInv, HandedOK
  <2>2. PICK n \in Items(files[r][b]) :
           i = <<b - 1, n>> /\ Of(GetItem(files[r][b], n), r, handed[r][i])
    BY <2>1
  <2>3. IsSeq(files[r])
    BY DEF HeapInv, FilesOK
  <2>4. Len(files[r]) \in Nat
    BY <2>3, SeqIs
  <2>5. b - 1 \in 0 .. NBlocks(r) - 1 /\ (b - 1) + 1 = b
    BY <2>1, <2>4 DEF NBlocks
  <2>6. PageAt(r, b - 1) = files[r][b]
    BY <2>5 DEF PageAt
  <2>7. i \in TidsOf(r)
    BY <2>2, <2>5, <2>6 DEF TidsOf
  <2>8. TupleAt(r, i) = GetItem(files[r][b], n)
    BY <2>2, <2>6 DEF TupleAt
  <2>9. Desc[r] \in Seq(Types)
    BY HeapAssumption
  <2>10. Deform(Desc[r], TupleAt(r, i)) = handed[r][i]
    <3> DEFINE row == handed[r][i]
               t == TupleAt(r, i)
               desc == Desc[r]
    <3>1. row \in [1 .. Len(desc) -> Values] /\ Body(t) = Body(Form(desc, row))
      BY <2>2, <2>8 DEF Of
    <3> HIDE DEF row, t, desc
    <3>2. desc \in Seq(Types)
      BY <2>9 DEF desc
    <3>3. Deform(desc, t) = row
      BY ONLY <3>1, <3>2, DeformForm
    <3> QED
      BY <3>3 DEF row, t, desc
  <2> QED
    BY <2>7, <2>10
<1> QED
  BY <1>1, HeapStaysInOrder, PTL

\* On every page there ever is, InsertItem moves the items behind its own up
\* by one, DeleteItem with Compact leaves every other item its number and its
\* bytes, and both leave a sound page (page.InsertItem, page.DeleteItem,
\* page.Compact).
THEOREM PageOpsAreExact == HeapSpec => []PageOpsKeepItems
<1>1. HeapInv => PageOpsKeepItems
  <2> SUFFICES ASSUME HeapInv, NEW r \in Rels, NEW b \in DOMAIN files[r]
               PROVE  LET p == files[r][b] IN
                      /\ \A n \in Items(p) :
                            LET c == Compact(DeleteItem(p, n).page)
                            IN  /\ PageOK(c)
                                /\ Contents(c) = [m \in Items(p) \ {n} |-> GetItem(p, m)]
                      /\ \A n \in 1 .. NumItems(p) + 1 :
                            LET i == InsertItem(p, n, NoTuple, NoTuple.len)
                            IN  i.err = "none" =>
                                  /\ PageOK(i.page)
                                  /\ Contents(i.page) = [m \in Items(i.page) |->
                                        IF m = n THEN NoTuple
                                        ELSE GetItem(p, IF m < n THEN m ELSE m - 1)]
    BY DEF PageOpsKeepItems
  <2> DEFINE p == files[r][b]
  <2>1. p = ZeroPage \/ IsPage(p)
    BY PageInPlace DEF Good
  <2> HIDE DEF p
  <2>2. CASE IsPage(p)
    BY <2>2, SoundPageOps DEF p
  <2>3. CASE p = ZeroPage
    <3>1. /\ Items(p) = {}
          /\ \A n : InsertItem(p, n, NoTuple, NoTuple.len).err # "none"
      BY <2>3, NoTupleIs, ZeroPageIsFull
    <3> QED
      BY <3>1 DEF p
  <2> QED
    BY <2>1, <2>2, <2>3
<1> QED
  BY <1>1, HeapStaysInOrder, PTL

=============================================================================
