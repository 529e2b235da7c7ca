-------------------------- MODULE PacketReadProofs --------------------------
(***************************************************************************)
(* A client reads what it was meant to: ReadAsMeant holds in every         *)
(* reachable state of PacketData.                                          *)
(*                                                                         *)
(* Serialize puts together what is written of each member, Cursor says     *)
(* where the client is behind the first d of them, Offset adds up bytes:   *)
(* two folds and a recursive function over messages of any length.  What   *)
(* they compute is shown by induction: a set of natural numbers has a      *)
(* least element (WFMin), so a statement that no least number can violate  *)
(* holds of all (Induction), and a recursive definition over 0..n has the  *)
(* value that it says (Recursion).                                         *)
(*                                                                         *)
(* On these rest, in this order: what is written is read again (RoundTrip) *)
(* when every list has its length before it; a message has at most the     *)
(* bytes of its members (BytesOfMessage); the tables of all the classes    *)
(* have that form, and are filled by parameters of the same meaning        *)
(* (the lemmas on classes); with MaxRows, N and TextLength as assumed      *)
(* every reply fits (MeantFits).  RInv adds to IInv that the packets on    *)
(* their way hold what they are to tell, and is kept by every step.        *)
(***************************************************************************)
EXTENDS PacketDataProofs, WellFoundedInduction

-----------------------------------------------------------------------------
(* Induction over the natural numbers, by the least number that a set has  *)
(* not: the statement to prove is the set of the numbers it holds of.      *)

\* A set of natural numbers that has an element has a least one.
LEMMA LeastNumber ==
  ASSUME NEW T, T \subseteq Nat, T # {}
  PROVE  \E x \in T : \A y \in T : x <= y
<1>1. PICK x \in T : \A y \in T : ~ (<<y, x>> \in OpToRel(<, Nat))
  BY NatLessThanWellFounded, WFMin, Zenon
<1>2. \A y \in T : ~ (y < x)
  <2>1. TAKE y \in T
  <2>2. ~ (<<y, x>> \in {ss \in Nat \X Nat : ss[1] < ss[2]})
    BY <1>1 DEF OpToRel
  <2> QED
    BY <2>2
<1>3. \A y \in T : y \in Nat /\ x \in Nat
  OBVIOUS
<1> QED
  BY <1>2, <1>3

\* A set that has 0, and up to n each number whose predecessor it has, has n.
LEMMA Induction ==
  ASSUME NEW n \in Nat, NEW S, 0 \in S, \A k \in 1..n : k - 1 \in S => k \in S
  PROVE  n \in S
<1> DEFINE T == (0..n) \ S
<1> SUFFICES ASSUME n \notin S PROVE FALSE
  OBVIOUS
<1>1. T \subseteq Nat /\ T # {}
  OBVIOUS
<1>2. PICK x \in T : \A y \in T : x <= y
  <2> HIDE DEF T
  <2> QED
    BY <1>1, LeastNumber
<1>3. x \in 0..n /\ x # 0 /\ x \notin S
  OBVIOUS
<1>4. x \in 1..n /\ x - 1 \in 0..n /\ ~ (x <= x - 1)
  BY <1>3
<1>5. x - 1 \in S
  BY <1>2, <1>4
<1> QED
  BY <1>3, <1>4, <1>5

\* g is what a recursion defines: a function of which each value comes from the one before.
Recursive(g, V, b, n, h) ==
  g \in [0..n -> V] /\ g[0] = b /\ \A i \in 1..n : g[i] = h[i][g[i - 1]]

\* Every recursion with a step h defines a function.
LEMMA Recursion ==
  ASSUME NEW V, NEW b \in V, NEW n \in Nat, NEW h \in [1..n -> [V -> V]]
  PROVE  \E g : Recursive(g, V, b, n, h)
<1> DEFINE R(g, k) == g[0] = b /\ \A i \in 1..k : g[i] = h[i][g[i - 1]]
           S == {k \in 0..n : \E g \in [0..k -> V] : R(g, k)}
<1>1. 0 \in S
  <2> DEFINE g == [i \in 0..0 |-> b]
  <2>1. g \in [0..0 -> V] /\ R(g, 0)
    OBVIOUS
  <2> HIDE DEF g
  <2>2. \E f \in [0..0 -> V] : R(f, 0)
    BY <2>1
  <2> HIDE DEF R
  <2> QED
    BY <2>2
<1>2. ASSUME NEW k \in 1..n, k - 1 \in S PROVE k \in S
  <2>1. PICK f \in [0..(k - 1) -> V] : R(f, k - 1)
    BY <1>2
  <2>2. k \in Nat /\ k \in 0..n /\ k - 1 \in 0..(k - 1)
    OBVIOUS
  <2> DEFINE next == h[k][f[k - 1]]
  <2>3. next \in V
    BY <2>2
  <2> HIDE DEF next
  <2> DEFINE g == [i \in 0..k |-> IF i = k THEN next ELSE f[i]]
  <2>4. g \in [0..k -> V]
    BY <2>2, <2>3
  <2>5. \A i \in 0..(k - 1) : g[i] = f[i]
    BY <2>2
  <2>6. g[k] = next
    BY <2>2
  <2> HIDE DEF g
  <2>7. g[0] = b
    BY <2>1, <2>2, <2>5
  <2>8. \A i \in 1..k : g[i] = h[i][g[i - 1]]
    <3>1. TAKE i \in 1..k
    <3>2. CASE i = k
      <4>1. g[i] = next /\ g[i - 1] = f[k - 1]
        BY <3>2, <2>2, <2>5, <2>6
      <4> QED
        BY <3>2, <4>1 DEF next
    <3>3. CASE i # k
      <4>1. i \in 1..(k - 1) /\ g[i] = f[i] /\ g[i - 1] = f[i - 1]
        BY <3>3, <2>2, <2>5
      <4> QED
        BY <2>1, <4>1
    <3> QED
      BY <3>2, <3>3
  <2>9. \E e \in [0..k -> V] : R(e, k)
    BY <2>4, <2>7, <2>8
  <2> HIDE DEF R
  <2> QED
    BY <2>2, <2>9
<1>3. n \in S
  <2> HIDE DEF S
  <2> QED
    BY <1>1, <1>2, Induction
<1>4. PICK g \in [0..n -> V] : R(g, n)
  BY <1>3
<1> QED
  BY <1>4 DEF Recursive

-----------------------------------------------------------------------------
(* Sequences one after the other.                                          *)

\* p[j] is what the first j sequences of s are, put together.
Together(p, S, s) ==
  /\ p \in [0..Len(s) -> Seq(S)]
  /\ p[0] = <<>> /\ \A j \in 1..Len(s) : p[j] = p[j - 1] \o s[j]

\* FlattenSeq puts them together in this way.
LEMMA Flattened ==
  ASSUME NEW S, NEW s \in Seq(Seq(S))
  PROVE  \E p : Together(p, S, s) /\ FlattenSeq(s) = p[Len(s)]
<1> DEFINE n == Len(s)
           V == Seq(S)
           h == [j \in 1..n |-> [v \in V |-> v \o s[j]]]
<1>1. n \in Nat /\ <<>> \in V /\ \A j \in 1..n : s[j] \in V
  BY LenProperties, ElementOfSeq
<1>2. h \in [1..n -> [V -> V]]
  BY <1>1, ConcatProperties
<1>3. \E p \in [0..n -> V] : p[0] = <<>> /\ \A i \in 1..n : p[i] = h[i][p[i - 1]]
  <2> DEFINE b == <<>>
  <2>1. n \in Nat /\ b \in V
    BY <1>1
  <2> HIDE DEF V, h, n, b
  <2>2. h \in [1..n -> [V -> V]]
    BY <1>2
  <2>3. n \in Nat
    BY <2>1
  <2>4. b \in V
    BY <2>1
  <2>5. \E p : Recursive(p, V, b, n, h)
    BY <2>2, <2>3, <2>4, Recursion
  <2> QED
    BY <2>5 DEF b, Recursive
<1> HIDE DEF n, V
<1>4. PICK p \in [0..n -> V] : p[0] = <<>> /\ \A i \in 1..n : p[i] = h[i][p[i - 1]]
  BY <1>3
<1>5. \A j \in 1..n : p[j - 1] \in V /\ p[j] = p[j - 1] \o s[j]
  <2>1. TAKE j \in 1..n
  <2>2. p[j - 1] \in V
    BY <1>1
  <2>3. h[j][p[j - 1]] = p[j - 1] \o s[j]
    BY <2>2
  <2> QED
    BY <1>4, <2>2, <2>3
<1>8. Together(p, S, s) /\ p[0] = <<>>
  BY <1>4, <1>5 DEF n, V, Together
<1>6. CASE n = 0
  <2>1. s = <<>>
    BY <1>6, EmptySeq DEF n
  <2> QED
    BY <2>1, <1>6, <1>8 DEF FlattenSeq, n
<1>7. CASE n # 0
  <2>1. 1 \in 1..n /\ p[1] = s[1]
    <3>1. 1 \in 1..n
      BY <1>1, <1>7
    <3>2. p[1] = p[1 - 1] \o s[1]
      BY <1>5, <3>1, Zenon
    <3>3. p[1 - 1] = <<>>
      BY <1>4
    <3>4. s[1] \in Seq(S)
      BY <1>1, <3>1 DEF V
    <3>5. <<>> \o s[1] = s[1]
      BY <3>4, ConcatEmptySeq, Zenon
    <3> QED
      BY <3>1, <3>2, <3>3, <3>5
  <2> DEFINE Def(f) == f = [i \in 1..n |-> IF i = 1 THEN s[i] ELSE f[i - 1] \o s[i]]
             f == CHOOSE f : Def(f)
  <2>2. \E g : Def(g)
    <3> DEFINE g == [j \in 1..n |-> p[j]]
    <3>1. \A i \in 1..n : i # 1 => g[i - 1] = p[i - 1]
      BY <1>1
    <3>2. \A i \in 1..n : p[i] = IF i = 1 THEN s[i] ELSE g[i - 1] \o s[i]
      BY <2>1, <3>1, <1>5
    <3>3. Def(g)
      BY <3>2
    <3> QED
      BY <3>3
  <2>3. Def(f)
    BY <2>2, Zenon
  <2>9. \A i \in 1..n : f[i] = IF i = 1 THEN s[i] ELSE f[i - 1] \o s[i]
    <3> HIDE DEF f
    <3> QED
      BY <2>3
  <2>4. FlattenSeq(s) = f[n]
    BY <1>7 DEF FlattenSeq, n
  <2> HIDE DEF f
  <2> DEFINE T == {j \in 0..n : j \in 1..n => f[j] = p[j]}
  <2>5. 0 \in T
    BY <1>1
  <2>6. ASSUME NEW k \in 1..n, k - 1 \in T PROVE k \in T
    <3>1. k \in 0..n /\ (k # 1 => k - 1 \in 1..n)
      BY <1>1
    <3>2. f[k] = IF k = 1 THEN s[k] ELSE f[k - 1] \o s[k]
      BY <2>9
    <3>3. f[k] = p[k]
      BY <1>5, <2>1, <2>6, <3>1, <3>2
    <3> QED
      BY <3>1, <3>3
  <2>7. n \in T
    <3> HIDE DEF T
    <3> QED
      BY <1>1, <2>5, <2>6, Induction
  <2>8. f[n] = p[n]
    BY <1>1, <1>7, <2>7
  <2> QED
    BY <1>8, <2>4, <2>8 DEF n
<1> QED
  BY <1>6, <1>7

\* Each sequence stands in the flattened one behind those before it.
LEMMA FlattenedPlaces ==
  ASSUME NEW S, NEW s \in Seq(Seq(S)), NEW p, Together(p, S, s)
  PROVE  \A i \in 1..Len(s) : \A x \in 1..Len(s[i]) :
           /\ Len(p[i - 1]) + x \in 1..Len(p[Len(s)])
           /\ p[Len(s)][Len(p[i - 1]) + x] = s[i][x]
<1> DEFINE n == Len(s)
<1>1. n \in Nat /\ \A j \in 1..n : s[j] \in Seq(S)
  BY LenProperties, ElementOfSeq
<1> HIDE DEF n
<1>2. \A j \in 1..n : p[j - 1] \in Seq(S) /\ p[j] \in Seq(S) /\ p[j] = p[j - 1] \o s[j]
  <2> DEFINE V == Seq(S)
  <2> HIDE DEF V
  <2>1. p \in [0..n -> V] /\ \A j \in 1..n : p[j] = p[j - 1] \o s[j]
    BY DEF n, V, Together
  <2>2. \A j \in 1..n : p[j - 1] \in V /\ p[j] \in V
    BY <1>1, <2>1
  <2> QED
    BY <2>1, <2>2 DEF V
<1> SUFFICES ASSUME NEW i \in 1..n, NEW x \in 1..Len(s[i])
             PROVE  /\ Len(p[i - 1]) + x \in 1..Len(p[n])
                    /\ p[n][Len(p[i - 1]) + x] = s[i][x]
  BY DEF n
<1> DEFINE y == Len(p[i - 1]) + x
           T == {k \in 0..n : k >= i => y \in 1..Len(p[k]) /\ p[k][y] = s[i][x]}
<1>3. 0 \in T
  BY <1>1
<1>4. ASSUME NEW k \in 1..n, k - 1 \in T PROVE k \in T
  <2>1. /\ Len(p[k]) = Len(p[k - 1]) + Len(s[k])
        /\ Len(p[k - 1]) \in Nat /\ Len(s[k]) \in Nat
        /\ \A z \in 1..Len(p[k]) :
             p[k][z] = IF z <= Len(p[k - 1]) THEN p[k - 1][z] ELSE s[k][z - Len(p[k - 1])]
    <3>1. p[k - 1] \in Seq(S) /\ s[k] \in Seq(S) /\ p[k] = p[k - 1] \o s[k]
      BY <1>1, <1>2
    <3> DEFINE a == p[k - 1]
               e == s[k]
    <3> HIDE DEF a, e
    <3>2. a \in Seq(S) /\ e \in Seq(S) /\ p[k] = a \o e
      BY <3>1 DEF a, e
    <3>3. /\ Len(a \o e) = Len(a) + Len(e) /\ Len(a) \in Nat /\ Len(e) \in Nat
          /\ \A z \in 1..(Len(a) + Len(e)) :
               (a \o e)[z] = IF z <= Len(a) THEN a[z] ELSE e[z - Len(a)]
      BY <3>2, ConcatProperties, LenProperties
    <3> QED
      BY <3>2, <3>3 DEF a, e
  <2>2. Len(p[i - 1]) \in Nat /\ Len(s[i]) \in Nat
    BY <1>1, <1>2, LenProperties
  <2> DEFINE l == Len(p[k - 1])
             a == p[k - 1]
             e == s[k]
             q == p[k]
  <2> HIDE DEF l, a, e, q
  <2>6. /\ Len(q) = l + Len(e) /\ l \in Nat /\ Len(e) \in Nat
        /\ \A z \in 1..Len(q) : q[z] = IF z <= l THEN a[z] ELSE e[z - l]
    BY <2>1 DEF l, a, e, q
  <2>3. CASE k = i
    <3>1. y = l + x /\ x \in 1..Len(e)
      BY <2>3 DEF l, e
    <3> HIDE DEF y
    <3>2. y \in 1..Len(q) /\ ~ (y <= l) /\ y - l = x
      BY <2>6, <3>1
    <3>3. q[y] = e[x]
      BY <2>6, <3>2
    <3> QED
      BY <2>3, <3>2, <3>3 DEF q, e
  <2>4. CASE k > i
    <3>1. y \in 1..Len(p[k - 1]) /\ p[k - 1][y] = s[i][x]
      BY <1>1, <1>4, <2>4
    <3> HIDE DEF y
    <3>2. y \in 1..l /\ a[y] = s[i][x]
      BY <3>1 DEF l, a
    <3>3. y \in 1..Len(q) /\ q[y] = a[y]
      BY <2>6, <3>2
    <3> QED
      BY <3>2, <3>3 DEF q
  <2>5. CASE k < i
    BY <1>1, <2>5
  <2> QED
    BY <2>3, <2>4, <2>5
<1>5. n \in T
  <2> HIDE DEF T
  <2> QED
    BY <1>1, <1>3, <1>4, Induction
<1> QED
  BY <1>1, <1>5

-----------------------------------------------------------------------------
(* The cursor of a client.                                                 *)

\* The step of the cursor past a member.
Past(items, d, c) ==
  [at |-> c.at + (IF IsList(d) THEN c.count ELSE 1),
   count |-> IF d.type = "int" /\ ~IsList(d) THEN Read(items, c.at, "int")[3] ELSE c.count]

\* The cursor is what its recursion says.
LEMMA CursorSteps ==
  ASSUME NEW m, NEW items, Len(Members[m]) \in Nat
  PROVE  /\ Cursor(m, items)[0] = [at |-> 1, count |-> 0]
         /\ \A j \in 1..Len(Members[m]) :
              Cursor(m, items)[j] = Past(items, Members[m][j], Cursor(m, items)[j - 1])
<1> DEFINE n == Len(Members[m])
           start == [at |-> 1, count |-> 0]
           Def(f, k) == f = [j \in 0..k |-> IF j = 0 THEN start
                                           ELSE Past(items, Members[m][j], f[j - 1])]
           S == {k \in 0..n : \E f : Def(f, k)}
<1> HIDE DEF n, start
<1>0. n \in Nat
  BY DEF n
<1>1. 0 \in S
  <2> DEFINE f == [j \in 0..0 |-> start]
  <2>1. Def(f, 0)
    OBVIOUS
  <2> HIDE DEF Def, f
  <2> QED
    BY <1>0, <2>1
<1>2. ASSUME NEW k \in 1..n, k - 1 \in S PROVE k \in S
  <2>1. PICK f : Def(f, k - 1)
    BY <1>2
  <2>2. \A j \in 0..(k - 1) : f[j] = IF j = 0 THEN start ELSE Past(items, Members[m][j], f[j - 1])
    BY <2>1
  <2> DEFINE next == Past(items, Members[m][k], f[k - 1])
             g == [j \in 0..k |-> IF j = k THEN next ELSE f[j]]
  <2> HIDE DEF next
  <2>3. \A j \in 0..k : g[j] = IF j = 0 THEN start ELSE Past(items, Members[m][j], g[j - 1])
    <3>1. TAKE j \in 0..k
    <3>2. CASE j = k
      BY <1>0, <3>2 DEF next
    <3>3. CASE j # k
      BY <1>0, <2>2, <3>3
    <3> QED
      BY <3>2, <3>3
  <2>4. Def(g, k)
    BY <2>3
  <2> HIDE DEF Def, g
  <2> QED
    BY <1>0, <2>4
<1>3. n \in S
  <2> HIDE DEF S
  <2> QED
    BY <1>0, <1>1, <1>2, Induction
<1> DEFINE c == Cursor(m, items)
<1>4. c = CHOOSE f : Def(f, n)
  BY DEF Cursor, Past, n, start
<1>5. Def(c, n)
  <2>1. \E f : Def(f, n)
    BY <1>3
  <2> HIDE DEF Def, c
  <2> QED
    BY <1>4, <2>1, Zenon
<1> HIDE DEF c
<1>6. \A j \in 0..n : c[j] = IF j = 0 THEN start ELSE Past(items, Members[m][j], c[j - 1])
  BY <1>5
<1> QED
  BY <1>0, <1>6 DEF c, n, start

-----------------------------------------------------------------------------
(* What is written is what is read.                                        *)

\* What a member is declared as
Types == {"text", "int", "Vector3", "BOOL"}

\* What a class reads or writes is declared, in that order, no name twice.
Row(T, O) ==
  /\ Len(T) \in Nat /\ DOMAIN T = 1..Len(T)
  /\ Len(O) \in Nat /\ DOMAIN O = 1..Len(O) /\ Len(O) <= Len(T)
  /\ \A j \in 1..Len(O) : O[j] = T[j].name
  /\ \A j \in 1..Len(T) : T[j].type \in Types
  /\ \A i, j \in 1..Len(T) : T[i].name = T[j].name => i = j

\* A number that says how long the lists behind it are
IsCount(d) == d.type = "int" /\ ~IsList(d)

\* The list at j has the length that the last number before it says, at i.
CountedBy(T, data, i, j) ==
  /\ IsCount(T[i]) /\ \A k \in (i + 1)..(j - 1) : ~IsCount(T[k])
  /\ data[T[i].name][3] \in Nat
  /\ data[T[j].name] = [x \in 1..data[T[i].name][3] |-> data[T[j].name][x]]

\* Every list has a number before it that says its length.
Fits(T, data) ==
  \A j \in 1..Len(T) : IsList(T[j]) => \E i \in 1..(j - 1) : CountedBy(T, data, i, j)

\* What is written of each member, in the order of Serialize
Blocks(m, data) ==
  [j \in DOMAIN Order[m] |-> Written(Declared(m, Order[m][j]), data[Order[m][j]])]

\* An item is read as what was written, by the same type.
LEMMA ReadWritten ==
  ASSUME NEW items, NEW i, NEW type \in Types, NEW v,
         i <= Len(items), items[i] = Write(type, v)
  PROVE  Read(items, i, type) = v
<1>1. items[i].type = type /\ items[i].value = v
  <2> DEFINE b == IF type # "text" THEN WriteBytes[type]
                  ELSE 4 + (IF v[1] = "" THEN 0 ELSE TextLength)
  <2>1. items[i] = [type |-> type, value |-> v, bytes |-> b]
    BY DEF Write
  <2> HIDE DEF b
  <2> QED
    BY <2>1
<1>2. type # "text" => items[i].bytes = ReadBytes[type]
  BY DEF Write, WriteBytes, ReadBytes
<1> QED
  BY <1>1, <1>2 DEF Read

\* A name has one place among the members.
LEMMA PlaceOfName ==
  ASSUME NEW m, Row(Members[m], Order[m]), NEW j \in 1..Len(Members[m])
  PROVE  /\ PlaceOf(m, Members[m][j].name) = j
         /\ Declared(m, Members[m][j].name) = Members[m][j]
<1> DEFINE D == 1..Len(Members[m])
           P(k) == Members[m][k].name = Members[m][j].name
<1>1. DOMAIN Members[m] = D /\ \A k \in D : P(k) <=> k = j
  BY DEF Row
<1>2. PlaceOf(m, Members[m][j].name) = CHOOSE k \in D : P(k)
  BY <1>1 DEF PlaceOf
<1>3. (CHOOSE k \in D : P(k)) = j
  <2> HIDE DEF D, P
  <2>1. j \in D
    BY DEF D
  <2> QED
    BY <1>1, <2>1, Zenon
<1> QED
  BY <1>2, <1>3 DEF Declared

\* What a message is put together of.
LEMMA BlocksOf ==
  ASSUME NEW m, NEW data, Row(Members[m], Order[m]), Len(Order[m]) = Len(Members[m]),
         Fits(Members[m], data)
  PROVE  /\ \E S : Blocks(m, data) \in Seq(Seq(S))
         /\ Len(Blocks(m, data)) = Len(Members[m])
         /\ \A j \in 1..Len(Members[m]) :
              LET d == Members[m][j]  b == Blocks(m, data)[j]
              IN /\ b = Written(d, data[d.name])
                 /\ Len(b) \in Nat /\ DOMAIN b = 1..Len(b)
                 /\ IsList(d) => DOMAIN data[d.name] = 1..Len(b)
                 /\ ~IsList(d) => Len(b) = 1
<1> DEFINE n == Len(Members[m])
           s == Blocks(m, data)
<1>1. /\ n \in Nat /\ DOMAIN Order[m] = 1..n
      /\ \A j \in 1..n : Order[m][j] = Members[m][j].name
  BY DEF Row
<1>2. \A j \in 1..n : Declared(m, Order[m][j]) = Members[m][j]
  BY <1>1, PlaceOfName
<1>3. \A j \in 1..n : s[j] = Written(Members[m][j], data[Members[m][j].name])
  BY <1>1, <1>2 DEF Blocks
<1>4. DOMAIN s = 1..n
  BY <1>1 DEF Blocks
<1> HIDE DEF n, s
<1>5. ASSUME NEW j \in 1..n
      PROVE  /\ Len(s[j]) \in Nat /\ DOMAIN s[j] = 1..Len(s[j])
             /\ IsList(Members[m][j]) => DOMAIN data[Members[m][j].name] = 1..Len(s[j])
             /\ ~IsList(Members[m][j]) => Len(s[j]) = 1
  <2> DEFINE d == Members[m][j]
             v == data[d.name]
  <2>1. CASE IsList(d)
    <3>1. PICK i \in 1..(j - 1) : CountedBy(Members[m], data, i, j)
      BY <2>1 DEF Fits, n
    <3> DEFINE c == data[Members[m][i].name][3]
    <3>2. c \in Nat /\ v = [x \in 1..c |-> v[x]]
      BY <3>1 DEF CountedBy
    <3> HIDE DEF c, v
    <3>3. DOMAIN v = 1..c
      BY <3>2
    <3>4. s[j] = [x \in 1..c |-> Write(d.type, v[x])]
      BY <1>3, <2>1, <3>3 DEF Written, v
    <3>5. DOMAIN s[j] = 1..c /\ Len(s[j]) = c
      <4>1. s[j] \in Seq({Write(d.type, v[x]) : x \in 1..c})
        BY <3>2, <3>4, IsASeq
      <4> QED
        BY <3>2, <3>4, <4>1, LenProperties
    <3> QED
      BY <2>1, <3>2, <3>3, <3>5 DEF v
  <2>2. CASE ~IsList(d)
    <3>1. s[j] = <<Write(d.type, v)>>
      BY <1>3, <2>2 DEF Written
    <3> DEFINE w == Write(d.type, v)
    <3> HIDE DEF w
    <3>2. s[j] = <<w>>
      BY <3>1 DEF w
    <3> QED
      BY <2>2, <3>2
  <2> QED
    BY <2>1, <2>2
<1>6. \E S : s \in Seq(Seq(S))
  <2> DEFINE S == UNION {{s[j][x] : x \in 1..Len(s[j])} : j \in 1..n}
  <2>1. ASSUME NEW j \in 1..n PROVE s[j] \in Seq(S)
    <3> DEFINE b == s[j]
    <3>1. Len(b) \in Nat /\ DOMAIN b = 1..Len(b) /\ \A x \in 1..Len(b) : b[x] \in S
      BY <1>5
    <3>2. b = [x \in 1..Len(b) |-> b[x]]
      <4>1. b = Written(Members[m][j], data[Members[m][j].name])
        BY <1>3
      <4> QED
        <5> DEFINE d == Members[m][j]
                   v == data[d.name]
        <5>1. CASE IsList(d)
          <6>1. b = [x \in DOMAIN v |-> Write(d.type, v[x])]
            BY <4>1, <5>1 DEF Written
          <6> HIDE DEF b, v, d
          <6> QED
            BY <3>1, <6>1
        <5>2. CASE ~IsList(d)
          <6>1. b = <<Write(d.type, v)>>
            BY <4>1, <5>2 DEF Written
          <6> DEFINE w == Write(d.type, v)
          <6> HIDE DEF w, b
          <6>2. b = <<w>>
            BY <6>1 DEF w
          <6> QED
            BY <6>2
        <5> QED
          BY <5>1, <5>2
    <3> HIDE DEF b, S
    <3>3. b \in Seq(S)
      BY <3>1, <3>2, IsASeq
    <3> QED
      BY <3>3 DEF b
  <2>2. s = [j \in 1..n |-> s[j]]
    BY <1>4 DEF s, Blocks
  <2> DEFINE V == Seq(S)
  <2> HIDE DEF S, V
  <2>3. s \in Seq(V)
    BY <1>1, <2>1, <2>2, IsASeq DEF V
  <2> QED
    BY <2>3 DEF V
<1>7. Len(s) = n
  BY <1>1, <1>4, <1>6, LenProperties
<1> QED
  BY <1>3, <1>5, <1>6, <1>7 DEF n, s

\* A client that reads what was written finds what was written.
LEMMA RoundTrip ==
  ASSUME NEW m, NEW data, Row(Members[m], Order[m]), Len(Order[m]) = Len(Members[m]),
         Fits(Members[m], data)
  PROVE  ClientReads(m, Serialize(m, data)) = [n \in Names(m) |-> data[n]]
<1> DEFINE n == Len(Members[m])
           T == Members[m]
           s == Blocks(m, data)
           items == Serialize(m, data)
           c == Cursor(m, items)
<1>1. PICK S : s \in Seq(Seq(S))
  BY BlocksOf
<1>2. /\ Len(s) = n /\ n \in Nat
      /\ \A j \in 1..n : /\ s[j] = Written(T[j], data[T[j].name])
                         /\ Len(s[j]) \in Nat /\ DOMAIN s[j] = 1..Len(s[j])
                         /\ IsList(T[j]) => DOMAIN data[T[j].name] = 1..Len(s[j])
                         /\ ~IsList(T[j]) => Len(s[j]) = 1
  BY BlocksOf DEF Row
<1>21. PICK p : Together(p, S, s) /\ FlattenSeq(s) = p[Len(s)]
  BY <1>1, Flattened
<1>3. /\ p \in [0..Len(s) -> Seq(S)]
      /\ p[0] = <<>> /\ \A j \in 1..Len(s) : p[j] = p[j - 1] \o s[j]
      /\ FlattenSeq(s) = p[Len(s)]
  BY <1>21 DEF Together
<1>4. items = p[n]
  BY <1>2, <1>3 DEF Serialize, Blocks
<1>5. \A i \in 1..n : \A x \in 1..Len(s[i]) :
        Len(p[i - 1]) + x \in 1..Len(items) /\ items[Len(p[i - 1]) + x] = s[i][x]
  <2>1. \A i \in 1..Len(s) : \A x \in 1..Len(s[i]) :
          /\ Len(p[i - 1]) + x \in 1..Len(p[Len(s)])
          /\ p[Len(s)][Len(p[i - 1]) + x] = s[i][x]
    <3> HIDE DEF s
    <3> QED
      BY <1>1, <1>21, FlattenedPlaces
  <2> QED
    BY <1>2, <1>4, <2>1
<1>6. \A j \in 1..n : /\ Len(p[j - 1]) \in Nat /\ Len(p[j]) \in Nat
                      /\ Len(p[j]) = Len(p[j - 1]) + Len(s[j])
  <2> DEFINE V == Seq(S)
  <2>1. TAKE j \in 1..n
  <2>2. p[j - 1] \in V /\ s[j] \in V /\ p[j] = p[j - 1] \o s[j]
    <3>1. p \in [0..n -> V] /\ s \in Seq(V) /\ p[j] = p[j - 1] \o s[j]
      BY <1>1, <1>2, <1>3
    <3> HIDE DEF V, s, n, T
    <3> QED
      BY <1>2, <3>1, ElementOfSeq
  <2> DEFINE a == p[j - 1]
             e == s[j]
  <2> HIDE DEF a, e, n, s
  <2>3. a \in Seq(S) /\ e \in Seq(S) /\ p[j] = a \o e
    BY <2>2 DEF a, e
  <2>4. Len(a \o e) = Len(a) + Len(e) /\ Len(a) \in Nat /\ Len(e) \in Nat
    BY <2>3, ConcatProperties, LenProperties
  <2>5. Len(a) \in Nat /\ Len(p[j]) = Len(a) + Len(e) /\ Len(p[j]) \in Nat
    BY <2>3, <2>4
  <2> QED
    BY <2>5 DEF a, e
<1>7. /\ c[0] = [at |-> 1, count |-> 0]
      /\ \A j \in 1..n : c[j] = Past(items, T[j], c[j - 1])
  BY <1>2, CursorSteps
<1>8. \A j \in 1..n : T[j].type \in Types
  BY DEF Row
<1>9. \A j \in 1..n : IsList(T[j]) => \E i \in 1..(j - 1) : CountedBy(T, data, i, j)
  BY DEF Fits
<1>10. \A j \in 1..n : PlaceOf(m, T[j].name) = j /\ Declared(m, T[j].name) = T[j]
  BY PlaceOfName
<1>11. Len(p[0]) = 0
  BY <1>3
<1>12. Names(m) = {T[j].name : j \in 1..n}
  BY DEF Row, Names
<1>13. ClientReads(m, items) =
         [e \in Names(m) |->
            LET d == Declared(m, e)  k == c[PlaceOf(m, e) - 1]
            IN IF IsList(d) THEN [x \in 1..k.count |-> Read(items, k.at + x - 1, d.type)]
               ELSE Read(items, k.at, d.type)]
  BY DEF ClientReads
<1> HIDE DEF n, T, s, items, c
<1> DEFINE At(k) == /\ c[k].at = 1 + Len(p[k])
                    /\ \A i \in 1..k :
                         (IsCount(T[i]) /\ \A j \in (i + 1)..k : ~IsCount(T[j]))
                           => c[k].count = data[T[i].name][3]
           I == {k \in 0..n : At(k)}
\* What stands at the cursor
<1>14. ASSUME NEW k \in 1..n, At(k - 1), ~IsList(T[k])
       PROVE  Read(items, c[k - 1].at, T[k].type) = data[T[k].name]
  <2> DEFINE y == Len(p[k - 1]) + 1
  <2> HIDE DEF At
  <2>1. Len(s[k]) = 1 /\ 1 \in 1..1
    BY <1>2, <1>14
  <2>2. y \in 1..Len(items) /\ items[y] = s[k][1]
    BY <1>5, <2>1, Zenon
  <2>3. s[k][1] = Write(T[k].type, data[T[k].name])
    BY <1>2, <1>14 DEF Written
  <2>4. c[k - 1].at = y
    BY <1>2, <1>6, <1>14 DEF At
  <2> HIDE DEF y
  <2>5. y <= Len(items) /\ items[y] = Write(T[k].type, data[T[k].name])
    BY <2>2, <2>3
  <2>6. T[k].type \in Types
    BY <1>8
  <2> QED
    BY <2>4, <2>5, <2>6, ReadWritten
<1>15. ASSUME NEW k \in 1..n, At(k - 1), IsList(T[k])
       PROVE  /\ c[k - 1].count = Len(s[k])
              /\ data[T[k].name] =
                   [x \in 1..c[k - 1].count |-> Read(items, c[k - 1].at + x - 1, T[k].type)]
  <2>1. PICK i \in 1..(k - 1) : CountedBy(T, data, i, k)
    BY <1>9, <1>15
  <2> DEFINE l == data[T[i].name][3]
             v == data[T[k].name]
  <2>2. c[k - 1].count = l /\ l \in Nat /\ v = [x \in 1..l |-> v[x]]
    BY <1>2, <1>15, <2>1 DEF CountedBy
  <2>3. Len(s[k]) = l
    <3>1. DOMAIN v = 1..l
      <4> HIDE DEF v, l
      <4> QED
        BY <2>2
    <3>2. 1..l = 1..Len(s[k])
      BY <1>2, <1>15, <3>1
    <3>3. Len(s[k]) \in Nat
      BY <1>2
    <3> HIDE DEF l, v
    <3> QED
      BY <2>2, <3>2, <3>3
  <2>4. ASSUME NEW x \in 1..l PROVE Read(items, c[k - 1].at + x - 1, T[k].type) = v[x]
    <3> DEFINE y == Len(p[k - 1]) + x
    <3>1. x \in 1..Len(s[k]) /\ x \in DOMAIN v
      BY <1>2, <1>15, <2>3
    <3>2. y \in 1..Len(items) /\ items[y] = s[k][x]
      BY <1>5, <3>1
    <3>3. s[k][x] = Write(T[k].type, v[x])
      BY <1>2, <1>15, <3>1 DEF Written
    <3>4. c[k - 1].at + x - 1 = y
      BY <1>2, <1>6, <1>15
    <3> HIDE DEF y
    <3>5. y <= Len(items) /\ items[y] = Write(T[k].type, v[x])
      BY <3>2, <3>3
    <3>6. T[k].type \in Types
      BY <1>8
    <3> QED
      BY <3>4, <3>5, <3>6, ReadWritten
  <2> HIDE DEF l, v
  <2>5. v = [x \in 1..l |-> Read(items, c[k - 1].at + x - 1, T[k].type)]
    BY <2>2, <2>4
  <2> QED
    BY <2>2, <2>3, <2>5 DEF v
<1>16. 0 \in I
  BY <1>2, <1>7, <1>11
<1>17. ASSUME NEW k \in 1..n, k - 1 \in I PROVE k \in I
  <2>1. At(k - 1) /\ k \in 0..n /\ k - 1 \in 0..n
    BY <1>2, <1>17
  <2>2. c[k] = Past(items, T[k], c[k - 1])
    BY <1>7
  <2>3. c[k].at = 1 + Len(p[k])
    <3> DEFINE b == c[k - 1]
    <3>0. b.at = 1 + Len(p[k - 1])
      BY <2>1
    <3>4. c[k].at = b.at + (IF IsList(T[k]) THEN b.count ELSE 1)
      BY <2>2 DEF Past
    <3>5. Len(p[k - 1]) \in Nat /\ Len(s[k]) \in Nat /\ Len(p[k]) = Len(p[k - 1]) + Len(s[k])
      BY <1>2, <1>6
    <3>6. IsList(T[k]) => b.count = Len(s[k])
      BY <1>15, <2>1
    <3>7. ~IsList(T[k]) => Len(s[k]) = 1
      BY <1>2
    <3> DEFINE u == Len(p[k - 1])
               v == Len(s[k])
               w == Len(p[k])
    <3>8. u \in Nat /\ v \in Nat /\ w = u + v /\ b.at = 1 + u
      BY <3>0, <3>5
    <3>9. (IsList(T[k]) => b.count = v) /\ (~IsList(T[k]) => v = 1)
      BY <3>6, <3>7
    <3> HIDE DEF b, At, u, v, w
    <3>1. CASE IsList(T[k])
      <4>1. c[k].at = b.at + b.count
        BY <3>1, <3>4
      <4>2. c[k].at = 1 + w
        BY <3>1, <3>8, <3>9, <4>1
      <4> QED
        BY <4>2 DEF w
    <3>2. CASE ~IsList(T[k])
      <4>1. c[k].at = b.at + 1
        BY <3>2, <3>4
      <4>2. c[k].at = 1 + w
        BY <3>2, <3>8, <3>9, <4>1
      <4> QED
        BY <4>2 DEF w
    <3> QED
      BY <3>1, <3>2
  <2>4. ASSUME NEW i \in 1..k, IsCount(T[i]), \A j \in (i + 1)..k : ~IsCount(T[j])
        PROVE  c[k].count = data[T[i].name][3]
    <3>1. CASE i = k
      <4>1. c[k].count = Read(items, c[k - 1].at, "int")[3]
        BY <2>2, <2>4, <3>1 DEF Past, IsCount
      <4>2. Read(items, c[k - 1].at, T[k].type) = data[T[k].name] /\ T[k].type = "int"
        BY <1>14, <2>1, <2>4, <3>1 DEF IsCount
      <4> QED
        BY <3>1, <4>1, <4>2
    <3>2. CASE i # k
      <4>1. k \in (i + 1)..k /\ i \in 1..(k - 1) /\ (i + 1)..(k - 1) \subseteq (i + 1)..k
        BY <1>2, <3>2
      <4>2. c[k].count = c[k - 1].count
        BY <2>2, <2>4, <4>1 DEF Past, IsCount
      <4> QED
        BY <2>1, <2>4, <4>1, <4>2
    <3> QED
      BY <3>1, <3>2
  <2> QED
    BY <2>1, <2>3, <2>4
<1>18. \A k \in 0..n : At(k)
  <2>1. TAKE k \in 0..n
  <2>2. \A j \in 1..k : j - 1 \in I => j \in I
    <3>1. \A j \in 1..k : j \in 1..n
      BY <1>2
    <3> HIDE DEF I
    <3> QED
      BY <1>17, <3>1
  <2>3. k \in Nat
    BY <1>2
  <2> HIDE DEF I
  <2>4. k \in I
    BY <1>16, <2>2, <2>3, Induction
  <2> QED
    BY <2>4 DEF I
<1>19. ASSUME NEW e \in Names(m) PROVE ClientReads(m, items)[e] = data[e]
  <2>1. PICK k \in 1..n : e = T[k].name
    BY <1>12
  <2>2. At(k - 1)
    <3>1. k - 1 \in 0..n
      BY <1>2
    <3> HIDE DEF At
    <3> QED
      BY <1>18, <3>1
  <2>3. PlaceOf(m, e) = k /\ Declared(m, e) = T[k]
    BY <1>10, <2>1
  <2> DEFINE a == c[k - 1]
  <2>4. ClientReads(m, items)[e] =
          IF IsList(T[k]) THEN [x \in 1..a.count |-> Read(items, a.at + x - 1, T[k].type)]
          ELSE Read(items, a.at, T[k].type)
    BY <1>13, <2>3
  <2>5. CASE IsList(T[k])
    BY <1>15, <2>1, <2>2, <2>4, <2>5
  <2>6. CASE ~IsList(T[k])
    BY <1>14, <2>1, <2>2, <2>4, <2>6
  <2> QED
    BY <2>5, <2>6
<1>20. ClientReads(m, items) = [e \in Names(m) |-> ClientReads(m, items)[e]]
  BY <1>13
<1> QED
  BY <1>19, <1>20 DEF items

-----------------------------------------------------------------------------
(* How many bytes are written.                                             *)

\* Every item has a number of bytes.
Sized(items) == Len(items) \in Nat /\ \A i \in 1..Len(items) : items[i].bytes \in Nat

\* f[i] is the offset behind the first i items.
Offsets(f, items) ==
  /\ f \in [0..Len(items) -> Nat] /\ f[0] = 0
  /\ \A i \in 1..Len(items) : f[i] = f[i - 1] + items[i].bytes

\* Offset, a fold, is the last of its partial sums.
LEMMA OffsetSums ==
  ASSUME NEW items, Sized(items)
  PROVE  \E f : Offsets(f, items) /\ Offset(items) = f[Len(items)]
<1> DEFINE n == Len(items)
           b(i) == items[i].bytes
           h == [i \in 1..n |-> [v \in Nat |-> v + b(i)]]
           Def(f) == f = [i \in 0..n |-> IF i = 0 THEN 0 ELSE f[i - 1] + b(i)]
           f == CHOOSE f : Def(f)
<1>1. n \in Nat /\ \A i \in 1..n : b(i) \in Nat
  BY DEF Sized
<1>2. Offset(items) = f[n]
  BY DEF Offset
<1> HIDE DEF n, b
<1>3. \E g : Recursive(g, Nat, 0, n, h)
  <2>1. h \in [1..n -> [Nat -> Nat]]
    BY <1>1
  <2> HIDE DEF h
  <2> QED
    BY <1>1, <2>1, Recursion
<1>4. PICK g \in [0..n -> Nat] : g[0] = 0 /\ \A i \in 1..n : g[i] = g[i - 1] + b(i)
  <2>1. PICK g \in [0..n -> Nat] : g[0] = 0 /\ \A i \in 1..n : g[i] = h[i][g[i - 1]]
    BY <1>3 DEF Recursive
  <2>2. \A i \in 1..n : g[i] = g[i - 1] + b(i)
    <3>1. TAKE i \in 1..n
    <3>2. g[i - 1] \in Nat
      BY <1>1
    <3> QED
      BY <2>1, <3>2
  <2> QED
    BY <2>1, <2>2
<1>5. Def(f)
  <2>1. g = [i \in 0..n |-> IF i = 0 THEN 0 ELSE g[i - 1] + b(i)]
    <3>1. \A i \in 0..n : g[i] = IF i = 0 THEN 0 ELSE g[i - 1] + b(i)
      BY <1>1, <1>4
    <3> QED
      BY <3>1
  <2> QED
    BY <2>1, Zenon
<1> HIDE DEF f
<1>6. \A i \in 0..n : f[i] = IF i = 0 THEN 0 ELSE f[i - 1] + b(i)
  BY <1>5
<1> DEFINE T == {i \in 0..n : f[i] = g[i]}
<1>7. ASSUME NEW k \in 0..n PROVE f[k] = g[k]
  <2>1. 0 \in T
    BY <1>1, <1>4, <1>6
  <2>2. ASSUME NEW i \in 1..k, i - 1 \in T PROVE i \in T
    BY <1>1, <1>4, <1>6, <2>2
  <2>3. k \in T
    <3>1. k \in Nat
      BY <1>1
    <3> HIDE DEF T
    <3> QED
      BY <2>1, <2>2, <3>1, Induction
  <2> QED
    BY <2>3
<1>8. f = g
  BY <1>5, <1>7
<1>9. Offsets(f, items)
  BY <1>4, <1>8 DEF Offsets, n, b
<1> QED
  BY <1>2, <1>9 DEF n

\* The offset behind two sequences is the sum of both.
LEMMA OffsetOfBoth ==
  ASSUME NEW S, NEW a \in Seq(S), NEW e \in Seq(S), Sized(a), Sized(e)
  PROVE  /\ Sized(a \o e) /\ Offset(a \o e) = Offset(a) + Offset(e)
         /\ Offset(a) \in Nat /\ Offset(e) \in Nat
<1> DEFINE l == Len(a)
           n == Len(e)
           q == a \o e
<1>1. /\ l \in Nat /\ n \in Nat /\ Len(q) = l + n
      /\ \A i \in 1..(l + n) : q[i] = IF i <= l THEN a[i] ELSE e[i - l]
  BY ConcatProperties, LenProperties
<1>2. Sized(q)
  <2>1. ASSUME NEW i \in 1..(l + n) PROVE q[i].bytes \in Nat
    <3>1. CASE i <= l
      <4>1. i \in 1..l /\ q[i] = a[i]
        BY <1>1, <3>1
      <4> QED
        BY <4>1 DEF Sized
    <3>2. CASE ~ (i <= l)
      <4>1. i - l \in 1..n /\ q[i] = e[i - l]
        BY <1>1, <3>2
      <4> QED
        BY <4>1 DEF Sized
    <3> QED
      BY <3>1, <3>2
  <2> QED
    BY <1>1, <2>1 DEF Sized
<1>3. PICK f : Offsets(f, a) /\ Offset(a) = f[l]
  BY OffsetSums
<1>4. PICK g : Offsets(g, e) /\ Offset(e) = g[n]
  BY OffsetSums
<1>5. PICK h : Offsets(h, q) /\ Offset(q) = h[l + n]
  <2> HIDE DEF q
  <2>1. \E h : Offsets(h, q) /\ Offset(q) = h[Len(q)]
    BY <1>2, OffsetSums
  <2> QED
    BY <1>1, <2>1
<1> HIDE DEF l, n, q
<1>6. /\ f \in [0..l -> Nat] /\ f[0] = 0 /\ \A i \in 1..l : f[i] = f[i - 1] + a[i].bytes
      /\ g \in [0..n -> Nat] /\ g[0] = 0 /\ \A i \in 1..n : g[i] = g[i - 1] + e[i].bytes
  BY <1>3, <1>4 DEF Offsets, l, n
<1>7. /\ h \in [0..(l + n) -> Nat] /\ h[0] = 0
      /\ \A i \in 1..(l + n) : h[i] = h[i - 1] + q[i].bytes
  BY <1>1, <1>5 DEF Offsets
<1> DEFINE V(i) == IF i <= l THEN f[i] ELSE f[l] + g[i - l]
           T == {i \in 0..(l + n) : h[i] = V(i)}
<1>8. 0 \in T
  BY <1>1, <1>6, <1>7
<1>9. ASSUME NEW i \in 1..(l + n), i - 1 \in T PROVE i \in T
  <2>1. h[i - 1] = V(i - 1) /\ h[i] = h[i - 1] + q[i].bytes /\ i \in 0..(l + n)
    BY <1>1, <1>7, <1>9
  <2>2. CASE i <= l
    <3>1. i \in 1..l /\ q[i] = a[i] /\ i - 1 <= l
      BY <1>1, <2>2
    <3>2. f[i] = f[i - 1] + a[i].bytes
      BY <1>6, <3>1
    <3> QED
      BY <2>1, <2>2, <3>1, <3>2
  <2>3. CASE i = l + 1
    <3>1. 1 \in 1..n /\ q[i] = e[1] /\ i - 1 = l /\ i - l = 1
      BY <1>1, <2>3
    <3>2. g[1] = e[1].bytes /\ g[1] \in Nat
      <4>1. g[1] = g[1 - 1] + e[1].bytes
        BY <1>6, <3>1
      <4>2. e[1].bytes \in Nat
        BY <3>1 DEF Sized, n
      <4> QED
        BY <1>6, <4>1, <4>2
    <3>3. f[l] \in Nat
      BY <1>1, <1>6
    <3> QED
      BY <1>1, <2>1, <2>3, <3>1, <3>2, <3>3
  <2>4. CASE i > l + 1
    <3> DEFINE j == i - l
    <3>1. j \in 1..n /\ j - 1 \in 0..n /\ q[i] = e[j] /\ i - 1 - l = j - 1 /\ ~ (i - 1 <= l)
      BY <1>1, <2>4
    <3>2. g[j] = g[j - 1] + e[j].bytes
      BY <1>6, <3>1
    <3>3. f[l] \in Nat /\ g[j - 1] \in Nat /\ g[j] \in Nat
      BY <1>1, <1>6, <3>1
    <3>4. h[i - 1] = f[l] + g[j - 1]
      BY <2>1, <3>1
    <3>5. e[j].bytes \in Nat
      BY <3>1 DEF Sized, n
    <3>6. h[i] = (f[l] + g[j - 1]) + e[j].bytes
      BY <2>1, <3>1, <3>4
    <3>7. h[i] = f[l] + g[j]
      <4> DEFINE x == f[l]
                 y == g[j - 1]
                 b == e[j].bytes
      <4>1. x \in Nat /\ y \in Nat /\ b \in Nat
        BY <3>3, <3>5
      <4> HIDE DEF x, y, b
      <4>2. (x + y) + b = x + (y + b)
        BY <4>1
      <4> QED
        BY <3>2, <3>6, <4>2, Zenon DEF x, y, b
    <3>8. V(i) = f[l] + g[j]
      BY <1>1, <2>4
    <3> HIDE DEF V
    <3> QED
      BY <2>1, <3>7, <3>8
  <2> QED
    BY <1>1, <2>2, <2>3, <2>4
<1>10. l + n \in T
  <2>1. l + n \in Nat
    BY <1>1
  <2> HIDE DEF T
  <2> QED
    BY <1>8, <1>9, <2>1, Induction
<1>11. Offset(q) = Offset(a) + Offset(e)
  BY <1>1, <1>3, <1>4, <1>5, <1>6, <1>10
<1>12. f[l] \in Nat /\ g[n] \in Nat
  BY <1>1, <1>6
<1> QED
  BY <1>2, <1>3, <1>4, <1>11, <1>12 DEF q

\* As many times the largest item are enough.
LEMMA OffsetAtMost ==
  ASSUME NEW items, Sized(items), NEW w \in Nat, \A i \in 1..Len(items) : items[i].bytes <= w
  PROVE  Offset(items) \in Nat /\ Offset(items) <= Len(items) * w
<1> DEFINE n == Len(items)
<1>1. PICK f : Offsets(f, items) /\ Offset(items) = f[n]
  BY OffsetSums
<1>2. n \in Nat
  BY DEF Sized
<1>3. /\ f \in [0..n -> Nat] /\ f[0] = 0
      /\ \A i \in 1..n : f[i] = f[i - 1] + items[i].bytes
      /\ \A i \in 1..n : items[i].bytes <= w /\ items[i].bytes \in Nat
  BY <1>1 DEF Offsets, Sized
<1> HIDE DEF n
<1> DEFINE T == {i \in 0..n : f[i] <= i * w}
<1>4. 0 \in T
  BY <1>2, <1>3
<1>5. ASSUME NEW i \in 1..n, i - 1 \in T PROVE i \in T
  <2>1. f[i - 1] <= (i - 1) * w /\ f[i] = f[i - 1] + items[i].bytes /\ items[i].bytes <= w
    BY <1>3, <1>5
  <2>2. i \in Nat /\ f[i - 1] \in Nat /\ f[i] \in Nat /\ items[i].bytes \in Nat
    BY <1>2, <1>3
  <2>3. (i - 1) * w + w = i * w
    BY <2>2
  <2>4. (i - 1) * w \in Int /\ i * w \in Int
    BY <2>2
  <2>5. f[i] <= i * w
    <3> DEFINE x == (i - 1) * w
               y == i * w
    <3> HIDE DEF x, y
    <3>1. f[i - 1] <= x /\ x + w = y /\ x \in Int /\ y \in Int
      BY <2>1, <2>3, <2>4 DEF x, y
    <3>2. f[i] <= y
      BY <2>1, <2>2, <3>1
    <3> QED
      BY <3>2 DEF y
  <2> QED
    BY <1>2, <2>5
<1>6. n \in T
  <2> HIDE DEF T
  <2> QED
    BY <1>2, <1>4, <1>5, Induction
<1> QED
  BY <1>1, <1>2, <1>3, <1>6 DEF n

\* What a value takes in a stream, at most
Most == [text |-> 4 + TextLength, int |-> 4, Vector3 |-> 12, BOOL |-> 1]

\* No value takes more than Most says of its type.
LEMMA BytesOfValue ==
  ASSUME NEW type \in Types, NEW v
  PROVE  /\ Write(type, v).bytes \in Nat /\ Write(type, v).bytes <= Most[type]
         /\ Most[type] \in Nat /\ Most[type] <= 12 + TextLength
<1>1. TextLength \in Nat
  BY PacketDataAssumption
<1> DEFINE t == IF v[1] = "" THEN 0 ELSE TextLength
           b == IF type # "text" THEN WriteBytes[type] ELSE 4 + t
<1>2. t \in Nat /\ t <= TextLength
  BY <1>1
<1> HIDE DEF t
<1>3. b \in Nat /\ b <= Most[type] /\ Most[type] \in Nat /\ Most[type] <= 12 + TextLength
  BY <1>1, <1>2 DEF Types, WriteBytes, Most
<1>4. Write(type, v) = [type |-> type, value |-> v, bytes |-> b]
  BY DEF Write, t
<1> HIDE DEF b
<1>5. Write(type, v).bytes = b
  BY <1>4
<1> QED
  BY <1>3, <1>5

\* A block of a message: the values of one member.
LEMMA BytesOfBlock ==
  ASSUME NEW d, NEW v, NEW b, d.type \in Types, b = Written(d, v),
         Len(b) \in Nat, DOMAIN b = 1..Len(b)
  PROVE  Sized(b) /\ Offset(b) \in Nat /\ Offset(b) <= Len(b) * Most[d.type]
<1>1. ASSUME NEW i \in 1..Len(b)
      PROVE  b[i].bytes \in Nat /\ b[i].bytes <= Most[d.type]
  <2>1. PICK x : b[i] = Write(d.type, x)
    <3>1. CASE IsList(d)
      <4>1. b = [x \in DOMAIN v |-> Write(d.type, v[x])]
        BY <3>1 DEF Written
      <4>2. b[i] = Write(d.type, v[i])
        BY <4>1
      <4> QED
        BY <4>2
    <3>2. CASE ~IsList(d)
      <4> DEFINE w == Write(d.type, v)
      <4>1. b = <<w>>
        BY <3>2 DEF Written
      <4> HIDE DEF w
      <4>2. b[i] = w
        BY <4>1
      <4> QED
        BY <4>2 DEF w
    <3> QED
      BY <3>1, <3>2
  <2> QED
    BY <2>1, BytesOfValue
<1>2. Most[d.type] \in Nat
  BY BytesOfValue
<1>3. Sized(b)
  BY <1>1 DEF Sized
<1> QED
  BY <1>1, <1>2, <1>3, OffsetAtMost

\* f[j] is the offset behind the first j members, s their values.
Grown(f, T, s) ==
  /\ f \in [0..Len(T) -> Nat] /\ f[0] = 0
  /\ \A j \in 1..Len(T) : f[j] <= f[j - 1] + Len(s[j]) * Most[T[j].type]

\* A message takes no more than its members do.
LEMMA BytesOfMessage ==
  ASSUME NEW m, NEW data, Row(Members[m], Order[m]), Len(Order[m]) = Len(Members[m]),
         Fits(Members[m], data)
  PROVE  \E f : /\ Grown(f, Members[m], Blocks(m, data))
                /\ Offset(Serialize(m, data)) = f[Len(Members[m])]
<1> DEFINE T == Members[m]
           n == Len(T)
           s == Blocks(m, data)
<1>1. PICK S : s \in Seq(Seq(S))
  BY BlocksOf
<1>2. PICK p : Together(p, S, s) /\ FlattenSeq(s) = p[Len(s)]
  BY <1>1, Flattened
<1>3. /\ n \in Nat /\ Len(s) = n
      /\ \A j \in 1..n : /\ T[j].type \in Types /\ s[j] = Written(T[j], data[T[j].name])
                         /\ Len(s[j]) \in Nat /\ DOMAIN s[j] = 1..Len(s[j])
  <2>1. n \in Nat /\ \A j \in 1..n : T[j].type \in Types
    BY DEF Row
  <2>2. /\ Len(s) = n
        /\ \A j \in 1..n : /\ s[j] = Written(T[j], data[T[j].name])
                           /\ Len(s[j]) \in Nat /\ DOMAIN s[j] = 1..Len(s[j])
                           /\ IsList(T[j]) => DOMAIN data[T[j].name] = 1..Len(s[j])
                           /\ ~IsList(T[j]) => Len(s[j]) = 1
    BY BlocksOf
  <2> QED
    BY <2>1, <2>2
<1>4. \A j \in 1..n : /\ Sized(s[j]) /\ Offset(s[j]) \in Nat
                      /\ Offset(s[j]) <= Len(s[j]) * Most[T[j].type]
  BY <1>3, BytesOfBlock
<1>5. Serialize(m, data) = p[n]
  BY <1>2, <1>3 DEF Serialize, Blocks
<1> HIDE DEF T, n, s
<1>6. /\ p[0] = <<>>
      /\ \A j \in 1..n : p[j - 1] \in Seq(S) /\ s[j] \in Seq(S) /\ p[j] = p[j - 1] \o s[j]
  <2> DEFINE V == Seq(S)
  <2>1. /\ p \in [0..n -> V] /\ s \in Seq(V) /\ p[0] = <<>>
        /\ \A j \in 1..n : p[j] = p[j - 1] \o s[j]
    BY <1>1, <1>2, <1>3 DEF Together
  <2> HIDE DEF V
  <2>2. \A j \in 1..n : p[j - 1] \in V /\ s[j] \in V
    BY <2>1, <1>3, ElementOfSeq
  <2> QED
    BY <2>1, <2>2 DEF V
<1> DEFINE K == {j \in 0..n : Sized(p[j]) /\ Offset(p[j]) \in Nat}
<1>7. Sized(<<>>) /\ Offset(<<>>) = 0
  <2>1. Sized(<<>>) /\ Len(<<>>) = 0
    BY DEF Sized
  <2>2. PICK f : Offsets(f, <<>>) /\ Offset(<<>>) = f[Len(<<>>)]
    BY <2>1, OffsetSums
  <2> QED
    BY <2>1, <2>2 DEF Offsets
<1>8. ASSUME NEW j \in 1..n, Sized(p[j - 1])
      PROVE  /\ Sized(p[j]) /\ Offset(p[j]) = Offset(p[j - 1]) + Offset(s[j])
             /\ Offset(p[j]) \in Nat
  <2> DEFINE a == p[j - 1]
             e == s[j]
             q == p[j]
  <2>1. a \in Seq(S) /\ e \in Seq(S) /\ q = a \o e /\ Sized(a) /\ Sized(e)
    BY <1>4, <1>6, <1>8
  <2> HIDE DEF a, e, q
  <2>2. Sized(q) /\ Offset(q) = Offset(a) + Offset(e) /\ Offset(a) \in Nat /\ Offset(e) \in Nat
    BY <2>1, OffsetOfBoth
  <2> QED
    BY <2>2 DEF a, e, q
<1>9. \A k \in 0..n : k \in K
  <2>1. 0 \in K
    BY <1>3, <1>6, <1>7
  <2>2. ASSUME NEW j \in 1..n, j - 1 \in K PROVE j \in K
    <3>1. j \in 0..n
      BY <1>3
    <3> QED
      BY <1>8, <2>2, <3>1
  <2>3. TAKE k \in 0..n
  <2>4. k \in Nat /\ \A j \in 1..k : j \in 1..n
    BY <1>3
  <2> HIDE DEF K
  <2> QED
    BY <2>1, <2>2, <2>4, Induction
<1> DEFINE f == [j \in 0..n |-> Offset(p[j])]
<1>10. f \in [0..n -> Nat] /\ f[0] = 0
  BY <1>3, <1>6, <1>7, <1>9
<1>11. ASSUME NEW j \in 1..n PROVE f[j] <= f[j - 1] + Len(s[j]) * Most[T[j].type]
  <2>1. j - 1 \in 0..n /\ j \in 0..n
    BY <1>3
  <2>2. Sized(p[j - 1]) /\ Offset(p[j - 1]) \in Nat
    BY <1>9, <2>1
  <2>3. Offset(p[j]) = Offset(p[j - 1]) + Offset(s[j])
    BY <1>8, <2>2
  <2> DEFINE x == Offset(p[j - 1])
             y == Offset(s[j])
             z == Len(s[j]) * Most[T[j].type]
  <2>4. f[j] = x + y /\ f[j - 1] = x
    BY <2>1, <2>3
  <2>5. x \in Nat /\ y \in Nat /\ z \in Nat /\ y <= z
    <3>1. Most[T[j].type] \in Nat
      BY <1>3, BytesOfValue
    <3> QED
      BY <1>3, <1>4, <2>2, <3>1
  <2> HIDE DEF f, x, y, z
  <2>6. f[j] <= f[j - 1] + z
    BY <2>4, <2>5
  <2> QED
    BY <2>6 DEF z
<1>12. Grown(f, T, s)
  <2> HIDE DEF f
  <2> QED
    BY <1>10, <1>11 DEF Grown, n
<1>13. Offset(Serialize(m, data)) = f[n]
  BY <1>3, <1>5
<1> QED
  BY <1>12, <1>13 DEF T, n, s

-----------------------------------------------------------------------------
(* The classes.                                                            *)

\* A reply: the arguments of WriteData are what the members stand for.
Says(m) ==
  /\ Row(Members[m], Order[m]) /\ Len(Order[m]) = Len(Members[m])
  /\ \A j \in 1..Len(Members[m]) : Members[m][j].name \notin {"playerCount", "playerNames"}
  /\ \A j \in 1..Len(Members[m]) : \E i \in DOMAIN Parameters(m) :
       /\ Parameters(m)[i] = Members[m][j].name
       /\ Arguments(m)[i] = StandsFor(m, Members[m][j].name)
  /\ \A i, j \in DOMAIN Parameters(m) : Parameters(m)[i] = Parameters(m)[j] => i = j

\* A reply of at most three values, none of them a list.
Plain(m) ==
  /\ Says(m) /\ Len(Members[m]) <= 3
  /\ \A j \in 1..Len(Members[m]) : Members[m][j].shape = "one"

\* Names of members that are a list or say how long one is
OfLists == {"roomCount", "joinedPlayerCount", "roomIds", "roomNames", "isStart",
            "joinedPlayers", "joinedPlayerReadyState", "isLeaders"}

\* A request: what is read of it is neither.
Asks(m) ==
  /\ Row(Members[m], Order[m])
  /\ \A j \in 1..Len(Order[m]) : Order[m][j] \notin OfLists

\* What a class declares, and what is read or written.
TableOf(m, T, O) == Members[m] = T /\ Order[m] = O

\* The tables of all classes are those of the parts.
LEMMA Tables ==
  /\ \A m \in DOMAIN LoginMembers : TableOf(m, LoginMembers[m], LoginOrder[m])
  /\ \A m \in DOMAIN LobbyMembers : TableOf(m, LobbyMembers[m], LobbyOrder[m])
  /\ \A m \in DOMAIN RoomMembers : TableOf(m, RoomMembers[m], RoomOrder[m])
  /\ \A m \in DOMAIN MemberMembers : TableOf(m, MemberMembers[m], MemberOrder[m])
  /\ \A m \in DOMAIN GameMembers : TableOf(m, GameMembers[m], GameOrder[m])
  /\ \A m \in DOMAIN GamePlayerMembers : TableOf(m, GamePlayerMembers[m], GamePlayerOrder[m])
  /\ \A m \in DOMAIN EnemyMembers : TableOf(m, EnemyMembers[m], EnemyOrder[m])
  /\ \A m \in DOMAIN PotionMembers : TableOf(m, PotionMembers[m], PotionOrder[m])
<1> USE DEF TableOf, Members, Order, Classes, LoginMembers, LobbyMembers, RoomMembers,
            MemberMembers, GameMembers, GamePlayerMembers, EnemyMembers, PotionMembers,
            LoginOrder, LobbyOrder, RoomOrder, MemberOrder, GameOrder, GamePlayerOrder,
            EnemyOrder, PotionOrder
<1>1. \A m \in DOMAIN LoginMembers : TableOf(m, LoginMembers[m], LoginOrder[m])
  BY SMTT(60)
<1>2. \A m \in DOMAIN LobbyMembers : TableOf(m, LobbyMembers[m], LobbyOrder[m])
  BY SMTT(60)
<1>3. \A m \in DOMAIN RoomMembers : TableOf(m, RoomMembers[m], RoomOrder[m])
  BY SMTT(60)
<1>4. \A m \in DOMAIN MemberMembers : TableOf(m, MemberMembers[m], MemberOrder[m])
  BY SMTT(60)
<1>5. \A m \in DOMAIN GameMembers : TableOf(m, GameMembers[m], GameOrder[m])
  BY SMTT(60)
<1>6. \A m \in DOMAIN GamePlayerMembers : TableOf(m, GamePlayerMembers[m], GamePlayerOrder[m])
  BY SMTT(60)
<1>7. \A m \in DOMAIN EnemyMembers : TableOf(m, EnemyMembers[m], EnemyOrder[m])
  BY SMTT(60)
<1>8. \A m \in DOMAIN PotionMembers : TableOf(m, PotionMembers[m], PotionOrder[m])
  BY SMTT(60)
<1> HIDE DEF TableOf, Members, Order, Classes, LoginMembers, LobbyMembers, RoomMembers,
             MemberMembers, GameMembers, GamePlayerMembers, EnemyMembers, PotionMembers,
             LoginOrder, LobbyOrder, RoomOrder, MemberOrder, GameOrder, GamePlayerOrder,
             EnemyOrder, PotionOrder
<1> QED
  BY <1>1, <1>2, <1>3, <1>4, <1>5, <1>6, <1>7, <1>8

\* The classes of the accounts: requests, and replies without lists.
LEMMA LoginClasses ==
  /\ \A m \in {"CS_RegisterUser", "CS_Login"} : Asks(m)
  /\ \A m \in {"SC_RegisterUser", "SC_Login"} : Plain(m)
<1> USE DEF Row, Types, Member, Text, INT, Vector3, BOOL, ListOf, Texts,
            Says, Plain, Asks, OfLists,
            StandsFor, Arguments, Parameters, LoginArguments, LobbyArguments, RoomArguments,
            GameArguments, LoginOrder
<1>1. Asks("CS_RegisterUser")
  <2>1. TableOf("CS_RegisterUser", LoginMembers["CS_RegisterUser"],
                LoginOrder["CS_RegisterUser"])
    BY Tables DEF LoginMembers
  <2> QED
    BY <2>1, SMTT(60) DEF TableOf, LoginMembers
<1>2. Plain("SC_RegisterUser")
  <2>1. TableOf("SC_RegisterUser", LoginMembers["SC_RegisterUser"],
                LoginOrder["SC_RegisterUser"])
    BY Tables DEF LoginMembers
  <2> QED
    BY <2>1, SMTT(60) DEF TableOf, LoginMembers
<1>3. Asks("CS_Login")
  <2>1. TableOf("CS_Login", LoginMembers["CS_Login"], LoginOrder["CS_Login"])
    BY Tables DEF LoginMembers
  <2> QED
    BY <2>1, SMTT(60) DEF TableOf, LoginMembers
<1>4. Plain("SC_Login")
  <2>1. TableOf("SC_Login", LoginMembers["SC_Login"], LoginOrder["SC_Login"])
    BY Tables DEF LoginMembers
  <2> QED
    BY <2>1, SMTT(60) DEF TableOf, LoginMembers
<1> HIDE DEF Says, Plain, Asks
<1> QED
  BY <1>1, <1>2, <1>3, <1>4

\* The classes of the lobby: requests, and replies without lists.
LEMMA LobbyClasses ==
  /\ \A m \in {"CS_EnterLobby", "CS_LeaveLobby", "CS_LobbyChatting"} : Asks(m)
  /\ \A m \in {"SC_LeaveLobby", "SC_EnterLobbyOtherPlayer", "SC_LeaveLobbyOtherPlayer",
        "SC_LobbyChatting"} : Plain(m)
<1> USE DEF Row, Types, Member, Text, INT, Vector3, BOOL, ListOf, Texts,
            Says, Plain, Asks, OfLists,
            StandsFor, Arguments, Parameters, LoginArguments, LobbyArguments, RoomArguments,
            GameArguments, LobbyOrder, LobbyTable
<1>1. Asks("CS_EnterLobby")
  <2>1. TableOf("CS_EnterLobby", LobbyMembers["CS_EnterLobby"],
                LobbyOrder["CS_EnterLobby"])
    BY Tables DEF LobbyMembers
  <2> QED
    BY <2>1, SMTT(60) DEF TableOf, LobbyMembers
<1>2. Asks("CS_LeaveLobby")
  <2>1. TableOf("CS_LeaveLobby", LobbyMembers["CS_LeaveLobby"],
                LobbyOrder["CS_LeaveLobby"])
    BY Tables DEF LobbyMembers
  <2> QED
    BY <2>1, SMTT(60) DEF TableOf, LobbyMembers
<1>3. Plain("SC_LeaveLobby")
  <2>1. TableOf("SC_LeaveLobby", LobbyMembers["SC_LeaveLobby"],
                LobbyOrder["SC_LeaveLobby"])
    BY Tables DEF LobbyMembers
  <2> QED
    BY <2>1, SMTT(60) DEF TableOf, LobbyMembers
<1>4. Plain("SC_EnterLobbyOtherPlayer")
  <2>1. TableOf("SC_EnterLobbyOtherPlayer", LobbyMembers["SC_EnterLobbyOtherPlayer"],
                LobbyOrder["SC_EnterLobbyOtherPlayer"])
    BY Tables DEF LobbyMembers
  <2> QED
    BY <2>1, SMTT(60) DEF TableOf, LobbyMembers
<1>5. Plain("SC_LeaveLobbyOtherPlayer")
  <2>1. TableOf("SC_LeaveLobbyOtherPlayer", LobbyMembers["SC_LeaveLobbyOtherPlayer"],
                LobbyOrder["SC_LeaveLobbyOtherPlayer"])
    BY Tables DEF LobbyMembers
  <2> QED
    BY <2>1, SMTT(60) DEF TableOf, LobbyMembers
<1>6. Asks("CS_LobbyChatting")
  <2>1. TableOf("CS_LobbyChatting", LobbyMembers["CS_LobbyChatting"],
                LobbyOrder["CS_LobbyChatting"])
    BY Tables DEF LobbyMembers
  <2> QED
    BY <2>1, SMTT(60) DEF TableOf, LobbyMembers
<1>7. Plain("SC_LobbyChatting")
  <2>1. TableOf("SC_LobbyChatting", LobbyMembers["SC_LobbyChatting"],
                LobbyOrder["SC_LobbyChatting"])
    BY Tables DEF LobbyMembers
  <2> QED
    BY <2>1, SMTT(60) DEF TableOf, LobbyMembers
<1> HIDE DEF Says, Plain, Asks
<1> QED
  BY <1>1, <1>2, <1>3, <1>4, <1>5, <1>6, <1>7

\* The classes of rooms that come and go: requests, and replies without lists.
LEMMA RoomClasses ==
  /\ \A m \in {"CS_CreateRoom", "CS_LeaveRoom", "CS_JoinRoom"} : Asks(m)
  /\ \A m \in {"SC_CreateRoom", "SC_CreateRoomOtherPlayer"} : Plain(m)
  /\ \A m \in {"SC_LeaveRoomOtherPlayer", "SC_JoinRoom"} : Says(m)
<1> USE DEF Row, Types, Member, Text, INT, Vector3, BOOL, ListOf, Texts,
            Says, Plain, Asks, OfLists,
            StandsFor, Arguments, Parameters, LoginArguments, LobbyArguments, RoomArguments,
            GameArguments, RoomOrder, LobbyTable
<1>1. Asks("CS_CreateRoom")
  <2>1. TableOf("CS_CreateRoom", RoomMembers["CS_CreateRoom"],
                RoomOrder["CS_CreateRoom"])
    BY Tables DEF RoomMembers
  <2> QED
    BY <2>1, SMTT(60) DEF TableOf, RoomMembers
<1>2. Plain("SC_CreateRoom")
  <2>1. TableOf("SC_CreateRoom", RoomMembers["SC_CreateRoom"],
                RoomOrder["SC_CreateRoom"])
    BY Tables DEF RoomMembers
  <2> QED
    BY <2>1, SMTT(60) DEF TableOf, RoomMembers
<1>3. Plain("SC_CreateRoomOtherPlayer")
  <2>1. TableOf("SC_CreateRoomOtherPlayer", RoomMembers["SC_CreateRoomOtherPlayer"],
                RoomOrder["SC_CreateRoomOtherPlayer"])
    BY Tables DEF RoomMembers
  <2> QED
    BY <2>1, SMTT(60) DEF TableOf, RoomMembers
<1>4. Asks("CS_LeaveRoom")
  <2>1. TableOf("CS_LeaveRoom", RoomMembers["CS_LeaveRoom"], RoomOrder["CS_LeaveRoom"])
    BY Tables DEF RoomMembers
  <2> QED
    BY <2>1, SMTT(60) DEF TableOf, RoomMembers
<1>5. Says("SC_LeaveRoomOtherPlayer")
  <2>1. TableOf("SC_LeaveRoomOtherPlayer", RoomMembers["SC_LeaveRoomOtherPlayer"],
                RoomOrder["SC_LeaveRoomOtherPlayer"])
    BY Tables DEF RoomMembers
  <2> QED
    BY <2>1, SMTT(60) DEF TableOf, RoomMembers
<1>6. Asks("CS_JoinRoom")
  <2>1. TableOf("CS_JoinRoom", RoomMembers["CS_JoinRoom"], RoomOrder["CS_JoinRoom"])
    BY Tables DEF RoomMembers
  <2> QED
    BY <2>1, SMTT(60) DEF TableOf, RoomMembers
<1>7. Says("SC_JoinRoom")
  <2>1. TableOf("SC_JoinRoom", RoomMembers["SC_JoinRoom"], RoomOrder["SC_JoinRoom"])
    BY Tables DEF RoomMembers
  <2> QED
    BY <2>1, SMTT(60) DEF TableOf, RoomMembers
<1> HIDE DEF Says, Plain, Asks
<1> QED
  BY <1>1, <1>2, <1>3, <1>4, <1>5, <1>6, <1>7

\* The classes of rooms: their members: requests, and replies without lists.
LEMMA MemberClasses ==
  /\ \A m \in {"CS_RoomChatting", "CS_Ready", "CS_RoomStart"} : Asks(m)
  /\ \A m \in {"SC_JoinRoomOtherPlayer", "SC_ChangeRoomLeader", "SC_RemoveRoom",
        "SC_RoomChatting", "SC_Ready", "SC_ReadyOtherPlayer", "SC_RoomStart"} : Plain(m)
<1> USE DEF Row, Types, Member, Text, INT, Vector3, BOOL, ListOf, Texts,
            Says, Plain, Asks, OfLists,
            StandsFor, Arguments, Parameters, LoginArguments, LobbyArguments, RoomArguments,
            GameArguments, MemberOrder
<1>1. Plain("SC_JoinRoomOtherPlayer")
  <2>1. TableOf("SC_JoinRoomOtherPlayer", MemberMembers["SC_JoinRoomOtherPlayer"],
                MemberOrder["SC_JoinRoomOtherPlayer"])
    BY Tables DEF MemberMembers
  <2> QED
    BY <2>1, SMTT(60) DEF TableOf, MemberMembers
<1>2. Plain("SC_ChangeRoomLeader")
  <2>1. TableOf("SC_ChangeRoomLeader", MemberMembers["SC_ChangeRoomLeader"],
                MemberOrder["SC_ChangeRoomLeader"])
    BY Tables DEF MemberMembers
  <2> QED
    BY <2>1, SMTT(60) DEF TableOf, MemberMembers
<1>3. Plain("SC_RemoveRoom")
  <2>1. TableOf("SC_RemoveRoom", MemberMembers["SC_RemoveRoom"],
                MemberOrder["SC_RemoveRoom"])
    BY Tables DEF MemberMembers
  <2> QED
    BY <2>1, SMTT(60) DEF TableOf, MemberMembers
<1>4. Asks("CS_RoomChatting")
  <2>1. TableOf("CS_RoomChatting", MemberMembers["CS_RoomChatting"],
                MemberOrder["CS_RoomChatting"])
    BY Tables DEF MemberMembers
  <2> QED
    BY <2>1, SMTT(60) DEF TableOf, MemberMembers
<1>5. Plain("SC_RoomChatting")
  <2>1. TableOf("SC_RoomChatting", MemberMembers["SC_RoomChatting"],
                MemberOrder["SC_RoomChatting"])
    BY Tables DEF MemberMembers
  <2> QED
    BY <2>1, SMTT(60) DEF TableOf, MemberMembers
<1>6. Asks("CS_Ready")
  <2>1. TableOf("CS_Ready", MemberMembers["CS_Ready"], MemberOrder["CS_Ready"])
    BY Tables DEF MemberMembers
  <2> QED
    BY <2>1, SMTT(60) DEF TableOf, MemberMembers
<1>7. Plain("SC_Ready")
  <2>1. TableOf("SC_Ready", MemberMembers["SC_Ready"], MemberOrder["SC_Ready"])
    BY Tables DEF MemberMembers
  <2> QED
    BY <2>1, SMTT(60) DEF TableOf, MemberMembers
<1>8. Plain("SC_ReadyOtherPlayer")
  <2>1. TableOf("SC_ReadyOtherPlayer", MemberMembers["SC_ReadyOtherPlayer"],
                MemberOrder["SC_ReadyOtherPlayer"])
    BY Tables DEF MemberMembers
  <2> QED
    BY <2>1, SMTT(60) DEF TableOf, MemberMembers
<1>9. Asks("CS_RoomStart")
  <2>1. TableOf("CS_RoomStart", MemberMembers["CS_RoomStart"],
                MemberOrder["CS_RoomStart"])
    BY Tables DEF MemberMembers
  <2> QED
    BY <2>1, SMTT(60) DEF TableOf, MemberMembers
<1>10. Plain("SC_RoomStart")
  <2>1. TableOf("SC_RoomStart", MemberMembers["SC_RoomStart"],
                MemberOrder["SC_RoomStart"])
    BY Tables DEF MemberMembers
  <2> QED
    BY <2>1, SMTT(60) DEF TableOf, MemberMembers
<1> HIDE DEF Says, Plain, Asks
<1> QED
  BY <1>1, <1>2, <1>3, <1>4, <1>5, <1>6, <1>7, <1>8, <1>9, <1>10

\* The classes of games and the heartbeat: requests, and replies without lists.
LEMMA GameClasses ==
  /\ \A m \in {"CS_HeartBeat", "CS_GameStart", "CS_GameEnd"} : Asks(m)
  /\ \A m \in {"SC_HeartBeat", "SC_GameStart", "SC_OtherGameStart", "SC_OtherGameEnd"} : Plain(m)
  /\ \A m \in {"SC_GameEnd"} : Says(m)
<1> USE DEF Row, Types, Member, Text, INT, Vector3, BOOL, ListOf, Texts,
            Says, Plain, Asks, OfLists,
            StandsFor, Arguments, Parameters, LoginArguments, LobbyArguments, RoomArguments,
            GameArguments, GameOrder
<1>1. Asks("CS_HeartBeat")
  <2>1. TableOf("CS_HeartBeat", GameMembers["CS_HeartBeat"], GameOrder["CS_HeartBeat"])
    BY Tables DEF GameMembers
  <2> QED
    BY <2>1, SMTT(60) DEF TableOf, GameMembers
<1>2. Plain("SC_HeartBeat")
  <2>1. TableOf("SC_HeartBeat", GameMembers["SC_HeartBeat"], GameOrder["SC_HeartBeat"])
    BY Tables DEF GameMembers
  <2> QED
    BY <2>1, SMTT(60) DEF TableOf, GameMembers
<1>3. Asks("CS_GameStart")
  <2>1. TableOf("CS_GameStart", GameMembers["CS_GameStart"], GameOrder["CS_GameStart"])
    BY Tables DEF GameMembers
  <2> QED
    BY <2>1, SMTT(60) DEF TableOf, GameMembers
<1>4. Plain("SC_GameStart")
  <2>1. TableOf("SC_GameStart", GameMembers["SC_GameStart"], GameOrder["SC_GameStart"])
    BY Tables DEF GameMembers
  <2> QED
    BY <2>1, SMTT(60) DEF TableOf, GameMembers
<1>5. Asks("CS_GameEnd")
  <2>1. TableOf("CS_GameEnd", GameMembers["CS_GameEnd"], GameOrder["CS_GameEnd"])
    BY Tables DEF GameMembers
  <2> QED
    BY <2>1, SMTT(60) DEF TableOf, GameMembers
<1>6. Says("SC_GameEnd")
  <2>1. TableOf("SC_GameEnd", GameMembers["SC_GameEnd"], GameOrder["SC_GameEnd"])
    BY Tables DEF GameMembers
  <2> QED
    BY <2>1, SMTT(60) DEF TableOf, GameMembers
<1>7. Plain("SC_OtherGameStart")
  <2>1. TableOf("SC_OtherGameStart", GameMembers["SC_OtherGameStart"],
                GameOrder["SC_OtherGameStart"])
    BY Tables DEF GameMembers
  <2> QED
    BY <2>1, SMTT(60) DEF TableOf, GameMembers
<1>8. Plain("SC_OtherGameEnd")
  <2>1. TableOf("SC_OtherGameEnd", GameMembers["SC_OtherGameEnd"],
                GameOrder["SC_OtherGameEnd"])
    BY Tables DEF GameMembers
  <2> QED
    BY <2>1, SMTT(60) DEF TableOf, GameMembers
<1> HIDE DEF Says, Plain, Asks
<1> QED
  BY <1>1, <1>2, <1>3, <1>4, <1>5, <1>6, <1>7, <1>8

\* The classes of the players of a game: requests, and replies without lists.
LEMMA GamePlayerClasses ==
  /\ \A m \in {"CS_GamePlayerMove", "CS_GamePlayerAttack", "CS_GamePlayerDamaged",
        "CS_GamePlayerDie"} : Asks(m)
  /\ \A m \in {"SH_GamePlayerMove", "SC_GamePlayerMove", "SH_GamePlayerAttack",
        "SC_GamePlayerAttack", "SC_GamePlayerDamaged", "SC_GamePlayerDie"} : Plain(m)
<1> USE DEF Row, Types, Member, Text, INT, Vector3, BOOL, ListOf, Texts,
            Says, Plain, Asks, OfLists,
            StandsFor, Arguments, Parameters, LoginArguments, LobbyArguments, RoomArguments,
            GameArguments, GamePlayerOrder
<1>1. Asks("CS_GamePlayerMove")
  <2>1. TableOf("CS_GamePlayerMove", GamePlayerMembers["CS_GamePlayerMove"],
                GamePlayerOrder["CS_GamePlayerMove"])
    BY Tables DEF GamePlayerMembers
  <2> QED
    BY <2>1, SMTT(60) DEF TableOf, GamePlayerMembers
<1>2. Plain("SH_GamePlayerMove")
  <2>1. TableOf("SH_GamePlayerMove", GamePlayerMembers["SH_GamePlayerMove"],
                GamePlayerOrder["SH_GamePlayerMove"])
    BY Tables DEF GamePlayerMembers
  <2> QED
    BY <2>1, SMTT(60) DEF TableOf, GamePlayerMembers
<1>3. Plain("SC_GamePlayerMove")
  <2>1. TableOf("SC_GamePlayerMove", GamePlayerMembers["SC_GamePlayerMove"],
                GamePlayerOrder["SC_GamePlayerMove"])
    BY Tables DEF GamePlayerMembers
  <2> QED
    BY <2>1, SMTT(60) DEF TableOf, GamePlayerMembers
<1>4. Asks("CS_GamePlayerAttack")
  <2>1. TableOf("CS_GamePlayerAttack", GamePlayerMembers["CS_GamePlayerAttack"],
                GamePlayerOrder["CS_GamePlayerAttack"])
    BY Tables DEF GamePlayerMembers
  <2> QED
    BY <2>1, SMTT(60) DEF TableOf, GamePlayerMembers
<1>5. Plain("SH_GamePlayerAttack")
  <2>1. TableOf("SH_GamePlayerAttack", GamePlayerMembers["SH_GamePlayerAttack"],
                GamePlayerOrder["SH_GamePlayerAttack"])
    BY Tables DEF GamePlayerMembers
  <2> QED
    BY <2>1, SMTT(60) DEF TableOf, GamePlayerMembers
<1>6. Plain("SC_GamePlayerAttack")
  <2>1. TableOf("SC_GamePlayerAttack", GamePlayerMembers["SC_GamePlayerAttack"],
                GamePlayerOrder["SC_GamePlayerAttack"])
    BY Tables DEF GamePlayerMembers
  <2> QED
    BY <2>1, SMTT(60) DEF TableOf, GamePlayerMembers
<1>7. Asks("CS_GamePlayerDamaged")
  <2>1. TableOf("CS_GamePlayerDamaged", GamePlayerMembers["CS_GamePlayerDamaged"],
                GamePlayerOrder["CS_GamePlayerDamaged"])
    BY Tables DEF GamePlayerMembers
  <2> QED
    BY <2>1, SMTT(60) DEF TableOf, GamePlayerMembers
<1>8. Plain("SC_GamePlayerDamaged")
  <2>1. TableOf("SC_GamePlayerDamaged", GamePlayerMembers["SC_GamePlayerDamaged"],
                GamePlayerOrder["SC_GamePlayerDamaged"])
    BY Tables DEF GamePlayerMembers
  <2> QED
    BY <2>1, SMTT(60) DEF TableOf, GamePlayerMembers
<1>9. Asks("CS_GamePlayerDie")
  <2>1. TableOf("CS_GamePlayerDie", GamePlayerMembers["CS_GamePlayerDie"],
                GamePlayerOrder["CS_GamePlayerDie"])
    BY Tables DEF GamePlayerMembers
  <2> QED
    BY <2>1, SMTT(60) DEF TableOf, GamePlayerMembers
<1>10. Plain("SC_GamePlayerDie")
  <2>1. TableOf("SC_GamePlayerDie", GamePlayerMembers["SC_GamePlayerDie"],
                GamePlayerOrder["SC_GamePlayerDie"])
    BY Tables DEF GamePlayerMembers
  <2> QED
    BY <2>1, SMTT(60) DEF TableOf, GamePlayerMembers
<1> HIDE DEF Says, Plain, Asks
<1> QED
  BY <1>1, <1>2, <1>3, <1>4, <1>5, <1>6, <1>7, <1>8, <1>9, <1>10

\* The classes of enemies: requests, and replies without lists.
LEMMA EnemyClasses ==
  /\ \A m \in {"CS_EnemySpawn", "CS_EnemyMove", "CS_EnemyDamaged", "CS_EnemyAttack",
        "CS_EnemyDie"} : Asks(m)
  /\ \A m \in {"SC_EnemySpawn", "SC_EnemyMove", "SC_EnemyDamaged", "SC_EnemyAttack",
        "SC_EnemyDie"} : Plain(m)
<1> USE DEF Row, Types, Member, Text, INT, Vector3, BOOL, ListOf, Texts,
            Says, Plain, Asks, OfLists,
            StandsFor, Arguments, Parameters, LoginArguments, LobbyArguments, RoomArguments,
            GameArguments, EnemyOrder, EnemyRequest
<1>1. Asks("CS_EnemySpawn")
  <2>1. TableOf("CS_EnemySpawn", EnemyMembers["CS_EnemySpawn"],
                EnemyOrder["CS_EnemySpawn"])
    BY Tables DEF EnemyMembers
  <2> QED
    BY <2>1, SMTT(60) DEF TableOf, EnemyMembers
<1>2. Plain("SC_EnemySpawn")
  <2>1. TableOf("SC_EnemySpawn", EnemyMembers["SC_EnemySpawn"],
                EnemyOrder["SC_EnemySpawn"])
    BY Tables DEF EnemyMembers
  <2> QED
    BY <2>1, SMTT(60) DEF TableOf, EnemyMembers
<1>3. Asks("CS_EnemyMove")
  <2>1. TableOf("CS_EnemyMove", EnemyMembers["CS_EnemyMove"],
                EnemyOrder["CS_EnemyMove"])
    BY Tables DEF EnemyMembers
  <2> QED
    BY <2>1, SMTT(60) DEF TableOf, EnemyMembers
<1>4. Plain("SC_EnemyMove")
  <2>1. TableOf("SC_EnemyMove", EnemyMembers["SC_EnemyMove"],
                EnemyOrder["SC_EnemyMove"])
    BY Tables DEF EnemyMembers
  <2> QED
    BY <2>1, SMTT(60) DEF TableOf, EnemyMembers
<1>5. Asks("CS_EnemyDamaged")
  <2>1. TableOf("CS_EnemyDamaged", EnemyMembers["CS_EnemyDamaged"],
                EnemyOrder["CS_EnemyDamaged"])
    BY Tables DEF EnemyMembers
  <2> QED
    BY <2>1, SMTT(60) DEF TableOf, EnemyMembers
<1>6. Plain("SC_EnemyDamaged")
  <2>1. TableOf("SC_EnemyDamaged", EnemyMembers["SC_EnemyDamaged"],
                EnemyOrder["SC_EnemyDamaged"])
    BY Tables DEF EnemyMembers
  <2> QED
    BY <2>1, SMTT(60) DEF TableOf, EnemyMembers
<1>7. Asks("CS_EnemyAttack")
  <2>1. TableOf("CS_EnemyAttack", EnemyMembers["CS_EnemyAttack"],
                EnemyOrder["CS_EnemyAttack"])
    BY Tables DEF EnemyMembers
  <2> QED
    BY <2>1, SMTT(60) DEF TableOf, EnemyMembers
<1>8. Plain("SC_EnemyAttack")
  <2>1. TableOf("SC_EnemyAttack", EnemyMembers["SC_EnemyAttack"],
                EnemyOrder["SC_EnemyAttack"])
    BY Tables DEF EnemyMembers
  <2> QED
    BY <2>1, SMTT(60) DEF TableOf, EnemyMembers
<1>9. Asks("CS_EnemyDie")
  <2>1. TableOf("CS_EnemyDie", EnemyMembers["CS_EnemyDie"], EnemyOrder["CS_EnemyDie"])
    BY Tables DEF EnemyMembers
  <2> QED
    BY <2>1, SMTT(60) DEF TableOf, EnemyMembers
<1>10. Plain("SC_EnemyDie")
  <2>1. TableOf("SC_EnemyDie", EnemyMembers["SC_EnemyDie"], EnemyOrder["SC_EnemyDie"])
    BY Tables DEF EnemyMembers
  <2> QED
    BY <2>1, SMTT(60) DEF TableOf, EnemyMembers
<1> HIDE DEF Says, Plain, Asks
<1> QED
  BY <1>1, <1>2, <1>3, <1>4, <1>5, <1>6, <1>7, <1>8, <1>9, <1>10

\* The classes of potions: requests, and replies without lists.
LEMMA PotionClasses ==
  /\ \A m \in {"CS_PotionSpawn", "CS_PotionPickup"} : Asks(m)
  /\ \A m \in {"SC_PotionSpawn", "SC_PotionPickup"} : Plain(m)
<1> USE DEF Row, Types, Member, Text, INT, Vector3, BOOL, ListOf, Texts,
            Says, Plain, Asks, OfLists,
            StandsFor, Arguments, Parameters, LoginArguments, LobbyArguments, RoomArguments,
            GameArguments, PotionOrder
<1>1. Asks("CS_PotionSpawn")
  <2>1. TableOf("CS_PotionSpawn", PotionMembers["CS_PotionSpawn"],
                PotionOrder["CS_PotionSpawn"])
    BY Tables DEF PotionMembers
  <2> QED
    BY <2>1, SMTT(60) DEF TableOf, PotionMembers
<1>2. Plain("SC_PotionSpawn")
  <2>1. TableOf("SC_PotionSpawn", PotionMembers["SC_PotionSpawn"],
                PotionOrder["SC_PotionSpawn"])
    BY Tables DEF PotionMembers
  <2> QED
    BY <2>1, SMTT(60) DEF TableOf, PotionMembers
<1>3. Asks("CS_PotionPickup")
  <2>1. TableOf("CS_PotionPickup", PotionMembers["CS_PotionPickup"],
                PotionOrder["CS_PotionPickup"])
    BY Tables DEF PotionMembers
  <2> QED
    BY <2>1, SMTT(60) DEF TableOf, PotionMembers
<1>4. Plain("SC_PotionPickup")
  <2>1. TableOf("SC_PotionPickup", PotionMembers["SC_PotionPickup"],
                PotionOrder["SC_PotionPickup"])
    BY Tables DEF PotionMembers
  <2> QED
    BY <2>1, SMTT(60) DEF TableOf, PotionMembers
<1> HIDE DEF Says, Plain, Asks
<1> QED
  BY <1>1, <1>2, <1>3, <1>4

-----------------------------------------------------------------------------
(* What is sent fits.                                                      *)

\* What replies tell of a list and of a room
RoomRows(T) ==
  /\ Len(T) = 6 /\ \A j \in 1..6 : IsList(T[j]) <=> j > 3
  /\ T[1].type = "text" /\ T[2].type = "text" /\ T[3] = INT("joinedPlayerCount")
  /\ T[4] = ListOf("joinedPlayers", "text")
  /\ T[5] = ListOf("joinedPlayerReadyState", "BOOL") /\ T[6] = ListOf("isLeaders", "BOOL")
LeaverRow(T) ==
  /\ Len(T) = 4 /\ \A j \in 1..4 : ~IsList(T[j])
  /\ T[1].type = "text" /\ T[2].type = "text" /\ T[3].type = "text" /\ T[4].type = "int"

\* The classes that have lists declare them so.
LEMMA TablesOfLists ==
  /\ \A m \in Lists : /\ Row(Members[m], Order[m]) /\ Len(Order[m]) = Len(Members[m])
                      /\ Members[m] = LobbyTable
  /\ \A m \in {"SC_JoinRoom", "SC_GameEnd"} : RoomRows(Members[m])
  /\ LeaverRow(Members["SC_LeaveRoomOtherPlayer"])
<1> USE DEF Row, Types, Member, Text, INT, BOOL, ListOf, IsList
<1>1. /\ Row(Members["SC_EnterLobby"], Order["SC_EnterLobby"])
      /\ Len(Order["SC_EnterLobby"]) = Len(Members["SC_EnterLobby"])
      /\ Members["SC_EnterLobby"] = LobbyTable
  <2>1. TableOf("SC_EnterLobby", LobbyMembers["SC_EnterLobby"],
                LobbyOrder["SC_EnterLobby"])
    BY Tables DEF LobbyMembers
  <2> QED
    BY <2>1, SMTT(60) DEF TableOf, LobbyMembers, LobbyOrder, LobbyTable
<1>2. /\ Row(Members["SC_LeaveRoom"], Order["SC_LeaveRoom"])
      /\ Len(Order["SC_LeaveRoom"]) = Len(Members["SC_LeaveRoom"])
      /\ Members["SC_LeaveRoom"] = LobbyTable
  <2>1. TableOf("SC_LeaveRoom", RoomMembers["SC_LeaveRoom"], RoomOrder["SC_LeaveRoom"])
    BY Tables DEF RoomMembers
  <2> QED
    BY <2>1, SMTT(60) DEF TableOf, RoomMembers, RoomOrder, LobbyTable
<1>3. RoomRows(Members["SC_JoinRoom"])
  <2>1. TableOf("SC_JoinRoom", RoomMembers["SC_JoinRoom"], RoomOrder["SC_JoinRoom"])
    BY Tables DEF RoomMembers
  <2> QED
    BY <2>1, SMTT(60) DEF TableOf, RoomMembers, RoomRows
<1>4. RoomRows(Members["SC_GameEnd"])
  <2>1. TableOf("SC_GameEnd", GameMembers["SC_GameEnd"], GameOrder["SC_GameEnd"])
    BY Tables DEF GameMembers
  <2> QED
    BY <2>1, SMTT(60) DEF TableOf, GameMembers, RoomRows
<1>5. LeaverRow(Members["SC_LeaveRoomOtherPlayer"])
  <2>1. TableOf("SC_LeaveRoomOtherPlayer", RoomMembers["SC_LeaveRoomOtherPlayer"],
                RoomOrder["SC_LeaveRoomOtherPlayer"])
    BY Tables DEF RoomMembers
  <2> QED
    BY <2>1, SMTT(60) DEF TableOf, RoomMembers, LeaverRow
<1> HIDE DEF Row
<1> QED
  BY <1>1, <1>2, <1>3, <1>4, <1>5 DEF Lists

\* The members at J are lists of c elements, which T[i] says.
ListsOf(T, data, i, J, c) ==
  /\ c \in Nat /\ IsCount(T[i]) /\ data[T[i].name][3] = c
  /\ \A j \in J : /\ \A k \in (i + 1)..(j - 1) : ~IsCount(T[k])
                  /\ data[T[j].name] = [x \in 1..c |-> data[T[j].name][x]]

\* A list that a number says the length of is read to its end.
LEMMA ListsFit ==
  ASSUME NEW T, NEW data, NEW i, NEW J, NEW c, ListsOf(T, data, i, J, c), NEW j \in J
  PROVE  CountedBy(T, data, i, j) /\ DOMAIN data[T[j].name] = 1..c
<1> DEFINE v == data[T[j].name]
<1>1. /\ c \in Nat /\ IsCount(T[i]) /\ data[T[i].name][3] = c
      /\ \A k \in (i + 1)..(j - 1) : ~IsCount(T[k])
      /\ v = [x \in 1..c |-> v[x]]
  BY DEF ListsOf
<1>2. CountedBy(T, data, i, j)
  BY <1>1 DEF CountedBy
<1> HIDE DEF v
<1>3. DOMAIN v = 1..c
  BY <1>1
<1> QED
  BY <1>2, <1>3 DEF v

\* The length of a list's block, and the bytes of a block
LEMMA LengthOfBlock ==
  ASSUME NEW m, NEW data, Row(Members[m], Order[m]), Len(Order[m]) = Len(Members[m]),
         Fits(Members[m], data), NEW j \in 1..Len(Members[m])
  PROVE  /\ ~IsList(Members[m][j]) => Len(Blocks(m, data)[j]) = 1
         /\ IsList(Members[m][j]) =>
              \A c \in Nat : DOMAIN data[Members[m][j].name] = 1..c => Len(Blocks(m, data)[j]) = c
<1> DEFINE b == Blocks(m, data)[j]
           d == Members[m][j]
<1>1. /\ Len(b) \in Nat /\ (~IsList(d) => Len(b) = 1)
      /\ IsList(d) => DOMAIN data[d.name] = 1..Len(b)
  <2>1. \A i \in 1..Len(Members[m]) :
          LET e == Members[m][i]  a == Blocks(m, data)[i]
          IN /\ a = Written(e, data[e.name])
             /\ Len(a) \in Nat /\ DOMAIN a = 1..Len(a)
             /\ IsList(e) => DOMAIN data[e.name] = 1..Len(a)
             /\ ~IsList(e) => Len(a) = 1
    BY BlocksOf
  <2> QED
    BY <2>1
<1>2. ASSUME NEW c \in Nat, IsList(d), DOMAIN data[d.name] = 1..c PROVE Len(b) = c
  <2>1. 1..Len(b) = 1..c /\ Len(b) \in Nat
    BY <1>1, <1>2
  <2> DEFINE l == Len(b)
  <2> HIDE DEF l
  <2>2. l = c
    BY <2>1 DEF l
  <2> QED
    BY <2>2 DEF l
<1> QED
  BY <1>1, <1>2

\* Most replies: a few members, none of them a list
LEMMA PlainFits ==
  ASSUME NEW m, Plain(m), NEW data
  PROVE  /\ Fits(Members[m], data)
         /\ Offset(Serialize(m, data)) \in Nat
         /\ Offset(Serialize(m, data)) <= MAX_PACKET_DATA_LENGTH
<1> DEFINE T == Members[m]
           n == Len(T)
           w == 12 + TextLength
           o == Offset(Serialize(m, data))
<1>1. /\ Row(T, Order[m]) /\ Len(Order[m]) = n /\ n \in Nat /\ n <= 3
      /\ \A j \in 1..n : ~IsList(T[j]) /\ T[j].type \in Types
  BY DEF Plain, Says, Row, IsList
<1>2. Fits(T, data)
  BY <1>1 DEF Fits
<1>3. PICK f : Grown(f, T, Blocks(m, data)) /\ o = f[n]
  BY <1>1, <1>2, BytesOfMessage
<1>4. \A j \in 1..n : Len(Blocks(m, data)[j]) = 1
  BY <1>1, <1>2, LengthOfBlock
<1>5. \A j \in 1..n : Most[T[j].type] \in Nat /\ Most[T[j].type] <= w
  BY <1>1, BytesOfValue
<1> HIDE DEF T, n, o
<1>6. f \in [0..n -> Nat] /\ f[0] = 0
  BY <1>3 DEF Grown, n
<1>7. ASSUME NEW j \in 1..n PROVE f[j] <= f[j - 1] + w
  <2>1. f[j] <= f[j - 1] + Len(Blocks(m, data)[j]) * Most[T[j].type]
    BY <1>3 DEF Grown, n
  <2>2. f[j] <= f[j - 1] + 1 * Most[T[j].type]
    BY <1>4, <2>1
  <2>3. f[j] \in Nat /\ f[j - 1] \in Nat
    BY <1>1, <1>6
  <2>4. w \in Nat
    BY PacketDataAssumption
  <2> HIDE DEF w
  <2> QED
    BY <1>5, <2>2, <2>3, <2>4
<1>8. f[n] \in Nat /\ f[n] <= 3 * w
  <2>1. TextLength \in Nat /\ w \in Nat
    BY PacketDataAssumption
  <2> HIDE DEF w
  <2>2. n = 0 \/ n = 1 \/ n = 2 \/ n = 3
    BY <1>1
  <2>3. /\ n >= 1 => f[1] <= f[1 - 1] + w /\ f[1] \in Nat
        /\ n >= 2 => f[2] <= f[2 - 1] + w /\ f[2] \in Nat
        /\ n >= 3 => f[3] <= f[3 - 1] + w /\ f[3] \in Nat
    BY <1>1, <1>6, <1>7
  <2>4. 1 - 1 = 0 /\ 2 - 1 = 1 /\ 3 - 1 = 2
    OBVIOUS
  <2> QED
    BY <1>6, <2>1, <2>2, <2>3, <2>4
<1>9. 3 * w <= MAX_PACKET_DATA_LENGTH /\ w \in Nat /\ MAX_PACKET_DATA_LENGTH \in Nat
  BY PacketDataAssumption
<1> QED
  BY <1>2, <1>3, <1>8, <1>9 DEF o, n, T

\* More rows take more room.
LEMMA Times ==
  ASSUME NEW a \in Nat, NEW b \in Nat, NEW k \in Nat, a <= b
  PROVE  a * k <= b * k /\ a * k \in Nat /\ b * k \in Nat
<1>1. b * k = a * k + (b - a) * k /\ (b - a) * k \in Nat /\ a * k \in Nat /\ b * k \in Nat
  OBVIOUS
<1> DEFINE x == a * k
           y == b * k
           z == (b - a) * k
<1>2. x \in Nat /\ y \in Nat /\ z \in Nat /\ y = x + z
  BY <1>1
<1> HIDE DEF x, y, z
<1>3. x <= y
  BY <1>2
<1> QED
  BY <1>2, <1>3 DEF x, y

\* What a value of each type takes at most, and the numbers in the assumption
LEMMA Bounds ==
  /\ Most["text"] = 4 + TextLength /\ Most["int"] = 4 /\ Most["BOOL"] = 1
  /\ TextLength \in Nat /\ MaxRows \in Nat /\ MAX_PACKET_DATA_LENGTH \in Nat
BY PacketDataAssumption DEF Most

\* The reply to those a leaver leaves behind
LEMMA LeaverFits ==
  ASSUME NEW m, Row(Members[m], Order[m]), Len(Order[m]) = Len(Members[m]),
         LeaverRow(Members[m]), NEW data
  PROVE  /\ Fits(Members[m], data)
         /\ Offset(Serialize(m, data)) \in Nat
         /\ Offset(Serialize(m, data)) <= MAX_PACKET_DATA_LENGTH
<1> DEFINE T == Members[m]
           s == Blocks(m, data)
           o == Offset(Serialize(m, data))
           t == 4 + TextLength
<1>1. Fits(T, data)
  BY DEF Fits, LeaverRow
<1>2. PICK f : Grown(f, T, s) /\ o = f[4]
  BY <1>1, BytesOfMessage DEF LeaverRow
<1>3. \A j \in 1..4 : Len(s[j]) = 1
  BY <1>1, LengthOfBlock DEF LeaverRow
<1>4. /\ f \in [0..4 -> Nat] /\ f[0] = 0
      /\ \A j \in 1..4 : f[j] <= f[j - 1] + 1 * Most[T[j].type]
  BY <1>2, <1>3 DEF Grown, LeaverRow
<1>5. t \in Nat /\ Most["text"] = t /\ Most["int"] = 4
  BY Bounds
<1>6. 3 * t + 24 <= MAX_PACKET_DATA_LENGTH /\ MAX_PACKET_DATA_LENGTH \in Nat
  BY PacketDataAssumption
<1> HIDE DEF s, o, t
<1>7. /\ f[1] <= f[1 - 1] + 1 * t /\ f[2] <= f[2 - 1] + 1 * t
      /\ f[3] <= f[3 - 1] + 1 * t /\ f[4] <= f[4 - 1] + 1 * 4
  BY <1>4, <1>5 DEF LeaverRow
<1>8. f[4] \in Nat /\ f[4] <= 3 * t + 4
  <2>1. 1 - 1 = 0 /\ 2 - 1 = 1 /\ 3 - 1 = 2 /\ 4 - 1 = 3
    OBVIOUS
  <2>2. f[1] \in Nat /\ f[2] \in Nat /\ f[3] \in Nat /\ f[4] \in Nat
    BY <1>4
  <2> QED
    BY <1>4, <1>5, <1>7, <2>1, <2>2
<1> QED
  BY <1>1, <1>2, <1>5, <1>6, <1>8 DEF o

\* What the members of such a reply add up to, r being the bytes of a column of texts
RoomSteps(f, t, c, r) ==
  /\ f[1] \in Nat /\ f[2] \in Nat /\ f[3] \in Nat /\ f[4] \in Nat /\ f[5] \in Nat
  /\ f[6] \in Nat /\ f[1] <= t /\ f[2] <= f[1] + t /\ f[3] <= f[2] + 4
  /\ f[4] <= f[3] + r /\ f[5] <= f[4] + c /\ f[6] <= f[5] + c

\* Two texts, a count and three columns
LEMMA RoomSum ==
  ASSUME NEW f, NEW t \in Nat, NEW c \in Nat, NEW r \in Nat, RoomSteps(f, t, c, r)
  PROVE  f[6] \in Nat /\ f[6] <= 2 * t + 4 + (r + 2 * c)
BY DEF RoomSteps

\* The same of a lobby reply: rooms in columns, then l bytes of players
LobbySteps(f, c, r, l) ==
  /\ f[1] \in Nat /\ f[2] \in Nat /\ f[3] \in Nat /\ f[4] \in Nat /\ f[5] \in Nat
  /\ f[6] \in Nat /\ f[7] \in Nat
  /\ f[1] <= 4 /\ f[2] <= f[1] + r /\ f[3] <= f[2] + r /\ f[4] <= f[3] + 4 * c
  /\ f[5] <= f[4] + c /\ f[6] <= f[5] + 4 /\ f[7] <= f[6] + l

\* Two counts, five columns of rooms and the players
LEMMA LobbySum ==
  ASSUME NEW f, NEW c \in Nat, NEW r \in Nat, NEW l \in Nat, LobbySteps(f, c, r, l)
  PROVE  f[7] \in Nat /\ f[7] <= 8 + (2 * r + 5 * c) + l
BY DEF LobbySteps

\* A sum with a part that is not more than another
LEMMA SumAtMost ==
  ASSUME NEW e \in Int, NEW a \in Int, NEW b \in Int, NEW c \in Int, NEW u \in Int, NEW v \in Int,
         e <= a + b + u, b <= c, u <= v
  PROVE  e <= a + c + v
OBVIOUS

\* A reply that lists the members of a room
LEMMA RoomRowsFit ==
  ASSUME NEW m, Row(Members[m], Order[m]), Len(Order[m]) = Len(Members[m]),
         RoomRows(Members[m]), NEW data, NEW c, c \in 0..MaxRows,
         ListsOf(Members[m], data, 3, 4..6, c)
  PROVE  /\ Fits(Members[m], data)
         /\ Offset(Serialize(m, data)) \in Nat
         /\ Offset(Serialize(m, data)) <= MAX_PACKET_DATA_LENGTH
<1> DEFINE T == Members[m]
           s == Blocks(m, data)
           o == Offset(Serialize(m, data))
           t == 4 + TextLength
<1>1. \A j \in 4..6 : CountedBy(T, data, 3, j) /\ DOMAIN data[T[j].name] = 1..c
  BY ListsFit
<1>2. Fits(T, data)
  <2>1. \A j \in 1..6 : IsList(T[j]) => j \in 4..6 /\ 3 \in 1..(j - 1)
    BY DEF RoomRows
  <2>2. Len(T) = 6
    BY DEF RoomRows
  <2> QED
    BY <1>1, <2>1, <2>2 DEF Fits
<1>3. PICK f : Grown(f, T, s) /\ o = f[6]
  BY <1>2, BytesOfMessage DEF RoomRows
<1>4. \A j \in 1..6 : Len(s[j]) = IF j > 3 THEN c ELSE 1
  <2>1. c \in Nat /\ Len(T) = 6 /\ \A j \in 1..6 : IsList(T[j]) <=> j > 3
    BY Bounds DEF RoomRows
  <2>2. \A j \in 1..6 : /\ ~IsList(T[j]) => Len(s[j]) = 1
                        /\ IsList(T[j]) => (DOMAIN data[T[j].name] = 1..c => Len(s[j]) = c)
    BY <1>2, <2>1, LengthOfBlock
  <2>3. TAKE j \in 1..6
  <2>4. CASE j > 3
    <3>1. j \in 4..6
      BY <2>4
    <3> QED
      BY <1>1, <2>1, <2>2, <2>4, <3>1
  <2>5. CASE ~(j > 3)
    BY <2>1, <2>2, <2>5
  <2> QED
    BY <2>4, <2>5
<1>5. /\ f \in [0..6 -> Nat] /\ f[0] = 0
      /\ \A j \in 1..6 : f[j] <= f[j - 1] + Len(s[j]) * Most[T[j].type]
  BY <1>3 DEF Grown, RoomRows
<1>6. /\ T[1].type = "text" /\ T[2].type = "text" /\ T[3].type = "int" /\ T[4].type = "text"
      /\ T[5].type = "BOOL" /\ T[6].type = "BOOL"
  BY DEF RoomRows, INT, ListOf, Member
<1>7. /\ t \in Nat /\ Most["text"] = t /\ Most["int"] = 4 /\ Most["BOOL"] = 1
      /\ c \in Nat /\ c <= MaxRows /\ MaxRows \in Nat /\ t + 2 \in Nat /\ t + 2 = 6 + TextLength
  BY Bounds
<1>8. 2 * t + 4 + MaxRows * (t + 2) <= MAX_PACKET_DATA_LENGTH /\ MAX_PACKET_DATA_LENGTH \in Nat
  BY <1>7, PacketDataAssumption
<1> HIDE DEF s, o, t, T
<1>9. /\ f[1] <= f[1 - 1] + 1 * t /\ f[2] <= f[2 - 1] + 1 * t /\ f[3] <= f[3 - 1] + 1 * 4
      /\ f[4] <= f[4 - 1] + c * t /\ f[5] <= f[5 - 1] + c * 1 /\ f[6] <= f[6 - 1] + c * 1
  <2>1. /\ Len(s[1]) = 1 /\ Len(s[2]) = 1 /\ Len(s[3]) = 1
        /\ Len(s[4]) = c /\ Len(s[5]) = c /\ Len(s[6]) = c
    BY <1>4
  <2>2. /\ Most[T[1].type] = t /\ Most[T[2].type] = t /\ Most[T[3].type] = 4
        /\ Most[T[4].type] = t /\ Most[T[5].type] = 1 /\ Most[T[6].type] = 1
    BY <1>6, <1>7
  <2>3. {1, 2, 3, 4, 5, 6} \subseteq 1..6
    OBVIOUS
  <2> DEFINE g(j) == Len(s[j]) * Most[T[j].type]
  <2>4. \A j \in {1, 2, 3, 4, 5, 6} : f[j] <= f[j - 1] + g(j)
    BY <1>5, <2>3
  <2>5. /\ g(1) = 1 * t /\ g(2) = 1 * t /\ g(3) = 1 * 4
        /\ g(4) = c * t /\ g(5) = c * 1 /\ g(6) = c * 1
    BY <2>1, <2>2
  <2> HIDE DEF g
  <2> QED
    BY <2>4, <2>5
<1>10. f[6] \in Nat /\ f[6] <= 2 * t + 4 + MaxRows * (t + 2)
  <2> DEFINE r == c * t
             y == c * (t + 2)
             z == MaxRows * (t + 2)
  <2>1. r \in Nat /\ y = r + 2 * c
    BY <1>7
  <2>2. y <= z /\ y \in Nat /\ z \in Nat
    BY <1>7, Times
  <2>3. RoomSteps(f, t, c, r)
    <3>1. 1 - 1 = 0 /\ 2 - 1 = 1 /\ 3 - 1 = 2 /\ 4 - 1 = 3 /\ 5 - 1 = 4 /\ 6 - 1 = 5
      OBVIOUS
    <3>2. /\ f[1] \in Nat /\ f[2] \in Nat /\ f[3] \in Nat /\ f[4] \in Nat
          /\ f[5] \in Nat /\ f[6] \in Nat
      BY <1>5
    <3>3. /\ f[1] <= t /\ f[2] <= f[1] + t /\ f[3] <= f[2] + 4 /\ f[4] <= f[3] + r
          /\ f[5] <= f[4] + c /\ f[6] <= f[5] + c
      BY <1>5, <1>7, <1>9, <3>1
    <3> HIDE DEF r
    <3> QED
      BY <3>2, <3>3 DEF RoomSteps
  <2> HIDE DEF r, y, z
  <2>4. f[6] \in Nat /\ f[6] <= 2 * t + 4 + (r + 2 * c)
    BY <1>7, <2>1, <2>3, RoomSum
  <2>5. f[6] \in Nat /\ f[6] <= 2 * t + 4 + y
    BY <2>1, <2>4
  <2> DEFINE e == f[6]
             a == 2 * t + 4
  <2>6. e \in Int /\ a \in Int /\ y \in Int /\ z \in Int /\ e <= a + y + 0 /\ 0 <= 0 /\ 0 \in Int
    BY <1>7, <2>2, <2>5
  <2> HIDE DEF e, a
  <2>7. e <= a + z + 0
    BY <2>2, <2>6, SumAtMost
  <2>8. f[6] <= 2 * t + 4 + z
    BY <1>7, <2>2, <2>7 DEF e, a
  <2> QED
    BY <2>5, <2>8 DEF z
<1>11. 2 * t + 4 + MaxRows * (t + 2) \in Nat
  BY <1>7
<1> QED
  BY <1>2, <1>3, <1>8, <1>10, <1>11 DEF o, T

\* A reply that lists the rooms and the lobby
LEMMA LobbyTableFits ==
  ASSUME NEW m, Row(Members[m], Order[m]), Len(Order[m]) = Len(Members[m]),
         Members[m] = LobbyTable, NEW data, NEW c, c \in 0..MaxRows,
         NEW l, l \in 0..N,
         ListsOf(LobbyTable, data, 1, 2..5, c), ListsOf(LobbyTable, data, 6, 7..7, l)
  PROVE  /\ Fits(Members[m], data)
         /\ Offset(Serialize(m, data)) \in Nat
         /\ Offset(Serialize(m, data)) <= MAX_PACKET_DATA_LENGTH
<1> DEFINE T == LobbyTable
           s == Blocks(m, data)
           o == Offset(Serialize(m, data))
           t == 4 + TextLength
<1>1. /\ \A j \in 2..5 : CountedBy(T, data, 1, j) /\ DOMAIN data[T[j].name] = 1..c
      /\ \A j \in 7..7 : CountedBy(T, data, 6, j) /\ DOMAIN data[T[j].name] = 1..l
  BY ListsFit
<1>2. /\ Len(T) = 7 /\ \A j \in 1..7 : IsList(T[j]) <=> j \in 2..5 \/ j = 7
      /\ T[1].type = "int" /\ T[2].type = "text" /\ T[3].type = "text" /\ T[4].type = "int"
      /\ T[5].type = "BOOL" /\ T[6].type = "int" /\ T[7].type = "text"
  BY SMTT(60) DEF LobbyTable, INT, ListOf, Member, IsList
<1> HIDE DEF T
<1>3. Fits(T, data)
  BY <1>1, <1>2 DEF Fits
<1>4. PICK f : Grown(f, T, s) /\ o = f[7]
  BY <1>2, <1>3, BytesOfMessage DEF T
<1>5. \A j \in 1..7 : Len(s[j]) = IF j \in 2..5 THEN c ELSE IF j = 7 THEN l ELSE 1
  <2>1. c \in Nat /\ l \in Nat
    BY Bounds
  <2>2. \A j \in 1..7 : /\ ~IsList(T[j]) => Len(s[j]) = 1
                        /\ IsList(T[j]) => /\ DOMAIN data[T[j].name] = 1..c => Len(s[j]) = c
                                           /\ DOMAIN data[T[j].name] = 1..l => Len(s[j]) = l
    <3>1. T = Members[m] /\ Len(T) = 7
      BY <1>2 DEF T
    <3> QED
      BY <1>3, <2>1, <3>1, LengthOfBlock
  <2>3. TAKE j \in 1..7
  <2>4. CASE j \in 2..5
    BY <1>1, <1>2, <2>2, <2>4
  <2>5. CASE j = 7
    BY <1>1, <1>2, <2>2, <2>5
  <2>6. CASE j \notin 2..5 /\ j # 7
    BY <1>2, <2>2, <2>6
  <2> QED
    BY <2>4, <2>5, <2>6
<1>6. /\ f \in [0..7 -> Nat] /\ f[0] = 0
      /\ \A j \in 1..7 : f[j] <= f[j - 1] + Len(s[j]) * Most[T[j].type]
  BY <1>2, <1>4 DEF Grown
<1>7. /\ t \in Nat /\ Most["text"] = t /\ Most["int"] = 4 /\ Most["BOOL"] = 1
      /\ c \in Nat /\ c <= MaxRows /\ MaxRows \in Nat /\ 2 * t + 5 \in Nat
      /\ l \in Nat /\ l <= N /\ N \in Nat
  BY Bounds, Numbers
<1>8. /\ 8 + MaxRows * (2 * t + 5) + N * t <= MAX_PACKET_DATA_LENGTH
      /\ MAX_PACKET_DATA_LENGTH \in Nat
  BY PacketDataAssumption DEF N
<1> HIDE DEF s, o, t
<1>9. /\ f[1] <= f[1 - 1] + 1 * 4 /\ f[2] <= f[2 - 1] + c * t /\ f[3] <= f[3 - 1] + c * t
      /\ f[4] <= f[4 - 1] + c * 4 /\ f[5] <= f[5 - 1] + c * 1 /\ f[6] <= f[6 - 1] + 1 * 4
      /\ f[7] <= f[7 - 1] + l * t
  <2>1. /\ Len(s[1]) = 1 /\ Len(s[2]) = c /\ Len(s[3]) = c /\ Len(s[4]) = c
        /\ Len(s[5]) = c /\ Len(s[6]) = 1 /\ Len(s[7]) = l
    BY <1>5
  <2>2. /\ Most[T[1].type] = 4 /\ Most[T[2].type] = t /\ Most[T[3].type] = t
        /\ Most[T[4].type] = 4 /\ Most[T[5].type] = 1 /\ Most[T[6].type] = 4
        /\ Most[T[7].type] = t
    BY <1>2, <1>7
  <2>3. {1, 2, 3, 4, 5, 6, 7} \subseteq 1..7
    OBVIOUS
  <2> DEFINE g(j) == Len(s[j]) * Most[T[j].type]
  <2>4. \A j \in {1, 2, 3, 4, 5, 6, 7} : f[j] <= f[j - 1] + g(j)
    BY <1>6, <2>3
  <2>5. /\ g(1) = 1 * 4 /\ g(2) = c * t /\ g(3) = c * t /\ g(4) = c * 4
        /\ g(5) = c * 1 /\ g(6) = 1 * 4 /\ g(7) = l * t
    BY <2>1, <2>2
  <2> HIDE DEF g
  <2> QED
    BY <2>4, <2>5
<1>10. f[7] \in Nat /\ f[7] <= 8 + MaxRows * (2 * t + 5) + N * t
  <2> DEFINE r == c * t
             y == c * (2 * t + 5)
             z == MaxRows * (2 * t + 5)
             u == l * t
             v == N * t
  <2>1. r \in Nat /\ y = 2 * r + 5 * c
    BY <1>7
  <2>2. y <= z /\ y \in Nat /\ z \in Nat
    BY <1>7, Times
  <2>3. u <= v /\ u \in Nat /\ v \in Nat
    BY <1>7, Times
  <2>4. LobbySteps(f, c, r, u)
    <3>1. /\ 1 - 1 = 0 /\ 2 - 1 = 1 /\ 3 - 1 = 2 /\ 4 - 1 = 3 /\ 5 - 1 = 4 /\ 6 - 1 = 5
          /\ 7 - 1 = 6
      OBVIOUS
    <3>2. /\ f[1] \in Nat /\ f[2] \in Nat /\ f[3] \in Nat /\ f[4] \in Nat
          /\ f[5] \in Nat /\ f[6] \in Nat /\ f[7] \in Nat
      BY <1>6
    <3>3. /\ f[1] <= 4 /\ f[2] <= f[1] + r /\ f[3] <= f[2] + r /\ f[4] <= f[3] + 4 * c
          /\ f[5] <= f[4] + c /\ f[6] <= f[5] + 4 /\ f[7] <= f[6] + u
      BY <1>6, <1>7, <1>9, <3>1
    <3> HIDE DEF r, u
    <3> QED
      BY <3>2, <3>3 DEF LobbySteps
  <2> HIDE DEF r, y, z, u, v
  <2>5. f[7] \in Nat /\ f[7] <= 8 + (2 * r + 5 * c) + u
    BY <1>7, <2>1, <2>3, <2>4, LobbySum
  <2>6. f[7] <= 8 + y + u
    BY <2>1, <2>5
  <2>7. f[7] <= 8 + z + v
    <3>1. {f[7], 8, y, z, u, v} \subseteq Int
      BY <2>2, <2>3, <2>5
    <3> DEFINE e == f[7]
    <3>2. e <= 8 + y + u /\ e \in Int
      BY <2>6, <3>1
    <3> HIDE DEF e
    <3>3. e <= 8 + z + v
      BY <2>2, <2>3, <3>1, <3>2, SumAtMost
    <3> QED
      BY <3>3 DEF e
  <2> QED
    BY <2>5, <2>7 DEF z, v
<1>11. 8 + MaxRows * (2 * t + 5) + N * t \in Nat
  BY <1>7
<1> QED
  BY <1>3, <1>4, <1>8, <1>10, <1>11 DEF o, T

-----------------------------------------------------------------------------
(* What is meant.                                                          *)

\* What the server sends
Answers == {"SC_HeartBeat"} \cup UNION {Replies[r] : r \in DOMAIN Replies}

\* What a handler read of the request i
ReadOf(read, i) == \A a \in DOMAIN read : a \notin OfLists /\ read[a] = <<a, i, 0>>

\* What a message may be to tell
Telling(m, what) ==
  /\ m \in Answers /\ what.rows \in 0..MaxRows /\ what.result \in {"success", "failure"}
  /\ what.result = "failure" => m \in Refusals
  /\ m \in Lists => what.listing.count \in 0..N

\* The replies
LEMMA AnswerKinds ==
  ASSUME NEW m \in Answers, m \notin Lists
  PROVE  Says(m) /\ (Plain(m) \/ m \in {"SC_JoinRoom", "SC_GameEnd", "SC_LeaveRoomOtherPlayer"})
<1>1. CASE m = "SC_HeartBeat"
  BY <1>1, GameClasses DEF Plain
<1>2. CASE \E r \in DOMAIN Replies : m \in Replies[r]
  <2>1. \/ m \in {"SC_RegisterUser", "SC_Login"}
        \/ m \in {"SC_EnterLobby", "SC_LeaveLobby", "SC_EnterLobbyOtherPlayer",
                  "SC_LeaveLobbyOtherPlayer", "SC_LobbyChatting"}
        \/ m \in {"SC_CreateRoom", "SC_CreateRoomOtherPlayer", "SC_LeaveRoom",
                  "SC_LeaveRoomOtherPlayer", "SC_JoinRoom"}
        \/ m \in {"SC_JoinRoomOtherPlayer", "SC_ChangeRoomLeader", "SC_RemoveRoom",
                  "SC_RoomChatting", "SC_Ready", "SC_ReadyOtherPlayer", "SC_RoomStart"}
        \/ m \in {"SC_GameStart", "SC_GameEnd", "SC_OtherGameStart", "SC_OtherGameEnd"}
        \/ m \in {"SH_GamePlayerMove", "SC_GamePlayerMove", "SH_GamePlayerAttack",
                  "SC_GamePlayerAttack", "SC_GamePlayerDamaged", "SC_GamePlayerDie"}
        \/ m \in {"SC_EnemySpawn", "SC_EnemyMove", "SC_EnemyDamaged", "SC_EnemyAttack",
                  "SC_EnemyDie"}
        \/ m \in {"SC_PotionSpawn", "SC_PotionPickup"}
    BY <1>2, SMTT(60) DEF Replies
  <2> QED
    BY <2>1, LoginClasses, LobbyClasses, RoomClasses, MemberClasses, GameClasses,
       GamePlayerClasses, EnemyClasses, PotionClasses DEF Lists, Plain
<1>3. m = "SC_HeartBeat" \/ \E r \in DOMAIN Replies : m \in Replies[r]
  <2>1. m = "SC_HeartBeat" \/ m \in UNION {Replies[r] : r \in DOMAIN Replies}
    BY Zenon DEF Answers
  <2> QED
    BY <2>1
<1> QED
  BY <1>1, <1>2, <1>3

\* A name of a message is that of one of its members.
LEMMA NamesOf ==
  ASSUME NEW m, Row(Members[m], Order[m])
  PROVE  Names(m) = {Members[m][j].name : j \in 1..Len(Members[m])}
BY DEF Row, Names

\* What WriteData is given is what the reply is to tell.
LEMMA PassedOn ==
  ASSUME NEW m, Says(m), m \notin Lists, NEW i, NEW c, NEW read, ReadOf(read, i), NEW what,
         what.result = "success", what.number = i, what.rows = c
  PROVE  WriteData(m, i, read, c) = Meant(m, what)
<1>1. ASSUME NEW n \in Names(m)
      PROVE  (LET a == Arguments(m)[CHOOSE j \in DOMAIN Parameters(m) : Parameters(m)[j] = n]
              IN IF a \in DOMAIN read THEN read[a] ELSE Thing(a, i, c))
             = Thing(StandsFor(m, n), i, c)
  <2> DEFINE P == Parameters(m)
             k == CHOOSE j \in DOMAIN P : P[j] = n
             a == Arguments(m)[k]
  <2>1. PICK j \in 1..Len(Members[m]) : n = Members[m][j].name
    BY NamesOf DEF Says
  <2>2. /\ \E l \in DOMAIN P : P[l] = n /\ Arguments(m)[l] = StandsFor(m, n)
        /\ \A l, h \in DOMAIN P : P[l] = P[h] => l = h
    BY <2>1 DEF Says
  <2> HIDE DEF P
  <2>3. a = StandsFor(m, n)
    BY <2>2
  <2> HIDE DEF a
  <2>4. a \in DOMAIN read => read[a] = Thing(a, i, c)
    BY DEF ReadOf, OfLists, Thing
  <2>5. (IF a \in DOMAIN read THEN read[a] ELSE Thing(a, i, c)) = Thing(StandsFor(m, n), i, c)
    BY <2>3, <2>4
  <2> QED
    BY <2>5 DEF a, k, P
<1>2. \A n \in Names(m) : n \notin {"playerCount", "playerNames"}
  BY NamesOf DEF Says
<1> DEFINE V(n) == LET a == Arguments(m)[CHOOSE j \in DOMAIN Parameters(m) : Parameters(m)[j] = n]
                   IN IF a \in DOMAIN read THEN read[a] ELSE Thing(a, i, c)
           W(n) == IF what.result = "failure" THEN <<"", what.number, 0>>
                   ELSE CASE n = "playerCount" -> <<n, what.number, what.listing.count>>
                          [] n = "playerNames" ->
                               [j \in 1..what.listing.count |->
                                  <<n, what.number, what.listing.names[j]>>]
                          [] n = "joinedRoomPlayerCount" /\ m \in Lists ->
                               [j \in 1..what.rows |-> <<n, what.number, j>>]
                          [] OTHER -> Thing(StandsFor(m, n), what.number, what.rows)
<1>3. \A n \in Names(m) : W(n) = Thing(StandsFor(m, n), i, c)
  BY <1>2
<1>4. \A n \in Names(m) : V(n) = Thing(StandsFor(m, n), i, c)
  BY <1>1
<1>5. WriteData(m, i, read, c) = [n \in Names(m) |-> V(n)]
  BY DEF WriteData
<1>6. Meant(m, what) = [n \in Names(m) |-> W(n)]
  BY DEF Meant
<1> HIDE DEF V, W
<1> QED
  BY <1>3, <1>4, <1>5, <1>6

\* So is what is written of the rooms and the lobby.
LEMMA ListsMeant ==
  ASSUME NEW m \in Lists, NEW i, NEW c, NEW what,
         what.result = "success", what.number = i, what.rows = c, what.listing = listing
  PROVE  WriteLists(m, i, c) = Meant(m, what)
<1> DEFINE V(n) == CASE n = "joinedRoomPlayerCount" -> [j \in 1..c |-> <<n, i, j>>]
                     [] n = "playerCount" -> <<n, i, listing.count>>
                     [] n = "playerNames" ->
                          [j \in 1..listing.count |-> <<n, i, listing.names[j]>>]
                     [] OTHER -> Thing(n, i, c)
           W(n) == IF what.result = "failure" THEN <<"", what.number, 0>>
                   ELSE CASE n = "playerCount" -> <<n, what.number, what.listing.count>>
                          [] n = "playerNames" ->
                               [j \in 1..what.listing.count |->
                                  <<n, what.number, what.listing.names[j]>>]
                          [] n = "joinedRoomPlayerCount" /\ m \in Lists ->
                               [j \in 1..what.rows |-> <<n, what.number, j>>]
                          [] OTHER -> Thing(StandsFor(m, n), what.number, what.rows)
<1>1. Names(m) = {"roomCount", "roomIds", "roomNames", "joinedRoomPlayerCount", "isStart",
                  "playerCount", "playerNames"}
  BY TablesOfLists, SMTT(60) DEF Names, LobbyTable, INT, ListOf, Member
<1>2. \A n \in Names(m) : StandsFor(m, n) = n
  BY <1>1 DEF StandsFor, Lists
<1>3. \A n \in Names(m) : V(n) = W(n)
  BY <1>1, <1>2
<1>4. WriteLists(m, i, c) = [n \in Names(m) |-> V(n)]
  BY DEF WriteLists
<1>5. Meant(m, what) = [n \in Names(m) |-> W(n)]
  BY DEF Meant
<1> HIDE DEF V, W
<1> QED
  BY <1>3, <1>4, <1>5

\* A refusal tells nothing, the question of the heartbeat has no members.
LEMMA EmptyMeant ==
  ASSUME NEW m, NEW i, NEW what, what.number = i,
         what.result = "failure" \/ m = "SC_HeartBeat"
  PROVE  Empty(m, i) = Meant(m, what)
<1>1. CASE what.result = "failure"
  BY <1>1 DEF Empty, Meant
<1>2. CASE m = "SC_HeartBeat"
  <2>1. TableOf("SC_HeartBeat", GameMembers["SC_HeartBeat"], GameOrder["SC_HeartBeat"])
    BY Tables DEF GameMembers
  <2>2. Members["SC_HeartBeat"] = <<>>
    BY <2>1 DEF TableOf, GameMembers
  <2>3. Names(m) = {}
    BY <1>2, <2>2 DEF Names
  <2> QED
    BY <2>3 DEF Empty, Meant
<1> QED
  BY <1>1, <1>2

\* What is meant fits, its lists are as long as it says, and it is found again.
Sendable(m, data) ==
  /\ Row(Members[m], Order[m]) /\ Len(Order[m]) = Len(Members[m]) /\ Fits(Members[m], data)
  /\ Offset(Serialize(m, data)) \in Nat
  /\ Offset(Serialize(m, data)) <= MAX_PACKET_DATA_LENGTH

\* What SC_JoinRoom and SC_GameEnd are to tell: a row for every member of the room.
LEMMA MeantOfRoom ==
  ASSUME NEW m \in {"SC_JoinRoom", "SC_GameEnd"}, NEW what, Telling(m, what)
  PROVE  ListsOf(Members[m], Meant(m, what), 3, 4..6, what.rows)
<1> DEFINE T == Members[m]
           c == what.rows
           data == Meant(m, what)
           L == {"joinedPlayers", "joinedPlayerReadyState", "isLeaders"}
<1>1. m \notin Refusals /\ what.result # "failure" /\ c \in Nat
  BY Bounds DEF Telling, Refusals
<1>2. RoomRows(T) /\ Row(T, Order[m])
  <2>1. m \in Answers /\ m \notin Lists
    BY DEF Telling, Lists
  <2> QED
    BY <2>1, TablesOfLists, AnswerKinds DEF Says
<1>3. /\ T[3].name = "joinedPlayerCount" /\ T[4].name = "joinedPlayers"
      /\ T[5].name = "joinedPlayerReadyState" /\ T[6].name = "isLeaders"
      /\ IsCount(T[3]) /\ \A j \in 4..6 : ~IsCount(T[j])
  BY <1>2, SMTT(60) DEF RoomRows, INT, ListOf, Member, IsCount, IsList
<1>4. L \cup {"joinedPlayerCount"} \subseteq Names(m)
  <2>1. Names(m) = {T[j].name : j \in 1..6}
    BY <1>2, NamesOf DEF RoomRows
  <2> QED
    BY <1>3, <2>1
<1>5. \A n \in L \cup {"joinedPlayerCount"} : data[n] = Thing(n, what.number, c)
  BY <1>1, <1>4 DEF Meant, StandsFor
<1>6. data["joinedPlayerCount"][3] = c
  BY <1>5 DEF Thing
<1>7. \A n \in L : data[n] = [j \in 1..c |-> <<n, what.number, j>>]
  BY <1>5 DEF Thing
<1>8. \A n \in L : data[n] = [x \in 1..c |-> data[n][x]]
  BY <1>7
<1> HIDE DEF T, c, data
<1>9. \A j \in 4..6 : T[j].name \in L
  BY <1>3
<1> QED
  BY <1>1, <1>3, <1>6, <1>8, <1>9 DEF ListsOf, T, c, data

\* What a lobby reply is to tell: a row for every room, and the listed players.
LEMMA MeantOfLobby ==
  ASSUME NEW m \in Lists, NEW what, Telling(m, what)
  PROVE  /\ ListsOf(LobbyTable, Meant(m, what), 1, 2..5, what.rows)
         /\ ListsOf(LobbyTable, Meant(m, what), 6, 7..7, what.listing.count)
<1> DEFINE T == LobbyTable
           c == what.rows
           l == what.listing.count
           data == Meant(m, what)
           L == {"roomIds", "roomNames", "isStart", "joinedRoomPlayerCount"}
<1>1. m \notin Refusals /\ what.result # "failure" /\ c \in Nat /\ l \in Nat
  BY Bounds DEF Telling, Refusals, Lists
<1>2. Members[m] = T /\ Row(T, Order[m]) /\ Len(T) = 7
  <2>1. Len(LobbyTable) = 7
    BY SMTT(60) DEF LobbyTable
  <2> QED
    BY <2>1, TablesOfLists
<1>3. /\ T[1].name = "roomCount" /\ T[2].name = "roomIds" /\ T[3].name = "roomNames"
      /\ T[4].name = "joinedRoomPlayerCount" /\ T[5].name = "isStart"
      /\ T[6].name = "playerCount" /\ T[7].name = "playerNames"
      /\ IsCount(T[1]) /\ IsCount(T[6]) /\ \A j \in 2..5 : ~IsCount(T[j])
  BY SMTT(60) DEF LobbyTable, INT, ListOf, Member, IsCount, IsList
<1>4. L \cup {"roomCount", "playerCount", "playerNames"} \subseteq Names(m)
  <2>1. Names(m) = {T[j].name : j \in 1..7}
    BY <1>2, NamesOf
  <2> QED
    BY <1>3, <2>1
<1>5. /\ data["roomCount"] = <<"roomCount", what.number, c>>
      /\ data["playerCount"] = <<"playerCount", what.number, l>>
  BY <1>1, <1>4 DEF Meant, StandsFor, Thing, Lists
<1>6. \A n \in L : data[n] = [j \in 1..c |-> <<n, what.number, j>>]
  BY <1>1, <1>4 DEF Meant, StandsFor, Thing, Lists
<1>7. data["playerNames"] = [j \in 1..l |-> <<"playerNames", what.number, what.listing.names[j]>>]
  BY <1>1, <1>4 DEF Meant
<1>8. \A n \in L : data[n] = [x \in 1..c |-> data[n][x]]
  BY <1>6
<1>9. data["playerNames"] = [x \in 1..l |-> data["playerNames"][x]]
  BY <1>7
<1> HIDE DEF T, c, l, data
<1>10. \A j \in 2..5 : T[j].name \in L
  BY <1>3
<1>11. ListsOf(T, data, 1, 2..5, c)
  BY <1>1, <1>3, <1>5, <1>8, <1>10 DEF ListsOf
<1>12. ListsOf(T, data, 6, 7..7, l)
  BY <1>1, <1>3, <1>5, <1>9 DEF ListsOf
<1> QED
  BY <1>11, <1>12 DEF T, c, l, data

\* Every reply fits a packet and can be read again, as PacketDataAssumption has it.
LEMMA MeantFits ==
  ASSUME NEW m, NEW what, Telling(m, what)
  PROVE  Sendable(m, Meant(m, what))
<1>1. m \in Answers /\ what.rows \in 0..MaxRows
  BY DEF Telling
<1>2. CASE m \in Lists
  <2>1. /\ Row(Members[m], Order[m]) /\ Len(Order[m]) = Len(Members[m])
        /\ Members[m] = LobbyTable
    BY <1>2, TablesOfLists
  <2>2. what.listing.count \in 0..N
    BY <1>2 DEF Telling
  <2>3. /\ ListsOf(LobbyTable, Meant(m, what), 1, 2..5, what.rows)
        /\ ListsOf(LobbyTable, Meant(m, what), 6, 7..7, what.listing.count)
    BY <1>2, MeantOfLobby
  <2> QED
    BY <1>1, <2>1, <2>2, <2>3, LobbyTableFits DEF Sendable
<1>3. CASE m \notin Lists
  <2>1. Row(Members[m], Order[m]) /\ Len(Order[m]) = Len(Members[m])
    BY <1>1, <1>3, AnswerKinds DEF Says
  <2>2. CASE Plain(m)
    BY <2>1, <2>2, PlainFits DEF Sendable
  <2>3. CASE m \in {"SC_JoinRoom", "SC_GameEnd"}
    <3>1. RoomRows(Members[m])
      BY <2>3, TablesOfLists
    <3>2. ListsOf(Members[m], Meant(m, what), 3, 4..6, what.rows)
      BY <2>3, MeantOfRoom
    <3> QED
      BY <1>1, <2>1, <3>1, <3>2, RoomRowsFit DEF Sendable
  <2>4. CASE m = "SC_LeaveRoomOtherPlayer"
    BY <2>1, <2>4, TablesOfLists, LeaverFits DEF Sendable
  <2> QED
    BY <1>1, <1>3, <2>2, <2>3, <2>4, AnswerKinds
<1> QED
  BY <1>2, <1>3

\* A client that reads what was sent finds what was meant.
LEMMA ReadAgain ==
  ASSUME NEW m, NEW what, Telling(m, what)
  PROVE  ClientReads(m, Serialize(m, Meant(m, what))) = Meant(m, what)
<1> DEFINE data == Meant(m, what)
<1>1. data = [n \in Names(m) |-> data[n]]
  BY DEF Meant
<1>2. ClientReads(m, Serialize(m, data)) = [n \in Names(m) |-> data[n]]
  <2> HIDE DEF data
  <2>1. Sendable(m, data)
    BY MeantFits DEF data
  <2> QED
    BY <2>1, RoundTrip DEF Sendable
<1> HIDE DEF data
<1> QED
  BY <1>1, <1>2 DEF data

-----------------------------------------------------------------------------
(* The packets.                                                            *)

\* A message that says what it is to tell.
Sent(m, items, what) == Telling(m, what) /\ items = Serialize(m, Meant(m, what))

\* What the handler has read, and may still send.
Handling ==
  task # None => /\ DOMAIN task = {"request", "due", "read"}
                 /\ task.due \subseteq Replies[task.request]
                 /\ ReadOf(task.read, handled)

\* Packets are empty in the pool, and new ones are; behind it they hold one message and
\* know its length.
Carried ==
  /\ DOMAIN stream = Packets /\ DOMAIN header = Packets
  /\ \A k \in Packets \ (queue \cup completed) : stream[k] = <<>>
  /\ \A k \in queue \cup completed :
       /\ Sent(header[k].message, stream[k], about[k])
       /\ header[k].length = 12 + Offset(stream[k])
  /\ frame # None => Sent(frame.message, frame.items, frame.about)

\* The inductive invariant of ReadAsMeant
RInv == IInv /\ Handling /\ Carried

\* A message is a sequence.
LEMMA SerializeSeq ==
  ASSUME NEW m, NEW data, Sendable(m, data)
  PROVE  \E S : Serialize(m, data) \in Seq(S)
<1>1. /\ \E S : Blocks(m, data) \in Seq(Seq(S))
      /\ Len(Blocks(m, data)) = Len(Members[m]) /\ Len(Members[m]) \in Nat
  BY BlocksOf DEF Sendable, Row
<1>2. PICK S : Blocks(m, data) \in Seq(Seq(S))
  BY <1>1
<1>3. PICK p : /\ Together(p, S, Blocks(m, data))
               /\ FlattenSeq(Blocks(m, data)) = p[Len(Blocks(m, data))]
  BY <1>2, Flattened
<1>4. Serialize(m, data) = p[Len(Members[m])] /\ p \in [0..Len(Members[m]) -> Seq(S)]
  BY <1>1, <1>3 DEF Serialize, Blocks, Together
<1> QED
  BY <1>1, <1>4

\* All of it is what a header of its length lets through.
LEMMA PrefixOfAll ==
  ASSUME NEW S, NEW items \in Seq(S), Offset(items) \in Nat
  PROVE  Prefix(items, Offset(items)) = items
<1> DEFINE n == Len(items)
           I == {i \in 0..n : Offset(SubSeq(items, 1, i)) <= Offset(items)}
<1>1. n \in Nat /\ \A i \in 1..n : items[i] \in S
  BY LenProperties, ElementOfSeq
<1>2. SubSeq(items, 1, n) = items
  <2>1. n \in Int /\ 1 \in Int
    BY <1>1
  <2> HIDE DEF n
  <2>2. /\ SubSeq(items, 1, n) \in Seq(S)
        /\ Len(SubSeq(items, 1, n)) = IF 1 <= n THEN n - 1 + 1 ELSE 0
        /\ \A i \in 1..(n - 1 + 1) : SubSeq(items, 1, n)[i] = items[1 + i - 1]
    BY <1>1, <2>1, SubSeqProperties
  <2> DEFINE q == SubSeq(items, 1, n)
  <2>3. q \in Seq(S) /\ Len(q) = n /\ \A i \in 1..n : q[i] = items[i]
    BY <1>1, <2>2
  <2> HIDE DEF q
  <2>4. q = items
    BY <2>3, SeqEqual DEF n
  <2> QED
    BY <2>4 DEF q
<1>3. n \in I /\ \A i \in I : n >= i
  <2>1. n \in 0..n /\ \A i \in 0..n : n >= i
    BY <1>1
  <2>2. Offset(SubSeq(items, 1, n)) <= Offset(items)
    <3>1. Offset(SubSeq(items, 1, n)) = Offset(items)
      BY <1>2, Zenon
    <3> HIDE DEF n
    <3> QED
      BY <3>1
  <2> HIDE DEF n
  <2> QED
    BY <2>1, <2>2
<1>4. \A x \in I : (\A y \in I : x >= y) => x = n
  <2>1. \A x \in I : x \in Nat /\ (x >= n => x <= n)
    BY <1>1
  <2> HIDE DEF I, n
  <2> QED
    BY <1>1, <1>3, <2>1
<1>5. Max(I) = n
  <2> HIDE DEF I, n
  <2> QED
    BY <1>3, <1>4 DEF Max
<1>6. Prefix(items, Offset(items)) = SubSeq(items, 1, Max(I))
  BY DEF Prefix
<1> QED
  BY <1>2, <1>5, <1>6

\* A message that is sent fits and can be read.
LEMMA SentWell ==
  ASSUME NEW m, NEW items, NEW what, Sent(m, items, what)
  PROVE  /\ Offset(items) \in Nat /\ Offset(items) <= MAX_PACKET_DATA_LENGTH
         /\ \E S : items \in Seq(S)
         /\ Prefix(items, Offset(items)) = items
         /\ ClientReads(m, items) = Meant(m, what)
<1>1. Telling(m, what) /\ items = Serialize(m, Meant(m, what))
  BY DEF Sent
<1>2. Sendable(m, Meant(m, what))
  BY <1>1, MeantFits
<1>3. PICK S : items \in Seq(S)
  BY <1>1, <1>2, SerializeSeq
<1>4. Offset(items) \in Nat /\ Offset(items) <= MAX_PACKET_DATA_LENGTH
  BY <1>1, <1>2 DEF Sendable
<1>5. Prefix(items, Offset(items)) = items
  BY <1>3, <1>4, PrefixOfAll
<1> QED
  BY <1>1, <1>3, <1>4, <1>5, ReadAgain

\* What the invariant promises.
LEMMA RInvReads == RInv => ReadAsMeant
<1> SUFFICES ASSUME RInv PROVE ReadAsMeant
  OBVIOUS
<1>1. ASSUME NEW k \in Packets PROVE Offset(stream[k]) <= MAX_PACKET_DATA_LENGTH
  <2>2. CASE k \notin queue \cup completed
    <3>1. stream[k] = <<>>
      BY <2>2 DEF RInv, Carried
    <3>2. Offset(<<>>) = 0
      <4>1. Sized(<<>>) /\ Len(<<>>) = 0
        BY DEF Sized
      <4>2. PICK f : Offsets(f, <<>>) /\ Offset(<<>>) = f[Len(<<>>)]
        BY <4>1, OffsetSums
      <4> QED
        BY <4>1, <4>2 DEF Offsets
    <3> QED
      BY <3>1, <3>2, Bounds
  <2>3. CASE k \in queue \cup completed
    BY <2>3, SentWell DEF RInv, Carried
  <2> QED
    BY <2>2, <2>3
<1>2. frame # None => ClientReads(frame.message, frame.items) = Meant(frame.message, frame.about)
  BY SentWell DEF RInv, Carried
<1> QED
  BY <1>1, <1>2 DEF ReadAsMeant, WithinBuffer

-----------------------------------------------------------------------------
(* The steps.                                                              *)

\* Requests are asked.
LEMMA RequestKinds == \A m \in DOMAIN Replies : Asks(m)
<1> SUFFICES ASSUME NEW m \in DOMAIN Replies PROVE Asks(m)
  OBVIOUS
<1>1. \/ m \in {"CS_RegisterUser", "CS_Login"}
      \/ m \in {"CS_EnterLobby", "CS_LeaveLobby", "CS_LobbyChatting"}
      \/ m \in {"CS_CreateRoom", "CS_LeaveRoom", "CS_JoinRoom"}
      \/ m \in {"CS_RoomChatting", "CS_Ready", "CS_RoomStart"}
      \/ m \in {"CS_HeartBeat", "CS_GameStart", "CS_GameEnd"}
      \/ m \in {"CS_GamePlayerMove", "CS_GamePlayerAttack", "CS_GamePlayerDamaged",
                "CS_GamePlayerDie"}
      \/ m \in {"CS_EnemySpawn", "CS_EnemyMove", "CS_EnemyDamaged", "CS_EnemyAttack",
                "CS_EnemyDie"}
      \/ m \in {"CS_PotionSpawn", "CS_PotionPickup"}
  BY DEF Replies
<1> QED
  BY <1>1, LoginClasses, LobbyClasses, RoomClasses, MemberClasses, GameClasses,
     GamePlayerClasses, EnemyClasses, PotionClasses

\* Deserialize finds under each name what the client wrote under it.
LEMMA ReadRight ==
  ASSUME NEW m \in DOMAIN Replies, NEW i
  PROVE  ReadOf([n \in Range(Order[m]) |->
                   Read(ClientWrites(m, i), CHOOSE j \in DOMAIN Order[m] : Order[m][j] = n,
                        Declared(m, n).type)], i)
<1> DEFINE T == Members[m]
           O == Order[m]
           items == ClientWrites(m, i)
           R(n) == Read(items, CHOOSE j \in DOMAIN O : O[j] = n, Declared(m, n).type)
<1>1. /\ Row(T, O) /\ \A j \in 1..Len(O) : O[j] \notin OfLists
  BY RequestKinds DEF Asks
<1>2. /\ Len(T) \in Nat /\ DOMAIN T = 1..Len(T) /\ Len(O) \in Nat /\ DOMAIN O = 1..Len(O)
      /\ Len(O) <= Len(T) /\ \A j \in 1..Len(O) : O[j] = T[j].name
      /\ \A j \in 1..Len(T) : T[j].type \in Types
      /\ \A k, j \in 1..Len(T) : T[k].name = T[j].name => k = j
  BY <1>1 DEF Row
<1>3. items = [j \in 1..Len(T) |-> Write(T[j].type, <<T[j].name, i, 0>>)]
  BY <1>2 DEF ClientWrites
<1>4. Len(items) = Len(T)
  <2> DEFINE l == Len(T)
             W(j) == Write(T[j].type, <<T[j].name, i, 0>>)
  <2>1. l \in Nat /\ items = [j \in 1..l |-> W(j)]
    BY <1>2, <1>3
  <2> HIDE DEF l, W, items
  <2>2. items \in Seq({W(j) : j \in 1..l})
    BY <2>1, IsASeq
  <2>3. Len(items) \in Nat /\ 1..Len(items) = 1..l
    BY <2>1, <2>2, LenProperties
  <2> DEFINE h == Len(items)
  <2> HIDE DEF h
  <2>4. h = l
    BY <2>1, <2>3 DEF h
  <2> QED
    BY <2>4 DEF h, l
<1>5. ASSUME NEW n \in Range(O) PROVE n \notin OfLists /\ R(n) = <<n, i, 0>>
  <2>1. PICK j \in 1..Len(O) : n = O[j]
    BY <1>2 DEF Range
  <2>2. j \in 1..Len(T) /\ n = T[j].name /\ n \notin OfLists
    BY <1>1, <1>2, <2>1
  <2>3. (CHOOSE k \in DOMAIN O : O[k] = n) = j
    <3>1. \A k \in DOMAIN O : O[k] = n <=> k = j
      BY <1>2, <2>1, <2>2
    <3>2. j \in DOMAIN O
      BY <1>2, <2>1
    <3> HIDE DEF O
    <3> QED
      BY <3>1, <3>2
  <2>4. Declared(m, n) = T[j]
    BY <1>1, <2>2, PlaceOfName
  <2>5. items[j] = Write(T[j].type, <<n, i, 0>>)
    BY <1>3, <2>2
  <2> DEFINE v == <<n, i, 0>>
             t == T[j].type
  <2>6. t \in Types /\ j <= Len(items) /\ items[j] = Write(t, v)
    BY <1>2, <1>4, <2>2, <2>5
  <2> HIDE DEF v, t, items
  <2>7. Read(items, j, t) = v
    BY <2>6, ReadWritten
  <2> QED
    BY <2>2, <2>3, <2>4, <2>7 DEF v, t
<1> HIDE DEF R
<1>6. ReadOf([n \in Range(O) |-> R(n)], i)
  BY <1>5 DEF ReadOf
<1> QED
  BY <1>6 DEF R

\* The next request is read; a finished one is forgotten.
LEMMA ReadsRequest ==
  ASSUME RInv, NEW m \in DOMAIN Replies, Deserialize(m) \/ Return
  PROVE  Handling' /\ Carried'
<1>1. UNCHANGED packetVars
  BY DEF Deserialize, Return
<1>2. Carried'
  BY <1>1 DEF RInv, Carried, packetVars
<1>3. CASE Return
  BY <1>2, <1>3 DEF Return, Handling
<1>4. CASE Deserialize(m)
  <2> DEFINE read == [n \in Range(Order[m]) |->
                       Read(ClientWrites(m, handled + 1),
                            CHOOSE j \in DOMAIN Order[m] : Order[m][j] = n,
                            Declared(m, n).type)]
  <2>1. /\ task' = [request |-> m, due |-> Replies[m], read |-> read]
        /\ handled' = handled + 1
    BY <1>4 DEF Deserialize
  <2>2. ReadOf(read, handled + 1)
    BY ReadRight
  <2> HIDE DEF read
  <2>3. Handling'
    BY <2>1, <2>2 DEF Handling
  <2> QED
    BY <1>2, <2>3
<1> QED
  BY <1>3, <1>4

\* The packet that is popped is empty; it carries what is put into it.
LEMMA PutCarries ==
  ASSUME RInv, NEW m, NEW data, NEW what, Telling(m, what), data = Meant(m, what),
         Put(m, data, what)
  PROVE  Carried'
<1>a. PICK p \in Filled :
        /\ pool' = Front(p)
        /\ stream' = [stream EXCEPT ![Last(p)] = stream[Last(p)] \o Serialize(m, data)]
        /\ header' = [header EXCEPT ![Last(p)] =
                        [message |-> m,
                         length |-> 12 + Offset(stream[Last(p)] \o Serialize(m, data))]]
        /\ about' = [about EXCEPT ![Last(p)] = what]
        /\ queue' = queue \cup {Last(p)} /\ completed' = completed /\ frame' = frame
  BY DEF Put
<1> DEFINE k == Last(p)
           items == stream[k] \o Serialize(m, data)
<1>1. /\ stream' = [stream EXCEPT ![k] = items]
      /\ header' = [header EXCEPT ![k] = [message |-> m, length |-> 12 + Offset(items)]]
      /\ about' = [about EXCEPT ![k] = what]
      /\ queue' = queue \cup {k} /\ completed' = completed /\ frame' = frame
  BY <1>a
<1>2. queue \cup completed \subseteq Packets
  BY DEF RInv, IInv, TypeOK
<1>3. k \in Packets /\ k \notin queue \cup completed
  BY <1>a, PoolFilled, PartsOfType DEF RInv, IInv
<1>4. /\ DOMAIN stream = Packets /\ DOMAIN header = Packets /\ DOMAIN about = Packets
      /\ \A h \in Packets \ (queue \cup completed) : stream[h] = <<>>
      /\ \A h \in queue \cup completed :
           /\ Sent(header[h].message, stream[h], about[h])
           /\ header[h].length = 12 + Offset(stream[h])
      /\ frame # None => Sent(frame.message, frame.items, frame.about)
  BY DEF RInv, IInv, Told, Carried
<1>5. items = Serialize(m, data)
  <2>1. Sendable(m, data)
    BY MeantFits
  <2>2. PICK S : Serialize(m, data) \in Seq(S)
    BY <2>1, SerializeSeq
  <2>3. stream[k] = <<>>
    BY <1>3, <1>4
  <2> QED
    BY <2>2, <2>3, ConcatEmptySeq
<1>6. Sent(m, items, what)
  BY <1>5 DEF Sent
<1> HIDE DEF items, k
<1>7. ASSUME NEW h \in queue' \cup completed'
      PROVE  /\ Sent(header'[h].message, stream'[h], about'[h])
             /\ header'[h].length = 12 + Offset(stream'[h])
  <2>1. CASE h = k
    <3>1. stream'[h] = items /\ about'[h] = what
      BY <1>1, <1>3, <1>4, <2>1
    <3>2. header'[h] = [message |-> m, length |-> 12 + Offset(items)]
      BY <1>1, <1>3, <1>4, <2>1
    <3> DEFINE o == 12 + Offset(items)
    <3> HIDE DEF o
    <3>3. header'[h].message = m /\ header'[h].length = o
      BY <3>2 DEF o
    <3> QED
      BY <1>6, <3>1, <3>3 DEF o
  <2>2. CASE h # k
    <3>1. h \in queue \cup completed
      BY <1>1, <1>7, <2>2
    <3>2. h \in Packets
      BY <1>2, <3>1
    <3>3. stream'[h] = stream[h] /\ about'[h] = about[h] /\ header'[h] = header[h]
      BY <1>1, <1>4, <2>2, <3>2
    <3> QED
      BY <1>4, <3>1, <3>3
  <2> QED
    BY <2>1, <2>2
<1>8. \A h \in Packets \ (queue' \cup completed') : stream'[h] = <<>>
  BY <1>1, <1>4
<1>9. DOMAIN stream' = Packets /\ DOMAIN header' = Packets
  BY <1>1, <1>4
<1>10. frame' # None => Sent(frame'.message, frame'.items, frame'.about)
  BY <1>1, <1>4
<1> QED
  BY <1>7, <1>8, <1>9, <1>10 DEF Carried

\* A reply that was due.
LEMMA ReplyDue ==
  ASSUME RInv, task # None, NEW m \in task.due
  PROVE  m \in Answers /\ (Answered(m) => Handling')
<1>1. /\ task.request \in DOMAIN Replies /\ task.due \subseteq Replies[task.request]
      /\ DOMAIN task = {"request", "due", "read"} /\ ReadOf(task.read, handled)
  BY DEF RInv, IInv, TypeOK, Handling
<1>2. m \in Answers
  BY <1>1 DEF Answers
<1>3. ASSUME Answered(m) PROVE Handling'
  <2>1. task' = [task EXCEPT !.due = @ \ {m}] /\ handled' = handled
    BY <1>3 DEF Answered
  <2>2. /\ DOMAIN task' = DOMAIN task /\ task'.request = task.request
        /\ task'.read = task.read /\ task'.due = task.due \ {m}
    BY <1>1, <2>1
  <2>3. task'.due \subseteq Replies[task'.request]
    BY <1>1, <2>2
  <2> QED
    BY <1>1, <2>1, <2>2, <2>3 DEF Handling
<1> QED
  BY <1>2, <1>3

\* A packet that is forgotten carries nothing any more.
LEMMA ForgottenCarries == RInv /\ LeaveOut => Carried'
BY DEF RInv, Carried, LeaveOut

\* Replies that do not list the lobby
LEMMA CarriesReply ==
  ASSUME RInv, Answer \/ Refuse \/ PushHeartBeat
  PROVE  Handling' /\ Carried'
<1>1. CASE Answer
  <2>1. PICK m \in task.due \ Lists : \E c \in Rows(m) :
          /\ task # None /\ Answered(m)
          /\ \/ Put(m, WriteData(m, handled, task.read, c),
                    [number |-> handled, result |-> "success", rows |-> c, listing |-> None])
             \/ LeaveOut
    BY <1>1 DEF Answer
  <2>2. PICK c \in Rows(m) :
          \/ Put(m, WriteData(m, handled, task.read, c),
                 [number |-> handled, result |-> "success", rows |-> c, listing |-> None])
          \/ LeaveOut
    BY <2>1
  <2>3. PICK what : what = [number |-> handled, result |-> "success", rows |-> c, listing |-> None]
    OBVIOUS
  <2>4. what.number = handled /\ what.result = "success" /\ what.rows = c
    BY <2>3
  <2>5. m \in Answers /\ Handling'
    BY <2>1, ReplyDue
  <2>6. Telling(m, what)
    <3>1. c \in 0..MaxRows
      BY Bounds DEF Rows
    <3> QED
      BY <2>1, <2>4, <2>5, <3>1 DEF Telling
  <2>7. WriteData(m, handled, task.read, c) = Meant(m, what)
    <3>1. Says(m) /\ m \notin Lists
      BY <2>1, <2>5, AnswerKinds
    <3>2. ReadOf(task.read, handled)
      BY <2>1 DEF RInv, Handling
    <3> QED
      BY <2>4, <3>1, <3>2, PassedOn
  <2> DEFINE data == WriteData(m, handled, task.read, c)
  <2>8. data = Meant(m, what) /\ (Put(m, data, what) \/ LeaveOut)
    BY <2>2, <2>3, <2>7
  <2> HIDE DEF data
  <2>9. Carried'
    BY <2>6, <2>8, PutCarries, ForgottenCarries
  <2> QED
    BY <2>5, <2>9
<1>2. CASE Refuse
  <2>1. PICK m \in task.due \cap Refusals :
          /\ task # None /\ Answered(m)
          /\ Put(m, Empty(m, handled),
                 [number |-> handled, result |-> "failure", rows |-> 0, listing |-> None])
    BY <1>2 DEF Refuse
  <2>2. PICK what : what = [number |-> handled, result |-> "failure", rows |-> 0, listing |-> None]
    OBVIOUS
  <2>3. what.number = handled /\ what.result = "failure" /\ what.rows = 0
    BY <2>2
  <2>4. m \in Answers /\ Handling'
    BY <2>1, ReplyDue
  <2>5. Telling(m, what)
    BY <2>1, <2>3, <2>4, Bounds DEF Telling, Refusals, Lists
  <2>6. Empty(m, handled) = Meant(m, what)
    BY <2>3, EmptyMeant
  <2> DEFINE data == Empty(m, handled)
  <2>7. data = Meant(m, what) /\ Put(m, data, what)
    BY <2>1, <2>2, <2>6
  <2> HIDE DEF data
  <2>8. Carried'
    BY <2>5, <2>7, PutCarries
  <2> QED
    BY <2>4, <2>8
<1>3. CASE PushHeartBeat
  <2> DEFINE m == "SC_HeartBeat"
  <2>1. /\ UNCHANGED <<handled, task>>
        /\ \/ Put(m, Empty(m, 0),
                  [number |-> 0, result |-> "success", rows |-> 0, listing |-> None])
           \/ LeaveOut
    BY <1>3 DEF PushHeartBeat, handlerVars
  <2>2. PICK what : what = [number |-> 0, result |-> "success", rows |-> 0, listing |-> None]
    OBVIOUS
  <2>3. what.number = 0 /\ what.result = "success" /\ what.rows = 0
    BY <2>2
  <2>4. Handling'
    BY <2>1 DEF RInv, Handling
  <2>5. Telling(m, what)
    BY <2>3, Bounds DEF Telling, Answers, Lists
  <2>6. Empty(m, 0) = Meant(m, what)
    BY <2>3, EmptyMeant
  <2> DEFINE data == Empty(m, 0)
  <2>7. data = Meant(m, what) /\ (Put(m, data, what) \/ LeaveOut)
    BY <2>1, <2>2, <2>6
  <2> HIDE DEF data, m
  <2>8. Carried'
    BY <2>5, <2>7, PutCarries, ForgottenCarries
  <2> QED
    BY <2>4, <2>8
<1> QED
  BY <1>1, <1>2, <1>3

\* Replies that do
LEMMA CarriesList ==
  ASSUME RInv, AnswerList
  PROVE  Handling' /\ Carried'
<1>1. PICK m \in task.due \cap Lists : \E c \in Rows(m) :
        /\ listing # None /\ Answered(m)
        /\ Put(m, WriteLists(m, handled, c),
               [number |-> handled, result |-> "success", rows |-> c, listing |-> listing])
  BY DEF AnswerList
<1>2. PICK c \in Rows(m) :
        Put(m, WriteLists(m, handled, c),
            [number |-> handled, result |-> "success", rows |-> c, listing |-> listing])
  BY <1>1
<1>3. PICK what : what = [number |-> handled, result |-> "success", rows |-> c, listing |-> listing]
  OBVIOUS
<1>4. /\ what.number = handled /\ what.result = "success" /\ what.rows = c
      /\ what.listing = listing
  BY <1>3
<1>5. task # None /\ listing.count \in 0..N
  BY <1>1 DEF RInv, IInv, TaskType, TypeOK, N
<1>6. m \in Answers /\ Handling'
  BY <1>1, <1>5, ReplyDue
<1>7. Telling(m, what)
  <2>1. c \in 0..MaxRows
    BY Bounds DEF Rows
  <2> QED
    BY <1>4, <1>5, <1>6, <2>1 DEF Telling
<1> DEFINE data == WriteLists(m, handled, c)
<1>8. data = Meant(m, what) /\ Put(m, data, what)
  BY <1>1, <1>2, <1>3, <1>4, ListsMeant
<1> HIDE DEF data
<1>9. Carried'
  BY <1>7, <1>8, PutCarries
<1> QED
  BY <1>6, <1>9

\* What a packet carries goes on its way whole; then the packet is reset.
LEMMA CarriesOn ==
  ASSUME RInv, SendPacket \/ OnSent \/ Arrive
  PROVE  Handling' /\ Carried'
<1>1. UNCHANGED handlerVars
  BY DEF SendPacket, OnSent, Arrive
<1>2. Handling'
  BY <1>1 DEF RInv, Handling, handlerVars
<1>3. /\ DOMAIN stream = Packets /\ DOMAIN header = Packets /\ DOMAIN about = Packets
      /\ \A h \in Packets \ (queue \cup completed) : stream[h] = <<>>
      /\ \A h \in queue \cup completed :
           /\ Sent(header[h].message, stream[h], about[h])
           /\ header[h].length = 12 + Offset(stream[h])
      /\ frame # None => Sent(frame.message, frame.items, frame.about)
  BY DEF RInv, IInv, Told, Carried
<1>4. /\ queue \cup completed \subseteq Packets
      /\ queue \cap completed = {}
  BY DEF RInv, IInv, TypeOK
<1>5. CASE SendPacket
  <2>1. PICK k \in queue :
          /\ frame' = [message |-> header[k].message,
                       items |-> Prefix(stream[k], header[k].length - 12), about |-> about[k]]
          /\ queue' = queue \ {k} /\ completed' = completed \cup {k}
          /\ UNCHANGED <<pool, stream, header, about>>
    BY <1>5 DEF SendPacket
  <2>2. Sent(header[k].message, stream[k], about[k]) /\ header[k].length = 12 + Offset(stream[k])
    BY <1>3
  <2>3. Offset(stream[k]) \in Nat /\ Prefix(stream[k], Offset(stream[k])) = stream[k]
    BY <2>2, SentWell
  <2>4. header[k].length - 12 = Offset(stream[k])
    BY <2>2, <2>3
  <2>5. Prefix(stream[k], header[k].length - 12) = stream[k]
    BY <2>3, <2>4
  <2>6. /\ frame'.message = header[k].message /\ frame'.items = stream[k]
        /\ frame'.about = about[k]
    BY <2>1, <2>5
  <2>7. Sent(frame'.message, frame'.items, frame'.about)
    BY <2>2, <2>6
  <2>8. queue' \cup completed' = queue \cup completed
    BY <2>1
  <2> QED
    BY <1>2, <1>3, <2>1, <2>7, <2>8 DEF Carried
<1>6. CASE OnSent
  <2>1. PICK k \in completed :
          /\ completed' = completed \ {k} /\ stream' = [stream EXCEPT ![k] = <<>>]
          /\ pool' = Append(pool, k) /\ about' = [about EXCEPT ![k] = None]
          /\ UNCHANGED <<header, queue, frame>>
    BY <1>6 DEF OnSent
  <2>2. k \in Packets
    BY <1>4
  <2>3. \A h \in Packets : h # k => stream'[h] = stream[h] /\ about'[h] = about[h]
    BY <1>3, <2>1
  <2>4. \A h \in queue' \cup completed' : h \in queue \cup completed /\ h # k /\ h \in Packets
    BY <1>4, <2>1
  <2>5. \A h \in Packets \ (queue' \cup completed') : stream'[h] = <<>>
    BY <1>3, <1>4, <2>1, <2>2, <2>3
  <2>6. DOMAIN stream' = Packets /\ DOMAIN header' = Packets
    BY <1>3, <2>1
  <2> QED
    BY <1>2, <1>3, <2>1, <2>3, <2>4, <2>5, <2>6 DEF Carried
<1>7. CASE Arrive
  BY <1>2, <1>3, <1>7 DEF Arrive, Carried
<1> QED
  BY <1>5, <1>6, <1>7

\* Every step keeps what packets carry.
LEMMA StepCarries == RInv /\ [Next]_vars => RInv'
<1> SUFFICES ASSUME RInv, [Next]_vars PROVE Handling' /\ Carried'
  BY StepData DEF RInv
<1>1. CASE UNCHANGED <<handled, task, packetVars>>
  BY <1>1 DEF RInv, Handling, Carried, packetVars
<1>2. ASSUME NEW m \in DOMAIN Replies, Deserialize(m) PROVE Handling' /\ Carried'
  BY <1>2, ReadsRequest
<1>3. CASE Return
  <2>1. \E m : m \in DOMAIN Replies
    BY DEF Replies
  <2> QED
    BY <1>3, <2>1, ReadsRequest
<1>4. CASE Answer \/ Refuse \/ PushHeartBeat
  BY <1>4, CarriesReply
<1>5. CASE GetPlayerCount \/ ListPlayer \/ RemovePlayer
  BY <1>1, <1>5 DEF GetPlayerCount, ListPlayer, RemovePlayer
<1>6. CASE AnswerList
  BY <1>6, CarriesList
<1>7. CASE SendPacket \/ OnSent \/ Arrive
  BY <1>7, CarriesOn
<1>8. CASE UNCHANGED vars
  BY <1>1, <1>8 DEF vars, handlerVars
<1> QED
  BY <1>2, <1>3, <1>4, <1>5, <1>6, <1>7, <1>8 DEF Next

\* At first every packet is empty and in the pool.
LEMMA InitCarries == Init => RInv
<1> SUFFICES ASSUME Init PROVE RInv
  OBVIOUS
<1>1. Handling
  BY DEF Init, Handling
<1>2. Carried
  <2>1. Range(pool) = Packets
    BY Numbers, OrderOfSet DEF Init
  <2> QED
    BY <2>1 DEF Init, Carried
<1> QED
  BY <1>1, <1>2, InitData DEF RInv

(* From SendData until the client has it, a packet holds exactly what      *)
(* Serialize wrote of what it is to tell, its header has the length of     *)
(* that, a packet in the pool is empty, and a handler answers only with    *)
(* what it read of its own request (PacketFactory, TcpPacket, Session).    *)
THEOREM PacketsCarry == Spec => []RInv
BY InitCarries, StepCarries, PTL DEF Spec

(* A client that deserializes what PacketFactory serialized reads the      *)
(* members of the class as the handler set them, lists to their full       *)
(* length, and no packet is written past its buffer: for every number of   *)
(* players, rows and packets, and every length of text, that fit.          *)
THEOREM ReadAsMeantAlways == Spec => []ReadAsMeant
BY PacketsCarry, RInvReads, PTL
==============================================================================
