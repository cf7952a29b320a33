---------------------------- MODULE FormatProofs ----------------------------
(***************************************************************************)
(* Proofs about Bytecode: reading back what was written.  A table is a     *)
(* count and that many pieces, each piece is read at the position where it *)
(* was written, by induction on the number of items, or the data ends      *)
(* first and the reader refuses.                                           *)
(***************************************************************************)
EXTENDS Bytecode, DataLemmas

(***************************************************************************)
(* s stands in e from position p on.                                       *)
(***************************************************************************)
At(e, p, s) == \A j \in 1 .. Len(s) : p + j \in 1 .. Len(e) /\ e[p + j] = s[j]

UpTo(u, pieces) ==
  u = [n \in 0 .. Len(pieces) |-> IF n = 0 THEN <<>> ELSE u[n - 1] \o pieces[n]]

LEMMA JoinedIsChosen ==
  ASSUME NEW pieces
  PROVE  Joined(pieces) = (CHOOSE u : UpTo(u, pieces))[Len(pieces)]
BY DEF Joined, UpTo

LEMMA UpToExists ==
  ASSUME NEW pieces \in Seq(Seq(Int))
  PROVE  UpTo(CHOOSE u : UpTo(u, pieces), pieces)
<1> DEFINE Body(g, n) == IF n = 0 THEN <<>> ELSE g[n - 1] \o pieces[n]
           N == {n \in Nat : \E g : \A m \in 0 .. n : g[m] = Body(g, m)}
<1>1. 0 \in N
  <2> DEFINE g0 == [m \in Nat |-> <<>>]
  <2>1. \A m \in 0 .. 0 : g0[m] = Body(g0, m)
    OBVIOUS
  <2> HIDE DEF g0
  <2> QED BY <2>1
<1>2. ASSUME NEW n \in N PROVE n + 1 \in N
  <2>1. PICK g : \A m \in 0 .. n : g[m] = Body(g, m)
    OBVIOUS
  <2> DEFINE h == [m \in 0 .. n + 1 |-> IF m <= n THEN g[m] ELSE Body(g, m)]
  <2>2. ASSUME NEW m \in 0 .. n + 1 PROVE h[m] = Body(h, m)
    <3>1. h[m] = Body(g, m)
      BY <2>1
    <3>2. m # 0 => h[m - 1] = g[m - 1]
      BY <1>2
    <3> QED BY <3>1, <3>2
  <2> HIDE DEF h
  <2> QED BY <2>2
<1>3. N = Nat
  <2> HIDE DEF N
  <2>1. N \in SUBSET Nat
    BY DEF N
  <2> QED BY <1>1, <1>2, <2>1, SetInduction
<1>4. PICK g : \A m \in 0 .. Len(pieces) : g[m] = Body(g, m)
  <2>0. Len(pieces) \in Nat
    OBVIOUS
  <2>1. Len(pieces) \in N
    <3> HIDE DEF N
    <3> QED BY <1>3, <2>0
  <2> QED BY <2>1
<1> DEFINE h == [m \in 0 .. Len(pieces) |-> g[m]]
<1>5. \A m \in 0 .. Len(pieces) : h[m] = Body(h, m)
  BY <1>4
<1>6. h = [m \in 0 .. Len(pieces) |-> h[m]]
  OBVIOUS
<1>7. h = [m \in 0 .. Len(pieces) |-> Body(h, m)]
  BY <1>5, <1>6
<1>8. UpTo(h, pieces)
  BY <1>7 DEF UpTo
<1> HIDE DEF h
<1> QED BY <1>8

(***************************************************************************)
(* What is written one piece after the other is found piece by piece.      *)
(***************************************************************************)
Upto(pieces) == CHOOSE u : UpTo(u, pieces)

LEMMA UptoValues ==
  ASSUME NEW pieces \in Seq(Seq(Int))
  PROVE  /\ Joined(pieces) = Upto(pieces)[Len(pieces)]
         /\ Upto(pieces)[0] = <<>>
         /\ \A n \in 1 .. Len(pieces) : Upto(pieces)[n] = Upto(pieces)[n - 1] \o pieces[n]
<1>1. UpTo(Upto(pieces), pieces)
  BY UpToExists DEF Upto
<1>2. Joined(pieces) = Upto(pieces)[Len(pieces)]
  BY JoinedIsChosen DEF Upto
<1>3. Len(pieces) \in Nat
  OBVIOUS
<1> DEFINE u == Upto(pieces)
<1> HIDE DEF u
<1>4. UpTo(u, pieces)
  BY <1>1 DEF u
<1>5. \A n \in 0 .. Len(pieces) : u[n] = IF n = 0 THEN <<>> ELSE u[n - 1] \o pieces[n]
  BY <1>4, Zenon DEF UpTo
<1>6. 0 \in 0 .. Len(pieces) /\ \A n \in 1 .. Len(pieces) : n \in 0 .. Len(pieces) /\ n # 0
  BY <1>3
<1>7. u[0] = <<>>
  BY <1>5, <1>6, Zenon
<1>8. \A n \in 1 .. Len(pieces) : u[n] = u[n - 1] \o pieces[n]
  BY <1>5, <1>6, Zenon
<1> QED BY <1>2, <1>7, <1>8 DEF u

LEMMA UptoType ==
  ASSUME NEW pieces \in Seq(Seq(Int))
  PROVE  \A n \in 0 .. Len(pieces) : Upto(pieces)[n] \in Seq(Int)
<1> DEFINE u == Upto(pieces)
           N == {n \in Nat : n <= Len(pieces) => u[n] \in Seq(Int)}
<1> HIDE DEF u
<1>0. Len(pieces) \in Nat /\ \A n \in 1 .. Len(pieces) : pieces[n] \in Seq(Int)
  OBVIOUS
<1>a. u[0] = <<>> /\ \A n \in 1 .. Len(pieces) : u[n] = u[n - 1] \o pieces[n]
  BY UptoValues DEF u
<1>1. 0 \in N
  <2>1. <<>> \in Seq(Int)
    OBVIOUS
  <2> QED BY <1>a, <2>1
<1>2. ASSUME NEW n \in N PROVE n + 1 \in N
  <2>1. SUFFICES ASSUME n + 1 <= Len(pieces) PROVE u[n + 1] \in Seq(Int)
    OBVIOUS
  <2>2. u[n] \in Seq(Int) /\ pieces[n + 1] \in Seq(Int)
    BY <1>0, <2>1
  <2>3. u[n + 1] = u[n] \o pieces[n + 1]
    <3>1. n + 1 \in 1 .. Len(pieces) /\ (n + 1) - 1 = n
      BY <1>0, <2>1
    <3> QED BY <1>a, <3>1
  <2> QED BY <2>2, <2>3
<1>3. N = Nat
  <2> HIDE DEF N
  <2>1. N \in SUBSET Nat
    BY DEF N
  <2> QED BY <1>1, <1>2, <2>1, SetInduction
<1> QED BY <1>0, <1>3 DEF u

LEMMA AtConcat ==
  ASSUME NEW e \in Seq(Int), NEW p \in Nat, NEW a \in Seq(Int), NEW b \in Seq(Int),
         At(e, p, a \o b)
  PROVE  At(e, p, a) /\ At(e, p + Len(a), b)
<1>1. /\ Len(a \o b) = Len(a) + Len(b)
      /\ \A j \in 1 .. Len(a) : (a \o b)[j] = a[j]
      /\ \A j \in 1 .. Len(b) : (a \o b)[Len(a) + j] = b[j]
  OBVIOUS
<1>2. Len(a) \in Nat /\ Len(b) \in Nat
  OBVIOUS
<1>3. At(e, p, a)
  BY <1>1, <1>2 DEF At
<1>4. ASSUME NEW j \in 1 .. Len(b)
      PROVE  p + Len(a) + j \in 1 .. Len(e) /\ e[p + Len(a) + j] = b[j]
  <2>1. Len(a) + j \in 1 .. Len(a \o b)
    BY <1>1, <1>2
  <2>2. p + (Len(a) + j) = p + Len(a) + j
    BY <1>2
  <2> QED BY <1>1, <2>1, <2>2 DEF At
<1> QED BY <1>3, <1>4 DEF At

LEMMA PieceAt ==
  ASSUME NEW e \in Seq(Int), NEW p \in Nat, NEW pieces \in Seq(Seq(Int)),
         At(e, p, Joined(pieces)), NEW n \in 1 .. Len(pieces)
  PROVE  At(e, p + Len(Upto(pieces)[n - 1]), pieces[n])
<1> DEFINE u == Upto(pieces)
           k == Len(pieces)
           N == {d \in Nat : d <= k => At(e, p, u[k - d])}
<1> HIDE DEF u
<1>0. k \in Nat /\ \A m \in 1 .. k : pieces[m] \in Seq(Int)
  OBVIOUS
<1>a. \A m \in 1 .. k : u[m] = u[m - 1] \o pieces[m]
  BY UptoValues DEF u
<1>b. \A m \in 0 .. k : u[m] \in Seq(Int)
  BY UptoType DEF u
<1>1. 0 \in N
  <2>1. At(e, p, u[k])
    BY UptoValues DEF u
  <2> QED BY <2>1, <1>0
<1>2. ASSUME NEW d \in N PROVE d + 1 \in N
  <2>1. SUFFICES ASSUME d + 1 <= k PROVE At(e, p, u[k - (d + 1)])
    OBVIOUS
  <2>2. /\ At(e, p, u[k - d])
        /\ k - d \in 1 .. k /\ k - (d + 1) \in 0 .. k /\ k - d - 1 = k - (d + 1)
    BY <1>0, <2>1
  <2>3. At(e, p, u[k - (d + 1)] \o pieces[k - d])
    BY <1>a, <2>2
  <2>4. u[k - (d + 1)] \in Seq(Int) /\ pieces[k - d] \in Seq(Int)
    BY <1>0, <1>b, <2>2
  <2> QED BY <2>3, <2>4, AtConcat
<1>3. N = Nat
  <2> HIDE DEF N
  <2>1. N \in SUBSET Nat
    BY DEF N
  <2> QED BY <1>1, <1>2, <2>1, SetInduction
<1>4. At(e, p, u[n])
  <2>1. k - n \in Nat /\ k - (k - n) = n /\ k - n <= k
    BY <1>0
  <2>2. k - n \in N
    <3> HIDE DEF N
    <3> QED BY <1>3, <2>1
  <2> QED BY <2>1, <2>2
<1>5. At(e, p, u[n - 1] \o pieces[n]) /\ n - 1 \in 0 .. k
  <2>1. n - 1 \in 0 .. k
    BY <1>0
  <2>2. u[n] = u[n - 1] \o pieces[n]
    BY <1>a, Zenon
  <2> QED BY <1>4, <2>1, <2>2
<1>6. At(e, p + Len(u[n - 1]), pieces[n])
  BY <1>0, <1>5, <1>b, AtConcat
<1> QED BY <1>6 DEF u

(***************************************************************************)
(* A reader that goes from good[0] to good[1] and so on, or is refused and *)
(* stays so.                                                               *)
(***************************************************************************)
LEMMA Reads ==
  ASSUME NEW count \in Nat, NEW good, NEW a,
         a[0] = good[0],
         \A n \in 1 .. count : /\ a[n - 1] = good[n - 1] => a[n] \in {good[n], Refused}
                               /\ a[n - 1] = Refused => a[n] = Refused
  PROVE  \A n \in 0 .. count : a[n] \in {good[n], Refused}
<1> DEFINE N == {n \in Nat : n <= count => a[n] \in {good[n], Refused}}
<1>1. 0 \in N
  OBVIOUS
<1>2. ASSUME NEW n \in N PROVE n + 1 \in N
  <2>1. SUFFICES ASSUME n + 1 <= count PROVE a[n + 1] \in {good[n + 1], Refused}
    OBVIOUS
  <2>2. n + 1 \in 1 .. count /\ (n + 1) - 1 = n /\ a[n] \in {good[n], Refused}
    BY <2>1
  <2> QED BY <2>2
<1>3. N = Nat
  <2> HIDE DEF N
  <2>1. N \in SUBSET Nat
    BY DEF N
  <2> QED BY <1>1, <1>2, <2>1, SetInduction
<1> QED BY <1>3

(***************************************************************************)
(* What a reader does with one item after the other, as a function.        *)
(***************************************************************************)
Follows(g, first, count, F) ==
  g = [n \in 0 .. count |-> IF n = 0 THEN first ELSE F[g[n - 1]]]

LEMMA FollowsExists ==
  ASSUME NEW count \in Nat, NEW first, NEW F
  PROVE  \E g : Follows(g, first, count, F)
<1> DEFINE Body(g, n) == IF n = 0 THEN first ELSE F[g[n - 1]]
           N == {n \in Nat : \E g : \A m \in 0 .. n : g[m] = Body(g, m)}
<1>1. 0 \in N
  <2> DEFINE g0 == [m \in Nat |-> first]
  <2>1. \A m \in 0 .. 0 : g0[m] = Body(g0, m)
    OBVIOUS
  <2> HIDE DEF g0
  <2> QED BY <2>1
<1>2. ASSUME NEW n \in N PROVE n + 1 \in N
  <2>1. PICK g : \A m \in 0 .. n : g[m] = Body(g, m)
    OBVIOUS
  <2> DEFINE h == [m \in 0 .. n + 1 |-> IF m <= n THEN g[m] ELSE Body(g, m)]
  <2>2. ASSUME NEW m \in 0 .. n + 1 PROVE h[m] = Body(h, m)
    <3>1. h[m] = Body(g, m)
      BY <2>1
    <3>2. m # 0 => h[m - 1] = g[m - 1]
      BY <1>2
    <3> QED BY <3>1, <3>2
  <2> HIDE DEF h
  <2> QED BY <2>2
<1>3. N = Nat
  <2> HIDE DEF N
  <2>1. N \in SUBSET Nat
    BY DEF N
  <2> QED BY <1>1, <1>2, <2>1, SetInduction
<1>4. PICK g : \A m \in 0 .. count : g[m] = Body(g, m)
  <2>1. count \in N
    <3> HIDE DEF N
    <3> QED BY <1>3
  <2> QED BY <2>1
<1> DEFINE h == [m \in 0 .. count |-> g[m]]
<1>5. \A m \in 0 .. count : h[m] = Body(h, m)
  BY <1>4
<1>6. h = [m \in 0 .. count |-> h[m]]
  OBVIOUS
<1>7. h = [m \in 0 .. count |-> Body(h, m)]
  BY <1>5, <1>6
<1>8. Follows(h, first, count, F)
  BY <1>7 DEF Follows
<1> HIDE DEF h
<1> QED BY <1>8

(***************************************************************************)
(* F leads from each good reader to the next one, or refuses for good.     *)
(***************************************************************************)
Leads(F, good, count) ==
  /\ F[Refused] = Refused
  /\ \A n \in 1 .. count : F[good[n - 1]] \in {good[n], Refused}

Seen(good, count) == {good[n] : n \in 0 .. count} \cup {Refused}

LEMMA ReadsThrough ==
  ASSUME NEW count \in Nat, NEW good, NEW F, Leads(F, good, count)
  PROVE  \E g : /\ g = [n \in 0 .. count |-> g[n]]
                /\ g[0] = good[0]
                /\ \A n \in 1 .. count : g[n] = F[g[n - 1]] /\ g[n - 1] \in Seen(good, count)
<1>1. PICK g : Follows(g, good[0], count, F)
  BY FollowsExists, Zenon
<1>2. \A n \in 0 .. count : g[n] = IF n = 0 THEN good[0] ELSE F[g[n - 1]]
  BY <1>1, Zenon DEF Follows
<1>3. g = [n \in 0 .. count |-> g[n]]
  BY <1>1 DEF Follows
<1>4. g[0] = good[0]
  BY <1>2
<1>5. \A n \in 1 .. count : g[n] = F[g[n - 1]]
  BY <1>2
<1>6. \A n \in 0 .. count : g[n] \in {good[n], Refused}
  <2>1. \A n \in 1 .. count : /\ g[n - 1] = good[n - 1] => g[n] \in {good[n], Refused}
                              /\ g[n - 1] = Refused => g[n] = Refused
    BY <1>5 DEF Leads
  <2> QED BY <1>4, <2>1, Reads
<1>7. \A n \in 1 .. count : g[n - 1] \in Seen(good, count)
  BY <1>6 DEF Seen
<1> QED BY <1>3, <1>4, <1>5, <1>7

(***************************************************************************)
(* The three tables.                                                       *)
(***************************************************************************)
Begun(pos) == [ok |-> TRUE, pos |-> pos, got |-> <<>>]

ValuesFrom(g, bytes, trust, count, first) ==
  g = [n \in 0 .. count |-> IF n = 0 THEN first ELSE ReadValue(bytes, trust, g[n - 1])]

FunctionsFrom(g, bytes, trust, count, first) ==
  g = [n \in 0 .. count |-> IF n = 0 THEN first ELSE ReadFunction(bytes, trust, g[n - 1])]

InstructionsFrom(g, bytes, trust, count, first) ==
  g = [n \in 0 .. count |-> IF n = 0 THEN first ELSE ReadInstruction(bytes, trust, g[n - 1])]

LEMMA TablesAreChosen ==
  ASSUME NEW bytes, NEW trust, NEW r, Has(bytes, r, 1)
  PROVE  LET count == bytes[r.pos + 1]
             first == Begun(r.pos + 1)
         IN  /\ ReadTable(bytes, trust, r, ReadValue)
                  = (CHOOSE g : ValuesFrom(g, bytes, trust, count, first))[count]
             /\ ReadTable(bytes, trust, r, ReadFunction)
                  = (CHOOSE g : FunctionsFrom(g, bytes, trust, count, first))[count]
             /\ ReadTable(bytes, trust, r, ReadInstruction)
                  = (CHOOSE g : InstructionsFrom(g, bytes, trust, count, first))[count]
BY DEF ReadTable, ValuesFrom, FunctionsFrom, InstructionsFrom, Begun

LEMMA RefusedStays ==
  ASSUME NEW bytes, NEW trust, NEW r, r.ok = FALSE
  PROVE  /\ ReadValue(bytes, trust, r) = Refused
         /\ ReadFunction(bytes, trust, r) = Refused
         /\ ReadInstruction(bytes, trust, r) = Refused
         /\ ReadTable(bytes, trust, r, ReadValue) = Refused
         /\ ReadTable(bytes, trust, r, ReadFunction) = Refused
         /\ ReadTable(bytes, trust, r, ReadInstruction) = Refused
BY DEF ReadValue, ReadFunction, ReadInstruction, ReadTable, Has

LeadsValues(bytes, trust, good, count) ==
  \A n \in 1 .. count : ReadValue(bytes, trust, good[n - 1]) \in {good[n], Refused}

LEMMA ValuesRead ==
  ASSUME NEW bytes, NEW trust, NEW count \in Nat, NEW good,
         LeadsValues(bytes, trust, good, count)
  PROVE  (CHOOSE g : ValuesFrom(g, bytes, trust, count, good[0]))[count]
           \in {good[count], Refused}
<1> DEFINE D == Seen(good, count)
           F == [x \in D |-> ReadValue(bytes, trust, x)]
<1>0. ReadValue(bytes, trust, Refused) = Refused
  BY RefusedStays DEF Refused
<1>1. Leads(F, good, count)
  <2>1. Refused \in D /\ \A n \in 1 .. count : good[n - 1] \in D
    BY DEF Seen
  <2> QED BY <1>0, <2>1 DEF Leads, LeadsValues
<1>2. PICK g : /\ g = [n \in 0 .. count |-> g[n]]
               /\ g[0] = good[0]
               /\ \A n \in 1 .. count : g[n] = F[g[n - 1]] /\ g[n - 1] \in D
  BY <1>1, ReadsThrough
<1>3. ValuesFrom(g, bytes, trust, count, good[0])
  <2>0. ASSUME NEW n \in 0 .. count, n # 0 PROVE g[n] = ReadValue(bytes, trust, g[n - 1])
    <3> HIDE DEF D
    <3>1. n \in 1 .. count
      BY <2>0
    <3> QED BY <1>2, <3>1
  <2>1. \A n \in 0 .. count : g[n] = IF n = 0 THEN good[0] ELSE ReadValue(bytes, trust, g[n - 1])
    BY <1>2, <2>0
  <2> QED BY <1>2, <2>1 DEF ValuesFrom
<1> DEFINE a == CHOOSE x : ValuesFrom(x, bytes, trust, count, good[0])
<1>4. ValuesFrom(a, bytes, trust, count, good[0])
  BY <1>3
<1> HIDE DEF a
<1>5. \A n \in 0 .. count : a[n] = IF n = 0 THEN good[0] ELSE ReadValue(bytes, trust, a[n - 1])
  BY <1>4, Zenon DEF ValuesFrom
<1>6. a[0] = good[0] /\ \A n \in 1 .. count : a[n] = ReadValue(bytes, trust, a[n - 1])
  BY <1>5
<1>7. \A n \in 1 .. count : /\ a[n - 1] = good[n - 1] => a[n] \in {good[n], Refused}
                            /\ a[n - 1] = Refused => a[n] = Refused
  BY <1>0, <1>6 DEF LeadsValues
<1>8. a[count] \in {good[count], Refused}
  BY <1>6, <1>7, Reads
<1> QED BY <1>8 DEF a

LeadsFunctions(bytes, trust, good, count) ==
  \A n \in 1 .. count : ReadFunction(bytes, trust, good[n - 1]) \in {good[n], Refused}

LEMMA FunctionsRead ==
  ASSUME NEW bytes, NEW trust, NEW count \in Nat, NEW good,
         LeadsFunctions(bytes, trust, good, count)
  PROVE  (CHOOSE g : FunctionsFrom(g, bytes, trust, count, good[0]))[count]
           \in {good[count], Refused}
<1> DEFINE D == Seen(good, count)
           F == [x \in D |-> ReadFunction(bytes, trust, x)]
<1>0. ReadFunction(bytes, trust, Refused) = Refused
  BY RefusedStays DEF Refused
<1>1. Leads(F, good, count)
  <2>1. Refused \in D /\ \A n \in 1 .. count : good[n - 1] \in D
    BY DEF Seen
  <2> QED BY <1>0, <2>1 DEF Leads, LeadsFunctions
<1>2. PICK g : /\ g = [n \in 0 .. count |-> g[n]]
               /\ g[0] = good[0]
               /\ \A n \in 1 .. count : g[n] = F[g[n - 1]] /\ g[n - 1] \in D
  BY <1>1, ReadsThrough
<1>3. FunctionsFrom(g, bytes, trust, count, good[0])
  <2>0. ASSUME NEW n \in 0 .. count, n # 0 PROVE g[n] = ReadFunction(bytes, trust, g[n - 1])
    <3> HIDE DEF D
    <3>1. n \in 1 .. count
      BY <2>0
    <3> QED BY <1>2, <3>1
  <2>1. \A n \in 0 .. count : g[n] = IF n = 0 THEN good[0] ELSE ReadFunction(bytes, trust, g[n - 1])
    BY <1>2, <2>0
  <2> QED BY <1>2, <2>1 DEF FunctionsFrom
<1> DEFINE a == CHOOSE x : FunctionsFrom(x, bytes, trust, count, good[0])
<1>4. FunctionsFrom(a, bytes, trust, count, good[0])
  BY <1>3
<1> HIDE DEF a
<1>5. \A n \in 0 .. count : a[n] = IF n = 0 THEN good[0] ELSE ReadFunction(bytes, trust, a[n - 1])
  BY <1>4, Zenon DEF FunctionsFrom
<1>6. a[0] = good[0] /\ \A n \in 1 .. count : a[n] = ReadFunction(bytes, trust, a[n - 1])
  BY <1>5
<1>7. \A n \in 1 .. count : /\ a[n - 1] = good[n - 1] => a[n] \in {good[n], Refused}
                            /\ a[n - 1] = Refused => a[n] = Refused
  BY <1>0, <1>6 DEF LeadsFunctions
<1>8. a[count] \in {good[count], Refused}
  BY <1>6, <1>7, Reads
<1> QED BY <1>8 DEF a

LeadsInstructions(bytes, trust, good, count) ==
  \A n \in 1 .. count : ReadInstruction(bytes, trust, good[n - 1]) \in {good[n], Refused}

LEMMA InstructionsRead ==
  ASSUME NEW bytes, NEW trust, NEW count \in Nat, NEW good,
         LeadsInstructions(bytes, trust, good, count)
  PROVE  (CHOOSE g : InstructionsFrom(g, bytes, trust, count, good[0]))[count]
           \in {good[count], Refused}
<1> DEFINE D == Seen(good, count)
           F == [x \in D |-> ReadInstruction(bytes, trust, x)]
<1>0. ReadInstruction(bytes, trust, Refused) = Refused
  BY RefusedStays DEF Refused
<1>1. Leads(F, good, count)
  <2>1. Refused \in D /\ \A n \in 1 .. count : good[n - 1] \in D
    BY DEF Seen
  <2> QED BY <1>0, <2>1 DEF Leads, LeadsInstructions
<1>2. PICK g : /\ g = [n \in 0 .. count |-> g[n]]
               /\ g[0] = good[0]
               /\ \A n \in 1 .. count : g[n] = F[g[n - 1]] /\ g[n - 1] \in D
  BY <1>1, ReadsThrough
<1>3. InstructionsFrom(g, bytes, trust, count, good[0])
  <2>0. ASSUME NEW n \in 0 .. count, n # 0 PROVE g[n] = ReadInstruction(bytes, trust, g[n - 1])
    <3> HIDE DEF D
    <3>1. n \in 1 .. count
      BY <2>0
    <3> QED BY <1>2, <3>1
  <2>1. \A n \in 0 .. count : g[n] = IF n = 0 THEN good[0] ELSE ReadInstruction(bytes, trust, g[n - 1])
    BY <1>2, <2>0
  <2> QED BY <1>2, <2>1 DEF InstructionsFrom
<1> DEFINE a == CHOOSE x : InstructionsFrom(x, bytes, trust, count, good[0])
<1>4. InstructionsFrom(a, bytes, trust, count, good[0])
  BY <1>3
<1> HIDE DEF a
<1>5. \A n \in 0 .. count : a[n] = IF n = 0 THEN good[0] ELSE ReadInstruction(bytes, trust, a[n - 1])
  BY <1>4, Zenon DEF InstructionsFrom
<1>6. a[0] = good[0] /\ \A n \in 1 .. count : a[n] = ReadInstruction(bytes, trust, a[n - 1])
  BY <1>5
<1>7. \A n \in 1 .. count : /\ a[n - 1] = good[n - 1] => a[n] \in {good[n], Refused}
                            /\ a[n - 1] = Refused => a[n] = Refused
  BY <1>0, <1>6 DEF LeadsInstructions
<1>8. a[count] \in {good[count], Refused}
  BY <1>6, <1>7, Reads
<1> QED BY <1>8 DEF a

(***************************************************************************)
(* A tag and an opcode are read back as what they were written for.        *)
(***************************************************************************)
LEMMA TagsBack ==
  ASSUME NEW k \in Range(Kinds)
  PROVE  TagOf(k) \in 0 .. Len(Kinds) - 1 /\ KindOf(TagOf(k)) = k
<1>1. DOMAIN Kinds = 1 .. Len(Kinds) /\ Len(Kinds) \in Nat
  BY DEF Kinds
<1>2. PICK i \in DOMAIN Kinds : Kinds[i] = k
  BY DEF Range
<1> DEFINE c == CHOOSE j \in DOMAIN Kinds : Kinds[j] = k
<1>3. c \in DOMAIN Kinds /\ Kinds[c] = k
  BY <1>2
<1> HIDE DEF c
<1>4. TagOf(k) = c - 1
  BY DEF TagOf, c
<1>5. TagOf(k) \in 0 .. Len(Kinds) - 1 /\ TagOf(k) + 1 = c
  BY <1>1, <1>3, <1>4
<1> QED BY <1>3, <1>5 DEF KindOf

LEMMA OpcodesBack ==
  ASSUME NEW op \in Range(Opcodes)
  PROVE  AsU8(op) \in DOMAIN Opcodes /\ AsU8(op) \in Int /\ FromU8(AsU8(op)) = op
<1>1. DOMAIN Opcodes \subseteq Int
  BY DEF Opcodes
<1>2. PICK i \in DOMAIN Opcodes : Opcodes[i] = op
  BY DEF Range
<1>3. AsU8(op) \in DOMAIN Opcodes /\ Opcodes[AsU8(op)] = op
  BY <1>2 DEF AsU8
<1> QED BY <1>1, <1>3 DEF FromU8

Instructions == [op : Range(Opcodes), a : Int, b : Int, c : Int, imm : Int]

FunctionDefs == [entry : Int, arity : Int, regs : Int]

Constants == {c \in [k : Range(Kinds), n : Int] : ConstantOK(c)}

(***************************************************************************)
(* b is what is left of e when the rest of it was not written.             *)
(***************************************************************************)
Cut(b, e) ==
  /\ Len(b) \in Nat
  /\ Len(b) <= Len(e)
  /\ \A i \in 1 .. Len(b) : b[i] = e[i]

LEMMA ValueBack ==
  ASSUME NEW e \in Seq(Int), NEW b, Cut(b, e), NEW trust, NEW c \in Constants,
         NEW p \in Nat, NEW got, At(e, p, WriteValue(c))
  PROVE  LET r == [ok |-> TRUE, pos |-> p, got |-> got]
         IN  ReadValue(b, trust, r) \in {Push(r, Len(WriteValue(c)), c), Refused}
<1> DEFINE r == [ok |-> TRUE, pos |-> p, got |-> got]
           tag == b[p + 1]
<1>1. c.k \in Range(Kinds) /\ c.n \in Int /\ c = Constant(c.k, c.n) /\ (c.k = "unit" => c.n = 0)
  BY DEF Constants, Constant, ConstantOK
<1>2. TagOf(c.k) \in 0 .. Len(Kinds) - 1 /\ KindOf(TagOf(c.k)) = c.k
  BY <1>1, TagsBack
<1>3. SUFFICES ASSUME ReadValue(b, trust, r) # Refused
               PROVE  ReadValue(b, trust, r) = Push(r, Len(WriteValue(c)), c)
  OBVIOUS
<1>4. Len(b) >= p + 1
  BY <1>3 DEF ReadValue, Has, Cut
<1>5. tag = TagOf(c.k)
  <2>1. Len(WriteValue(c)) >= 1 /\ WriteValue(c)[1] = TagOf(c.k)
    BY DEF WriteValue
  <2>2. 1 \in 1 .. Len(WriteValue(c))
    BY DEF WriteValue
  <2>3. e[p + 1] = TagOf(c.k)
    BY <2>1, <2>2 DEF At
  <2> QED BY <2>3, <1>4 DEF Cut
<1>6. CASE c.k = "unit"
  <2>1. Len(WriteValue(c)) = 1
    BY <1>6 DEF WriteValue
  <2>2. ReadValue(b, trust, r) = Push(r, 1, Constant("unit", 0))
    BY <1>2, <1>3, <1>5, <1>6 DEF ReadValue
  <2> QED BY <1>1, <1>6, <2>1, <2>2
<1>7. CASE c.k # "unit"
  <2>1. WriteValue(c) = << TagOf(c.k), c.n >>
    BY <1>7 DEF WriteValue
  <2>2. Len(WriteValue(c)) = 2 /\ WriteValue(c)[2] = c.n /\ 2 \in 1 .. Len(WriteValue(c))
    BY <2>1
  <2>3. ReadValue(b, trust, r) = Push(r, 2, Constant(KindOf(tag), b[r.pos + 2])) /\ Has(b, r, 2)
    BY <1>2, <1>3, <1>5, <1>7 DEF ReadValue
  <2>4. Len(b) >= p + 2
    BY <2>3 DEF Has, Cut
  <2>5. b[p + 2] = c.n
    <3>1. e[p + 2] = c.n
      BY <2>2 DEF At
    <3> QED BY <3>1, <2>4 DEF Cut
  <2> QED BY <1>1, <1>2, <1>5, <2>2, <2>3, <2>5
<1> QED BY <1>6, <1>7

LEMMA FunctionBack ==
  ASSUME NEW e \in Seq(Int), NEW b, Cut(b, e), NEW trust, NEW f \in FunctionDefs,
         NEW p \in Nat, NEW got, At(e, p, WriteFunction(f))
  PROVE  LET r == [ok |-> TRUE, pos |-> p, got |-> got]
         IN  ReadFunction(b, trust, r) \in {Push(r, Len(WriteFunction(f)), f), Refused}
<1> DEFINE r == [ok |-> TRUE, pos |-> p, got |-> got]
           w == WriteFunction(f)
<1>1. SUFFICES ASSUME Has(b, r, 3)
               PROVE  ReadFunction(b, trust, r) = Push(r, Len(w), f)
  BY DEF ReadFunction
<1>2. Len(w) = 3 /\ w[1] = f.entry /\ w[2] = f.arity /\ w[3] = f.regs
  BY DEF WriteFunction
<1>3. Len(b) >= p + 3
  BY <1>1 DEF Has, Cut
<1>4. ASSUME NEW j \in 1 .. 3 PROVE b[p + j] = w[j]
  <2>1. e[p + j] = w[j]
    BY <1>2 DEF At
  <2> QED BY <2>1, <1>3 DEF Cut
<1>5. b[p + 1] = f.entry /\ b[p + 2] = f.arity /\ b[p + 3] = f.regs
  BY <1>2, <1>4
<1>6. ReadFunction(b, trust, r)
        = Push(r, 3, [entry |-> f.entry, arity |-> f.arity, regs |-> f.regs])
  BY <1>1, <1>5 DEF ReadFunction
<1>7. f = [entry |-> f.entry, arity |-> f.arity, regs |-> f.regs]
  BY DEF FunctionDefs
<1> QED BY <1>2, <1>6, <1>7

LEMMA InstructionBack ==
  ASSUME NEW e \in Seq(Int), NEW b, Cut(b, e), NEW trust, NEW i \in Instructions,
         NEW p \in Nat, NEW got, At(e, p, WriteInstruction(i))
  PROVE  LET r == [ok |-> TRUE, pos |-> p, got |-> got]
         IN  ReadInstruction(b, trust, r) \in {Push(r, Len(WriteInstruction(i)), i), Refused}
<1> DEFINE r == [ok |-> TRUE, pos |-> p, got |-> got]
           w == WriteInstruction(i)
<1>1. SUFFICES ASSUME Has(b, r, 5)
               PROVE  ReadInstruction(b, trust, r) = Push(r, Len(w), i)
  BY DEF ReadInstruction
<1>2. Len(w) = 5 /\ w[1] = AsU8(i.op) /\ w[2] = i.a /\ w[3] = i.b /\ w[4] = i.c /\ w[5] = i.imm
  BY DEF WriteInstruction
<1>3. Len(b) >= p + 5
  BY <1>1 DEF Has, Cut
<1>4. ASSUME NEW j \in 1 .. 5 PROVE b[p + j] = w[j]
  <2>1. e[p + j] = w[j]
    BY <1>2 DEF At
  <2> QED BY <2>1, <1>3 DEF Cut
<1>5. /\ b[p + 1] = AsU8(i.op) /\ b[p + 2] = i.a /\ b[p + 3] = i.b
      /\ b[p + 4] = i.c /\ b[p + 5] = i.imm
  BY <1>2, <1>4
<1>6. AsU8(i.op) \in DOMAIN Opcodes /\ FromU8(AsU8(i.op)) = i.op
  BY OpcodesBack DEF Instructions
<1>7. ReadInstruction(b, trust, r) = Push(r, 5, Instruction(i.op, i.a, i.b, i.c, i.imm))
  BY <1>1, <1>5, <1>6 DEF ReadInstruction
<1>8. i = Instruction(i.op, i.a, i.b, i.c, i.imm)
  BY DEF Instructions, Instruction
<1> QED BY <1>2, <1>7, <1>8

(***************************************************************************)
(* What has been read so far, and the next item.                           *)
(***************************************************************************)
LEMMA OneMoreRead ==
  ASSUME NEW S, NEW items \in Seq(S), NEW n \in 1 .. Len(items)
  PROVE  Append(SubSeq(items, 1, n - 1), items[n]) = SubSeq(items, 1, n)
<1> DEFINE a == SubSeq(items, 1, n - 1)
           c == SubSeq(items, 1, n)
<1>0. Len(items) \in Nat
  OBVIOUS
<1>1. a \in Seq(S) /\ Len(a) = n - 1 /\ \A i \in 1 .. n - 1 : a[i] = items[i]
  BY <1>0
<1>2. c \in Seq(S) /\ Len(c) = n /\ \A i \in 1 .. n : c[i] = items[i]
  BY <1>0
<1> HIDE DEF a, c
<1>3. /\ Append(a, items[n]) \in Seq(S)
      /\ Len(Append(a, items[n])) = n
      /\ \A i \in 1 .. n : Append(a, items[n])[i] = items[i]
  BY <1>0, <1>1
<1>4. Append(a, items[n]) = c
  BY <1>2, <1>3, SeqEqual
<1> QED BY <1>4 DEF a, c

LEMMA UptoLength ==
  ASSUME NEW pieces \in Seq(Seq(Int))
  PROVE  /\ Len(Upto(pieces)[0]) = 0
         /\ \A n \in 0 .. Len(pieces) : Len(Upto(pieces)[n]) \in Nat
         /\ \A n \in 1 .. Len(pieces) :
              Len(Upto(pieces)[n]) = Len(Upto(pieces)[n - 1]) + Len(pieces[n])
<1> DEFINE u == Upto(pieces)
<1> HIDE DEF u
<1>1. \A n \in 0 .. Len(pieces) : u[n] \in Seq(Int)
  BY UptoType DEF u
<1>2. u[0] = <<>> /\ \A n \in 1 .. Len(pieces) : u[n] = u[n - 1] \o pieces[n]
  BY UptoValues DEF u
<1>3. ASSUME NEW n \in 1 .. Len(pieces) PROVE Len(u[n]) = Len(u[n - 1]) + Len(pieces[n])
  <2>1. n - 1 \in 0 .. Len(pieces) /\ pieces[n] \in Seq(Int)
    OBVIOUS
  <2>2. u[n - 1] \in Seq(Int) /\ u[n] = u[n - 1] \o pieces[n]
    BY <1>1, <1>2, <2>1, Zenon
  <2> QED BY <2>1, <2>2
<1>4. Len(u[0]) = 0
  BY <1>2
<1>5. \A n \in 0 .. Len(pieces) : Len(u[n]) \in Nat
  BY <1>1
<1> QED BY <1>3, <1>4, <1>5 DEF u

(***************************************************************************)
(* The reader after each item of a table that begins at p.                 *)
(***************************************************************************)
Written(items, pieces) == << Len(items) >> \o Joined(pieces)

PosAfter(pieces, p, n) == p + 1 + Len(Upto(pieces)[n])

Good(items, pieces, p) ==
  [n \in 0 .. Len(items) |->
     [ok |-> TRUE, pos |-> PosAfter(pieces, p, n), got |-> SubSeq(items, 1, n)]]

LEMMA TableWritten ==
  ASSUME NEW S, NEW items \in Seq(S), NEW pieces \in Seq(Seq(Int)), Len(pieces) = Len(items)
  PROVE  /\ Written(items, pieces) \in Seq(Int)
         /\ << Len(items) >> \in Seq(Int)
         /\ Joined(pieces) \in Seq(Int)
         /\ Len(Written(items, pieces)) = 1 + Len(Upto(pieces)[Len(items)])
<1>0. Len(items) \in Nat
  OBVIOUS
<1>1. Joined(pieces) = Upto(pieces)[Len(items)]
  BY UptoValues
<1>2. Joined(pieces) \in Seq(Int)
  <2>1. Len(items) \in 0 .. Len(pieces)
    BY <1>0
  <2> QED BY <1>1, <2>1, UptoType
<1>3. << Len(items) >> \in Seq(Int) /\ Len(<< Len(items) >>) = 1
  BY <1>0
<1>4. /\ Written(items, pieces) \in Seq(Int)
      /\ Len(Written(items, pieces)) = 1 + Len(Joined(pieces))
  BY <1>2, <1>3 DEF Written
<1> QED BY <1>1, <1>2, <1>3, <1>4

LEMMA GoodReaders ==
  ASSUME NEW S, NEW items \in Seq(S), NEW pieces \in Seq(Seq(Int)), Len(pieces) = Len(items),
         NEW e \in Seq(Int), NEW p \in Nat, At(e, p, Written(items, pieces))
  PROVE  /\ Good(items, pieces, p)[0] = Begun(p + 1)
         /\ Good(items, pieces, p)[Len(items)]
              = [ok |-> TRUE, pos |-> p + Len(Written(items, pieces)), got |-> items]
         /\ e[p + 1] = Len(items)
         /\ \A n \in 1 .. Len(items) :
              /\ PosAfter(pieces, p, n - 1) \in Nat
              /\ At(e, PosAfter(pieces, p, n - 1), pieces[n])
              /\ Good(items, pieces, p)[n - 1]
                   = [ok |-> TRUE, pos |-> PosAfter(pieces, p, n - 1),
                      got |-> SubSeq(items, 1, n - 1)]
              /\ Push(Good(items, pieces, p)[n - 1], Len(pieces[n]), items[n])
                   = Good(items, pieces, p)[n]
<1> DEFINE len == [n \in 0 .. Len(items) |-> Len(Upto(pieces)[n])]
           count == Len(items)
           good == Good(items, pieces, p)
<1>0. count \in Nat
  OBVIOUS
<1>1. /\ len[0] = 0
      /\ \A n \in 0 .. count : len[n] \in Nat
      /\ \A n \in 1 .. count : len[n] = len[n - 1] + Len(pieces[n])
  <2>1. \A n \in 0 .. count : len[n] = Len(Upto(pieces)[n])
    OBVIOUS
  <2>2. 0 \in 0 .. count /\ \A n \in 1 .. count : n \in 0 .. count /\ n - 1 \in 0 .. count
    BY <1>0
  <2> HIDE DEF len
  <2> QED BY <2>1, <2>2, UptoLength
<1>2. Len(Written(items, pieces)) = 1 + len[count]
  BY <1>0, TableWritten
<1>3. \A n \in 0 .. count : PosAfter(pieces, p, n) = p + 1 + len[n]
  BY DEF PosAfter
<1>4. At(e, p, << count >>) /\ At(e, p + 1, Joined(pieces))
  <2>1. /\ << count >> \in Seq(Int) /\ Joined(pieces) \in Seq(Int)
        /\ Len(<< count >>) = 1
        /\ At(e, p, << count >> \o Joined(pieces))
    BY TableWritten DEF Written
  <2> HIDE DEF count
  <2> QED BY <2>1, AtConcat
<1>5. e[p + 1] = count
  <2>1. Len(<< count >>) = 1 /\ << count >>[1] = count
    OBVIOUS
  <2> HIDE DEF count
  <2> QED BY <1>4, <2>1 DEF At
<1> HIDE DEF len
<1>6. ASSUME NEW n \in 1 .. count
      PROVE  /\ PosAfter(pieces, p, n - 1) \in Nat
             /\ At(e, PosAfter(pieces, p, n - 1), pieces[n])
  <2>1. n - 1 \in 0 .. count /\ n \in 1 .. Len(pieces) /\ p + 1 \in Nat
    BY <1>0
  <2>2. PosAfter(pieces, p, n - 1) = (p + 1) + Len(Upto(pieces)[n - 1])
    BY DEF PosAfter
  <2>3. PosAfter(pieces, p, n - 1) \in Nat
    <3>1. len[n - 1] \in Nat /\ PosAfter(pieces, p, n - 1) = p + 1 + len[n - 1]
      BY <1>1, <1>3, <2>1, Zenon
    <3> QED BY <3>1
  <2> QED BY <1>4, <2>1, <2>2, <2>3, PieceAt
<1>7. ASSUME NEW n \in 0 .. count
      PROVE  good[n] = [ok |-> TRUE, pos |-> PosAfter(pieces, p, n), got |-> SubSeq(items, 1, n)]
  BY DEF Good
<1> HIDE DEF good
<1>8. ASSUME NEW n \in 1 .. count
      PROVE  /\ good[n - 1] = [ok |-> TRUE, pos |-> PosAfter(pieces, p, n - 1),
                               got |-> SubSeq(items, 1, n - 1)]
             /\ Push(good[n - 1], Len(pieces[n]), items[n]) = good[n]
  <2>1. n - 1 \in 0 .. count /\ n \in 0 .. count
    BY <1>0
  <2>2. PosAfter(pieces, p, n) = PosAfter(pieces, p, n - 1) + Len(pieces[n])
    <3>1. Len(pieces[n]) \in Nat
      OBVIOUS
    <3>2. len[n] = len[n - 1] + Len(pieces[n]) /\ len[n - 1] \in Nat /\ len[n] \in Nat
      BY <1>1, <2>1
    <3>3. PosAfter(pieces, p, n) = p + 1 + len[n] /\ PosAfter(pieces, p, n - 1) = p + 1 + len[n - 1]
      BY <1>3, <2>1
    <3> QED BY <3>1, <3>2, <3>3
  <2>3. Append(SubSeq(items, 1, n - 1), items[n]) = SubSeq(items, 1, n)
    BY OneMoreRead
  <2>4. good[n - 1] = [ok |-> TRUE, pos |-> PosAfter(pieces, p, n - 1),
                       got |-> SubSeq(items, 1, n - 1)]
    BY <1>7, <2>1, Zenon
  <2>5. good[n] = [ok |-> TRUE, pos |-> PosAfter(pieces, p, n), got |-> SubSeq(items, 1, n)]
    BY <1>7, <2>1, Zenon
  <2>6. Push(good[n - 1], Len(pieces[n]), items[n])
          = [ok |-> TRUE, pos |-> good[n - 1].pos + Len(pieces[n]),
             got |-> Append(good[n - 1].got, items[n])]
    BY DEF Push
  <2>7. good[n - 1].pos = PosAfter(pieces, p, n - 1) /\ good[n - 1].got = SubSeq(items, 1, n - 1)
    BY <2>4
  <2>8. Push(good[n - 1], Len(pieces[n]), items[n]) = good[n]
    BY <2>2, <2>3, <2>5, <2>6, <2>7, Zenon
  <2> QED BY <2>4, <2>8
<1>9. good[0] = Begun(p + 1)
  <2>1. SubSeq(items, 1, 0) = <<>>
    OBVIOUS
  <2>2. 0 \in 0 .. count
    BY <1>0
  <2>3. PosAfter(pieces, p, 0) = p + 1
    BY <1>1, <1>3, <2>2
  <2>4. good[0] = [ok |-> TRUE, pos |-> PosAfter(pieces, p, 0), got |-> SubSeq(items, 1, 0)]
    BY <1>7, <2>2, Zenon
  <2> QED BY <2>1, <2>3, <2>4, Zenon DEF Begun
<1>10. good[count] = [ok |-> TRUE, pos |-> p + Len(Written(items, pieces)), got |-> items]
  <2>1. SubSeq(items, 1, count) = items
    BY SubSeqFull
  <2>2. count \in 0 .. count
    BY <1>0
  <2>3. PosAfter(pieces, p, count) = p + Len(Written(items, pieces))
    <3>1. len[count] \in Nat /\ PosAfter(pieces, p, count) = p + 1 + len[count]
      BY <1>1, <1>3, <2>2, Zenon
    <3> DEFINE w == Len(Written(items, pieces))
               l == len[count]
    <3>2. w = 1 + l /\ l \in Nat /\ PosAfter(pieces, p, count) = p + 1 + l
      BY <1>2, <3>1, Zenon
    <3> HIDE DEF w, l
    <3>3. PosAfter(pieces, p, count) = p + w
      BY <3>2
    <3> QED BY <3>3 DEF w
  <2>4. good[count] = [ok |-> TRUE, pos |-> PosAfter(pieces, p, count),
                       got |-> SubSeq(items, 1, count)]
    BY <1>7, <2>2, Zenon
  <2> QED BY <2>1, <2>3, <2>4, Zenon
<1> QED BY <1>5, <1>6, <1>8, <1>9, <1>10, Zenon DEF good

(***************************************************************************)
(* A table is read back, or the reader is refused.                         *)
(***************************************************************************)
ConstPieces(items) == [n \in DOMAIN items |-> WriteValue(items[n])]

LEMMA ConstTableWritten ==
  ASSUME NEW items \in Seq(Constants)
  PROVE  /\ ConstPieces(items) \in Seq(Seq(Int))
         /\ Len(ConstPieces(items)) = Len(items)
         /\ \A n \in 1 .. Len(items) : ConstPieces(items)[n] = WriteValue(items[n])
         /\ Table(items, WriteValue) = Written(items, ConstPieces(items))
<1> DEFINE ps == ConstPieces(items)
<1>0. DOMAIN items = 1 .. Len(items) /\ Len(items) \in Nat
  OBVIOUS
<1>1. ASSUME NEW n \in 1 .. Len(items) PROVE WriteValue(items[n]) \in Seq(Int)
  <2>1. items[n] \in Constants
    OBVIOUS
  <2>2. items[n].n \in Int /\ TagOf(items[n].k) \in Int
    BY <2>1, TagsBack DEF Constants
  <2> QED BY <2>2 DEF WriteValue
<1>2. ps = [n \in 1 .. Len(items) |-> WriteValue(items[n])]
  BY <1>0 DEF ConstPieces
<1>3. \A n \in 1 .. Len(items) : ps[n] = WriteValue(items[n]) /\ ps[n] \in Seq(Int)
  BY <1>1, <1>2
<1>4. Table(items, WriteValue) = Written(items, ps)
  BY DEF Table, Written, ConstPieces
<1> HIDE DEF ps
<1>5. ps \in [1 .. Len(items) -> Seq(Int)]
  BY <1>2, <1>3
<1>6. ps \in Seq(Seq(Int))
  BY <1>5, <1>0
<1>7. Len(ps) = Len(items)
  BY <1>2, <1>0
<1> QED BY <1>3, <1>4, <1>6, <1>7 DEF ps

LEMMA ConstTableBack ==
  ASSUME NEW e \in Seq(Int), NEW b, Cut(b, e), NEW trust, NEW items \in Seq(Constants),
         NEW p \in Nat, At(e, p, Written(items, ConstPieces(items))),
         NEW r, r.ok = TRUE, r.pos = p
  PROVE  ReadTable(b, trust, r, ReadValue)
           \in {[ok |-> TRUE, pos |-> p + Len(Written(items, ConstPieces(items))), got |-> items],
                Refused}
<1> DEFINE ps == ConstPieces(items)
           count == Len(items)
           good == Good(items, ps, p)
           all == [ok |-> TRUE, pos |-> p + Len(Written(items, ps)), got |-> items]
<1>1. SUFFICES ASSUME Has(b, r, 1)
               PROVE  ReadTable(b, trust, r, ReadValue) \in {all, Refused}
  BY DEF ReadTable
<1>2. /\ ps \in Seq(Seq(Int)) /\ Len(ps) = count
      /\ \A n \in 1 .. count : ps[n] = WriteValue(items[n])
  BY ConstTableWritten
<1>3. /\ good[0] = Begun(p + 1) /\ good[count] = all /\ e[p + 1] = count
      /\ \A n \in 1 .. count :
           /\ PosAfter(ps, p, n - 1) \in Nat
           /\ At(e, PosAfter(ps, p, n - 1), ps[n])
           /\ good[n - 1] = [ok |-> TRUE, pos |-> PosAfter(ps, p, n - 1),
                             got |-> SubSeq(items, 1, n - 1)]
           /\ Push(good[n - 1], Len(ps[n]), items[n]) = good[n]
  <2> HIDE DEF ps
  <2>1. At(e, p, Written(items, ps))
    BY DEF ps
  <2> QED BY <1>2, <2>1, GoodReaders
<1>4. count \in Nat /\ \A n \in 1 .. count : items[n] \in Constants
  OBVIOUS
<1> HIDE DEF ps, good, count, all
<1>5. b[p + 1] = count
  <2>1. Len(b) \in Nat /\ Len(b) >= p + 1
    BY <1>1 DEF Has, Cut
  <2>2. p + 1 \in 1 .. Len(b)
    BY <2>1
  <2> QED BY <1>3, <2>2 DEF Cut
<1>6. LeadsValues(b, trust, good, count)
  <2>1. SUFFICES ASSUME NEW n \in 1 .. count
                 PROVE  ReadValue(b, trust, good[n - 1]) \in {good[n], Refused}
    BY DEF LeadsValues
  <2> DEFINE q == PosAfter(ps, p, n - 1)
             got == SubSeq(items, 1, n - 1)
  <2>2. /\ q \in Nat /\ At(e, q, WriteValue(items[n])) /\ items[n] \in Constants
        /\ good[n - 1] = [ok |-> TRUE, pos |-> q, got |-> got]
        /\ Push(good[n - 1], Len(WriteValue(items[n])), items[n]) = good[n]
    BY <1>2, <1>3, <1>4, Zenon
  <2> HIDE DEF q, got
  <2>3. ReadValue(b, trust, [ok |-> TRUE, pos |-> q, got |-> got])
          \in {Push([ok |-> TRUE, pos |-> q, got |-> got], Len(WriteValue(items[n])), items[n]), Refused}
    BY <2>2, ValueBack
  <2> QED BY <2>2, <2>3, Zenon
<1>7. ReadTable(b, trust, r, ReadValue) = (CHOOSE g : ValuesFrom(g, b, trust, count, good[0]))[count]
  <2>1. ReadTable(b, trust, r, ReadValue)
          = (CHOOSE g : ValuesFrom(g, b, trust, b[r.pos + 1], Begun(r.pos + 1)))[b[r.pos + 1]]
    BY <1>1, TablesAreChosen
  <2>2. b[r.pos + 1] = count /\ Begun(r.pos + 1) = good[0]
    BY <1>3, <1>5, Zenon
  <2> QED BY <2>1, <2>2, Zenon
<1>8. (CHOOSE g : ValuesFrom(g, b, trust, count, good[0]))[count] \in {good[count], Refused}
  BY <1>4, <1>6, ValuesRead
<1> QED BY <1>3, <1>7, <1>8, Zenon

FnPieces(items) == [n \in DOMAIN items |-> WriteFunction(items[n])]

LEMMA FnTableWritten ==
  ASSUME NEW items \in Seq(FunctionDefs)
  PROVE  /\ FnPieces(items) \in Seq(Seq(Int))
         /\ Len(FnPieces(items)) = Len(items)
         /\ \A n \in 1 .. Len(items) : FnPieces(items)[n] = WriteFunction(items[n])
         /\ Table(items, WriteFunction) = Written(items, FnPieces(items))
<1> DEFINE ps == FnPieces(items)
<1>0. DOMAIN items = 1 .. Len(items) /\ Len(items) \in Nat
  OBVIOUS
<1>1. ASSUME NEW n \in 1 .. Len(items) PROVE WriteFunction(items[n]) \in Seq(Int)
  <2>1. items[n] \in FunctionDefs
    OBVIOUS
  <2> QED BY <2>1 DEF FunctionDefs, WriteFunction
<1>2. ps = [n \in 1 .. Len(items) |-> WriteFunction(items[n])]
  BY <1>0 DEF FnPieces
<1>3. \A n \in 1 .. Len(items) : ps[n] = WriteFunction(items[n]) /\ ps[n] \in Seq(Int)
  BY <1>1, <1>2
<1>4. Table(items, WriteFunction) = Written(items, ps)
  BY DEF Table, Written, FnPieces
<1> HIDE DEF ps
<1>5. ps \in [1 .. Len(items) -> Seq(Int)]
  BY <1>2, <1>3
<1>6. ps \in Seq(Seq(Int))
  BY <1>5, <1>0
<1>7. Len(ps) = Len(items)
  BY <1>2, <1>0
<1> QED BY <1>3, <1>4, <1>6, <1>7 DEF ps

LEMMA FnTableBack ==
  ASSUME NEW e \in Seq(Int), NEW b, Cut(b, e), NEW trust, NEW items \in Seq(FunctionDefs),
         NEW p \in Nat, At(e, p, Written(items, FnPieces(items))),
         NEW r, r.ok = TRUE, r.pos = p
  PROVE  ReadTable(b, trust, r, ReadFunction)
           \in {[ok |-> TRUE, pos |-> p + Len(Written(items, FnPieces(items))), got |-> items],
                Refused}
<1> DEFINE ps == FnPieces(items)
           count == Len(items)
           good == Good(items, ps, p)
           all == [ok |-> TRUE, pos |-> p + Len(Written(items, ps)), got |-> items]
<1>1. SUFFICES ASSUME Has(b, r, 1)
               PROVE  ReadTable(b, trust, r, ReadFunction) \in {all, Refused}
  BY DEF ReadTable
<1>2. /\ ps \in Seq(Seq(Int)) /\ Len(ps) = count
      /\ \A n \in 1 .. count : ps[n] = WriteFunction(items[n])
  BY FnTableWritten
<1>3. /\ good[0] = Begun(p + 1) /\ good[count] = all /\ e[p + 1] = count
      /\ \A n \in 1 .. count :
           /\ PosAfter(ps, p, n - 1) \in Nat
           /\ At(e, PosAfter(ps, p, n - 1), ps[n])
           /\ good[n - 1] = [ok |-> TRUE, pos |-> PosAfter(ps, p, n - 1),
                             got |-> SubSeq(items, 1, n - 1)]
           /\ Push(good[n - 1], Len(ps[n]), items[n]) = good[n]
  <2> HIDE DEF ps
  <2>1. At(e, p, Written(items, ps))
    BY DEF ps
  <2> QED BY <1>2, <2>1, GoodReaders
<1>4. count \in Nat /\ \A n \in 1 .. count : items[n] \in FunctionDefs
  OBVIOUS
<1> HIDE DEF ps, good, count, all
<1>5. b[p + 1] = count
  <2>1. Len(b) \in Nat /\ Len(b) >= p + 1
    BY <1>1 DEF Has, Cut
  <2>2. p + 1 \in 1 .. Len(b)
    BY <2>1
  <2> QED BY <1>3, <2>2 DEF Cut
<1>6. LeadsFunctions(b, trust, good, count)
  <2>1. SUFFICES ASSUME NEW n \in 1 .. count
                 PROVE  ReadFunction(b, trust, good[n - 1]) \in {good[n], Refused}
    BY DEF LeadsFunctions
  <2> DEFINE q == PosAfter(ps, p, n - 1)
             got == SubSeq(items, 1, n - 1)
  <2>2. /\ q \in Nat /\ At(e, q, WriteFunction(items[n])) /\ items[n] \in FunctionDefs
        /\ good[n - 1] = [ok |-> TRUE, pos |-> q, got |-> got]
        /\ Push(good[n - 1], Len(WriteFunction(items[n])), items[n]) = good[n]
    BY <1>2, <1>3, <1>4, Zenon
  <2> HIDE DEF q, got
  <2>3. ReadFunction(b, trust, [ok |-> TRUE, pos |-> q, got |-> got])
          \in {Push([ok |-> TRUE, pos |-> q, got |-> got], Len(WriteFunction(items[n])), items[n]), Refused}
    BY <2>2, FunctionBack
  <2> QED BY <2>2, <2>3, Zenon
<1>7. ReadTable(b, trust, r, ReadFunction) = (CHOOSE g : FunctionsFrom(g, b, trust, count, good[0]))[count]
  <2>1. ReadTable(b, trust, r, ReadFunction)
          = (CHOOSE g : FunctionsFrom(g, b, trust, b[r.pos + 1], Begun(r.pos + 1)))[b[r.pos + 1]]
    BY <1>1, TablesAreChosen
  <2>2. b[r.pos + 1] = count /\ Begun(r.pos + 1) = good[0]
    BY <1>3, <1>5, Zenon
  <2> QED BY <2>1, <2>2, Zenon
<1>8. (CHOOSE g : FunctionsFrom(g, b, trust, count, good[0]))[count] \in {good[count], Refused}
  BY <1>4, <1>6, FunctionsRead
<1> QED BY <1>3, <1>7, <1>8, Zenon

CodePieces(items) == [n \in DOMAIN items |-> WriteInstruction(items[n])]

LEMMA CodeTableWritten ==
  ASSUME NEW items \in Seq(Instructions)
  PROVE  /\ CodePieces(items) \in Seq(Seq(Int))
         /\ Len(CodePieces(items)) = Len(items)
         /\ \A n \in 1 .. Len(items) : CodePieces(items)[n] = WriteInstruction(items[n])
         /\ Table(items, WriteInstruction) = Written(items, CodePieces(items))
<1> DEFINE ps == CodePieces(items)
<1>0. DOMAIN items = 1 .. Len(items) /\ Len(items) \in Nat
  OBVIOUS
<1>1. ASSUME NEW n \in 1 .. Len(items) PROVE WriteInstruction(items[n]) \in Seq(Int)
  <2>1. items[n] \in Instructions
    OBVIOUS
  <2>2. AsU8(items[n].op) \in Int
    BY <2>1, OpcodesBack DEF Instructions
  <2> QED BY <2>1, <2>2 DEF Instructions, WriteInstruction
<1>2. ps = [n \in 1 .. Len(items) |-> WriteInstruction(items[n])]
  BY <1>0 DEF CodePieces
<1>3. \A n \in 1 .. Len(items) : ps[n] = WriteInstruction(items[n]) /\ ps[n] \in Seq(Int)
  BY <1>1, <1>2
<1>4. Table(items, WriteInstruction) = Written(items, ps)
  BY DEF Table, Written, CodePieces
<1> HIDE DEF ps
<1>5. ps \in [1 .. Len(items) -> Seq(Int)]
  BY <1>2, <1>3
<1>6. ps \in Seq(Seq(Int))
  BY <1>5, <1>0
<1>7. Len(ps) = Len(items)
  BY <1>2, <1>0
<1> QED BY <1>3, <1>4, <1>6, <1>7 DEF ps

LEMMA CodeTableBack ==
  ASSUME NEW e \in Seq(Int), NEW b, Cut(b, e), NEW trust, NEW items \in Seq(Instructions),
         NEW p \in Nat, At(e, p, Written(items, CodePieces(items))),
         NEW r, r.ok = TRUE, r.pos = p
  PROVE  ReadTable(b, trust, r, ReadInstruction)
           \in {[ok |-> TRUE, pos |-> p + Len(Written(items, CodePieces(items))), got |-> items],
                Refused}
<1> DEFINE ps == CodePieces(items)
           count == Len(items)
           good == Good(items, ps, p)
           all == [ok |-> TRUE, pos |-> p + Len(Written(items, ps)), got |-> items]
<1>1. SUFFICES ASSUME Has(b, r, 1)
               PROVE  ReadTable(b, trust, r, ReadInstruction) \in {all, Refused}
  BY DEF ReadTable
<1>2. /\ ps \in Seq(Seq(Int)) /\ Len(ps) = count
      /\ \A n \in 1 .. count : ps[n] = WriteInstruction(items[n])
  BY CodeTableWritten
<1>3. /\ good[0] = Begun(p + 1) /\ good[count] = all /\ e[p + 1] = count
      /\ \A n \in 1 .. count :
           /\ PosAfter(ps, p, n - 1) \in Nat
           /\ At(e, PosAfter(ps, p, n - 1), ps[n])
           /\ good[n - 1] = [ok |-> TRUE, pos |-> PosAfter(ps, p, n - 1),
                             got |-> SubSeq(items, 1, n - 1)]
           /\ Push(good[n - 1], Len(ps[n]), items[n]) = good[n]
  <2> HIDE DEF ps
  <2>1. At(e, p, Written(items, ps))
    BY DEF ps
  <2> QED BY <1>2, <2>1, GoodReaders
<1>4. count \in Nat /\ \A n \in 1 .. count : items[n] \in Instructions
  OBVIOUS
<1> HIDE DEF ps, good, count, all
<1>5. b[p + 1] = count
  <2>1. Len(b) \in Nat /\ Len(b) >= p + 1
    BY <1>1 DEF Has, Cut
  <2>2. p + 1 \in 1 .. Len(b)
    BY <2>1
  <2> QED BY <1>3, <2>2 DEF Cut
<1>6. LeadsInstructions(b, trust, good, count)
  <2>1. SUFFICES ASSUME NEW n \in 1 .. count
                 PROVE  ReadInstruction(b, trust, good[n - 1]) \in {good[n], Refused}
    BY DEF LeadsInstructions
  <2> DEFINE q == PosAfter(ps, p, n - 1)
             got == SubSeq(items, 1, n - 1)
  <2>2. /\ q \in Nat /\ At(e, q, WriteInstruction(items[n])) /\ items[n] \in Instructions
        /\ good[n - 1] = [ok |-> TRUE, pos |-> q, got |-> got]
        /\ Push(good[n - 1], Len(WriteInstruction(items[n])), items[n]) = good[n]
    BY <1>2, <1>3, <1>4, Zenon
  <2> HIDE DEF q, got
  <2>3. ReadInstruction(b, trust, [ok |-> TRUE, pos |-> q, got |-> got])
          \in {Push([ok |-> TRUE, pos |-> q, got |-> got], Len(WriteInstruction(items[n])), items[n]), Refused}
    BY <2>2, InstructionBack
  <2> QED BY <2>2, <2>3, Zenon
<1>7. ReadTable(b, trust, r, ReadInstruction) = (CHOOSE g : InstructionsFrom(g, b, trust, count, good[0]))[count]
  <2>1. ReadTable(b, trust, r, ReadInstruction)
          = (CHOOSE g : InstructionsFrom(g, b, trust, b[r.pos + 1], Begun(r.pos + 1)))[b[r.pos + 1]]
    BY <1>1, TablesAreChosen
  <2>2. b[r.pos + 1] = count /\ Begun(r.pos + 1) = good[0]
    BY <1>3, <1>5, Zenon
  <2> QED BY <2>1, <2>2, Zenon
<1>8. (CHOOSE g : InstructionsFrom(g, b, trust, count, good[0]))[count] \in {good[count], Refused}
  BY <1>4, <1>6, InstructionsRead
<1> QED BY <1>3, <1>7, <1>8, Zenon

Chunks ==
  [constants : Seq(Constants), functions : Seq(FunctionDefs), code : Seq(Instructions)]

(***************************************************************************)
(* The encoding of a module is its three tables behind the header.         *)
(***************************************************************************)
LEMMA EncodedTables ==
  ASSUME NEW ch \in Chunks
  PROVE  LET pool == Written(ch.constants, ConstPieces(ch.constants))
             fns  == Written(ch.functions, FnPieces(ch.functions))
             code == Written(ch.code, CodePieces(ch.code))
             intro == << Magic, AbiVersion >>
         IN  /\ Encode(ch) = ((intro \o pool) \o fns) \o code
             /\ pool \in Seq(Int) /\ fns \in Seq(Int) /\ code \in Seq(Int)
<1>1. ch.constants \in Seq(Constants) /\ ch.functions \in Seq(FunctionDefs) /\ ch.code \in Seq(Instructions)
  BY DEF Chunks
<1>2. /\ Table(ch.constants, WriteValue) = Written(ch.constants, ConstPieces(ch.constants))
      /\ ConstPieces(ch.constants) \in Seq(Seq(Int))
      /\ Len(ConstPieces(ch.constants)) = Len(ch.constants)
  BY <1>1, ConstTableWritten
<1>3. /\ Table(ch.functions, WriteFunction) = Written(ch.functions, FnPieces(ch.functions))
      /\ FnPieces(ch.functions) \in Seq(Seq(Int))
      /\ Len(FnPieces(ch.functions)) = Len(ch.functions)
  BY <1>1, FnTableWritten
<1>4. /\ Table(ch.code, WriteInstruction) = Written(ch.code, CodePieces(ch.code))
      /\ CodePieces(ch.code) \in Seq(Seq(Int))
      /\ Len(CodePieces(ch.code)) = Len(ch.code)
  BY <1>1, CodeTableWritten
<1>5. /\ Written(ch.constants, ConstPieces(ch.constants)) \in Seq(Int)
      /\ Written(ch.functions, FnPieces(ch.functions)) \in Seq(Int)
      /\ Written(ch.code, CodePieces(ch.code)) \in Seq(Int)
  BY <1>1, <1>2, <1>3, <1>4, TableWritten
<1>6. Encode(ch) = ((<< Magic, AbiVersion >> \o Written(ch.constants, ConstPieces(ch.constants)))
                      \o Written(ch.functions, FnPieces(ch.functions)))
                      \o Written(ch.code, CodePieces(ch.code))
  BY <1>2, <1>3, <1>4, Zenon DEF Encode
<1> QED BY <1>5, <1>6, Zenon

LEMMA WhollyThere ==
  ASSUME NEW e \in Seq(Int)
  PROVE  At(e, 0, e)
BY DEF At

(***************************************************************************)
(* decode_with undoes encode: whatever is left of the bytes of a module    *)
(* that were cut anywhere, a reader that accepts them has the module that  *)
(* was written, to the last constant, function and instruction.            *)
(***************************************************************************)
THEOREM RoundTrip ==
  ASSUME NEW ch \in Chunks, NEW b, Cut(b, Encode(ch)), NEW trust, Decode(b, trust).ok
  PROVE  Decode(b, trust).chunk = ch
<1> DEFINE e == Encode(ch)
           pool == Written(ch.constants, ConstPieces(ch.constants))
           fns == Written(ch.functions, FnPieces(ch.functions))
           code == Written(ch.code, CodePieces(ch.code))
           intro == << Magic, AbiVersion >>
           start == [ok  |-> Len(b) >= 2 /\ b[1] = Magic /\ b[2] = AbiVersion,
                     pos |-> 2, got |-> <<>>]
           r1 == ReadTable(b, trust, start, ReadValue)
           r2 == ReadTable(b, trust, r1, ReadFunction)
           r3 == ReadTable(b, trust, r2, ReadInstruction)
<1>1. /\ e = ((intro \o pool) \o fns) \o code
      /\ pool \in Seq(Int) /\ fns \in Seq(Int) /\ code \in Seq(Int)
  BY EncodedTables
<1>2. intro \in Seq(Int) /\ Len(intro) = 2
  BY DEF Magic, AbiVersion
<1>3. ch.constants \in Seq(Constants) /\ ch.functions \in Seq(FunctionDefs) /\ ch.code \in Seq(Instructions)
  BY DEF Chunks
<1>4. /\ Decode(b, trust).ok = r3.ok
      /\ Decode(b, trust).chunk = [constants |-> r1.got, functions |-> r2.got, code |-> r3.got]
  BY DEF Decode
<1>5. start.ok \in BOOLEAN /\ start.pos = 2
  OBVIOUS
<1>6. ch = [constants |-> ch.constants, functions |-> ch.functions, code |-> ch.code]
  BY DEF Chunks
<1>a. Cut(b, e)
  OBVIOUS
<1> HIDE DEF e, pool, fns, code, intro, start
<1>7. /\ e \in Seq(Int) /\ (intro \o pool) \o fns \in Seq(Int) /\ intro \o pool \in Seq(Int)
      /\ Len(intro \o pool) = 2 + Len(pool)
      /\ Len((intro \o pool) \o fns) = 2 + Len(pool) + Len(fns)
      /\ Len(pool) \in Nat /\ Len(fns) \in Nat
  <2>0. pool \in Seq(Int) /\ fns \in Seq(Int) /\ code \in Seq(Int)
    BY <1>1
  <2>1. intro \o pool \in Seq(Int) /\ Len(intro \o pool) = 2 + Len(pool) /\ Len(pool) \in Nat
    <3>0. intro \in Seq(Int) /\ pool \in Seq(Int)
      BY <2>0, <1>2, Zenon
    <3>1. intro \o pool \in Seq(Int) /\ Len(intro \o pool) = Len(intro) + Len(pool)
      BY <3>0, ConcatProperties, Zenon
    <3>2. Len(pool) \in Nat
      BY <2>0
    <3> QED BY <1>2, <3>1, <3>2
  <2> DEFINE hp == intro \o pool
  <2>2. hp \in Seq(Int) /\ Len(hp) = 2 + Len(pool)
    BY <2>1
  <2> HIDE DEF hp
  <2>3. hp \o fns \in Seq(Int) /\ Len(hp \o fns) = 2 + Len(pool) + Len(fns) /\ Len(fns) \in Nat
    <3>1. hp \o fns \in Seq(Int) /\ Len(hp \o fns) = Len(hp) + Len(fns)
      BY <2>0, <2>2, ConcatProperties, Zenon
    <3>2. Len(fns) \in Nat
      BY <2>0
    <3> QED BY <2>1, <2>2, <3>1, <3>2
  <2> DEFINE hpf == hp \o fns
  <2> HIDE DEF hpf
  <2>4. hpf \o code \in Seq(Int)
    BY <1>1, <2>3 DEF hpf
  <2> QED BY <1>1, <2>1, <2>3, <2>4 DEF hp, hpf
<1>8. /\ At(e, 2, pool)
      /\ At(e, 2 + Len(pool), fns)
      /\ At(e, 2 + Len(pool) + Len(fns), code)
  <2>1. At(e, 0, ((intro \o pool) \o fns) \o code)
    BY <1>1, <1>7, WhollyThere
  <2>2. At(e, 0, (intro \o pool) \o fns) /\ At(e, 0 + Len((intro \o pool) \o fns), code)
    BY <2>1, <1>1, <1>7, AtConcat
  <2>3. At(e, 0, intro \o pool) /\ At(e, 0 + Len(intro \o pool), fns)
    BY <2>2, <1>1, <1>7, AtConcat
  <2>4. At(e, 0, intro) /\ At(e, 0 + Len(intro), pool)
    BY <2>3, <1>1, <1>2, <1>7, AtConcat
  <2>5. /\ 0 + Len(intro) = 2 /\ 0 + Len(intro \o pool) = 2 + Len(pool)
        /\ 0 + Len((intro \o pool) \o fns) = 2 + Len(pool) + Len(fns)
    BY <1>2, <1>7
  <2> QED BY <2>2, <2>3, <2>4, <2>5
<1>9. Refused.ok = FALSE
  BY DEF Refused
<1>10. r1 # Refused /\ r2 # Refused /\ r3 # Refused /\ start.ok = TRUE
  <2>1. r3 # Refused
    BY <1>4, <1>9
  <2>2. r2 # Refused
    BY <1>9, <2>1, RefusedStays
  <2>3. r1 # Refused
    BY <1>9, <2>2, RefusedStays
  <2>4. start.ok # FALSE
    BY <2>3, RefusedStays
  <2> QED BY <1>5, <2>1, <2>2, <2>3, <2>4
<1>11. r1.ok = TRUE /\ r1.pos = 2 + Len(pool) /\ r1.got = ch.constants
  <2>1. r1 \in {[ok |-> TRUE, pos |-> 2 + Len(pool), got |-> ch.constants], Refused}
    BY <1>3, <1>5, <1>7, <1>8, <1>10, <1>a, ConstTableBack DEF pool
  <2>2. r1 = [ok |-> TRUE, pos |-> 2 + Len(pool), got |-> ch.constants]
    BY <2>1, <1>10
  <2> QED BY <2>2
<1> HIDE DEF r1
<1>12. r2.ok = TRUE /\ r2.pos = 2 + Len(pool) + Len(fns) /\ r2.got = ch.functions
  <2>0. 2 + Len(pool) \in Nat
    BY <1>7
  <2>1. r2 \in {[ok |-> TRUE, pos |-> 2 + Len(pool) + Len(fns), got |-> ch.functions], Refused}
    BY <1>3, <1>7, <1>8, <1>11, <1>a, <2>0, FnTableBack DEF fns
  <2>2. r2 = [ok |-> TRUE, pos |-> 2 + Len(pool) + Len(fns), got |-> ch.functions]
    BY <2>1, <1>10
  <2> QED BY <2>2
<1> HIDE DEF r2
<1>13. r3.got = ch.code
  <2>0. 2 + Len(pool) + Len(fns) \in Nat
    BY <1>7
  <2>1. r3 \in {[ok |-> TRUE, pos |-> 2 + Len(pool) + Len(fns) + Len(code), got |-> ch.code],
                Refused}
    BY <1>3, <1>7, <1>8, <1>12, <1>a, <2>0, CodeTableBack DEF code
  <2>2. r3 = [ok |-> TRUE, pos |-> 2 + Len(pool) + Len(fns) + Len(code), got |-> ch.code]
    BY <2>1, <1>10
  <2> QED BY <2>2
<1> QED BY <1>4, <1>6, <1>11, <1>12, <1>13

LEMMA EncodedType ==
  ASSUME NEW ch \in Chunks
  PROVE  Encode(ch) \in Seq(Int)
<1> DEFINE pool == Written(ch.constants, ConstPieces(ch.constants))
           fns == Written(ch.functions, FnPieces(ch.functions))
           code == Written(ch.code, CodePieces(ch.code))
           intro == << Magic, AbiVersion >>
<1>1. /\ Encode(ch) = ((intro \o pool) \o fns) \o code
      /\ pool \in Seq(Int) /\ fns \in Seq(Int) /\ code \in Seq(Int)
  BY EncodedTables
<1>2. intro \in Seq(Int)
  BY DEF Magic, AbiVersion
<1> HIDE DEF pool, fns, code, intro
<1>3. intro \o pool \in Seq(Int)
  BY <1>1, <1>2, ConcatProperties, Zenon
<1>4. (intro \o pool) \o fns \in Seq(Int)
  BY <1>1, <1>3, ConcatProperties, Zenon
<1>5. ((intro \o pool) \o fns) \o code \in Seq(Int)
  BY <1>1, <1>4, ConcatProperties, Zenon
<1> QED BY <1>1, <1>5
=============================================================================
