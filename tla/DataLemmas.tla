---------------------------- MODULE DataLemmas -----------------------------
(***************************************************************************)
(* Facts about the data of the models, for every value of it: the          *)
(* sequences that stand for queues and vectors, induction in the form of   *)
(* sets of numbers and sets of sets, and what a sum over a finite set is.  *)
(***************************************************************************)
EXTENDS Integers, Sequences, SequencesExt, Functions, FiniteSets, SequenceTheorems,
        FiniteSetTheorems, WellFoundedInduction, TLAPS

(***************************************************************************)
(* Sequences: what the operators on them do to the elements, in order and  *)
(* as a set.  IsInjective(q) says that nothing is in q twice.              *)
(***************************************************************************)

(* Taking one element out of a sequence keeps the others, in order: this   *)
(* is what MailboxQueue::take, take_waiting_sender and ChildTable::remove  *)
(* rest on.                                                                *)
LEMMA RemoveAtProperties ==
    ASSUME NEW S, NEW q \in Seq(S), NEW i \in 1 .. Len(q)
    PROVE  /\ RemoveAt(q, i) \in Seq(S)
           /\ Len(RemoveAt(q, i)) = Len(q) - 1
           /\ \A j \in 1 .. (Len(q) - 1) :
                RemoveAt(q, i)[j] = IF j < i THEN q[j] ELSE q[j + 1]
  <1> DEFINE a == SubSeq(q, 1, i - 1)
             b == SubSeq(q, i + 1, Len(q))
  <1>0. /\ Len(q) \in Nat
        /\ \A j \in 1 .. Len(q) : q[j] \in S
    BY LenProperties, ElementOfSeq
  <1>1. /\ a \in Seq(S)
        /\ Len(a) = i - 1
        /\ \A j \in 1 .. (i - 1) : a[j] = q[j]
    <2>1. i - 1 \in Int /\ \A j \in 1 .. (i - 1) : q[j] \in S
      BY <1>0
    <2>2. /\ a \in Seq(S)
          /\ Len(a) = IF 1 <= i - 1 THEN i - 1 - 1 + 1 ELSE 0
          /\ \A j \in 1 .. (i - 1 - 1 + 1) : a[j] = q[1 + j - 1]
      BY <2>1, SubSeqProperties
    <2> QED  BY <2>2, <1>0
  <1>2. /\ b \in Seq(S)
        /\ Len(b) = Len(q) - i
        /\ \A j \in 1 .. (Len(q) - i) : b[j] = q[i + j]
    <2>1. /\ i + 1 \in Int /\ Len(q) \in Int
          /\ \A j \in (i + 1) .. Len(q) : q[j] \in S
      BY <1>0
    <2>2. /\ b \in Seq(S)
          /\ Len(b) = IF i + 1 <= Len(q) THEN Len(q) - (i + 1) + 1 ELSE 0
          /\ \A j \in 1 .. (Len(q) - (i + 1) + 1) : b[j] = q[i + 1 + j - 1]
      BY <2>1, SubSeqProperties
    <2>3. \A j \in 1 .. (Len(q) - i) : b[j] = q[i + j]
      <3> TAKE j \in 1 .. (Len(q) - i)
      <3>1. j \in 1 .. (Len(q) - (i + 1) + 1) /\ i + 1 + j - 1 = i + j
        BY <1>0
      <3> QED  BY <3>1, <2>2
    <2>4. Len(b) = Len(q) - i
      BY <2>2, <1>0
    <2> QED  BY <2>2, <2>3, <2>4
  <1>3. /\ a \o b \in Seq(S)
        /\ Len(a \o b) = Len(a) + Len(b)
        /\ \A j \in 1 .. Len(a) + Len(b) :
             (a \o b)[j] = IF j <= Len(a) THEN a[j] ELSE b[j - Len(a)]
    BY <1>1, <1>2, ConcatProperties
  <1>4. RemoveAt(q, i) = a \o b
    BY DEF RemoveAt
  <1> HIDE DEF a, b
  <1>5. ASSUME NEW j \in 1 .. (Len(q) - 1)
        PROVE  (a \o b)[j] = IF j < i THEN q[j] ELSE q[j + 1]
    <2>1. j \in 1 .. Len(a) + Len(b)
      BY <1>0, <1>1, <1>2
    <2>2. CASE j < i
      BY <2>1, <2>2, <1>0, <1>1, <1>3
    <2>3. CASE ~(j < i)
      <3>1. j - Len(a) \in 1 .. (Len(q) - i) /\ i + (j - Len(a)) = j + 1
        BY <2>3, <1>0, <1>1
      <3>2. (a \o b)[j] = b[j - Len(a)]
        BY <2>1, <2>3, <1>0, <1>1, <1>3
      <3>3. b[j - Len(a)] = q[i + (j - Len(a))]
        BY <3>1, <1>2
      <3> QED  BY <2>3, <3>1, <3>2, <3>3
    <2> QED  BY <2>2, <2>3
  <1> QED
    BY <1>0, <1>1, <1>2, <1>3, <1>4, <1>5

(* Membership in a sequence's set of elements, by position. *)
LEMMA ToSetMember ==
    ASSUME NEW S, NEW q \in Seq(S)
    PROVE  /\ ToSet(q) \subseteq S
           /\ Len(q) \in Nat
           /\ DOMAIN q = 1 .. Len(q)
           /\ \A x : x \in ToSet(q) <=> \E i \in 1 .. Len(q) : q[i] = x
  <1>1. DOMAIN q = 1 .. Len(q) /\ Len(q) \in Nat /\ \A i \in 1 .. Len(q) : q[i] \in S
    BY LenProperties, ElementOfSeq
  <1> QED  BY <1>1 DEF ToSet

(* The empty sequence has no elements. *)
LEMMA ToSetEmpty ==
    /\ ToSet(<<>>) = {}
    /\ IsInjective(<<>>)
    /\ \A S : <<>> \in Seq(S)
  BY DEF ToSet, IsInjective

(* A one-element sequence. *)
LEMMA ToSetSingle ==
    ASSUME NEW S, NEW e \in S
    PROVE  <<e>> \in Seq(S) /\ ToSet(<<e>>) = {e}
  BY DEF ToSet

(* Append adds one element, and keeps the sequence free of repetitions     *)
(* when the element is new.                                                *)
LEMMA AppendToSet ==
    ASSUME NEW S, NEW q \in Seq(S), NEW e \in S
    PROVE  /\ Append(q, e) \in Seq(S)
           /\ ToSet(Append(q, e)) = ToSet(q) \cup {e}
           /\ IsInjective(q) /\ e \notin ToSet(q) => IsInjective(Append(q, e))
  <1> DEFINE a == Append(q, e)
  <1>1. /\ a \in Seq(S)
        /\ Len(a) = Len(q) + 1
        /\ \A i \in 1 .. Len(q) : a[i] = q[i]
        /\ a[Len(q) + 1] = e
    BY AppendProperties
  <1>2. /\ Len(q) \in Nat
        /\ DOMAIN q = 1 .. Len(q)
        /\ \A x : x \in ToSet(q) <=> \E i \in 1 .. Len(q) : q[i] = x
    BY ToSetMember
  <1>3. /\ DOMAIN a = 1 .. Len(a)
        /\ \A x : x \in ToSet(a) <=> \E i \in 1 .. Len(a) : a[i] = x
    BY <1>1, ToSetMember
  <1> HIDE DEF a
  <1>4. ToSet(a) = ToSet(q) \cup {e}
    <2>1. ASSUME NEW x \in ToSet(a) PROVE x \in ToSet(q) \cup {e}
      BY <2>1, <1>1, <1>2, <1>3
    <2>2. ASSUME NEW x \in ToSet(q) PROVE x \in ToSet(a)
      BY <2>2, <1>1, <1>2, <1>3
    <2>3. e \in ToSet(a)
      BY <1>1, <1>2, <1>3
    <2> QED  BY <2>1, <2>2, <2>3
  <1>5. ASSUME IsInjective(q), e \notin ToSet(q)
        PROVE  IsInjective(a)
    <2>1. \A i, j \in 1 .. Len(q) : q[i] = q[j] => i = j
      BY <1>5, <1>2 DEF IsInjective
    <2>2. \A i \in 1 .. Len(q) : q[i] # e
      BY <1>5, <1>2
    <2>3. \A i, j \in 1 .. Len(a) : a[i] = a[j] => i = j
      BY <2>1, <2>2, <1>1, <1>2
    <2> QED  BY <2>3, <1>3 DEF IsInjective
  <1> QED  BY <1>1, <1>4, <1>5 DEF a

(* The head and the rest of a queue. *)
LEMMA HeadTailToSet ==
    ASSUME NEW S, NEW q \in Seq(S), q # <<>>
    PROVE  /\ Tail(q) \in Seq(S)
           /\ Head(q) \in ToSet(q)
           /\ ToSet(q) = {Head(q)} \cup ToSet(Tail(q))
           /\ IsInjective(q) => IsInjective(Tail(q)) /\ Head(q) \notin ToSet(Tail(q))
  <1> DEFINE t == Tail(q)
  <1>1. /\ t \in Seq(S)
        /\ Len(t) = Len(q) - 1
        /\ \A i \in 1 .. Len(t) : t[i] = q[i + 1]
    BY HeadTailProperties
  <1>2. /\ Len(q) \in Nat
        /\ DOMAIN q = 1 .. Len(q)
        /\ \A x : x \in ToSet(q) <=> \E i \in 1 .. Len(q) : q[i] = x
    BY ToSetMember
  <1>3. /\ Len(t) \in Nat
        /\ DOMAIN t = 1 .. Len(t)
        /\ \A x : x \in ToSet(t) <=> \E i \in 1 .. Len(t) : t[i] = x
    BY <1>1, ToSetMember
  <1>4. Head(q) = q[1] /\ 1 \in 1 .. Len(q)
    BY <1>1, <1>2, <1>3
  <1> HIDE DEF t
  <1>5. ToSet(q) = {Head(q)} \cup ToSet(t)
    <2>1. ASSUME NEW x \in ToSet(q) PROVE x \in {Head(q)} \cup ToSet(t)
      <3>1. PICK i \in 1 .. Len(q) : q[i] = x
        BY <2>1, <1>2
      <3>2. CASE i = 1
        BY <3>1, <3>2, <1>4
      <3>3. CASE i # 1
        <4>1. i - 1 \in 1 .. Len(t) /\ (i - 1) + 1 = i
          BY <3>3, <1>1, <1>2
        <4> QED  BY <4>1, <3>1, <1>1, <1>3
      <3> QED  BY <3>2, <3>3
    <2>2. ASSUME NEW x \in ToSet(t) PROVE x \in ToSet(q)
      <3>1. PICK i \in 1 .. Len(t) : t[i] = x
        BY <2>2, <1>3
      <3>2. i + 1 \in 1 .. Len(q) /\ q[i + 1] = x
        BY <3>1, <1>1, <1>2
      <3> QED  BY <3>2, <1>2
    <2>3. Head(q) \in ToSet(q)
      BY <1>4, <1>2
    <2> QED  BY <2>1, <2>2, <2>3
  <1>6. ASSUME IsInjective(q)
        PROVE  IsInjective(t) /\ Head(q) \notin ToSet(t)
    <2>1. \A i, j \in 1 .. Len(q) : q[i] = q[j] => i = j
      BY <1>6, <1>2 DEF IsInjective
    <2>2. \A i \in 1 .. Len(t) : i + 1 \in 1 .. Len(q) /\ i + 1 # 1
      BY <1>1, <1>2
    <2>3. \A i, j \in 1 .. Len(t) : t[i] = t[j] => i = j
      BY <2>1, <2>2, <1>1
    <2>4. \A i \in 1 .. Len(t) : t[i] # q[1]
      BY <2>1, <2>2, <1>1, <1>4
    <2> QED  BY <2>3, <2>4, <1>3, <1>4 DEF IsInjective
  <1> QED  BY <1>1, <1>5, <1>6 DEF t

(* The last element of a sequence without repetitions, and the rest. *)
LEMMA FrontLastToSet ==
    ASSUME NEW S, NEW q \in Seq(S), q # <<>>, IsInjective(q)
    PROVE  /\ Front(q) \in Seq(S)
           /\ Last(q) \in ToSet(q)
           /\ ToSet(Front(q)) = ToSet(q) \ {Last(q)}
           /\ IsInjective(Front(q))
  <1> DEFINE r == Front(q)
  <1>1. /\ Len(q) \in Nat
        /\ DOMAIN q = 1 .. Len(q)
        /\ \A x : x \in ToSet(q) <=> \E j \in 1 .. Len(q) : q[j] = x
    BY ToSetMember
  <1>2. Len(q) # 0
    BY EmptySeq
  <1>3. Last(q) = q[Len(q)] /\ Len(q) \in 1 .. Len(q)
    BY <1>1, <1>2 DEF Last
  <1>4. \A j, k \in 1 .. Len(q) : q[j] = q[k] => j = k
    BY <1>1 DEF IsInjective
  <1>5. /\ r \in Seq(S)
        /\ Len(r) = Len(q) - 1
        /\ \A j \in 1 .. Len(q) - 1 : r[j] = q[j]
    <2>1. /\ 1 \in Int /\ Len(q) - 1 \in Int
          /\ \A j \in 1 .. Len(q) - 1 : q[j] \in S
      BY <1>1, ElementOfSeq
    <2>2. /\ SubSeq(q, 1, Len(q) - 1) \in Seq(S)
          /\ Len(SubSeq(q, 1, Len(q) - 1)) = IF 1 <= Len(q) - 1 THEN Len(q) - 1 - 1 + 1 ELSE 0
          /\ \A j \in 1 .. Len(q) - 1 - 1 + 1 : SubSeq(q, 1, Len(q) - 1)[j] = q[1 + j - 1]
      BY <2>1, SubSeqProperties
    <2>3. r = SubSeq(q, 1, Len(q) - 1)
      BY DEF Front
    <2> HIDE DEF r
    <2> QED  BY <1>1, <1>2, <2>2, <2>3
  <1>6. /\ DOMAIN r = 1 .. Len(r)
        /\ \A x : x \in ToSet(r) <=> \E j \in 1 .. Len(r) : r[j] = x
    BY <1>5, ToSetMember
  <1> HIDE DEF r
  <1>7. 1 .. Len(r) = (1 .. Len(q)) \ {Len(q)} /\ \A j \in 1 .. Len(r) : r[j] = q[j]
    BY <1>1, <1>5
  <1>8. ToSet(r) = ToSet(q) \ {Last(q)}
    BY <1>1, <1>3, <1>4, <1>6, <1>7
  <1>9. \A j, k \in 1 .. Len(r) : r[j] = r[k] => j = k
    BY <1>4, <1>7
  <1> QED  BY <1>1, <1>3, <1>5, <1>6, <1>8, <1>9 DEF r, IsInjective

(* Removing an element of a sequence without repetitions removes it        *)
(* altogether.                                                             *)
LEMMA RemoveAtToSet ==
    ASSUME NEW S, NEW q \in Seq(S), IsInjective(q), NEW i \in DOMAIN q
    PROVE  /\ RemoveAt(q, i) \in Seq(S)
           /\ ToSet(RemoveAt(q, i)) = ToSet(q) \ {q[i]}
           /\ IsInjective(RemoveAt(q, i))
  <1> DEFINE r == RemoveAt(q, i)
  <1>1. /\ Len(q) \in Nat
        /\ DOMAIN q = 1 .. Len(q)
        /\ \A x : x \in ToSet(q) <=> \E j \in 1 .. Len(q) : q[j] = x
    BY ToSetMember
  <1>2. /\ r \in Seq(S)
        /\ Len(r) = Len(q) - 1
        /\ \A j \in 1 .. Len(q) - 1 : r[j] = IF j < i THEN q[j] ELSE q[j + 1]
    <2>1. i \in 1 .. Len(q)
      BY <1>1
    <2> QED  BY <2>1, RemoveAtProperties
  <1>3. /\ DOMAIN r = 1 .. Len(r)
        /\ \A x : x \in ToSet(r) <=> \E j \in 1 .. Len(r) : r[j] = x
    BY <1>2, ToSetMember
  <1>4. \A j, k \in 1 .. Len(q) : q[j] = q[k] => j = k
    BY <1>1 DEF IsInjective
  <1> HIDE DEF r
  <1>5. ASSUME NEW x \in ToSet(q) \ {q[i]} PROVE x \in ToSet(r)
    <2>1. PICK j \in 1 .. Len(q) : q[j] = x
      BY <1>5, <1>1
    <2>2. CASE j < i
      BY <2>1, <2>2, <1>1, <1>2, <1>3
    <2>3. CASE j > i
      <3>1. j - 1 \in 1 .. Len(r) /\ r[j - 1] = q[(j - 1) + 1]
        BY <2>3, <1>1, <1>2
      <3> QED  BY <3>1, <2>1, <1>1, <1>3
    <2> QED  BY <2>1, <2>2, <2>3, <1>1, <1>5
  <1>6. \A j \in 1 .. Len(r) : /\ j \in 1 .. Len(q) /\ j + 1 \in 1 .. Len(q)
                              /\ r[j] = IF j < i THEN q[j] ELSE q[j + 1]
    BY <1>1, <1>2
  <1>7. ASSUME NEW x \in ToSet(r) PROVE x \in ToSet(q) \ {q[i]}
    <2>1. PICK j \in 1 .. Len(r) : r[j] = x
      BY <1>7, <1>3
    <2>2. CASE j < i
      BY <2>1, <2>2, <1>1, <1>6, <1>4
    <2>3. CASE ~(j < i)
      <3>1. j + 1 # i /\ j + 1 \in 1 .. Len(q) /\ x = q[j + 1]
        BY <2>1, <2>3, <1>1, <1>6
      <3> QED  BY <3>1, <1>1, <1>4
    <2> QED  BY <2>2, <2>3
  <1>8. \A j, k \in 1 .. Len(r) : r[j] = r[k] => j = k
    BY <1>6, <1>4, <1>1
  <1> QED  BY <1>2, <1>3, <1>5, <1>7, <1>8 DEF r, IsInjective

(* The elements of a concatenation. *)
LEMMA ConcatToSet ==
    ASSUME NEW S, NEW a \in Seq(S), NEW b \in Seq(S)
    PROVE  a \o b \in Seq(S) /\ ToSet(a \o b) = ToSet(a) \cup ToSet(b)
  <1> DEFINE c == a \o b
  <1>1. /\ c \in Seq(S)
        /\ Len(c) = Len(a) + Len(b)
        /\ \A i \in 1 .. Len(a) + Len(b) : c[i] = IF i <= Len(a) THEN a[i] ELSE b[i - Len(a)]
    BY ConcatProperties
  <1>2. Len(a) \in Nat /\ Len(b) \in Nat
    BY ToSetMember
  <1>3. \A x : x \in ToSet(a) <=> \E i \in 1 .. Len(a) : a[i] = x
    BY ToSetMember
  <1>4. \A x : x \in ToSet(b) <=> \E i \in 1 .. Len(b) : b[i] = x
    BY ToSetMember
  <1>5. \A x : x \in ToSet(c) <=> \E i \in 1 .. Len(c) : c[i] = x
    BY <1>1, ToSetMember
  <1> HIDE DEF c
  <1>6. ASSUME NEW x \in ToSet(c) PROVE x \in ToSet(a) \cup ToSet(b)
    <2>1. PICK i \in 1 .. Len(c) : c[i] = x
      BY <1>6, <1>5
    <2>2. CASE i <= Len(a)
      BY <2>1, <2>2, <1>1, <1>2, <1>3
    <2>3. CASE ~(i <= Len(a))
      <3>1. i - Len(a) \in 1 .. Len(b) /\ b[i - Len(a)] = x
        BY <2>1, <2>3, <1>1, <1>2
      <3> QED  BY <3>1, <1>4
    <2> QED  BY <2>2, <2>3
  <1>7. ASSUME NEW x \in ToSet(a) PROVE x \in ToSet(c)
    <2>1. PICK i \in 1 .. Len(a) : a[i] = x
      BY <1>7, <1>3
    <2>2. i \in 1 .. Len(c) /\ c[i] = x
      BY <2>1, <1>1, <1>2
    <2> QED  BY <2>2, <1>5
  <1>8. ASSUME NEW x \in ToSet(b) PROVE x \in ToSet(c)
    <2>1. PICK i \in 1 .. Len(b) : b[i] = x
      BY <1>8, <1>4
    <2>2. /\ i + Len(a) \in 1 .. Len(c)
          /\ ~(i + Len(a) <= Len(a))
          /\ (i + Len(a)) - Len(a) = i
      BY <1>1, <1>2
    <2>3. c[i + Len(a)] = x
      BY <2>1, <2>2, <1>1
    <2> QED  BY <2>2, <2>3, <1>5
  <1> QED  BY <1>1, <1>6, <1>7, <1>8 DEF c

(* A part of a sequence, by position. *)
LEMMA SubSeqToSet ==
    ASSUME NEW S, NEW q \in Seq(S), NEW m \in Int, NEW n \in Int, 1 <= m, n <= Len(q)
    PROVE  /\ SubSeq(q, m, n) \in Seq(S)
           /\ \A x : x \in ToSet(SubSeq(q, m, n)) <=> \E i \in m .. n : q[i] = x
  <1> DEFINE p == SubSeq(q, m, n)
  <1>1. Len(q) \in Nat /\ \A i \in 1 .. Len(q) : q[i] \in S
    BY LenProperties, ElementOfSeq
  <1>2. \A i \in m .. n : q[i] \in S
    BY <1>1
  <1>3. /\ p \in Seq(S)
        /\ Len(p) = IF m <= n THEN n - m + 1 ELSE 0
        /\ \A i \in 1 .. n - m + 1 : p[i] = q[m + i - 1]
    BY <1>2, SubSeqProperties
  <1>4. \A x : x \in ToSet(p) <=> \E i \in 1 .. Len(p) : p[i] = x
    BY <1>3, ToSetMember
  <1> HIDE DEF p
  <1>5. ASSUME NEW x, NEW i \in 1 .. Len(p), p[i] = x
        PROVE  \E j \in m .. n : q[j] = x
    <2>1. m + i - 1 \in m .. n /\ q[m + i - 1] = x
      BY <1>3, <1>5
    <2> QED  BY <2>1
  <1>6. ASSUME NEW x, NEW j \in m .. n, q[j] = x
        PROVE  \E i \in 1 .. Len(p) : p[i] = x
    <2>1. j - m + 1 \in 1 .. Len(p) /\ j - m + 1 \in 1 .. n - m + 1 /\ m + (j - m + 1) - 1 = j
      BY <1>3
    <2>2. p[j - m + 1] = x
      BY <2>1, <1>3, <1>6
    <2> QED  BY <2>1, <2>2
  <1> QED  BY <1>3, <1>4, <1>5, <1>6 DEF p

(* Inserting an element anywhere adds it and loses none. *)
LEMMA InsertAtToSet ==
    ASSUME NEW S, NEW q \in Seq(S), NEW i \in 1 .. Len(q) + 1, NEW e \in S
    PROVE  /\ InsertAt(q, i, e) \in Seq(S)
           /\ ToSet(InsertAt(q, i, e)) = ToSet(q) \cup {e}
  <1> DEFINE a == SubSeq(q, 1, i - 1)
             b == SubSeq(q, i, Len(q))
  <1>1. Len(q) \in Nat /\ \A x : x \in ToSet(q) <=> \E j \in 1 .. Len(q) : q[j] = x
    BY ToSetMember
  <1>2. /\ a \in Seq(S)
        /\ \A x : x \in ToSet(a) <=> \E j \in 1 .. i - 1 : q[j] = x
    <2>1. i - 1 \in Int /\ i - 1 <= Len(q)
      BY <1>1
    <2> QED  BY <2>1, SubSeqToSet
  <1>3. /\ b \in Seq(S)
        /\ \A x : x \in ToSet(b) <=> \E j \in i .. Len(q) : q[j] = x
    <2>1. i \in Int /\ 1 <= i /\ Len(q) \in Int
      BY <1>1
    <2> QED  BY <2>1, SubSeqToSet
  <1> HIDE DEF a, b
  <1> DEFINE one == <<e>>
             front == a \o one
  <1>4. one \in Seq(S) /\ ToSet(one) = {e}
    BY ToSetSingle
  <1> HIDE DEF one
  <1>5. front \in Seq(S) /\ ToSet(front) = ToSet(a) \cup ToSet(one)
    BY <1>2, <1>4, ConcatToSet
  <1> HIDE DEF front
  <1>6. front \o b \in Seq(S) /\ ToSet(front \o b) = ToSet(front) \cup ToSet(b)
    BY <1>3, <1>5, ConcatToSet
  <1>7. ToSet(a) \cup ToSet(b) = ToSet(q)
    <2>1. 1 .. Len(q) = (1 .. i - 1) \cup (i .. Len(q))
      BY <1>1
    <2> QED  BY <2>1, <1>1, <1>2, <1>3
  <1>8. InsertAt(q, i, e) = front \o b
    BY DEF InsertAt, a, b, one, front
  <1> QED  BY <1>4, <1>5, <1>6, <1>7, <1>8

-----------------------------------------------------------------------------
(***************************************************************************)
(* Induction and sums.                                                     *)
(***************************************************************************)

(***************************************************************************)
(* A set of naturals with an element has a least one.                      *)
(***************************************************************************)
LEMMA LeastNat ==
  ASSUME NEW T \in SUBSET Nat, T # {}
  PROVE  \E x \in T : \A y \in T : x <= y
<1> DEFINE Less == {ss \in Nat \X Nat : ss[1] < ss[2]}
<1>1. IsWellFoundedOn(Less, Nat)
  BY NatLessThanWellFounded DEF OpToRel
<1>2. PICK x \in T : \A y \in T : ~ (<<y, x>> \in Less)
  BY <1>1, WFMin, Zenon
<1>3. ASSUME NEW y \in T PROVE x <= y
  <2>1. <<y, x>> \in Nat \X Nat /\ <<y, x>>[1] = y /\ <<y, x>>[2] = x
    OBVIOUS
  <2>2. ~(y < x)
    BY <2>1, <1>2
  <2> QED BY <2>2
<1> QED BY <1>3

(***************************************************************************)
(* A set that holds 0 and the successor of everything in it holds every    *)
(* natural.                                                                *)
(***************************************************************************)
LEMMA SetInduction ==
  ASSUME NEW T \in SUBSET Nat, 0 \in T, \A n \in T : n + 1 \in T
  PROVE  T = Nat
<1>1. SUFFICES ASSUME Nat \ T # {} PROVE FALSE
  OBVIOUS
<1>2. PICK x \in Nat \ T : \A y \in Nat \ T : x <= y
  BY <1>1, LeastNat
<1>3. x # 0 /\ x - 1 \in Nat
  BY <1>2
<1>4. x - 1 \in T
  BY <1>2, <1>3
<1> QED BY <1>4, <1>2, <1>3

(***************************************************************************)
(* A family of sets holds every subset of a finite set if it holds each    *)
(* one whose subsets with an element less it holds.                        *)
(***************************************************************************)
LEMMA SubsetInduction ==
  ASSUME NEW S, IsFiniteSet(S), NEW T,
         \A s \in SUBSET S : (\A x \in s : s \ {x} \in T) => s \in T
  PROVE  S \in T
<1> DEFINE N == {n \in Nat : \A s \in SUBSET S : Cardinality(s) = n => s \in T}
<1>0. \A s \in SUBSET S : IsFiniteSet(s) /\ Cardinality(s) \in Nat
  BY FS_Subset, FS_CardinalityType
<1>1. 0 \in N
  BY <1>0, FS_EmptySet
<1>2. ASSUME NEW n \in N PROVE n + 1 \in N
  <2>1. SUFFICES ASSUME NEW s \in SUBSET S, Cardinality(s) = n + 1 PROVE s \in T
    OBVIOUS
  <2>2. \A x \in s : Cardinality(s \ {x}) = n /\ s \ {x} \in SUBSET S
    BY <2>1, <1>0, FS_RemoveElement
  <2> QED BY <2>2
<1>3. N = Nat
  <2> HIDE DEF N
  <2>1. N \in SUBSET Nat
    BY DEF N
  <2> QED BY <1>1, <1>2, <2>1, SetInduction
<1> QED BY <1>0, <1>3

-----------------------------------------------------------------------------
(***************************************************************************)
(* The element a sum takes next, and what it is to be the function a sum   *)
(* is read from.                                                           *)
(***************************************************************************)
Pick(s) == CHOOSE x \in s : TRUE

SumsUp(g, f, S) ==
  g = [s \in SUBSET S |-> IF s = {} THEN 0 ELSE f[Pick(s)] + g[s \ {Pick(s)}]]

LEMMA SumIsChosen ==
  ASSUME NEW f, NEW S
  PROVE  SumFunctionOnSet(f, S) = (CHOOSE g : SumsUp(g, f, S))[S]
BY DEF SumFunctionOnSet, FoldFunctionOnSet, MapThenFoldSet, Pick, SumsUp

LEMMA PickIn ==
  ASSUME NEW s, s # {}
  PROVE  Pick(s) \in s
BY DEF Pick

(***************************************************************************)
(* There is such a function: built up by the size of the subsets.          *)
(***************************************************************************)
LEMMA SumExists ==
  ASSUME NEW f, NEW S, IsFiniteSet(S)
  PROVE  SumsUp(CHOOSE g : SumsUp(g, f, S), f, S)
<1> DEFINE Body(g, s) == IF s = {} THEN 0 ELSE f[Pick(s)] + g[s \ {Pick(s)}]
           N == {n \in Nat : \E g : \A s \in SUBSET S :
                               Cardinality(s) <= n => g[s] = Body(g, s)}
<1>0. \A s \in SUBSET S : IsFiniteSet(s) /\ Cardinality(s) \in Nat
  BY FS_Subset, FS_CardinalityType
<1>a. \A s \in SUBSET S : s # {} => /\ s \ {Pick(s)} \in SUBSET S
                                    /\ Cardinality(s \ {Pick(s)}) = Cardinality(s) - 1
  BY <1>0, PickIn, FS_RemoveElement
<1>1. 0 \in N
  <2> DEFINE g0 == [s \in SUBSET S |-> 0]
  <2>1. \A s \in SUBSET S : Cardinality(s) <= 0 => s = {}
    BY <1>0, FS_EmptySet
  <2>2. \A s \in SUBSET S : Cardinality(s) <= 0 => g0[s] = Body(g0, s)
    BY <2>1
  <2> QED BY <2>2
<1>2. ASSUME NEW n \in N PROVE n + 1 \in N
  <2>1. PICK g : \A s \in SUBSET S : Cardinality(s) <= n => g[s] = Body(g, s)
    OBVIOUS
  <2> DEFINE h == [s \in SUBSET S |-> IF Cardinality(s) <= n THEN g[s] ELSE Body(g, s)]
  <2>2. ASSUME NEW s \in SUBSET S, Cardinality(s) <= n + 1 PROVE h[s] = Body(h, s)
    <3>1. h[s] = Body(g, s)
      BY <2>1
    <3>2. s # {} => h[s \ {Pick(s)}] = g[s \ {Pick(s)}]
      BY <1>a, <1>0, <2>2
    <3> QED BY <3>1, <3>2
  <2> HIDE DEF h
  <2>3. n + 1 \in Nat
    OBVIOUS
  <2> QED BY <2>2, <2>3
<1>3. N = Nat
  <2> HIDE DEF N
  <2>1. N \in SUBSET Nat
    BY DEF N
  <2> QED BY <1>1, <1>2, <2>1, SetInduction
<1>4. PICK g : \A s \in SUBSET S : Cardinality(s) <= Cardinality(S) => g[s] = Body(g, s)
  BY <1>3, <1>0
<1>5. \A s \in SUBSET S : Cardinality(s) <= Cardinality(S)
  BY FS_Subset
<1> DEFINE h == [s \in SUBSET S |-> g[s]]
<1>6. ASSUME NEW s \in SUBSET S PROVE h[s] = Body(h, s)
  BY <1>4, <1>5, <1>a
<1>7. h = [s \in SUBSET S |-> h[s]]
  OBVIOUS
<1>8. h = [s \in SUBSET S |-> Body(h, s)]
  BY <1>6, <1>7
<1>9. SumsUp(h, f, S)
  BY <1>8 DEF SumsUp
<1> HIDE DEF h
<1> QED BY <1>9

(***************************************************************************)
(* Two of them agree where what they add up agrees.                        *)
(***************************************************************************)
Agree(e, f, S) == \A x \in S : e[x] = f[x]

LEMMA SumsAgree ==
  ASSUME NEW e, NEW f, NEW A, NEW B, NEW S, IsFiniteSet(S), S \in SUBSET A, S \in SUBSET B,
         Agree(e, f, S),
         NEW g, NEW h, SumsUp(g, e, A), SumsUp(h, f, B)
  PROVE  g[S] = h[S]
<1> DEFINE T == {s \in SUBSET S : g[s] = h[s]}
<1>1. \A s \in SUBSET S : s # {} => /\ g[s] = e[Pick(s)] + g[s \ {Pick(s)}]
                                    /\ h[s] = f[Pick(s)] + h[s \ {Pick(s)}]
  BY DEF SumsUp
<1>2. g[{}] = 0 /\ h[{}] = 0
  BY DEF SumsUp
<1>3. ASSUME NEW s \in SUBSET S, \A x \in s : s \ {x} \in T PROVE s \in T
  BY <1>1, <1>2, <1>3, PickIn DEF Agree
<1> HIDE DEF T
<1>4. S \in T
  BY <1>3, SubsetInduction, Zenon
<1> QED BY <1>4 DEF T

LEMMA SumEmpty ==
  ASSUME NEW f
  PROVE  SumFunctionOnSet(f, {}) = 0
<1>1. SumsUp(CHOOSE g : SumsUp(g, f, {}), f, {})
  BY SumExists, FS_EmptySet
<1> DEFINE G == CHOOSE g : SumsUp(g, f, {})
<1>2. SumFunctionOnSet(f, {}) = G[{}]
  BY SumIsChosen
<1> HIDE DEF G
<1>3. SumsUp(G, f, {})
  BY <1>1 DEF G
<1> QED BY <1>2, <1>3 DEF SumsUp

(***************************************************************************)
(* A sum depends on nothing but the values at its indices.                 *)
(***************************************************************************)
LEMMA SumSame ==
  ASSUME NEW e, NEW f, NEW S, IsFiniteSet(S), \A x \in S : e[x] = f[x]
  PROVE  SumFunctionOnSet(e, S) = SumFunctionOnSet(f, S)
<1> DEFINE G == CHOOSE g : SumsUp(g, e, S)
           H == CHOOSE g : SumsUp(g, f, S)
<1>1. SumsUp(G, e, S) /\ SumsUp(H, f, S)
  BY SumExists
<1>2. SumFunctionOnSet(e, S) = G[S] /\ SumFunctionOnSet(f, S) = H[S]
  BY SumIsChosen
<1> HIDE DEF G, H
<1>3. G[S] = H[S]
  <2>1. S \in SUBSET S /\ Agree(e, f, S)
    BY DEF Agree
  <2> QED BY <1>1, <2>1, SumsAgree
<1> QED BY <1>2, <1>3

LEMMA SumPick ==
  ASSUME NEW f, NEW S, IsFiniteSet(S), S # {}
  PROVE  SumFunctionOnSet(f, S) = f[Pick(S)] + SumFunctionOnSet(f, S \ {Pick(S)})
<1> DEFINE R == S \ {Pick(S)}
           G == CHOOSE g : SumsUp(g, f, S)
           H == CHOOSE g : SumsUp(g, f, R)
<1>0. IsFiniteSet(R) /\ R \subseteq S
  BY FS_Subset
<1>1. SumsUp(G, f, S) /\ SumsUp(H, f, R)
  BY SumExists, <1>0
<1>2. SumFunctionOnSet(f, S) = G[S] /\ SumFunctionOnSet(f, R) = H[R]
  BY SumIsChosen
<1> HIDE DEF G, H
<1>3. G[R] = H[R]
  <2> HIDE DEF R
  <2>1. R \in SUBSET R /\ R \in SUBSET S /\ Agree(f, f, R)
    BY <1>0 DEF Agree
  <2> QED BY <1>0, <1>1, <2>1, SumsAgree
<1>4. G[S] = f[Pick(S)] + G[R]
  BY <1>1 DEF SumsUp
<1> QED BY <1>2, <1>3, <1>4

(***************************************************************************)
(* Naturals add up to a natural.                                           *)
(***************************************************************************)
LEMMA SumIsNat ==
  ASSUME NEW f, NEW S, IsFiniteSet(S), \A x \in S : f[x] \in Nat
  PROVE  SumFunctionOnSet(f, S) \in Nat
<1> DEFINE T == {s \in SUBSET S : SumFunctionOnSet(f, s) \in Nat}
<1>1. ASSUME NEW s \in SUBSET S, \A x \in s : s \ {x} \in T PROVE s \in T
  <2>1. CASE s = {}
    BY <2>1, SumEmpty
  <2>2. CASE s # {}
    <3>1. IsFiniteSet(s) /\ Pick(s) \in s
      BY <2>2, FS_Subset, PickIn
    <3>2. SumFunctionOnSet(f, s) = f[Pick(s)] + SumFunctionOnSet(f, s \ {Pick(s)})
      BY <2>2, <3>1, SumPick
    <3> QED BY <1>1, <3>1, <3>2
  <2> QED BY <2>1, <2>2
<1> HIDE DEF T
<1>2. S \in T
  BY <1>1, SubsetInduction, Zenon
<1> QED BY <1>2 DEF T

(***************************************************************************)
(* Any element may be taken out of a sum, not only the one it picks.       *)
(***************************************************************************)
LEMMA SumRemove ==
  ASSUME NEW f, NEW S, IsFiniteSet(S), \A x \in S : f[x] \in Nat
  PROVE  \A x \in S : SumFunctionOnSet(f, S) = f[x] + SumFunctionOnSet(f, S \ {x})
<1> DEFINE T == {s \in SUBSET S : \A x \in s :
                   SumFunctionOnSet(f, s) = f[x] + SumFunctionOnSet(f, s \ {x})}
<1>1. ASSUME NEW s \in SUBSET S, \A x \in s : s \ {x} \in T PROVE s \in T
  <2>1. SUFFICES ASSUME NEW x \in s
                 PROVE  SumFunctionOnSet(f, s) = f[x] + SumFunctionOnSet(f, s \ {x})
    OBVIOUS
  <2>2. PICK p \in s : SumFunctionOnSet(f, s) = f[p] + SumFunctionOnSet(f, s \ {p})
    BY FS_Subset, PickIn, SumPick
  <2>3. CASE p = x
    BY <2>2, <2>3
  <2>4. CASE p # x
    <3> DEFINE r == (s \ {p}) \ {x}
    <3>1. x \in s \ {p} /\ p \in s \ {x} /\ (s \ {x}) \ {p} = r
      BY <2>4
    <3>2. SumFunctionOnSet(f, s \ {p}) = f[x] + SumFunctionOnSet(f, r)
      BY <1>1, <3>1
    <3>3. SumFunctionOnSet(f, s \ {x}) = f[p] + SumFunctionOnSet(f, r)
      BY <1>1, <3>1
    <3>4. f[x] \in Nat /\ f[p] \in Nat
      OBVIOUS
    <3>5. SumFunctionOnSet(f, r) \in Nat
      <4>1. r \subseteq S /\ IsFiniteSet(r)
        BY FS_Subset
      <4> HIDE DEF r
      <4> QED BY <4>1, SumIsNat
    <3> HIDE DEF r
    <3> QED BY <2>2, <3>2, <3>3, <3>4, <3>5
  <2> QED BY <2>3, <2>4
<1> HIDE DEF T
<1>2. S \in T
  BY <1>1, SubsetInduction, Zenon
<1> QED BY <1>2 DEF T

(***************************************************************************)
(* Two disjoint sets of indices.                                           *)
(***************************************************************************)
LEMMA SumUnion ==
  ASSUME NEW f, NEW A, NEW B, IsFiniteSet(A), IsFiniteSet(B), A \cap B = {},
         \A x \in A \cup B : f[x] \in Nat
  PROVE  SumFunctionOnSet(f, A \cup B) = SumFunctionOnSet(f, A) + SumFunctionOnSet(f, B)
<1> DEFINE T == {s \in SUBSET B :
                   SumFunctionOnSet(f, A \cup s) = SumFunctionOnSet(f, A) + SumFunctionOnSet(f, s)}
<1>0. \A s \in SUBSET B : IsFiniteSet(A \cup s) /\ IsFiniteSet(s)
  BY FS_Subset, FS_Union
<1>1. {} \in T
  <2>1. A \cup {} = A /\ SumFunctionOnSet(f, {}) = 0 /\ SumFunctionOnSet(f, A) \in Nat
    BY SumEmpty, SumIsNat
  <2> QED BY <2>1
<1>2. ASSUME NEW s \in SUBSET B, NEW x \in s, s \ {x} \in T PROVE s \in T
  <2>1. SumFunctionOnSet(f, A \cup s) = f[x] + SumFunctionOnSet(f, (A \cup s) \ {x})
    BY <1>0, SumRemove
  <2>2. SumFunctionOnSet(f, s) = f[x] + SumFunctionOnSet(f, s \ {x})
    <3>1. IsFiniteSet(s) /\ \A y \in s : f[y] \in Nat
      BY <1>0
    <3> HIDE DEF T
    <3> QED BY <3>1, SumRemove
  <2>3. (A \cup s) \ {x} = A \cup (s \ {x})
    OBVIOUS
  <2>4. SumFunctionOnSet(f, A) \in Nat /\ SumFunctionOnSet(f, s \ {x}) \in Nat /\ f[x] \in Nat
    BY <1>0, SumIsNat, FS_Subset
  <2> QED BY <1>2, <2>1, <2>2, <2>3, <2>4
<1> HIDE DEF T
<1>3. \A s \in SUBSET B : (\A x \in s : s \ {x} \in T) => s \in T
  BY <1>1, <1>2
<1>4. B \in T
  BY <1>3, SubsetInduction, Zenon
<1> QED BY <1>4 DEF T

(***************************************************************************)
(* Renaming the indices.                                                   *)
(***************************************************************************)
Renames(b, e, f, S) ==
  /\ \A x, y \in S : b[x] = b[y] => x = y
  /\ \A x \in S : f[b[x]] = e[x] /\ e[x] \in Nat

NewNames(b, S) == {b[x] : x \in S}

LEMMA SumReindex ==
  ASSUME NEW e, NEW f, NEW S, IsFiniteSet(S), NEW b, Renames(b, e, f, S)
  PROVE  SumFunctionOnSet(f, NewNames(b, S)) = SumFunctionOnSet(e, S)
<1> USE DEF Renames
<1> DEFINE Im(s) == {b[x] : x \in s}
           T == {s \in SUBSET S : SumFunctionOnSet(f, Im(s)) = SumFunctionOnSet(e, s)}
<1>0. \A s \in SUBSET S : IsFiniteSet(s) /\ IsFiniteSet(Im(s))
  <2>1. ASSUME NEW s \in SUBSET S PROVE IsFiniteSet(s)
    BY FS_Subset
  <2>2. ASSUME NEW s \in SUBSET S PROVE IsFiniteSet(Im(s))
    <3> DEFINE g == [x \in s |-> b[x]]
    <3>1. g \in Surjection(s, Im(s))
      BY DEF Surjection
    <3> HIDE DEF g
    <3> QED BY <3>1, <2>1, FS_Surjection
  <2> QED BY <2>1, <2>2
<1>1. {} \in T
  <2>1. Im({}) = {}
    OBVIOUS
  <2> QED BY <2>1, SumEmpty
<1>2. ASSUME NEW s \in SUBSET S, NEW x \in s, s \ {x} \in T PROVE s \in T
  <2>1. Im(s) \ {b[x]} = Im(s \ {x}) /\ b[x] \in Im(s)
    OBVIOUS
  <2>2. \A y \in Im(s) : f[y] \in Nat
    OBVIOUS
  <2>3. SumFunctionOnSet(f, Im(s)) = f[b[x]] + SumFunctionOnSet(f, Im(s) \ {b[x]})
    <3> HIDE DEF Im
    <3> QED BY <1>0, <2>1, <2>2, SumRemove
  <2>4. SumFunctionOnSet(e, s) = e[x] + SumFunctionOnSet(e, s \ {x})
    <3>1. IsFiniteSet(s) /\ \A y \in s : e[y] \in Nat
      BY <1>0
    <3> HIDE DEF T, Im
    <3> QED BY <3>1, SumRemove
  <2> QED BY <1>2, <2>1, <2>3, <2>4
<1> HIDE DEF T
<1>3. \A s \in SUBSET S : (\A x \in s : s \ {x} \in T) => s \in T
  BY <1>1, <1>2
<1>4. S \in T
  BY <1>3, SubsetInduction, Zenon
<1> QED BY <1>4 DEF T, NewNames

(***************************************************************************)
(* More indices, or an index set inside another, and larger values.        *)
(***************************************************************************)
LEMMA SumMonotone ==
  ASSUME NEW f, NEW A, NEW B, IsFiniteSet(B), A \subseteq B, \A x \in B : f[x] \in Nat
  PROVE  SumFunctionOnSet(f, A) <= SumFunctionOnSet(f, B)
<1>1. B = A \cup (B \ A) /\ IsFiniteSet(A) /\ IsFiniteSet(B \ A) /\ A \cap (B \ A) = {}
  BY FS_Subset
<1>2. SumFunctionOnSet(f, B) = SumFunctionOnSet(f, A) + SumFunctionOnSet(f, B \ A)
  BY <1>1, SumUnion
<1>3. SumFunctionOnSet(f, A) \in Nat /\ SumFunctionOnSet(f, B \ A) \in Nat
  BY <1>1, SumIsNat
<1> QED BY <1>2, <1>3
=============================================================================
