---------------------------- MODULE QueueLemmas ----------------------------
(***************************************************************************)
(* What the queue operations do to the set of queued elements and to their *)
(* order.                                                                  *)
(***************************************************************************)
EXTENDS Queues, FiniteSetTheorems, TLAPS

-----------------------------------------------------------------------------
(* The sequence operators, element by element                              *)

\* The empty sequence, and what a sequence other than it has.
LEMMA NoElements ==
  ASSUME NEW S
  PROVE  /\ <<>> \in Seq(S) /\ Len(<<>>) = 0
         /\ \A q \in Seq(S) : q # <<>> => Len(q) \in Nat \ {0}
OBVIOUS

\* Concatenation.
LEMMA ConcatElements ==
  ASSUME NEW S, NEW p \in Seq(S), NEW q \in Seq(S)
  PROVE  /\ p \o q \in Seq(S)
         /\ Len(p \o q) = Len(p) + Len(q)
         /\ \A i \in 1 .. Len(p) + Len(q) : (p \o q)[i] = IF i <= Len(p) THEN p[i] ELSE q[i - Len(p)]
OBVIOUS

\* Concatenation with the empty sequence.
LEMMA ConcatNothing ==
  ASSUME NEW S, NEW q \in Seq(S)
  PROVE  q \o <<>> = q /\ <<>> \o q = q
OBVIOUS

\* A part of a sequence.
LEMMA SubSeqElements ==
  ASSUME NEW S, NEW q, NEW m \in Int, NEW n \in Int, \A i \in m .. n : q[i] \in S
  PROVE  /\ SubSeq(q, m, n) \in Seq(S)
         /\ Len(SubSeq(q, m, n)) = IF m <= n THEN n - m + 1 ELSE 0
         /\ \A i \in 1 .. n - m + 1 : SubSeq(q, m, n)[i] = q[m + i - 1]
OBVIOUS

\* The head and the rest of a sequence.
LEMMA TailElements ==
  ASSUME NEW S, NEW q \in Seq(S), q # <<>>
  PROVE  /\ Head(q) \in S
         /\ Tail(q) \in Seq(S)
         /\ Len(Tail(q)) = Len(q) - 1
         /\ \A i \in 1 .. Len(Tail(q)) : Tail(q)[i] = q[i + 1]
OBVIOUS

\* A sequence with an element more.
LEMMA AppendElements ==
  ASSUME NEW S, NEW q \in Seq(S), NEW e \in S
  PROVE  /\ Append(q, e) \in Seq(S)
         /\ Len(Append(q, e)) = Len(q) + 1
         /\ \A i \in 1 .. Len(q) : Append(q, e)[i] = q[i]
         /\ Append(q, e)[Len(q) + 1] = e
OBVIOUS

\* Appending is concatenation with a sequence of one.
LEMMA ConcatSingle ==
  ASSUME NEW S, NEW q \in Seq(S), NEW e \in S
  PROVE  Append(q, e) = q \o <<e>>
OBVIOUS

-----------------------------------------------------------------------------
(* Queues                                                                  *)

\* The elements of a queue, by position.
LEMMA QueueElements ==
  ASSUME NEW S, NEW q \in Seq(S)
  PROVE  /\ DOMAIN q = 1 .. Len(q)
         /\ Len(q) \in Nat
         /\ Range(q) \subseteq S
         /\ \A i \in 1 .. Len(q) : q[i] \in Range(q) /\ q[i] \in S
         /\ \A x \in Range(q) : \E i \in 1 .. Len(q) : q[i] = x
BY DEF Range

\* Putting two disjoint queues together.
LEMMA ConcatQueue ==
  ASSUME NEW S, NEW p \in Seq(S), NEW q \in Seq(S)
  PROVE  /\ p \o q \in Seq(S)
         /\ Range(p \o q) = Range(p) \cup Range(q)
         /\ Distinct(p) /\ Distinct(q) /\ Range(p) \cap Range(q) = {}
              => Distinct(p \o q)
<1> DEFINE r == p \o q
<1>1. /\ r \in Seq(S)
      /\ Len(r) = Len(p) + Len(q)
      /\ \A i \in 1 .. Len(r) : r[i] = IF i <= Len(p) THEN p[i] ELSE q[i - Len(p)]
  BY ConcatElements
<1>2. /\ DOMAIN r = 1 .. Len(r)
      /\ DOMAIN p = 1 .. Len(p) /\ Len(p) \in Nat
      /\ DOMAIN q = 1 .. Len(q) /\ Len(q) \in Nat
  BY <1>1, QueueElements
<1> HIDE DEF r
<1>3. Range(r) \subseteq Range(p) \cup Range(q)
  <2> SUFFICES ASSUME NEW i \in 1 .. Len(r)
               PROVE  r[i] \in Range(p) \cup Range(q)
    BY <1>1, <1>2, QueueElements, SMTT(30) DEF Range
  <2>1. CASE i <= Len(p)
    BY <1>1, <1>2, <2>1, QueueElements
  <2>2. CASE i > Len(p)
    <3>1. i - Len(p) \in 1 .. Len(q) /\ r[i] = q[i - Len(p)]
      BY <1>1, <1>2, <2>2
    <3> QED
      BY <3>1, QueueElements
  <2> QED
    BY <1>2, <2>1, <2>2
<1>4. ASSUME NEW x \in Range(p) PROVE x \in Range(r)
  <2>1. PICK i \in 1 .. Len(p) : p[i] = x
    BY QueueElements
  <2>2. i \in 1 .. Len(r) /\ r[i] = x
    BY <1>1, <1>2, <2>1
  <2> QED
    BY <1>2, <2>2 DEF Range
<1>5. ASSUME NEW x \in Range(q) PROVE x \in Range(r)
  <2>1. PICK i \in 1 .. Len(q) : q[i] = x
    BY QueueElements
  <2>2. i + Len(p) \in 1 .. Len(r) /\ r[i + Len(p)] = x
    BY <1>1, <1>2, <2>1, SMTT(30)
  <2> QED
    BY <1>2, <2>2 DEF Range
<1>6. ASSUME Distinct(p), Distinct(q), Range(p) \cap Range(q) = {}
      PROVE  Distinct(r)
  <2> SUFFICES ASSUME NEW i \in 1 .. Len(r), NEW j \in 1 .. Len(r), r[i] = r[j]
               PROVE  i = j
    BY <1>2 DEF Distinct
  <2>1. CASE i <= Len(p) /\ j <= Len(p)
    BY <1>1, <1>2, <1>6, <2>1 DEF Distinct
  <2>2. CASE i > Len(p) /\ j > Len(p)
    <3>1. /\ i - Len(p) \in 1 .. Len(q) /\ j - Len(p) \in 1 .. Len(q)
          /\ q[i - Len(p)] = q[j - Len(p)]
      BY <1>1, <1>2, <2>2
    <3>2. i - Len(p) = j - Len(p)
      BY <1>2, <1>6, <3>1 DEF Distinct
    <3> QED
      BY <1>2, <3>2
  <2>3. ASSUME NEW a \in 1 .. Len(r), NEW b \in 1 .. Len(r),
               a <= Len(p), b > Len(p), r[a] = r[b]
        PROVE  FALSE
    <3>1. r[a] \in Range(p)
      BY <1>1, <1>2, <2>3 DEF Range
    <3>2. b - Len(p) \in 1 .. Len(q) /\ r[b] = q[b - Len(p)]
      BY <1>1, <1>2, <2>3
    <3>3. r[b] \in Range(q)
      BY <1>2, <3>2 DEF Range
    <3> QED
      BY <1>6, <2>3, <3>1, <3>3
  <2> QED
    BY <1>2, <2>1, <2>2, <2>3
<1> QED
  BY <1>1, <1>3, <1>4, <1>5, <1>6 DEF r

\* Appending an element that is not queued (TAILQ_INSERT_TAIL).
LEMMA AppendQueue ==
  ASSUME NEW S, NEW q \in Seq(S), NEW x \in S
  PROVE  /\ Append(q, x) \in Seq(S)
         /\ Range(Append(q, x)) = Range(q) \cup {x}
         /\ x \notin Range(q) /\ Distinct(q) => Distinct(Append(q, x))
<1>1. <<x>> \in Seq(S) /\ Range(<<x>>) = {x} /\ Distinct(<<x>>)
  BY DEF Range, Distinct
<1>2. Append(q, x) = q \o <<x>>
  BY ConcatSingle
<1>3. /\ q \o <<x>> \in Seq(S)
      /\ Range(q \o <<x>>) = Range(q) \cup Range(<<x>>)
      /\ Distinct(q) /\ Distinct(<<x>>) /\ Range(q) \cap Range(<<x>>) = {}
           => Distinct(q \o <<x>>)
  BY <1>1, ConcatQueue, Zenon
<1>4. x \notin Range(q) => Range(q) \cap Range(<<x>>) = {}
  BY <1>1
<1> QED
  BY <1>1, <1>2, <1>3, <1>4, Zenon

\* A queue cut in two.
LEMMA SplitQueue ==
  ASSUME NEW S, NEW q \in Seq(S), NEW k \in 0 .. Len(q)
  PROVE  LET a == SubSeq(q, 1, k)
             b == SubSeq(q, k + 1, Len(q))
         IN  /\ a \in Seq(S) /\ b \in Seq(S)
             /\ Len(a) = k /\ Len(b) = Len(q) - k
             /\ \A i \in 1 .. k : a[i] = q[i]
             /\ \A i \in 1 .. Len(q) - k : b[i] = q[k + i]
             /\ Range(a) = {q[i] : i \in 1 .. k}
             /\ Range(b) = {q[i] : i \in (k + 1) .. Len(q)}
             /\ Distinct(q) => /\ Distinct(a) /\ Distinct(b)
                               /\ Range(a) \cap Range(b) = {}
<1> DEFINE a == SubSeq(q, 1, k)
           b == SubSeq(q, k + 1, Len(q))
<1>0. DOMAIN q = 1 .. Len(q) /\ Len(q) \in Nat /\ k \in Nat /\ k <= Len(q)
  BY QueueElements
<1>1. /\ a \in Seq(S) /\ Len(a) = k
      /\ \A i \in 1 .. k : a[i] = q[i]
  <2>1. \A i \in 1 .. k : q[i] \in S
    BY <1>0, QueueElements
  <2> QED
    BY <1>0, <2>1, SubSeqElements
<1>2. /\ b \in Seq(S) /\ Len(b) = Len(q) - k
      /\ \A i \in 1 .. Len(q) - k : b[i] = q[k + i]
  <2>1. \A i \in (k + 1) .. Len(q) : q[i] \in S
    BY <1>0, QueueElements
  <2>2. /\ b \in Seq(S)
        /\ Len(b) = IF k + 1 <= Len(q) THEN Len(q) - (k + 1) + 1 ELSE 0
        /\ \A i \in 1 .. Len(q) - (k + 1) + 1 : b[i] = q[(k + 1) + i - 1]
    BY <1>0, <2>1, SubSeqElements
  <2>3. Len(b) = Len(q) - k
    <3>1. Len(b) = IF k + 1 <= Len(q) THEN Len(q) - (k + 1) + 1 ELSE 0
      BY <2>2
    <3> DEFINE n == Len(q)
               m == Len(b)
    <3>2. n \in Nat /\ k \in Nat /\ k <= n
      BY <1>0
    <3>3. m = IF k + 1 <= n THEN n - (k + 1) + 1 ELSE 0
      BY <3>1
    <3> HIDE DEF n, m
    <3>4. m = n - k
      BY <3>2, <3>3
    <3> QED
      BY <3>4 DEF n, m
  <2>4. ASSUME NEW i \in 1 .. Len(q) - k PROVE b[i] = q[k + i]
    <3>1. i \in 1 .. Len(q) - (k + 1) + 1 /\ (k + 1) + i - 1 = k + i
      BY <1>0
    <3> HIDE DEF b
    <3> QED
      BY <2>2, <3>1
  <2> QED
    BY <2>2, <2>3, <2>4
<1>3. DOMAIN a = 1 .. k /\ DOMAIN b = 1 .. Len(q) - k
  BY <1>1, <1>2, QueueElements
<1> HIDE DEF a, b
<1>4. Range(a) = {q[i] : i \in 1 .. k}
  BY <1>1, <1>3 DEF Range
<1>5. Range(b) = {q[i] : i \in (k + 1) .. Len(q)}
  <2>1. ASSUME NEW i \in (k + 1) .. Len(q) PROVE q[i] \in Range(b)
    <3>1. i - k \in 1 .. Len(q) - k /\ b[i - k] = q[i]
      BY <1>0, <1>2
    <3> QED
      BY <1>3, <3>1 DEF Range
  <2>2. ASSUME NEW i \in 1 .. Len(q) - k
        PROVE  b[i] \in {q[j] : j \in (k + 1) .. Len(q)}
    <3>1. k + i \in (k + 1) .. Len(q) /\ b[i] = q[k + i]
      BY <1>0, <1>2
    <3> QED
      BY <3>1
  <2> QED
    BY <1>3, <2>1, <2>2 DEF Range
<1>6. ASSUME Distinct(q)
      PROVE  Distinct(a) /\ Distinct(b) /\ Range(a) \cap Range(b) = {}
  <2>1. Distinct(a)
    BY <1>0, <1>1, <1>3, <1>6 DEF Distinct
  <2>2. Distinct(b)
    <3> SUFFICES ASSUME NEW i \in 1 .. Len(q) - k, NEW j \in 1 .. Len(q) - k,
                        b[i] = b[j]
                 PROVE  i = j
      BY <1>3 DEF Distinct
    <3>1. k + i \in DOMAIN q /\ k + j \in DOMAIN q /\ q[k + i] = q[k + j]
      BY <1>0, <1>2
    <3>2. k + i = k + j
      BY <1>6, <3>1 DEF Distinct
    <3> QED
      BY <1>0, <3>2
  <2>3. Range(a) \cap Range(b) = {}
    BY <1>0, <1>4, <1>5, <1>6 DEF Distinct
  <2> QED
    BY <2>1, <2>2, <2>3
<1> QED
  BY <1>1, <1>2, <1>4, <1>5, <1>6 DEF a, b

\* Taking the first element off.
LEMMA TailQueue ==
  ASSUME NEW S, NEW q \in Seq(S), q # <<>>
  PROVE  /\ Tail(q) \in Seq(S)
         /\ Head(q) \in Range(q)
         /\ Distinct(q) => /\ Range(Tail(q)) = Range(q) \ {Head(q)}
                           /\ Distinct(Tail(q))
<1>1. /\ Len(q) \in Nat \ {0} /\ 1 \in 0 .. Len(q)
      /\ DOMAIN q = 1 .. Len(q)
      /\ Head(q) = q[1]
  BY NoElements, QueueElements
<1>2. Tail(q) = SubSeq(q, 1 + 1, Len(q))
  BY <1>1
<1>3. /\ Tail(q) \in Seq(S)
      /\ Range(Tail(q)) = {q[i] : i \in (1 + 1) .. Len(q)}
      /\ Distinct(q) => Distinct(Tail(q))
  <2>1. LET b == SubSeq(q, 1 + 1, Len(q))
        IN  /\ b \in Seq(S)
            /\ Range(b) = {q[i] : i \in (1 + 1) .. Len(q)}
            /\ Distinct(q) => Distinct(b)
    BY <1>1, SplitQueue, Zenon
  <2> QED
    BY <1>2, <2>1, Zenon
<1>4. ASSUME Distinct(q)
      PROVE  {q[i] : i \in (1 + 1) .. Len(q)} = Range(q) \ {Head(q)}
  <2>1. \A i \in DOMAIN q : q[i] # q[1] <=> i \in (1 + 1) .. Len(q)
    BY <1>1, <1>4 DEF Distinct
  <2> QED
    BY <1>1, <2>1 DEF Range
<1>5. Head(q) \in Range(q)
  BY <1>1 DEF Range
<1> QED
  BY <1>3, <1>4, <1>5, Zenon

\* Unlinking an element (TAILQ_REMOVE): the others keep their order.
LEMMA UnlinkQueue ==
  ASSUME NEW S, NEW q \in Seq(S), NEW x \in Range(q), Distinct(q)
  PROVE  LET u == Unlink(q, x)
         IN  /\ u \in Seq(S)
             /\ Range(u) = Range(q) \ {x}
             /\ Distinct(u)
             /\ \A i, j \in DOMAIN u : i < j =>
                  \E k, l \in DOMAIN q : k < l /\ u[i] = q[k] /\ u[j] = q[l]
<1> DEFINE p == Position(q, x)
           a == SubSeq(q, 1, p - 1)
           b == SubSeq(q, p + 1, Len(q))
           u == a \o b
<1>1. DOMAIN q = 1 .. Len(q) /\ Len(q) \in Nat
  BY QueueElements
<1>2. p \in 1 .. Len(q) /\ q[p] = x
  BY <1>1, QueueElements DEF Position
<1> HIDE DEF p
<1>3. /\ a \in Seq(S) /\ Len(a) = p - 1
      /\ \A i \in 1 .. p - 1 : a[i] = q[i]
      /\ Range(a) = {q[i] : i \in 1 .. p - 1}
      /\ Distinct(a)
  <2>1. p - 1 \in 0 .. Len(q)
    BY <1>1, <1>2
  <2> QED
    BY <2>1, SplitQueue
<1>4. /\ b \in Seq(S) /\ Len(b) = Len(q) - p
      /\ \A i \in 1 .. Len(q) - p : b[i] = q[p + i]
      /\ Range(b) = {q[i] : i \in (p + 1) .. Len(q)}
      /\ Distinct(b)
  <2>1. p \in 0 .. Len(q)
    BY <1>1, <1>2
  <2> QED
    BY <2>1, SplitQueue
<1> HIDE DEF a, b
<1>5. Range(a) \cap Range(b) = {}
  <2>1. ASSUME NEW i \in 1 .. p - 1, NEW j \in (p + 1) .. Len(q) PROVE q[i] # q[j]
    BY <1>1, <1>2 DEF Distinct
  <2> SUFFICES ASSUME NEW y \in Range(a), y \in Range(b) PROVE FALSE
    OBVIOUS
  <2>2. PICK i \in 1 .. p - 1 : y = q[i]
    BY <1>3
  <2>3. PICK j \in (p + 1) .. Len(q) : y = q[j]
    BY <1>4
  <2> QED
    BY <2>1, <2>2, <2>3
<1>6. u \in Seq(S) /\ Range(u) = Range(a) \cup Range(b) /\ Distinct(u)
  <2>1. /\ a \o b \in Seq(S)
        /\ Range(a \o b) = Range(a) \cup Range(b)
        /\ Distinct(a) /\ Distinct(b) /\ Range(a) \cap Range(b) = {}
             => Distinct(a \o b)
    BY <1>3, <1>4, ConcatQueue, Zenon
  <2> QED
    BY <1>3, <1>4, <1>5, <2>1, Zenon
<1>7. Range(a) \cup Range(b) = Range(q) \ {x}
  <2>1. \A i \in DOMAIN q : q[i] # x <=> i \in 1 .. p - 1 \/ i \in (p + 1) .. Len(q)
    BY <1>1, <1>2 DEF Distinct
  <2>2. \A i \in 1 .. p - 1 : i \in DOMAIN q
    BY <1>1, <1>2
  <2>3. \A i \in (p + 1) .. Len(q) : i \in DOMAIN q
    BY <1>1, <1>2
  <2> QED
    <3>1. ASSUME NEW y \in Range(a) \cup Range(b) PROVE y \in Range(q) \ {x}
      <4>1. PICK i \in DOMAIN q : y = q[i] /\ (i \in 1 .. p - 1 \/ i \in (p + 1) .. Len(q))
        BY <1>3, <1>4, <2>2, <2>3
      <4> QED
        BY <2>1, <4>1 DEF Range
    <3>2. ASSUME NEW y \in Range(q) \ {x} PROVE y \in Range(a) \cup Range(b)
      <4>1. PICK i \in DOMAIN q : y = q[i]
        BY DEF Range
      <4>2. i \in 1 .. p - 1 \/ i \in (p + 1) .. Len(q)
        BY <2>1, <4>1
      <4> QED
        BY <1>3, <1>4, <4>1, <4>2
    <3> QED
      BY <3>1, <3>2
<1>8. /\ DOMAIN u = 1 .. Len(q) - 1
      /\ \A i \in DOMAIN u : u[i] = IF i < p THEN q[i] ELSE q[i + 1]
  <2>1. /\ Len(u) = Len(a) + Len(b)
        /\ \A i \in 1 .. Len(a) + Len(b) :
             u[i] = IF i <= Len(a) THEN a[i] ELSE b[i - Len(a)]
    BY <1>3, <1>4, ConcatElements
  <2>2. DOMAIN u = 1 .. Len(u)
    BY <1>6, QueueElements
  <2> HIDE DEF u
  <2>3. Len(a) + Len(b) = Len(q) - 1
    BY <1>1, <1>2, <1>3, <1>4
  <2>4. ASSUME NEW i \in 1 .. Len(q) - 1
        PROVE  u[i] = IF i < p THEN q[i] ELSE q[i + 1]
    <3>1. CASE i < p
      BY <1>1, <1>2, <1>3, <2>1, <2>3, <3>1
    <3>2. CASE i >= p
      <4>1. u[i] = b[i - (p - 1)]
        BY <1>1, <1>2, <1>3, <2>1, <2>3, <3>2
      <4>2. i - (p - 1) \in 1 .. Len(q) - p /\ p + (i - (p - 1)) = i + 1
        BY <1>1, <1>2, <3>2
      <4>3. b[i - (p - 1)] = q[p + (i - (p - 1))]
        BY <1>4, <4>2
      <4> QED
        BY <1>1, <1>2, <3>2, <4>1, <4>2, <4>3
    <3> QED
      BY <1>1, <1>2, <3>1, <3>2
  <2> QED
    BY <2>1, <2>2, <2>3, <2>4
<1> HIDE DEF u
<1>9. ASSUME NEW i \in DOMAIN u, NEW j \in DOMAIN u, i < j
      PROVE  \E k, l \in DOMAIN q : k < l /\ u[i] = q[k] /\ u[j] = q[l]
  <2> DEFINE k == IF i < p THEN i ELSE i + 1
             l == IF j < p THEN j ELSE j + 1
  <2>1. k \in DOMAIN q /\ l \in DOMAIN q /\ k < l
    BY <1>1, <1>2, <1>8, <1>9
  <2>2. u[i] = q[k] /\ u[j] = q[l]
    BY <1>8
  <2> QED
    BY <2>1, <2>2
<1>10. Unlink(q, x) = u
  BY DEF Unlink, u, a, b, p
<1> QED
  BY <1>6, <1>7, <1>9, <1>10

\* ... and the queue has lost that element only.
LEMMA UnlinkRange ==
  ASSUME NEW S, NEW q \in Seq(S), NEW x, x \in Range(q), Distinct(q)
  PROVE  /\ Unlink(q, x) \in Seq(S)
         /\ Range(Unlink(q, x)) = Range(q) \ {x}
         /\ Distinct(Unlink(q, x))
BY UnlinkQueue

\* Inserting an element that is not queued (TAILQ_INSERT_BEFORE).
LEMMA InsertQueue ==
  ASSUME NEW S, NEW q \in Seq(S), NEW e \in S, NEW p \in 1 .. Len(q) + 1,
         e \notin Range(q), Distinct(q)
  PROVE  LET r == InsertBefore(q, p, e)
         IN  /\ r \in Seq(S)
             /\ Range(r) = Range(q) \cup {e}
             /\ Distinct(r)
             /\ DOMAIN r = 1 .. Len(q) + 1
             /\ \A i \in DOMAIN r :
                  r[i] = IF i < p THEN q[i] ELSE IF i = p THEN e ELSE q[i - 1]
<1> DEFINE a == SubSeq(q, 1, p - 1)
           b == SubSeq(q, p, Len(q))
           c == a \o <<e>>
           r == c \o b
<1>1. DOMAIN q = 1 .. Len(q) /\ Len(q) \in Nat /\ p \in Nat
  BY QueueElements
<1>2. p - 1 \in 0 .. Len(q) /\ (p - 1) + 1 = p
  BY <1>1
<1>3. /\ a \in Seq(S) /\ Len(a) = p - 1
      /\ \A i \in 1 .. p - 1 : a[i] = q[i]
      /\ Range(a) = {q[i] : i \in 1 .. p - 1}
      /\ Distinct(a)
  BY <1>2, SplitQueue
<1>4. /\ b \in Seq(S) /\ Len(b) = Len(q) - (p - 1)
      /\ \A i \in 1 .. Len(q) - (p - 1) : b[i] = q[(p - 1) + i]
      /\ Range(b) = {q[i] : i \in p .. Len(q)}
      /\ Distinct(b)
      /\ Range(a) \cap Range(b) = {}
  <2>1. PICK k \in 0 .. Len(q) : k = p - 1 /\ k + 1 = p
    BY <1>2
  <2>2. LET f == SubSeq(q, 1, k)
            d == SubSeq(q, k + 1, Len(q))
        IN  /\ f \in Seq(S) /\ d \in Seq(S)
            /\ Len(f) = k /\ Len(d) = Len(q) - k
            /\ \A i \in 1 .. k : f[i] = q[i]
            /\ \A i \in 1 .. Len(q) - k : d[i] = q[k + i]
            /\ Range(f) = {q[i] : i \in 1 .. k}
            /\ Range(d) = {q[i] : i \in (k + 1) .. Len(q)}
            /\ Distinct(q) => /\ Distinct(f) /\ Distinct(d)
                              /\ Range(f) \cap Range(d) = {}
    BY SplitQueue, Zenon
  <2>3. SubSeq(q, 1, k) = a /\ SubSeq(q, k + 1, Len(q)) = b
    BY <2>1, Zenon
  <2> QED
    BY <2>1, <2>2, <2>3, Zenon
<1> HIDE DEF a, b
<1>5. Range(a) \cup Range(b) = Range(q)
  <2>1. \A i : i \in DOMAIN q <=> i \in 1 .. p - 1 \/ i \in p .. Len(q)
    BY <1>1, <1>2
  <2>2. ASSUME NEW y \in Range(a) \cup Range(b) PROVE y \in Range(q)
    BY <1>3, <1>4, <2>1 DEF Range
  <2>3. ASSUME NEW y \in Range(q) PROVE y \in Range(a) \cup Range(b)
    <3>1. PICK i \in DOMAIN q : y = q[i]
      BY DEF Range
    <3> QED
      BY <1>3, <1>4, <2>1, <3>1
  <2> QED
    BY <2>2, <2>3
<1>6. /\ c \in Seq(S) /\ Len(c) = p
      /\ Range(c) = Range(a) \cup {e}
      /\ Distinct(c)
      /\ \A i \in 1 .. p : c[i] = IF i < p THEN q[i] ELSE e
  <2>1. c = Append(a, e)
    BY <1>3, ConcatSingle
  <2>2. /\ Append(a, e) \in Seq(S)
        /\ Range(Append(a, e)) = Range(a) \cup {e}
        /\ Distinct(Append(a, e))
    BY <1>3, <1>5, AppendQueue
  <2>3. /\ Len(Append(a, e)) = p
        /\ \A i \in 1 .. p : Append(a, e)[i] = IF i < p THEN q[i] ELSE e
    BY <1>1, <1>3, AppendElements
  <2> QED
    BY <2>1, <2>2, <2>3, Zenon
<1> HIDE DEF c
<1>7. /\ r \in Seq(S)
      /\ Range(r) = Range(c) \cup Range(b)
      /\ Distinct(r)
  <2>1. Range(c) \cap Range(b) = {}
    BY <1>4, <1>5, <1>6
  <2>2. /\ c \o b \in Seq(S)
        /\ Range(c \o b) = Range(c) \cup Range(b)
        /\ Distinct(c) /\ Distinct(b) /\ Range(c) \cap Range(b) = {}
             => Distinct(c \o b)
    BY <1>4, <1>6, ConcatQueue, Zenon
  <2> QED
    BY <1>4, <1>6, <2>1, <2>2, Zenon
<1>8. /\ Len(r) = Len(c) + Len(b)
      /\ \A i \in 1 .. Len(c) + Len(b) :
           r[i] = IF i <= Len(c) THEN c[i] ELSE b[i - Len(c)]
  <2>0. c \in Seq(S) /\ b \in Seq(S)
    BY <1>4, <1>6
  <2>1. /\ Len(c \o b) = Len(c) + Len(b)
        /\ \A i \in 1 .. Len(c) + Len(b) :
             (c \o b)[i] = IF i <= Len(c) THEN c[i] ELSE b[i - Len(c)]
    BY <2>0, ConcatElements
  <2> QED
    BY <2>1, Zenon
<1>9. DOMAIN r = 1 .. Len(r)
  BY <1>7, QueueElements
<1> HIDE DEF r
<1>10. Len(c) + Len(b) = Len(q) + 1
  BY <1>1, <1>4, <1>6
<1>11. ASSUME NEW i \in 1 .. Len(q) + 1
       PROVE  r[i] = IF i < p THEN q[i] ELSE IF i = p THEN e ELSE q[i - 1]
  <2>1. CASE i <= p
    BY <1>1, <1>6, <1>8, <1>10, <2>1
  <2>2. CASE i > p
    <3>1. r[i] = b[i - p]
      BY <1>1, <1>6, <1>8, <1>10, <2>2
    <3>2. i - p \in 1 .. Len(q) - (p - 1) /\ (p - 1) + (i - p) = i - 1
      BY <1>1, <2>2
    <3>3. b[i - p] = q[(p - 1) + (i - p)]
      BY <1>4, <3>2
    <3> QED
      BY <1>1, <2>2, <3>1, <3>2, <3>3
  <2> QED
    BY <1>1, <2>1, <2>2
<1>12. InsertBefore(q, p, e) = r
  BY DEF InsertBefore, r, c, a, b
<1>13. DOMAIN r = 1 .. Len(q) + 1
  BY <1>8, <1>9, <1>10
<1>14. Range(r) = Range(q) \cup {e}
  BY <1>5, <1>6, <1>7
<1> QED
  BY <1>7, <1>11, <1>12, <1>13, <1>14, Zenon

\* A queue grows when others are put behind it.
LEMMA GrowsConcat ==
  ASSUME NEW S, NEW q \in Seq(S), NEW s \in Seq(S)
  PROVE  GrowsTo(q, q \o s)
BY DEF GrowsTo

\* ... or when nothing happens, or one element is appended.
LEMMA GrowsAppend ==
  ASSUME NEW S, NEW q \in Seq(S)
  PROVE  /\ GrowsTo(q, q)
         /\ \A x \in S : GrowsTo(q, Append(q, x))
         /\ GrowsTo(<<>>, q)
BY DEF GrowsTo

\* The rest of a queue with others behind it.
LEMMA TailConcat ==
  ASSUME NEW S, NEW q \in Seq(S), NEW s \in Seq(S), q # <<>>
  PROVE  Tail(q \o s) = Tail(q) \o s /\ Head(q \o s) = Head(q)
OBVIOUS

-----------------------------------------------------------------------------
(* Finite sets as queues                                                   *)

\* A queue without repetition is as long as it has elements.
LEMMA DistinctLength ==
  ASSUME NEW S, NEW q \in Seq(S), Distinct(q)
  PROVE  IsFiniteSet(Range(q)) /\ Len(q) = Cardinality(Range(q))
<1>1. Len(q) \in Nat /\ DOMAIN q = 1 .. Len(q) /\ q \in [1 .. Len(q) -> Range(q)]
  BY DEF Range
<1>2. q \in Injection(1 .. Len(q), Range(q)) /\ q \in Surjection(1 .. Len(q), Range(q))
  BY <1>1 DEF Injection, Surjection, Range, IsInjective, Distinct
<1>3. ExistsBijection(1 .. Len(q), Range(q))
  BY <1>2, Zenon DEF ExistsBijection, Bijection
<1>4. IsFiniteSet(1 .. Len(q)) /\ Cardinality(1 .. Len(q)) = Len(q)
  BY <1>1, FS_Interval
<1> QED BY <1>3, <1>4, FS_Bijection

\* InSomeOrder() lists a finite set.
LEMMA SetAsQueue ==
  ASSUME NEW S, IsFiniteSet(S)
  PROVE  InSomeOrder(S) \in Seq(S) /\ Range(InSomeOrder(S)) = S /\ Distinct(InSomeOrder(S))
<1> DEFINE n == Cardinality(S)
           q == InSomeOrder(S)
<1>1. n \in Nat /\ \E f \in [1 .. n -> S] : Distinct(f)
  <2>1. n \in Nat /\ ExistsBijection(1 .. n, S)
    BY FS_CardinalityType
  <2> QED BY <2>1, Zenon DEF ExistsBijection, Bijection, Injection, IsInjective, Distinct
<1>2. q \in [1 .. n -> S] /\ Distinct(q)
  BY <1>1, Zenon DEF InSomeOrder
<1>3. q \in Injection(1 .. n, S)
  BY <1>2, Zenon DEF Injection, IsInjective, Distinct
<1>4. Cardinality(1 .. n) = n
  BY <1>1, FS_Interval
<1>5. q \in Surjection(1 .. n, S)
  BY <1>3, <1>4, FS_Injection
<1>6. Range(q) = S
  <2>1. DOMAIN q = 1 .. n /\ \A t \in S : \E s \in 1 .. n : q[s] = t
    BY <1>5, Zenon DEF Surjection
  <2> HIDE DEF q, n
  <2> QED BY <1>2, <2>1 DEF Range
<1>7. q \in Seq(S)
  <2> HIDE DEF q, n
  <2> QED BY <1>1, <1>2
<1> QED BY <1>2, <1>6, <1>7

=============================================================================
