---------------------------- MODULE QueueOpsProofs ----------------------------
(***************************************************************************)
(* What the operators of QueueOps do to the members of a queue.  A queue   *)
(* in which no process occurs twice stays one, and insert adds, and        *)
(* getitem and dequeue take out, exactly the process they are called for.  *)
(* A queue that is sorted by its keys stays sorted.  On a delta list       *)
(* insertd, unsleep, dequeue and the tick of the clock change the time     *)
(* that is left to an entry only as they should.  Then what a circular     *)
(* queue holds when an entry is put in or taken out; and, for the code     *)
(* above the kernel, what wait, signal and signaln do to those who wait at *)
(* a semaphore, and to what it promises.                                   *)
(***************************************************************************)
EXTENDS QueueOps, SemOps, FiniteSetTheorems, SequenceTheorems, WellFoundedInduction, TLAPS

\* A queue of members of S, each at most once.
QueueOf(S, q) == q \in Seq(S) /\ IsInjective(q)

\* The definition of Min chooses a least element: every set of natural
\* numbers that is not empty has one.
LEMMA MinProperties ==
  ASSUME NEW T \in SUBSET Nat, T # {}
  PROVE  Min(T) \in T /\ \A y \in T : Min(T) <= y
<1>1. \E x \in T : \A y \in T : ~(<<y, x>> \in OpToRel(<, Nat))
  BY NatLessThanWellFounded, WFMin
<1>2. \E x \in T : \A y \in T : x <= y
  <2>1. PICK x \in T : \A y \in T : ~(<<y, x>> \in OpToRel(<, Nat))
    BY <1>1
  <2>2. \A y \in T : ~(y < x)
    BY <2>1 DEF OpToRel
  <2>3. QED
    BY <2>2
<1>3. QED
  BY <1>2 DEF Min

\* Induction up to N, over a set of numbers.
LEMMA UpTo ==
  ASSUME NEW N \in Nat, NEW T, 0 \in T, \A i \in 0 .. N - 1 : i \in T => i + 1 \in T
  PROVE  \A i \in 0 .. N : i \in T
<1> DEFINE bad == {i \in 0 .. N : i \notin T}
<1>1. SUFFICES ASSUME bad # {} PROVE FALSE
  OBVIOUS
<1>2. bad \in SUBSET Nat
  OBVIOUS
<1>3. Min(bad) \in bad /\ \A y \in bad : Min(bad) <= y
  BY <1>1, <1>2, MinProperties
<1>4. PICK m \in 0 .. N : m \notin T /\ \A y \in 0 .. N : y \notin T => m <= y
  BY <1>3
<1>5. m # 0 /\ m - 1 \in 0 .. N - 1 /\ m - 1 \in 0 .. N /\ m - 1 + 1 = m
  BY <1>4
<1>6. m - 1 \in T
  BY <1>4, <1>5
<1>7. QED
  BY <1>4, <1>5, <1>6

\* insert finds a place between the first entry and the tail.
LEMMA InsertPosRange ==
  ASSUME NEW S, NEW q \in Seq(S), NEW ky, NEW k
  PROVE  InsertPos(q, ky, k) \in 1 .. Len(q) + 1
<1> DEFINE T == {i \in 1 .. Len(q) + 1 : i = Len(q) + 1 \/ ky[q[i]] < k}
<1>1. Len(q) \in Nat
  BY LenProperties
<1>2. T \in SUBSET Nat /\ Len(q) + 1 \in T
  BY <1>1
<1>3. Min(T) \in T
  BY <1>2, MinProperties
<1>4. QED
  BY <1>3 DEF InsertPos

\* insertd, too.
LEMMA InsertdPosRange ==
  ASSUME NEW S, NEW q \in Seq(S), NEW ky, NEW delay
  PROVE  InsertdPos(q, ky, delay) \in 1 .. Len(q) + 1
<1> DEFINE T == {i \in 1 .. Len(q) + 1 :
                    i = Len(q) + 1 \/ Elapsed(q, ky)[i] > delay}
<1>1. Len(q) \in Nat
  BY LenProperties
<1>2. T \in SUBSET Nat /\ Len(q) + 1 \in T
  BY <1>1
<1>3. Min(T) \in T
  BY <1>2, MinProperties
<1>4. QED
  BY <1>3 DEF InsertdPos

-----------------------------------------------------------------------------

\* The entries of a queue into which p has been put at place i.
LEMMA InsertAtEntries ==
  ASSUME NEW S, NEW q \in Seq(S), NEW p \in S, NEW i \in 1 .. Len(q) + 1
  PROVE  /\ InsertAt(q, i, p) \in Seq(S)
         /\ Len(InsertAt(q, i, p)) = Len(q) + 1
         /\ \A j \in 1 .. Len(q) + 1 :
               InsertAt(q, i, p)[j] = IF j < i THEN q[j]
                                      ELSE IF j = i THEN p ELSE q[j - 1]
<1> DEFINE a == SubSeq(q, 1, i - 1)
           b == SubSeq(q, i, Len(q))
<1>1. Len(q) \in Nat /\ \A j \in 1 .. Len(q) : q[j] \in S
  BY LenProperties, ElementOfSeq
<1>2. /\ a \in Seq(S)
      /\ Len(a) = i - 1
      /\ \A j \in 1 .. i - 1 : a[j] = q[j]
  <2>1. \A j \in 1 .. i - 1 : q[j] \in S
    BY <1>1
  <2>2. /\ a \in Seq(S)
        /\ Len(a) = IF 1 <= i - 1 THEN i - 1 - 1 + 1 ELSE 0
        /\ \A j \in 1 .. i - 1 - 1 + 1 : a[j] = q[1 + j - 1]
    BY <2>1, SubSeqProperties, i - 1 \in Int, 1 \in Int
  <2>3. QED
    BY <2>2, <1>1
<1>3. /\ b \in Seq(S)
      /\ Len(b) = Len(q) - i + 1
      /\ \A j \in 1 .. Len(q) - i + 1 : b[j] = q[i + j - 1]
  <2>1. \A j \in i .. Len(q) : q[j] \in S
    BY <1>1
  <2>2. /\ b \in Seq(S)
        /\ Len(b) = IF i <= Len(q) THEN Len(q) - i + 1 ELSE 0
        /\ \A j \in 1 .. Len(q) - i + 1 : b[j] = q[i + j - 1]
    BY <2>1, <1>1, SubSeqProperties, i \in Int, Len(q) \in Int
  <2>3. QED
    BY <2>2, <1>1
<1>7. InsertAt(q, i, p) = (a \o <<p>>) \o b
  BY DEF InsertAt
<1> HIDE DEF a, b
<1>4. <<p>> \in Seq(S) /\ Len(<<p>>) = 1 /\ <<p>>[1] = p
  OBVIOUS
<1>5. /\ a \o <<p>> \in Seq(S)
      /\ Len(a \o <<p>>) = i
      /\ \A j \in 1 .. i : (a \o <<p>>)[j] = IF j < i THEN q[j] ELSE p
  <2>1. /\ a \o <<p>> \in Seq(S)
        /\ Len(a \o <<p>>) = Len(a) + Len(<<p>>)
        /\ \A j \in 1 .. Len(a) + Len(<<p>>) :
              (a \o <<p>>)[j] = IF j <= Len(a) THEN a[j] ELSE <<p>>[j - Len(a)]
    BY <1>2, <1>4, ConcatProperties
  <2>2. Len(a) = i - 1 /\ Len(a) + Len(<<p>>) = i /\ i \in Int
    BY <1>2, <1>4, <1>1
  <2>3. ASSUME NEW j \in 1 .. i
        PROVE  (a \o <<p>>)[j] = IF j < i THEN q[j] ELSE p
    <3>1. (a \o <<p>>)[j] = IF j <= i - 1 THEN a[j] ELSE <<p>>[j - (i - 1)]
      BY <2>1, <2>2
    <3>2. CASE j < i
      <4>1. j \in 1 .. i - 1 /\ j <= i - 1
        BY <2>2, <3>2
      <4>2. QED
        BY <3>1, <4>1, <3>2, <1>2
    <3>3. CASE j = i
      <4>1. j - (i - 1) = 1 /\ ~(j <= i - 1) /\ ~(j < i)
        BY <2>2, <3>3
      <4>2. QED
        BY <3>1, <4>1, <1>4
    <3>4. QED
      BY <2>2, <3>2, <3>3
  <2>4. QED
    BY <2>1, <2>2, <2>3
<1>6. /\ (a \o <<p>>) \o b \in Seq(S)
      /\ Len((a \o <<p>>) \o b) = i + Len(b)
      /\ \A j \in 1 .. i + Len(b) :
            ((a \o <<p>>) \o b)[j] = IF j <= i THEN (a \o <<p>>)[j] ELSE b[j - i]
  <2> DEFINE ap == a \o <<p>>
  <2>1. ap \in Seq(S) /\ Len(ap) = i
    BY <1>5
  <2> HIDE DEF ap
  <2>2. /\ ap \o b \in Seq(S)
        /\ Len(ap \o b) = Len(ap) + Len(b)
        /\ \A j \in 1 .. Len(ap) + Len(b) :
              (ap \o b)[j] = IF j <= Len(ap) THEN ap[j] ELSE b[j - Len(ap)]
    BY <2>1, <1>3, ConcatProperties
  <2>3. QED
    BY <2>1, <2>2 DEF ap
<1>8. Len(q) + 1 = i + Len(b)
  BY <1>1, <1>3
<1>9. ASSUME NEW j \in 1 .. Len(q) + 1
      PROVE  InsertAt(q, i, p)[j] = IF j < i THEN q[j]
                                    ELSE IF j = i THEN p ELSE q[j - 1]
  <2> DEFINE r == (a \o <<p>>) \o b
  <2>3. i \in Int /\ j \in Int /\ j \in 1 .. i + Len(b)
    BY <1>1, <1>8
  <2>4. r[j] = IF j <= i THEN (a \o <<p>>)[j] ELSE b[j - i]
    BY <2>3, <1>6
  <2>6. InsertAt(q, i, p) = r
    BY <1>7
  <2> HIDE DEF r
  <2>1. CASE j <= i
    <3>1. j \in 1 .. i
      BY <2>1, <2>3
    <3>2. (a \o <<p>>)[j] = IF j < i THEN q[j] ELSE p
      BY <3>1, <1>5
    <3>3. r[j] = IF j < i THEN q[j] ELSE p
      BY <3>2, <2>4, <2>1
    <3>4. QED
      BY <3>3, <2>6, <2>1, <2>3
  <2>2. CASE j > i
    <3>1. j - i \in 1 .. Len(q) - i + 1 /\ i + (j - i) - 1 = j - 1
      BY <2>2, <1>1
    <3>2. b[j - i] = q[j - 1]
      BY <3>1, <1>3
    <3>3. r[j] = q[j - 1]
      BY <3>2, <2>4, <2>2, <2>3
    <3>4. QED
      BY <3>3, <2>6, <2>2, <2>3
  <2>5. QED
    BY <2>1, <2>2, <2>3
<1>10. QED
  BY <1>6, <1>7, <1>8, <1>9

\* The entries of a queue from which the one at place i has been taken.
LEMMA RemoveAtEntries ==
  ASSUME NEW S, NEW q \in Seq(S), NEW i \in 1 .. Len(q)
  PROVE  /\ RemoveAt(q, i) \in Seq(S)
         /\ Len(RemoveAt(q, i)) = Len(q) - 1
         /\ \A j \in 1 .. Len(q) - 1 :
               RemoveAt(q, i)[j] = IF j < i THEN q[j] ELSE q[j + 1]
<1> DEFINE a == SubSeq(q, 1, i - 1)
           b == SubSeq(q, i + 1, Len(q))
<1>1. Len(q) \in Nat /\ \A j \in 1 .. Len(q) : q[j] \in S
  BY LenProperties, ElementOfSeq
<1>2. /\ a \in Seq(S)
      /\ Len(a) = i - 1
      /\ \A j \in 1 .. i - 1 : a[j] = q[j]
  <2>1. \A j \in 1 .. i - 1 : q[j] \in S
    BY <1>1
  <2>2. /\ a \in Seq(S)
        /\ Len(a) = IF 1 <= i - 1 THEN i - 1 - 1 + 1 ELSE 0
        /\ \A j \in 1 .. i - 1 - 1 + 1 : a[j] = q[1 + j - 1]
    BY <2>1, SubSeqProperties, i - 1 \in Int, 1 \in Int
  <2>3. QED
    BY <2>2, <1>1
<1>3. /\ b \in Seq(S)
      /\ Len(b) = Len(q) - i
      /\ \A j \in 1 .. Len(q) - i : b[j] = q[i + j]
  <2>1. \A j \in i + 1 .. Len(q) : q[j] \in S
    BY <1>1
  <2>2. /\ b \in Seq(S)
        /\ Len(b) = IF i + 1 <= Len(q) THEN Len(q) - (i + 1) + 1 ELSE 0
        /\ \A j \in 1 .. Len(q) - (i + 1) + 1 : b[j] = q[i + 1 + j - 1]
    BY <2>1, <1>1, SubSeqProperties, i + 1 \in Int, Len(q) \in Int
  <2>3. QED
    BY <2>2, <1>1
<1>5. RemoveAt(q, i) = a \o b
  BY DEF RemoveAt
<1> HIDE DEF a, b
<1>4. /\ a \o b \in Seq(S)
      /\ Len(a \o b) = Len(a) + Len(b)
      /\ \A j \in 1 .. Len(a) + Len(b) :
            (a \o b)[j] = IF j <= Len(a) THEN a[j] ELSE b[j - Len(a)]
  BY <1>2, <1>3, ConcatProperties
<1>6. Len(a) + Len(b) = Len(q) - 1
  BY <1>1, <1>2, <1>3
<1>7. ASSUME NEW j \in 1 .. Len(q) - 1
      PROVE  RemoveAt(q, i)[j] = IF j < i THEN q[j] ELSE q[j + 1]
  <2> DEFINE r == a \o b
  <2>3. i \in Int /\ j \in Int /\ j \in 1 .. Len(a) + Len(b)
    BY <1>1, <1>6
  <2>4. r[j] = IF j <= i - 1 THEN a[j] ELSE b[j - (i - 1)]
    BY <2>3, <1>2, <1>4
  <2> HIDE DEF r
  <2>1. CASE j < i
    <3>1. j \in 1 .. i - 1
      BY <2>1, <2>3
    <3>2. r[j] = q[j]
      BY <3>1, <2>4, <1>2
    <3>3. QED
      BY <3>2, <2>1, <1>5 DEF r
  <2>2. CASE j >= i
    <3>1. j - (i - 1) \in 1 .. Len(q) - i /\ i + (j - (i - 1)) = j + 1
      BY <2>2, <1>1
    <3>2. b[j - (i - 1)] = q[j + 1]
      BY <3>1, <1>3
    <3>3. r[j] = q[j + 1]
      BY <3>2, <2>2, <2>3, <2>4
    <3>4. QED
      BY <3>3, <2>2, <2>3, <1>5 DEF r
  <2>5. QED
    BY <2>1, <2>2, <2>3
<1>8. QED
  BY <1>4, <1>5, <1>6, <1>7

-----------------------------------------------------------------------------
(* The same about the members of a queue.                                  *)

\* What is on a queue is at some place of it, and conversely.
LEMMA MembersAt ==
  ASSUME NEW S, NEW q \in Seq(S)
  PROVE  /\ Range(q) = {q[j] : j \in 1 .. Len(q)}
         /\ Len(q) \in Nat
         /\ Range(q) \subseteq S
         /\ IsInjective(q) <=> \A j, k \in 1 .. Len(q) : q[j] = q[k] => j = k
<1>1. DOMAIN q = 1 .. Len(q) /\ Len(q) \in Nat /\ \A j \in 1 .. Len(q) : q[j] \in S
  BY LenProperties, ElementOfSeq
<1>2. QED
  BY <1>1 DEF Range, IsInjective

\* Putting an entry into a queue adds it to the members, and it is there
\* once if it was not there before.
LEMMA InsertAtMembers ==
  ASSUME NEW S, NEW q, QueueOf(S, q), NEW p \in S, p \notin Range(q),
         NEW i \in 1 .. Len(q) + 1
  PROVE  /\ QueueOf(S, InsertAt(q, i, p))
         /\ Range(InsertAt(q, i, p)) = Range(q) \cup {p}
         /\ Len(InsertAt(q, i, p)) = Len(q) + 1
<1> DEFINE r == InsertAt(q, i, p)
<1>1. q \in Seq(S) /\ IsInjective(q)
  BY DEF QueueOf
<1>2. /\ r \in Seq(S) /\ Len(r) = Len(q) + 1
      /\ \A j \in 1 .. Len(q) + 1 :
            r[j] = IF j < i THEN q[j] ELSE IF j = i THEN p ELSE q[j - 1]
  <2>1. r \in Seq(S) /\ Len(r) = Len(q) + 1
    BY <1>1, InsertAtEntries
  <2>2. \A j \in 1 .. Len(q) + 1 :
           InsertAt(q, i, p)[j] = IF j < i THEN q[j]
                                  ELSE IF j = i THEN p ELSE q[j - 1]
    BY <1>1, InsertAtEntries
  <2>3. QED
    BY <2>1, <2>2
<1> HIDE DEF r
<1>3. /\ Range(q) = {q[j] : j \in 1 .. Len(q)}
      /\ Len(q) \in Nat
      /\ \A j, k \in 1 .. Len(q) : q[j] = q[k] => j = k
  BY <1>1, MembersAt
<1>4. /\ Range(r) = {r[j] : j \in 1 .. Len(r)}
      /\ IsInjective(r) <=> \A j, k \in 1 .. Len(r) : r[j] = r[k] => j = k
  BY <1>2, MembersAt
<1>5. \A j \in 1 .. Len(q) : q[j] # p
  BY <1>3
<1>6. ASSUME NEW j \in 1 .. Len(q) + 1
      PROVE  \/ j = i /\ r[j] = p
             \/ j < i /\ j \in 1 .. Len(q) /\ r[j] = q[j]
             \/ j > i /\ j - 1 \in 1 .. Len(q) /\ r[j] = q[j - 1]
  BY <1>2, <1>3
<1>7. ASSUME NEW j \in 1 .. Len(q) + 1, NEW k \in 1 .. Len(q) + 1, r[j] = r[k]
      PROVE  j = k
  <2>1. j \in Int /\ k \in Int /\ i \in Int
    BY <1>3
  <2>2. CASE j = i
    BY <2>1, <2>2, <1>5, <1>6, <1>7
  <2>3. CASE j < i
    BY <2>1, <2>3, <1>3, <1>5, <1>6, <1>7
  <2>4. CASE j > i
    BY <2>1, <2>4, <1>3, <1>5, <1>6, <1>7
  <2>5. QED
    BY <2>1, <2>2, <2>3, <2>4
<1>8. Range(r) \subseteq Range(q) \cup {p}
  BY <1>2, <1>3, <1>4, <1>6
<1>9. p \in Range(r)
  BY <1>2, <1>4, <1>3
<1>10. ASSUME NEW j \in 1 .. Len(q)
       PROVE  q[j] \in Range(r)
  <2>1. CASE j < i
    BY <2>1, <1>2, <1>3, <1>4
  <2>2. CASE j >= i
    <3>1. j + 1 \in 1 .. Len(q) + 1 /\ ~(j + 1 < i) /\ j + 1 # i /\ j + 1 - 1 = j
      BY <2>2, <1>3
    <3>2. r[j + 1] = q[j]
      BY <3>1, <1>2
    <3>3. QED
      BY <3>1, <3>2, <1>2, <1>4
  <2>3. QED
    BY <2>1, <2>2, <1>3
<1>11. Range(r) = Range(q) \cup {p}
  BY <1>3, <1>8, <1>9, <1>10
<1>12. QueueOf(S, r)
  BY <1>2, <1>4, <1>7 DEF QueueOf
<1>13. QED
  BY <1>2, <1>11, <1>12 DEF r

\* Taking an entry out of a queue removes it from the members, and no other.
LEMMA RemoveAtMembers ==
  ASSUME NEW S, NEW q, QueueOf(S, q), NEW i \in 1 .. Len(q)
  PROVE  /\ QueueOf(S, RemoveAt(q, i))
         /\ Range(RemoveAt(q, i)) = Range(q) \ {q[i]}
         /\ Len(RemoveAt(q, i)) = Len(q) - 1
<1> DEFINE r == RemoveAt(q, i)
<1>1. q \in Seq(S) /\ IsInjective(q)
  BY DEF QueueOf
<1>2. /\ r \in Seq(S) /\ Len(r) = Len(q) - 1
      /\ \A j \in 1 .. Len(q) - 1 : r[j] = IF j < i THEN q[j] ELSE q[j + 1]
  BY <1>1, RemoveAtEntries
<1> HIDE DEF r
<1>3. /\ Range(q) = {q[j] : j \in 1 .. Len(q)}
      /\ Len(q) \in Nat
      /\ \A j, k \in 1 .. Len(q) : q[j] = q[k] => j = k
  BY <1>1, MembersAt
<1>4. /\ Range(r) = {r[j] : j \in 1 .. Len(r)}
      /\ IsInjective(r) <=> \A j, k \in 1 .. Len(r) : r[j] = r[k] => j = k
  BY <1>2, MembersAt
<1>5. ASSUME NEW j \in 1 .. Len(q) - 1
      PROVE  \/ j < i /\ j \in 1 .. Len(q) /\ r[j] = q[j]
             \/ j + 1 > i /\ j + 1 \in 1 .. Len(q) /\ r[j] = q[j + 1]
  BY <1>2, <1>3
<1>6. ASSUME NEW j \in 1 .. Len(q) - 1, NEW k \in 1 .. Len(q) - 1, r[j] = r[k]
      PROVE  j = k
  <2>1. j \in Int /\ k \in Int /\ i \in Int
    BY <1>3
  <2>2. CASE j < i
    BY <2>1, <2>2, <1>3, <1>5, <1>6
  <2>3. CASE ~(j < i)
    <3>1. j + 1 > i /\ j + 1 \in 1 .. Len(q) /\ r[j] = q[j + 1]
      BY <2>1, <2>3, <1>5
    <3>2. CASE k < i
      <4>1. k \in 1 .. Len(q) /\ r[k] = q[k]
        BY <2>1, <3>2, <1>2, <1>3
      <4>2. j + 1 = k
        BY <3>1, <4>1, <1>3, <1>6
      <4>3. QED
        BY <2>1, <2>3, <3>2, <4>2
    <3>3. CASE ~(k < i)
      <4>1. k + 1 \in 1 .. Len(q) /\ r[k] = q[k + 1]
        BY <2>1, <3>3, <1>2, <1>3
      <4>2. j + 1 = k + 1
        BY <3>1, <4>1, <1>3, <1>6
      <4>3. QED
        BY <2>1, <4>2
    <3>4. QED
      BY <3>2, <3>3
  <2>4. QED
    BY <2>2, <2>3
<1>7. Range(r) \subseteq Range(q) \ {q[i]}
  <2>1. ASSUME NEW j \in 1 .. Len(q) - 1
        PROVE  r[j] \in Range(q) \ {q[i]}
    BY <1>3, <1>5
  <2>2. QED
    BY <2>1, <1>2, <1>4
<1>8. ASSUME NEW j \in 1 .. Len(q), q[j] # q[i]
      PROVE  q[j] \in Range(r)
  <2>1. CASE j < i
    <3>1. j \in 1 .. Len(q) - 1
      BY <2>1, <1>3
    <3>2. r[j] = q[j]
      BY <3>1, <2>1, <1>2
    <3>3. QED
      BY <3>1, <3>2, <1>2, <1>4
  <2>2. CASE j > i
    <3>1. j - 1 \in 1 .. Len(q) - 1 /\ ~(j - 1 < i) /\ j - 1 + 1 = j
      BY <2>2, <1>3
    <3>2. r[j - 1] = q[j]
      BY <3>1, <1>2
    <3>3. QED
      BY <3>1, <3>2, <1>2, <1>4
  <2>3. j # i
    BY <1>8
  <2>4. QED
    BY <2>1, <2>2, <2>3, <1>3
<1>9. Range(r) = Range(q) \ {q[i]}
  BY <1>3, <1>7, <1>8
<1>10. QueueOf(S, r)
  BY <1>2, <1>4, <1>6 DEF QueueOf
<1>11. QED
  BY <1>2, <1>9, <1>10 DEF r

-----------------------------------------------------------------------------
(* insert, insertd, enqueue, getitem and dequeue.                          *)

\* insert and insertd add the process they are called for.
LEMMA InsertMembers ==
  ASSUME NEW S, NEW q, QueueOf(S, q), NEW p \in S, p \notin Range(q),
         NEW ky, NEW k
  PROVE  /\ QueueOf(S, Insert(q, p, ky, k))
         /\ Range(Insert(q, p, ky, k)) = Range(q) \cup {p}
<1>1. q \in Seq(S)
  BY DEF QueueOf
<1>2. InsertPos(q, ky, k) \in 1 .. Len(q) + 1
  BY <1>1, InsertPosRange
<1>3. QED
  BY <1>2, InsertAtMembers DEF Insert

\* insertd (insertd.c) adds one member and changes no other.
LEMMA InsertdMembers ==
  ASSUME NEW S, NEW q, QueueOf(S, q), NEW p \in S, p \notin Range(q),
         NEW ky, NEW delay
  PROVE  /\ QueueOf(S, Insertd(q, p, ky, delay))
         /\ Range(Insertd(q, p, ky, delay)) = Range(q) \cup {p}
<1>1. q \in Seq(S)
  BY DEF QueueOf
<1>2. InsertdPos(q, ky, delay) \in 1 .. Len(q) + 1
  BY <1>1, InsertdPosRange
<1>3. QED
  BY <1>2, InsertAtMembers DEF Insertd

\* enqueue adds at the end.
LEMMA AppendMembers ==
  ASSUME NEW S, NEW q, QueueOf(S, q), NEW p \in S, p \notin Range(q)
  PROVE  /\ QueueOf(S, Append(q, p))
         /\ Range(Append(q, p)) = Range(q) \cup {p}
         /\ Len(Append(q, p)) = Len(q) + 1
<1>1. q \in Seq(S)
  BY DEF QueueOf
<1>2. Append(q, p) \in Seq(S) /\ Len(Append(q, p)) = Len(q) + 1
  BY <1>1
<1>3. \A j \in 1 .. Len(q) + 1 :
        Append(q, p)[j] = IF j <= Len(q) THEN q[j] ELSE p
  BY <1>1
<1>4. /\ Range(q) = {q[j] : j \in 1 .. Len(q)} /\ Len(q) \in Nat
      /\ IsInjective(q) <=> \A j, k \in 1 .. Len(q) : q[j] = q[k] => j = k
  BY <1>1, MembersAt
<1> DEFINE r == Append(q, p)
<1>5. r \in Seq(S) /\ Len(r) = Len(q) + 1
  BY <1>2
<1>6. \A j \in 1 .. Len(q) + 1 : r[j] = IF j <= Len(q) THEN q[j] ELSE p
  BY <1>3
<1> HIDE DEF r
<1>7. /\ Range(r) = {r[j] : j \in 1 .. Len(r)}
      /\ IsInjective(r) <=> \A j, k \in 1 .. Len(r) : r[j] = r[k] => j = k
  BY <1>5, MembersAt
<1>8. \A j, k \in 1 .. Len(q) : q[j] = q[k] => j = k
  BY <1>4 DEF QueueOf
<1>9. \A j \in 1 .. Len(q) : q[j] # p
  BY <1>4
<1>10. ASSUME NEW j \in 1 .. Len(q) + 1, NEW k \in 1 .. Len(q) + 1, r[j] = r[k]
       PROVE  j = k
  <2>1. \/ j \in 1 .. Len(q) /\ r[j] = q[j]
        \/ j = Len(q) + 1 /\ r[j] = p
    BY <1>4, <1>6
  <2>2. \/ k \in 1 .. Len(q) /\ r[k] = q[k]
        \/ k = Len(q) + 1 /\ r[k] = p
    BY <1>4, <1>6
  <2>3. QED
    BY <2>1, <2>2, <1>8, <1>9, <1>10
<1>11. QueueOf(S, r)
  BY <1>5, <1>7, <1>10 DEF QueueOf
<1>12. ASSUME NEW j \in 1 .. Len(q) + 1
       PROVE  r[j] \in Range(q) \cup {p}
  BY <1>4, <1>6
<1>13. ASSUME NEW j \in 1 .. Len(q)
       PROVE  q[j] \in Range(r)
  BY <1>4, <1>5, <1>6, <1>7
<1>14. p \in Range(r)
  BY <1>4, <1>5, <1>6, <1>7
<1>15. Range(r) = Range(q) \cup {p}
  BY <1>4, <1>5, <1>7, <1>12, <1>13, <1>14
<1>16. QED
  BY <1>5, <1>11, <1>15 DEF r

\* getitem takes out the process it is called for.
LEMMA GetItemMembers ==
  ASSUME NEW S, NEW q, QueueOf(S, q), NEW p \in Range(q)
  PROVE  /\ QueueOf(S, GetItem(q, p))
         /\ Range(GetItem(q, p)) = Range(q) \ {p}
         /\ Len(GetItem(q, p)) = Len(q) - 1
<1>1. Range(q) = {q[j] : j \in 1 .. Len(q)}
  BY MembersAt DEF QueueOf
<1>2. PosOf(q, p) \in 1 .. Len(q) /\ q[PosOf(q, p)] = p
  BY <1>1 DEF PosOf
<1>3. QED
  BY <1>2, RemoveAtMembers DEF GetItem

\* dequeue takes out the first process.
LEMMA TailMembers ==
  ASSUME NEW S, NEW q, QueueOf(S, q), q # <<>>
  PROVE  /\ QueueOf(S, Tail(q))
         /\ Range(Tail(q)) = Range(q) \ {Head(q)}
         /\ Len(Tail(q)) = Len(q) - 1
         /\ Head(q) \in Range(q)
<1>1. q \in Seq(S) /\ Len(q) \in Nat \ {0}
  BY EmptySeq DEF QueueOf
<1>2. Head(q) = q[1] /\ 1 \in 1 .. Len(q)
  BY <1>1
<1>3. /\ Tail(q) \in Seq(S) /\ Len(Tail(q)) = Len(q) - 1
      /\ \A j \in 1 .. Len(q) - 1 : Tail(q)[j] = q[j + 1]
  BY <1>1, HeadTailProperties
<1>4. /\ RemoveAt(q, 1) \in Seq(S) /\ Len(RemoveAt(q, 1)) = Len(q) - 1
      /\ \A j \in 1 .. Len(q) - 1 : RemoveAt(q, 1)[j] = IF j < 1 THEN q[j] ELSE q[j + 1]
  BY <1>1, <1>2, RemoveAtEntries
<1>5. \A j \in 1 .. Len(q) - 1 : Tail(q)[j] = RemoveAt(q, 1)[j]
  BY <1>3, <1>4
<1>6. Tail(q) = RemoveAt(q, 1)
  BY <1>3, <1>4, <1>5, SeqEqual
<1>7. Range(q) = {q[j] : j \in 1 .. Len(q)}
  BY <1>1, MembersAt
<1>9. /\ QueueOf(S, RemoveAt(q, 1))
      /\ Range(RemoveAt(q, 1)) = Range(q) \ {q[1]}
      /\ Len(RemoveAt(q, 1)) = Len(q) - 1
  BY <1>2, RemoveAtMembers
<1>8. QED
  BY <1>2, <1>6, <1>7, <1>9

-----------------------------------------------------------------------------
(* The order of the processes that stay on a queue.                        *)

\* enqueue puts nobody in front of a process that is on the queue already.
LEMMA AppendOrder ==
  ASSUME NEW S, NEW q, QueueOf(S, q), NEW c \in S, c \notin Range(q),
         NEW x, NEW y \in Range(q), Ahead(Append(q, c), x, y)
  PROVE  Ahead(q, x, y)
<1>1. q \in Seq(S) /\ Len(q) \in Nat
  BY DEF QueueOf
<1>2. Len(Append(q, c)) = Len(q) + 1
  BY <1>1
<1>3. \A j \in 1 .. Len(q) + 1 :
        Append(q, c)[j] = IF j <= Len(q) THEN q[j] ELSE c
  BY <1>1
<1>4. PICK j \in 1 .. Len(q) + 1 : \E i \in 1 .. j - 1 :
        Append(q, c)[i] = x /\ Append(q, c)[j] = y
  BY <1>2 DEF Ahead
<1>5. PICK i \in 1 .. j - 1 : Append(q, c)[i] = x /\ Append(q, c)[j] = y
  BY <1>4
<1>6. j \in 1 .. Len(q)
  BY <1>1, <1>3, <1>5
<1>7. q[i] = x /\ q[j] = y
  BY <1>1, <1>3, <1>5, <1>6
<1>8. QED
  BY <1>6, <1>7 DEF Ahead

\* Taking an entry out leaves the others in their order.
LEMMA RemoveAtOrder ==
  ASSUME NEW S, NEW q \in Seq(S), NEW k \in 1 .. Len(q),
         NEW x, NEW y, Ahead(RemoveAt(q, k), x, y)
  PROVE  Ahead(q, x, y)
<1> DEFINE r == RemoveAt(q, k)
           at(j) == IF j < k THEN j ELSE j + 1
<1>1. Len(q) \in Nat
  BY LenProperties
<1>2. Len(r) = Len(q) - 1 /\ \A j \in 1 .. Len(q) - 1 : r[j] = q[at(j)]
  <2>1. \A j \in 1 .. Len(q) - 1 : r[j] = IF j < k THEN q[j] ELSE q[j + 1]
    BY RemoveAtEntries
  <2>2. Len(r) = Len(q) - 1
    BY RemoveAtEntries
  <2>3. QED
    BY <2>1, <2>2
<1> HIDE DEF r
<1>3. PICK j \in 1 .. Len(q) - 1 : \E i \in 1 .. j - 1 : r[i] = x /\ r[j] = y
  BY <1>2 DEF Ahead, r
<1>4. PICK i \in 1 .. j - 1 : r[i] = x /\ r[j] = y
  BY <1>3
<1>5. /\ q[at(i)] = x /\ q[at(j)] = y
      /\ at(j) \in 1 .. Len(q) /\ at(i) \in 1 .. at(j) - 1
  <2>1. i \in 1 .. Len(q) - 1 /\ j \in 1 .. Len(q) - 1 /\ i < j
    BY <1>1
  <2>2. r[i] = q[at(i)] /\ r[j] = q[at(j)]
    BY <2>1, <1>2
  <2>3. at(j) \in 1 .. Len(q) /\ at(i) \in 1 .. at(j) - 1
    BY <2>1, <1>1
  <2>4. QED
    BY <2>2, <2>3, <1>4
<1>6. QED
  BY <1>5 DEF Ahead

\* getitem leaves the other processes in their order.
LEMMA GetItemOrder ==
  ASSUME NEW S, NEW q, QueueOf(S, q), NEW p \in Range(q),
         NEW x, NEW y, Ahead(GetItem(q, p), x, y)
  PROVE  Ahead(q, x, y)
<1>1. Range(q) = {q[j] : j \in 1 .. Len(q)}
  BY MembersAt DEF QueueOf
<1>2. PosOf(q, p) \in 1 .. Len(q)
  BY <1>1 DEF PosOf
<1>3. QED
  BY <1>2, RemoveAtOrder DEF GetItem, QueueOf

\* dequeue leaves the other processes in their order.
LEMMA TailOrder ==
  ASSUME NEW S, NEW q, QueueOf(S, q), q # <<>>,
         NEW x, NEW y, Ahead(Tail(q), x, y)
  PROVE  Ahead(q, x, y)
<1>1. q \in Seq(S) /\ Len(q) \in Nat \ {0}
  BY EmptySeq DEF QueueOf
<1>2. Len(Tail(q)) = Len(q) - 1 /\ \A j \in 1 .. Len(q) - 1 : Tail(q)[j] = q[j + 1]
  BY <1>1, HeadTailProperties
<1>3. PICK j \in 1 .. Len(q) - 1 : \E i \in 1 .. j - 1 :
        Tail(q)[i] = x /\ Tail(q)[j] = y
  BY <1>2 DEF Ahead
<1>4. PICK i \in 1 .. j - 1 : Tail(q)[i] = x /\ Tail(q)[j] = y
  BY <1>3
<1>5. /\ q[i + 1] = x /\ q[j + 1] = y
      /\ j + 1 \in 1 .. Len(q) /\ i + 1 \in 1 .. (j + 1) - 1
  BY <1>1, <1>2, <1>4
<1>6. QED
  BY <1>5 DEF Ahead

-----------------------------------------------------------------------------
(* The order of the keys.                                                  *)

\* No entry has a smaller key than one behind it.
Sorted(q, ky) == \A i, j \in 1 .. Len(q) : i < j => ky[q[j]] <= ky[q[i]]

\* insert stops at the first entry whose key is smaller.
LEMMA InsertPosKeys ==
  ASSUME NEW S, NEW q \in Seq(S), NEW ky, NEW k
  PROVE  LET i == InsertPos(q, ky, k) IN
         /\ i \in 1 .. Len(q) + 1
         /\ i \in 1 .. Len(q) => ky[q[i]] < k
         /\ \A j \in 1 .. Len(q) : j < i => ~(ky[q[j]] < k)
<1> DEFINE T == {i \in 1 .. Len(q) + 1 : i = Len(q) + 1 \/ ky[q[i]] < k}
<1>1. Len(q) \in Nat
  BY LenProperties
<1>2. T \in SUBSET Nat /\ Len(q) + 1 \in T
  BY <1>1
<1>3. Min(T) \in T /\ \A y \in T : Min(T) <= y
  BY <1>2, MinProperties
<1>4. InsertPos(q, ky, k) = Min(T)
  BY DEF InsertPos
<1>5. \A j \in 1 .. Len(q) : ky[q[j]] < k => j \in T
  BY <1>1
<1>6. \A i \in T : i \in 1 .. Len(q) + 1 /\ (i = Len(q) + 1 \/ ky[q[i]] < k)
  OBVIOUS
<1>7. \A j \in 1 .. Len(q) : ky[q[j]] < k => Min(T) <= j
  BY <1>3, <1>5
<1>8. Min(T) \in Nat /\ (Min(T) \in 1 .. Len(q) => ky[q[Min(T)]] < k)
  BY <1>1, <1>3, <1>6
<1> HIDE DEF T
<1>9. \A j \in 1 .. Len(q) : j < Min(T) => ~(ky[q[j]] < k)
  BY <1>7, <1>8
<1>10. QED
  BY <1>1, <1>2, <1>3, <1>4, <1>6, <1>8, <1>9, InsertPosRange

\* insert keeps a queue sorted when its entries have integer keys.
LEMMA InsertSorted ==
  ASSUME NEW S, NEW q \in Seq(S), NEW p \in S, NEW ky, NEW k \in Int,
         Sorted(q, ky), \A j \in 1 .. Len(q) : ky[q[j]] \in Int,
         NEW new, new[p] = k, \A j \in 1 .. Len(q) : new[q[j]] = ky[q[j]]
  PROVE  Sorted(Insert(q, p, ky, k), new)
<1> DEFINE i == InsertPos(q, ky, k)
           r == InsertAt(q, i, p)
           key(j) == ky[q[j]]
<1>1. /\ i \in 1 .. Len(q) + 1
      /\ i \in 1 .. Len(q) => ky[q[i]] < k
      /\ \A j \in 1 .. Len(q) : j < i => ~(ky[q[j]] < k)
  BY InsertPosKeys
<1>2. Len(q) \in Nat
  BY LenProperties
<1> HIDE DEF i
<1>3. /\ Len(r) = Len(q) + 1
      /\ \A j \in 1 .. Len(q) + 1 :
            r[j] = IF j < i THEN q[j] ELSE IF j = i THEN p ELSE q[j - 1]
  BY <1>1, InsertAtEntries
<1> HIDE DEF r
<1>4. \A j \in 1 .. Len(q) : j >= i => ky[q[j]] < k
  <2> SUFFICES ASSUME NEW j \in 1 .. Len(q), j >= i
               PROVE  ky[q[j]] < k
    OBVIOUS
  <2>1. i \in 1 .. Len(q) /\ ky[q[i]] < k /\ ky[q[i]] \in Int /\ ky[q[j]] \in Int
    BY <1>1, <1>2
  <2>2. i < j => ky[q[j]] <= ky[q[i]]
    BY <2>1 DEF Sorted
  <2>3. QED
    BY <1>1, <1>2, <2>1, <2>2
<1>5. \A j \in 1 .. Len(q) : j < i => k <= ky[q[j]]
  BY <1>1
<1>6. ASSUME NEW a \in 1 .. Len(q) + 1, NEW b \in 1 .. Len(q) + 1, a < b
      PROVE  new[r[b]] <= new[r[a]]
  <2>1. CASE b < i
    <3>1. a \in 1 .. Len(q) /\ b \in 1 .. Len(q) /\ r[a] = q[a] /\ r[b] = q[b]
      BY <1>1, <1>2, <1>3, <1>6, <2>1
    <3>2. QED
      BY <1>6, <3>1 DEF Sorted
  <2>2. CASE b = i
    <3>1. a \in 1 .. Len(q) /\ a < i /\ r[a] = q[a] /\ r[b] = p
      BY <1>1, <1>2, <1>3, <1>6, <2>2
    <3>2. QED
      BY <1>5, <3>1
  <2>3. CASE b > i /\ a < i
    <3>1. a \in 1 .. Len(q) /\ b - 1 \in 1 .. Len(q) /\ r[a] = q[a] /\ r[b] = q[b - 1] /\ a < b - 1
      BY <1>1, <1>2, <1>3, <1>6, <2>3
    <3>2. QED
      BY <3>1 DEF Sorted
  <2>4. CASE b > i /\ a = i
    <3>1. b - 1 \in 1 .. Len(q) /\ b - 1 >= i /\ r[a] = p /\ r[b] = q[b - 1]
      BY <1>1, <1>2, <1>3, <1>6, <2>4
    <3>2. ky[q[b - 1]] < k /\ ky[q[b - 1]] \in Int
      BY <1>4, <3>1
    <3>3. QED
      BY <3>1, <3>2
  <2>5. CASE a > i
    <3>1. /\ a - 1 \in 1 .. Len(q) /\ b - 1 \in 1 .. Len(q)
          /\ r[a] = q[a - 1] /\ r[b] = q[b - 1] /\ a - 1 < b - 1
      BY <1>1, <1>2, <1>3, <1>6, <2>5
    <3>2. QED
      BY <3>1 DEF Sorted
  <2>6. QED
    BY <1>1, <1>2, <1>6, <2>1, <2>2, <2>3, <2>4, <2>5
<1>7. Sorted(r, new)
  BY <1>3, <1>6 DEF Sorted
<1>8. QED
  BY <1>7 DEF Insert, r, i

\* Taking an entry out leaves a sorted queue sorted.
LEMMA RemoveAtSorted ==
  ASSUME NEW S, NEW q \in Seq(S), NEW ky, Sorted(q, ky), NEW k \in 1 .. Len(q)
  PROVE  Sorted(RemoveAt(q, k), ky)
<1> DEFINE r == RemoveAt(q, k)
           at(j) == IF j < k THEN j ELSE j + 1
<1>1. Len(q) \in Nat
  BY LenProperties
<1>2. /\ Len(r) = Len(q) - 1
      /\ \A j \in 1 .. Len(q) - 1 : r[j] = IF j < k THEN q[j] ELSE q[j + 1]
  BY RemoveAtEntries
<1> HIDE DEF r
<1>3. ASSUME NEW a \in 1 .. Len(r), NEW b \in 1 .. Len(r), a < b
      PROVE  ky[r[b]] <= ky[r[a]]
  <2>1. /\ at(a) \in 1 .. Len(q) /\ at(b) \in 1 .. Len(q) /\ at(a) < at(b)
        /\ r[a] = q[at(a)] /\ r[b] = q[at(b)]
    BY <1>1, <1>2, <1>3
  <2>2. QED
    BY <2>1 DEF Sorted
<1>4. Sorted(r, ky)
  BY <1>3 DEF Sorted
<1>5. QED
  BY <1>4 DEF r

LEMMA GetItemSorted ==
  ASSUME NEW S, NEW q \in Seq(S), NEW ky, Sorted(q, ky), NEW p \in Range(q)
  PROVE  Sorted(GetItem(q, p), ky)
<1>1. PosOf(q, p) \in 1 .. Len(q)
  BY MembersAt DEF PosOf
<1>2. QED
  BY <1>1, RemoveAtSorted DEF GetItem

\* The first entry of a sorted queue has the largest key, and the rest is sorted.
LEMMA TailSorted ==
  ASSUME NEW S, NEW q \in Seq(S), NEW ky, Sorted(q, ky), q # <<>>,
         \A j \in 1 .. Len(q) : ky[q[j]] \in Int
  PROVE  /\ Sorted(Tail(q), ky)
         /\ \A p \in Range(q) : ky[p] <= ky[Head(q)]
<1>1. Len(q) \in Nat \ {0} /\ Head(q) = q[1] /\ 1 \in 1 .. Len(q)
  BY EmptySeq
<1>2. /\ Tail(q) \in Seq(S) /\ Len(Tail(q)) = Len(q) - 1
      /\ \A j \in 1 .. Len(q) - 1 : Tail(q)[j] = q[j + 1]
  BY <1>1, HeadTailProperties
<1>3. Sorted(Tail(q), ky)
  <2> SUFFICES ASSUME NEW a \in 1 .. Len(q) - 1, NEW b \in 1 .. Len(q) - 1, a < b
               PROVE  ky[Tail(q)[b]] <= ky[Tail(q)[a]]
    BY <1>2 DEF Sorted
  <2>1. a + 1 \in 1 .. Len(q) /\ b + 1 \in 1 .. Len(q) /\ a + 1 < b + 1
    BY <1>1
  <2>2. QED
    BY <1>2, <2>1 DEF Sorted
<1>4. ASSUME NEW p \in Range(q)
      PROVE  ky[p] <= ky[Head(q)]
  <2>1. PICK j \in 1 .. Len(q) : p = q[j]
    BY MembersAt
  <2>2. CASE j = 1
    BY <1>1, <2>1, <2>2
  <2>3. CASE j # 1
    <3>1. 1 < j
      BY <1>1, <2>3
    <3>2. QED
      BY <1>1, <2>1, <3>1 DEF Sorted
  <2>4. QED
    BY <2>2, <2>3
<1>5. QED
  BY <1>3, <1>4

-----------------------------------------------------------------------------
(* Delta lists.                                                            *)

\* The recursion of Elapsed defines a function, whose values are sums of keys.
LEMMA ElapsedSums ==
  ASSUME NEW S, NEW q \in Seq(S), NEW ky, \A i \in 1 .. Len(q) : ky[q[i]] \in Int
  PROVE  /\ Elapsed(q, ky)[0] = 0
         /\ \A i \in 1 .. Len(q) : Elapsed(q, ky)[i] = Elapsed(q, ky)[i - 1] + ky[q[i]]
         /\ \A i \in 0 .. Len(q) : Elapsed(q, ky)[i] \in Int
<1> DEFINE sum(i, before) == IF i = 0 THEN 0 ELSE before + ky[q[i]]
           Defines(f, N) == f = [i \in 0 .. N |-> sum(i, f[i - 1])]
           T == {N \in Nat : \E f : Defines(f, N)}
           e == Elapsed(q, ky)
<1>1. Len(q) \in Nat
  BY LenProperties
<1>2. 0 \in T
  <2> DEFINE f == [i \in 0 .. 0 |-> 0]
  <2>1. Defines(f, 0)
    OBVIOUS
  <2>2. QED
    BY <2>1
<1>3. ASSUME NEW N \in 0 .. Len(q) - 1, N \in T
      PROVE  N + 1 \in T
  <2>1. PICK f : Defines(f, N)
    BY <1>3
  <2> DEFINE g == [i \in 0 .. N + 1 |-> IF i = N + 1 THEN sum(N + 1, f[N]) ELSE f[i]]
             h == [i \in 0 .. N + 1 |-> sum(i, g[i - 1])]
  <2>2. N + 1 \in Nat /\ N \in Nat /\ N \in 0 .. N
    BY <1>1
  <2>3. ASSUME NEW i \in 0 .. N + 1
        PROVE  g[i] = sum(i, g[i - 1])
    <3>1. CASE i = N + 1
      BY <2>2, <3>1
    <3>2. CASE i \in 1 .. N
      <4>1. g[i] = f[i] /\ g[i - 1] = f[i - 1]
        BY <2>2, <3>2
      <4>2. i \in 0 .. N
        BY <3>2
      <4>3. f[i] = sum(i, f[i - 1])
        <5> HIDE DEF g, h, sum, T
        <5>1. QED
          BY <2>1, <4>2
      <4>4. QED
        BY <4>1, <4>3
    <3>3. CASE i = 0
      BY <2>1, <2>2, <3>3
    <3>4. QED
      BY <2>2, <3>1, <3>2, <3>3
  <2>4. g = h
    <3>1. \A i \in 0 .. N + 1 : g[i] = h[i]
      BY <2>3
    <3>2. g = [i \in 0 .. N + 1 |-> g[i]] /\ h = [i \in 0 .. N + 1 |-> h[i]]
      OBVIOUS
    <3> HIDE DEF g, h
    <3>3. QED
      BY <3>1, <3>2
  <2>5. Defines(g, N + 1)
    <3> HIDE DEF g, sum
    <3>1. QED
      BY <2>4
  <2>6. QED
    BY <2>2, <2>5
<1>4. Len(q) \in T
  <2> HIDE DEF T
  <2>1. Len(q) \in 0 .. Len(q)
    BY <1>1
  <2>2. QED
    BY <1>1, <1>2, <1>3, <2>1, UpTo
<1>5. PICK f : Defines(f, Len(q))
  BY <1>4
<1>6. e = [i \in 0 .. Len(q) |-> sum(i, e[i - 1])]
  BY <1>5 DEF Elapsed
<1> HIDE DEF e
<1>7. \A i \in 0 .. Len(q) : e[i] = sum(i, e[i - 1])
  <2> HIDE DEF sum
  <2>1. QED
    BY <1>6
<1>8. e[0] = 0 /\ \A i \in 1 .. Len(q) : e[i] = e[i - 1] + ky[q[i]]
  BY <1>1, <1>7
<1> DEFINE I == {i \in 0 .. Len(q) : e[i] \in Int}
<1>9. 0 \in I
  BY <1>1, <1>8
<1>10. ASSUME NEW i \in 0 .. Len(q) - 1, i \in I
       PROVE  i + 1 \in I
  <2>1. i + 1 \in 1 .. Len(q) /\ i + 1 - 1 = i
    BY <1>1
  <2>2. e[i + 1] = e[i] + ky[q[i + 1]] /\ ky[q[i + 1]] \in Int /\ e[i] \in Int
    BY <1>8, <1>10, <2>1
  <2>3. QED
    BY <1>1, <2>2
<1>11. \A i \in 0 .. Len(q) : i \in I
  <2> HIDE DEF I
  <2>1. QED
    BY <1>1, <1>9, <1>10, UpTo
<1>12. QED
  BY <1>8, <1>11 DEF e

\* insertd stops at the first entry that is due later.
LEMMA InsertdPosDue ==
  ASSUME NEW S, NEW q \in Seq(S), NEW ky, NEW delay
  PROVE  LET i == InsertdPos(q, ky, delay) IN
         /\ i \in 1 .. Len(q) + 1
         /\ i \in 1 .. Len(q) => Elapsed(q, ky)[i] > delay
         /\ \A j \in 1 .. Len(q) : j < i => ~(Elapsed(q, ky)[j] > delay)
<1> DEFINE T == {i \in 1 .. Len(q) + 1 : i = Len(q) + 1 \/ Elapsed(q, ky)[i] > delay}
<1>1. Len(q) \in Nat
  BY LenProperties
<1>2. T \in SUBSET Nat /\ Len(q) + 1 \in T
  BY <1>1
<1>3. Min(T) \in T /\ \A y \in T : Min(T) <= y
  BY <1>2, MinProperties
<1>4. InsertdPos(q, ky, delay) = Min(T)
  BY DEF InsertdPos
<1>5. \A j \in 1 .. Len(q) : Elapsed(q, ky)[j] > delay => j \in T
  BY <1>1
<1>6. \A i \in T : i \in 1 .. Len(q) + 1 /\ (i = Len(q) + 1 \/ Elapsed(q, ky)[i] > delay)
  OBVIOUS
<1>7. Min(T) \in Nat /\ (Min(T) \in 1 .. Len(q) => Elapsed(q, ky)[Min(T)] > delay)
  BY <1>1, <1>3, <1>6
<1> HIDE DEF T
<1>8. \A j \in 1 .. Len(q) : j < Min(T) => ~(Elapsed(q, ky)[j] > delay)
  BY <1>3, <1>5, <1>7
<1>9. QED
  BY <1>3, <1>4, <1>6, <1>7, <1>8

\* The time until p is due.
Left(q, ky, p) == Elapsed(q, ky)[PosOf(q, p)]

\* The keys of the entries of q are numbers.
KeysOf(q, ky) == \A i \in 1 .. Len(q) : ky[q[i]] \in Int

\* A function that adds up the keys is the elapsed time.
LEMMA SumsAre ==
  ASSUME NEW S, NEW q \in Seq(S), NEW ky, KeysOf(q, ky), NEW f,
         f[0] = 0, \A i \in 1 .. Len(q) : f[i] = f[i - 1] + ky[q[i]]
  PROVE  \A i \in 0 .. Len(q) : Elapsed(q, ky)[i] = f[i]
<1>1. Len(q) \in Nat
  BY LenProperties
<1>2. PICK e : e = Elapsed(q, ky)
  OBVIOUS
<1>3. e[0] = 0 /\ \A i \in 1 .. Len(q) : e[i] = e[i - 1] + ky[q[i]]
  BY <1>2, ElapsedSums DEF KeysOf
<1> DEFINE T == {i \in 0 .. Len(q) : e[i] = f[i]}
<1>4. 0 \in T
  BY <1>1, <1>3
<1>5. ASSUME NEW i \in 0 .. Len(q) - 1, i \in T
      PROVE  i + 1 \in T
  <2>1. i + 1 \in 1 .. Len(q) /\ i + 1 \in 0 .. Len(q) /\ i + 1 - 1 = i
    BY <1>1
  <2>2. e[i + 1] = e[i] + ky[q[i + 1]] /\ f[i + 1] = f[i] + ky[q[i + 1]] /\ e[i] = f[i]
    BY <1>3, <1>5, <2>1
  <2>3. QED
    BY <2>1, <2>2
<1> HIDE DEF T
<1>6. \A i \in 0 .. Len(q) : i \in T
  BY <1>1, <1>4, <1>5, UpTo
<1>7. QED
  BY <1>2, <1>6 DEF T

\* The place of an entry, and the time until it is due.
LEMMA LeftAt ==
  ASSUME NEW S, NEW q, QueueOf(S, q), NEW ky, NEW i \in 1 .. Len(q)
  PROVE  PosOf(q, q[i]) = i /\ Left(q, ky, q[i]) = Elapsed(q, ky)[i]
<1>1. \A j, k \in 1 .. Len(q) : q[j] = q[k] => j = k
  BY MembersAt DEF QueueOf
<1>2. PosOf(q, q[i]) = i
  BY <1>1 DEF PosOf
<1>3. QED
  BY <1>2 DEF Left

\* A function that adds up the keys is the time that is left to the entries.
LEMMA LeftBySums ==
  ASSUME NEW S, NEW q, QueueOf(S, q), NEW ky, \A i \in 1 .. Len(q) : ky[q[i]] \in Int,
         NEW f, f[0] = 0, \A i \in 1 .. Len(q) : f[i] = f[i - 1] + ky[q[i]]
  PROVE  \A i \in 1 .. Len(q) : Left(q, ky, q[i]) = f[i]
<1>1. q \in Seq(S) /\ Len(q) \in Nat /\ KeysOf(q, ky)
  BY LenProperties DEF QueueOf, KeysOf
<1>2. \A i \in 0 .. Len(q) : Elapsed(q, ky)[i] = f[i]
  BY <1>1, SumsAre
<1> TAKE i \in 1 .. Len(q)
<1>3. Left(q, ky, q[i]) = Elapsed(q, ky)[i] /\ i \in 0 .. Len(q)
  BY <1>1, LeftAt
<1>4. QED
  BY <1>2, <1>3

\* Only the keys of the entries count.
LEMMA LeftSame ==
  ASSUME NEW S, NEW q, QueueOf(S, q), NEW ky, KeysOf(q, ky), NEW kz,
         \A p \in Range(q) : kz[p] = ky[p]
  PROVE  \A p \in Range(q) : Left(q, kz, p) = Left(q, ky, p)
<1>1. q \in Seq(S) /\ Range(q) = {q[i] : i \in 1 .. Len(q)} /\ Len(q) \in Nat
  BY MembersAt DEF QueueOf
<1>2. KeysOf(q, kz)
  BY <1>1 DEF KeysOf
<1>3. PICK f : f = Elapsed(q, kz)
  OBVIOUS
<1>4. f[0] = 0 /\ \A i \in 1 .. Len(q) : f[i] = f[i - 1] + kz[q[i]]
  BY <1>1, <1>2, <1>3, ElapsedSums DEF KeysOf
<1>5. \A i \in 1 .. Len(q) : f[i] = f[i - 1] + ky[q[i]]
  BY <1>1, <1>4
<1>6. \A i \in 0 .. Len(q) : Elapsed(q, ky)[i] = f[i]
  BY <1>1, <1>4, <1>5, SumsAre
<1>7. ASSUME NEW i \in 1 .. Len(q)
      PROVE  Left(q, kz, q[i]) = Left(q, ky, q[i])
  <2>1. i \in 0 .. Len(q)
    BY <1>1
  <2>2. Left(q, kz, q[i]) = Elapsed(q, kz)[i] /\ Left(q, ky, q[i]) = Elapsed(q, ky)[i]
    BY LeftAt
  <2>3. QED
    BY <1>3, <1>6, <2>1, <2>2
<1>8. QED
  BY <1>1, <1>7

\* Nobody is due before the first entry.
LEMMA FirstIsFirst ==
  ASSUME NEW S, NEW q, QueueOf(S, q), NEW ky,
         \A p \in Range(q) : ky[p] \in Nat
  PROVE  \A p \in Range(q) : Left(q, ky, p) \in Nat /\ Left(q, ky, p) >= ky[Head(q)]
<1>1. q \in Seq(S) /\ Range(q) = {q[i] : i \in 1 .. Len(q)} /\ Len(q) \in Nat
  BY MembersAt DEF QueueOf
<1>2. KeysOf(q, ky) /\ \A i \in 1 .. Len(q) : ky[q[i]] \in Nat
  BY <1>1 DEF KeysOf
<1>3. PICK e : e = Elapsed(q, ky)
  OBVIOUS
<1>4. e[0] = 0 /\ \A i \in 1 .. Len(q) : e[i] = e[i - 1] + ky[q[i]]
  BY <1>1, <1>2, <1>3, ElapsedSums DEF KeysOf
<1> DEFINE T == {i \in Nat : e[i] \in Nat /\ (i >= 1 => e[i] >= ky[Head(q)])}
<1>5. 0 \in T
  BY <1>4
<1>6. ASSUME NEW i \in 0 .. Len(q) - 1, i \in T
      PROVE  i + 1 \in T
  <2>1. i + 1 \in 1 .. Len(q) /\ i + 1 \in Nat /\ i + 1 - 1 = i /\ i \in Nat
    BY <1>1
  <2>2. e[i + 1] = e[i] + ky[q[i + 1]] /\ ky[q[i + 1]] \in Nat /\ e[i] \in Nat
    BY <1>2, <1>4, <1>6, <2>1
  <2>3. CASE i = 0
    <3>1. Head(q) = q[1] /\ e[i] = 0 /\ i + 1 = 1
      BY <1>1, <1>4, <2>1, <2>3
    <3>2. e[i + 1] = ky[Head(q)]
      BY <2>2, <3>1
    <3>3. QED
      BY <2>1, <2>2, <3>2
  <2>4. CASE i >= 1
    <3>1. e[i] >= ky[Head(q)]
      BY <1>6, <2>4
    <3>2. Head(q) = q[1] /\ 1 \in 1 .. Len(q)
      BY <1>1, <2>1
    <3>3. ky[Head(q)] \in Nat
      BY <1>2, <3>2
    <3>4. QED
      BY <2>1, <2>2, <3>1, <3>3
  <2>5. QED
    BY <2>1, <2>3, <2>4
<1> HIDE DEF T
<1>7. \A i \in 0 .. Len(q) : i \in T
  BY <1>1, <1>5, <1>6, UpTo
<1>8. ASSUME NEW i \in 1 .. Len(q)
      PROVE  Left(q, ky, q[i]) \in Nat /\ Left(q, ky, q[i]) >= ky[Head(q)]
  <2>1. i \in 0 .. Len(q) /\ i >= 1 /\ Left(q, ky, q[i]) = e[i]
    BY <1>1, <1>3, LeftAt
  <2>2. QED
    BY <1>7, <2>1 DEF T
<1>9. QED
  BY <1>1, <1>8

\* insertd gives the new entry its time and leaves the others theirs.
LEMMA DeltaInsertd ==
  ASSUME NEW S, NEW q, QueueOf(S, q), NEW p \in S, p \notin Range(q), NEW ky, DOMAIN ky = S,
         \A x \in Range(q) : ky[x] \in Nat, NEW d \in Nat
  PROVE  LET r == Insertd(q, p, ky, d)
             kz == InsertdKeys(q, p, ky, d) IN
         /\ \A x \in Range(q) : Left(r, kz, x) = Left(q, ky, x)
         /\ Left(r, kz, p) = d
         /\ \A x \in Range(r) : kz[x] \in Nat
         /\ d > 0 /\ (q # <<>> => ky[Head(q)] > 0) => kz[Head(r)] > 0
<1> DEFINE r == Insertd(q, p, ky, d)
           kz == InsertdKeys(q, p, ky, d)
           L == Len(q)
<1>1. /\ q \in Seq(S) /\ Range(q) = {q[i] : i \in 1 .. L} /\ L \in Nat
      /\ \A j, k \in 1 .. L : q[j] = q[k] => j = k
  BY MembersAt DEF QueueOf
<1>2. /\ \A j \in 1 .. L : ky[q[j]] \in Nat /\ q[j] \in S /\ q[j] # p /\ q[j] \in Range(q)
      /\ KeysOf(q, ky)
  BY <1>1 DEF KeysOf
<1>3. PICK e : e = Elapsed(q, ky)
  OBVIOUS
<1>4. /\ e[0] = 0 /\ \A j \in 1 .. L : e[j] = e[j - 1] + ky[q[j]]
      /\ \A j \in 0 .. L : e[j] \in Int
  BY <1>1, <1>2, <1>3, ElapsedSums DEF KeysOf
<1>5. PICK i : i = InsertdPos(q, ky, d)
  OBVIOUS
<1>6. /\ i \in 1 .. L + 1
      /\ i \in 1 .. L => e[i] > d
      /\ \A j \in 1 .. L : j < i => ~(e[j] > d)
  BY <1>1, <1>3, <1>5, InsertdPosDue
<1>7. /\ r \in Seq(S) /\ Len(r) = L + 1 /\ QueueOf(S, r)
      /\ \A j \in 1 .. L + 1 : r[j] = IF j < i THEN q[j] ELSE IF j = i THEN p ELSE q[j - 1]
  <2>1. i \in 1 .. Len(q) + 1 /\ r = InsertAt(q, i, p)
    BY <1>5, <1>6 DEF Insertd
  <2>2. r \in Seq(S) /\ Len(r) = L + 1
    BY <1>1, <2>1, InsertAtEntries
  <2>3. \A j \in 1 .. L + 1 : r[j] = IF j < i THEN q[j] ELSE IF j = i THEN p ELSE q[j - 1]
    BY <1>1, <2>1, InsertAtEntries
  <2>4. QueueOf(S, r)
    BY <2>1, InsertAtMembers
  <2>5. QED
    BY <2>2, <2>3, <2>4
<1>8. i - 1 \in 0 .. L /\ e[i - 1] \in Int /\ e[i - 1] <= d
  <2>1. i - 1 \in 0 .. L /\ (i - 1 = 0 \/ (i - 1 \in 1 .. L /\ i - 1 < i))
    BY <1>1, <1>6
  <2>2. QED
    BY <2>1, <1>4, <1>6
<1>9. kz = [x \in S |-> IF x = p THEN d - e[i - 1]
                        ELSE IF i <= L /\ x = q[i] THEN ky[x] - (d - e[i - 1]) ELSE ky[x]]
  BY <1>3, <1>5 DEF InsertdKeys
<1> HIDE DEF r, kz, L
<1>10. kz[p] = d - e[i - 1] /\ d - e[i - 1] \in Nat
  BY <1>8, <1>9
<1>11. ASSUME NEW j \in 1 .. L, j # i
       PROVE  kz[q[j]] = ky[q[j]] /\ ky[q[j]] \in Nat
  <2>1. i <= L => q[j] # q[i]
    BY <1>1, <1>6, <1>11
  <2>2. QED
    BY <1>2, <1>9, <2>1
<1>12. ASSUME i \in 1 .. L
       PROVE  /\ kz[q[i]] = ky[q[i]] - (d - e[i - 1]) /\ kz[q[i]] \in Nat /\ kz[q[i]] > 0
              /\ e[i] = e[i - 1] + ky[q[i]] /\ e[i] \in Int
  <2>1. i <= L /\ q[i] # p /\ q[i] \in S /\ ky[q[i]] \in Nat
    BY <1>1, <1>2, <1>12
  <2>2. kz[q[i]] = ky[q[i]] - (d - e[i - 1])
    BY <1>9, <2>1
  <2>3. e[i] = e[i - 1] + ky[q[i]] /\ e[i] > d
    BY <1>4, <1>6, <1>12
  <2>4. QED
    BY <1>8, <2>1, <2>2, <2>3
<1> DEFINE f == [j \in 0 .. L + 1 |-> IF j < i THEN e[j] ELSE IF j = i THEN d ELSE e[j - 1]]
<1>13. ASSUME NEW j \in 1 .. L + 1
       PROVE  f[j] = f[j - 1] + kz[r[j]] /\ kz[r[j]] \in Nat
  <2>1. j \in Int /\ i \in Int /\ L \in Nat /\ j - 1 \in 0 .. L + 1 /\ j \in 0 .. L + 1
    BY <1>1, <1>6
  <2>2. CASE j < i
    <3>1. j \in 1 .. L /\ f[j] = e[j] /\ f[j - 1] = e[j - 1] /\ r[j] = q[j]
      BY <1>6, <1>7, <2>1, <2>2
    <3>2. QED
      BY <1>4, <1>11, <2>1, <2>2, <3>1
  <2>3. CASE j = i
    <3>1. f[j] = d /\ f[j - 1] = e[i - 1] /\ r[j] = p
      BY <1>6, <1>7, <2>1, <2>3
    <3>2. QED
      BY <1>8, <1>10, <3>1
  <2>4. CASE j = i + 1
    <3>1. i \in 1 .. L /\ f[j] = e[i] /\ f[j - 1] = d /\ r[j] = q[i]
      BY <1>6, <1>7, <2>1, <2>4
    <3>2. /\ kz[q[i]] = ky[q[i]] - (d - e[i - 1]) /\ kz[q[i]] \in Nat
          /\ e[i] = e[i - 1] + ky[q[i]] /\ ky[q[i]] \in Nat
      BY <1>2, <1>12, <3>1
    <3>3. QED
      BY <1>8, <3>1, <3>2
  <2>5. CASE j > i + 1
    <3>1. /\ j - 1 \in 1 .. L /\ j - 1 # i /\ f[j] = e[j - 1] /\ f[j - 1] = e[j - 1 - 1]
          /\ r[j] = q[j - 1]
      BY <1>6, <1>7, <2>1, <2>5
    <3>2. QED
      BY <1>4, <1>11, <3>1
  <2>6. QED
    BY <2>1, <2>2, <2>3, <2>4, <2>5
<1>14. f[0] = 0
  BY <1>1, <1>4, <1>6
<1> HIDE DEF f
<1>15. KeysOf(r, kz)
  <2>1. \A j \in 1 .. L + 1 : kz[r[j]] \in Nat
    BY <1>13
  <2>2. QED
    BY <1>7, <2>1 DEF KeysOf
<1>16. \A j \in 0 .. L + 1 : Elapsed(r, kz)[j] = f[j]
  BY <1>7, <1>13, <1>14, <1>15, SumsAre
<1>17. \A j \in 1 .. L + 1 : Left(r, kz, r[j]) = f[j]
  <2> TAKE j \in 1 .. L + 1
  <2>1. Left(r, kz, r[j]) = Elapsed(r, kz)[j]
    BY <1>7, LeftAt
  <2>2. j \in 0 .. L + 1
    BY <1>1
  <2>3. QED
    BY <1>16, <2>1, <2>2
<1>18. Left(r, kz, p) = d
  <2>1. f[i] = d /\ r[i] = p
    BY <1>1, <1>6, <1>7 DEF f
  <2>2. QED
    BY <1>6, <1>17, <2>1
<1>19. ASSUME NEW j \in 1 .. L
       PROVE  Left(r, kz, q[j]) = Left(q, ky, q[j])
  <2>1. Left(q, ky, q[j]) = e[j]
    BY <1>3, LeftAt DEF L
  <2>2. CASE j < i
    <3>1. j \in 1 .. L + 1 /\ r[j] = q[j] /\ f[j] = e[j]
      BY <1>1, <1>7, <2>2 DEF f
    <3>2. QED
      BY <1>17, <2>1, <3>1
  <2>3. CASE j >= i
    <3>1. j + 1 \in 1 .. L + 1 /\ r[j + 1] = q[j] /\ f[j + 1] = e[j]
      BY <1>1, <1>6, <1>7, <2>3 DEF f
    <3>2. QED
      BY <1>17, <2>1, <3>1
  <2>4. QED
    BY <1>1, <1>6, <2>2, <2>3
<1>20. \A x \in Range(q) : Left(r, kz, x) = Left(q, ky, x)
  BY <1>1, <1>19
<1>21. \A x \in Range(r) : kz[x] \in Nat
  <2>1. Range(r) = {r[j] : j \in 1 .. L + 1}
    BY <1>7, MembersAt
  <2>2. QED
    BY <1>13, <2>1
<1>22. ASSUME d > 0, q # <<>> => ky[Head(q)] > 0
       PROVE  kz[Head(r)] > 0
  <2>1. Head(r) = r[1] /\ 1 \in 1 .. L + 1
    BY <1>1, <1>7
  <2>2. CASE i = 1
    <3>1. r[1] = p /\ e[i - 1] = 0
      BY <1>4, <1>7, <2>1, <2>2
    <3>2. QED
      BY <1>10, <1>22, <2>1, <3>1
  <2>3. CASE i # 1
    <3>1. r[1] = q[1] /\ 1 \in 1 .. L /\ 1 # i /\ q # <<>> /\ Head(q) = q[1]
      BY <1>1, <1>6, <1>7, <2>1, <2>3 DEF L
    <3>2. QED
      BY <1>11, <1>22, <2>1, <3>1
  <2>4. QED
    BY <2>2, <2>3
<1>23. QED
  BY <1>18, <1>20, <1>21, <1>22 DEF r, kz

\* unsleep leaves everybody else the time that was left to them.
LEMMA DeltaUnsleep ==
  ASSUME NEW S, NEW q, QueueOf(S, q), NEW p \in Range(q), NEW ky, DOMAIN ky = S,
         \A x \in Range(q) : ky[x] \in Nat
  PROVE  LET r == GetItem(q, p)
             kz == UnsleepKeys(q, p, ky) IN
         /\ \A x \in Range(q) \ {p} : Left(r, kz, x) = Left(q, ky, x)
         /\ \A x \in Range(r) : kz[x] \in Nat
         /\ ky[Head(q)] > 0 /\ r # <<>> => kz[Head(r)] > 0
<1> DEFINE r == GetItem(q, p)
           kz == UnsleepKeys(q, p, ky)
           L == Len(q)
<1>1. /\ q \in Seq(S) /\ Range(q) = {q[j] : j \in 1 .. L} /\ L \in Nat
      /\ \A j, k \in 1 .. L : q[j] = q[k] => j = k
      /\ Range(q) \subseteq S
  BY MembersAt DEF QueueOf
<1>2. \A j \in 1 .. L : ky[q[j]] \in Nat /\ q[j] \in S
  BY <1>1
<1>3. PICK e : e = Elapsed(q, ky)
  OBVIOUS
<1>4. /\ e[0] = 0 /\ \A j \in 1 .. L : e[j] = e[j - 1] + ky[q[j]]
      /\ \A j \in 0 .. L : e[j] \in Int
  BY <1>1, <1>2, <1>3, ElapsedSums
<1>5. PICK i : i = PosOf(q, p)
  OBVIOUS
<1>6. i \in 1 .. L /\ q[i] = p
  BY <1>1, <1>5 DEF PosOf
<1>7. /\ QueueOf(S, r) /\ r \in Seq(S) /\ Len(r) = L - 1
      /\ \A j \in 1 .. L - 1 : r[j] = IF j < i THEN q[j] ELSE q[j + 1]
  <2>1. i \in 1 .. Len(q) /\ r = RemoveAt(q, i)
    BY <1>5, <1>6 DEF GetItem
  <2> HIDE DEF r
  <2>2. r \in Seq(S) /\ Len(r) = Len(q) - 1
    BY <1>1, <2>1, RemoveAtEntries
  <2>3. \A j \in 1 .. Len(q) - 1 : r[j] = IF j < i THEN q[j] ELSE q[j + 1]
    BY <1>1, <2>1, RemoveAtEntries
  <2>4. QueueOf(S, r)
    BY GetItemMembers DEF r
  <2>5. QED
    BY <2>2, <2>3, <2>4
<1>8. kz = IF i < L THEN [ky EXCEPT ![q[i + 1]] = @ + ky[p]] ELSE ky
  BY <1>5 DEF UnsleepKeys
<1> HIDE DEF r, kz, L
<1>9. ASSUME NEW j \in 1 .. L, j # i + 1
      PROVE  kz[q[j]] = ky[q[j]] /\ ky[q[j]] \in Nat
  <2>1. i < L => i + 1 \in 1 .. L /\ q[j] # q[i + 1]
    BY <1>1, <1>6, <1>9
  <2>2. QED
    BY <1>2, <1>8, <2>1
<1>10. ASSUME i < L
       PROVE  /\ kz[q[i + 1]] = ky[q[i + 1]] + ky[p] /\ ky[q[i + 1]] \in Nat /\ ky[p] \in Nat
              /\ e[i + 1] = e[i] + ky[q[i + 1]] /\ e[i] = e[i - 1] + ky[p]
              /\ e[i - 1] \in Int
  <2>1. i + 1 \in 1 .. L /\ q[i + 1] \in S /\ i - 1 \in 0 .. L /\ i + 1 - 1 = i
    BY <1>1, <1>2, <1>6, <1>10
  <2>2. kz[q[i + 1]] = ky[q[i + 1]] + ky[p]
    BY <1>8, <1>10, <2>1
  <2>3. QED
    BY <1>2, <1>4, <1>6, <2>1, <2>2
<1> DEFINE f == [j \in 0 .. L - 1 |-> IF j < i THEN e[j] ELSE e[j + 1]]
<1>11. ASSUME NEW j \in 1 .. L - 1
       PROVE  f[j] = f[j - 1] + kz[r[j]] /\ kz[r[j]] \in Nat
  <2>1. j \in Int /\ i \in Int /\ L \in Nat /\ j - 1 \in 0 .. L - 1 /\ j \in 0 .. L - 1
    BY <1>1, <1>6
  <2>2. CASE j < i
    <3>1. j \in 1 .. L /\ j # i + 1 /\ f[j] = e[j] /\ f[j - 1] = e[j - 1] /\ r[j] = q[j]
      BY <1>6, <1>7, <2>1, <2>2
    <3>2. QED
      BY <1>4, <1>9, <3>1
  <2>3. CASE j = i
    <3>1. i < L /\ f[j] = e[i + 1] /\ f[j - 1] = e[i - 1] /\ r[j] = q[i + 1]
      BY <1>6, <1>7, <2>1, <2>3
    <3>2. QED
      BY <1>10, <3>1
  <2>4. CASE j > i
    <3>1. /\ j + 1 \in 1 .. L /\ j + 1 # i + 1 /\ f[j] = e[j + 1] /\ f[j - 1] = e[j]
          /\ r[j] = q[j + 1] /\ j + 1 - 1 = j
      BY <1>6, <1>7, <2>1, <2>4
    <3>2. QED
      BY <1>4, <1>9, <3>1
  <2>5. QED
    BY <2>1, <2>2, <2>3, <2>4
<1>12. f[0] = 0
  BY <1>1, <1>4, <1>6
<1> HIDE DEF f
<1>13. \A j \in 1 .. L - 1 : Left(r, kz, r[j]) = f[j]
  <2>1. \A j \in 1 .. Len(r) : kz[r[j]] \in Int
    BY <1>7, <1>11
  <2>2. \A j \in 1 .. Len(r) : f[j] = f[j - 1] + kz[r[j]]
    BY <1>7, <1>11
  <2>3. QueueOf(S, r)
    BY <1>7
  <2>4. PICK g, w : g = f /\ w = r
    OBVIOUS
  <2>5. g[0] = 0 /\ \A j \in 1 .. Len(w) : g[j] = g[j - 1] + kz[w[j]] /\ kz[w[j]] \in Int
    BY <1>12, <2>1, <2>2, <2>4
  <2>6. QueueOf(S, w)
    BY <2>3, <2>4
  <2>7. \A j \in 1 .. Len(w) : Left(w, kz, w[j]) = g[j]
    BY <2>5, <2>6, LeftBySums
  <2>8. QED
    BY <1>7, <2>4, <2>7
<1>14. ASSUME NEW j \in 1 .. L, j # i
       PROVE  Left(r, kz, q[j]) = Left(q, ky, q[j])
  <2>1. Left(q, ky, q[j]) = e[j]
    BY <1>3, LeftAt DEF L
  <2>2. CASE j < i
    <3>1. j \in 1 .. L - 1 /\ r[j] = q[j] /\ f[j] = e[j]
      BY <1>1, <1>6, <1>7, <2>2 DEF f
    <3>2. QED
      BY <1>13, <2>1, <3>1
  <2>3. CASE j > i
    <3>1. j - 1 \in 1 .. L - 1 /\ r[j - 1] = q[j] /\ f[j - 1] = e[j]
      BY <1>1, <1>6, <1>7, <2>3 DEF f
    <3>2. QED
      BY <1>13, <2>1, <3>1
  <2>4. QED
    BY <1>1, <1>6, <1>14, <2>2, <2>3
<1>15. \A x \in Range(q) \ {p} : Left(r, kz, x) = Left(q, ky, x)
  BY <1>1, <1>6, <1>14
<1>16. \A x \in Range(r) : kz[x] \in Nat
  <2>1. Range(r) = {r[j] : j \in 1 .. L - 1}
    BY <1>7, MembersAt
  <2>2. QED
    BY <1>11, <2>1
<1>17. ASSUME ky[Head(q)] > 0, r # <<>>
       PROVE  kz[Head(r)] > 0
  <2>1. Head(r) = r[1] /\ 1 \in 1 .. L - 1
    BY <1>1, <1>7, <1>17, EmptySeq
  <2>2. Head(q) = q[1] /\ 1 \in 1 .. L
    BY <1>1, <2>1 DEF L
  <2>3. CASE i = 1
    <3>1. r[1] = q[i + 1] /\ i < L /\ ky[p] > 0
      BY <1>1, <1>6, <1>7, <1>17, <2>1, <2>2, <2>3
    <3>2. QED
      BY <1>10, <2>1, <3>1
  <2>4. CASE i # 1
    <3>1. r[1] = q[1] /\ 1 # i + 1
      BY <1>1, <1>6, <1>7, <2>1, <2>4
    <3>2. QED
      BY <1>9, <1>17, <2>1, <2>2, <3>1
  <2>5. QED
    BY <2>3, <2>4
<1>18. QED
  BY <1>15, <1>16, <1>17 DEF r, kz

\* dequeue shortens the time of the others by the key of the first entry.
LEMMA DeltaFirstOut ==
  ASSUME NEW S, NEW q, QueueOf(S, q), q # <<>>, NEW ky,
         \A x \in Range(q) : ky[x] \in Int
  PROVE  \A x \in Range(q) \ {Head(q)} :
            Left(Tail(q), ky, x) = Left(q, ky, x) - ky[Head(q)]
<1> DEFINE r == Tail(q)
           L == Len(q)
<1>1. /\ q \in Seq(S) /\ Range(q) = {q[j] : j \in 1 .. L} /\ L \in Nat \ {0}
      /\ Head(q) = q[1]
  BY MembersAt, EmptySeq DEF QueueOf
<1>2. \A j \in 1 .. L : ky[q[j]] \in Int
  BY <1>1
<1>3. PICK e : e = Elapsed(q, ky)
  OBVIOUS
<1>4. /\ e[0] = 0 /\ \A j \in 1 .. L : e[j] = e[j - 1] + ky[q[j]]
      /\ \A j \in 0 .. L : e[j] \in Int
  BY <1>1, <1>2, <1>3, ElapsedSums
<1>5. QueueOf(S, r) /\ Len(r) = L - 1 /\ \A j \in 1 .. L - 1 : r[j] = q[j + 1]
  BY <1>1, TailMembers, HeadTailProperties
<1> HIDE DEF r, L
<1>6. e[1] = ky[Head(q)] /\ ky[Head(q)] \in Int
  <2>1. 1 \in 1 .. L /\ 1 - 1 = 0
    BY <1>1
  <2>2. QED
    BY <1>1, <1>2, <1>4, <2>1
<1> DEFINE f == [j \in 0 .. L - 1 |-> e[j + 1] - ky[Head(q)]]
<1>7. f[0] = 0
  BY <1>1, <1>6
<1>8. ASSUME NEW j \in 1 .. L - 1
      PROVE  f[j] = f[j - 1] + ky[r[j]] /\ ky[r[j]] \in Int
  <2>1. /\ j + 1 \in 1 .. L /\ j \in 0 .. L - 1 /\ j - 1 \in 0 .. L - 1 /\ j + 1 - 1 = j
        /\ j - 1 + 1 = j /\ j \in 0 .. L
    BY <1>1
  <2>2. f[j] = e[j + 1] - ky[Head(q)] /\ f[j - 1] = e[j] - ky[Head(q)]
    BY <2>1
  <2>3. e[j + 1] = e[j] + ky[r[j]] /\ e[j] \in Int /\ ky[r[j]] \in Int
    BY <1>2, <1>4, <1>5, <2>1
  <2>4. QED
    BY <1>6, <2>2, <2>3
<1> HIDE DEF f
<1>9. \A j \in 1 .. L - 1 : Left(r, ky, r[j]) = f[j]
  <2>1. \A j \in 1 .. Len(r) : ky[r[j]] \in Int
    BY <1>5, <1>8
  <2>2. \A j \in 1 .. Len(r) : f[j] = f[j - 1] + ky[r[j]]
    BY <1>5, <1>8
  <2>3. QueueOf(S, r)
    BY <1>5
  <2>4. PICK g, w : g = f /\ w = r
    OBVIOUS
  <2>5. g[0] = 0 /\ \A j \in 1 .. Len(w) : g[j] = g[j - 1] + ky[w[j]] /\ ky[w[j]] \in Int
    BY <1>7, <2>1, <2>2, <2>4
  <2>6. QueueOf(S, w)
    BY <2>3, <2>4
  <2>7. \A j \in 1 .. Len(w) : Left(w, ky, w[j]) = g[j]
    BY <2>5, <2>6, LeftBySums
  <2>8. QED
    BY <1>5, <2>4, <2>7
<1>10. ASSUME NEW j \in 1 .. L, q[j] # Head(q)
       PROVE  Left(r, ky, q[j]) = Left(q, ky, q[j]) - ky[Head(q)]
  <2>1. Left(q, ky, q[j]) = e[j]
    BY <1>3, LeftAt DEF L
  <2>2. j - 1 \in 1 .. L - 1 /\ r[j - 1] = q[j] /\ f[j - 1] = e[j] - ky[Head(q)]
    BY <1>1, <1>5, <1>10 DEF f
  <2>3. QED
    BY <1>9, <2>1, <2>2
<1>11. QED
  BY <1>1, <1>10 DEF r

\* The tick takes one off the time of everybody.
LEMMA DeltaTick ==
  ASSUME NEW S, NEW q, QueueOf(S, q), q # <<>>, NEW ky,
         \A x \in Range(q) : ky[x] \in Int,
         NEW kz, kz[Head(q)] = ky[Head(q)] - 1,
         \A x \in Range(q) \ {Head(q)} : kz[x] = ky[x]
  PROVE  \A x \in Range(q) : Left(q, kz, x) = Left(q, ky, x) - 1
<1> DEFINE L == Len(q)
<1>1. /\ q \in Seq(S) /\ Range(q) = {q[j] : j \in 1 .. L} /\ L \in Nat \ {0}
      /\ \A j, k \in 1 .. L : q[j] = q[k] => j = k
      /\ Range(q) \subseteq S
      /\ Head(q) = q[1]
  BY MembersAt, EmptySeq DEF QueueOf
<1>2. \A j \in 1 .. L : ky[q[j]] \in Int /\ q[j] \in S
  BY <1>1
<1>3. PICK e : e = Elapsed(q, ky)
  OBVIOUS
<1>4. /\ e[0] = 0 /\ \A j \in 1 .. L : e[j] = e[j - 1] + ky[q[j]]
      /\ \A j \in 0 .. L : e[j] \in Int
  BY <1>1, <1>2, <1>3, ElapsedSums
<1>5. ASSUME NEW j \in 1 .. L
      PROVE  kz[q[j]] = IF j = 1 THEN ky[q[j]] - 1 ELSE ky[q[j]]
  <2>1. 1 \in 1 .. L /\ (q[j] = q[1] <=> j = 1)
    BY <1>1
  <2>2. QED
    BY <1>1, <1>2, <2>1
<1> DEFINE f == [j \in 0 .. L |-> IF j = 0 THEN 0 ELSE e[j] - 1]
<1>6. ASSUME NEW j \in 1 .. L
      PROVE  f[j] = f[j - 1] + kz[q[j]] /\ kz[q[j]] \in Int
  <2>1. j \in 0 .. L /\ j - 1 \in 0 .. L /\ (j = 1 <=> j - 1 = 0) /\ j # 0
    BY <1>1
  <2>2. f[j] = e[j] - 1 /\ f[j - 1] = IF j = 1 THEN 0 ELSE e[j - 1] - 1
    BY <2>1
  <2>3. e[j] = e[j - 1] + ky[q[j]] /\ e[j - 1] \in Int /\ ky[q[j]] \in Int /\ (j = 1 => e[j - 1] = 0)
    BY <1>2, <1>4, <2>1
  <2> HIDE DEF f
  <2>4. QED
    BY <1>5, <2>2, <2>3
<1>7. f[0] = 0
  BY <1>1
<1> HIDE DEF f
<1>8. \A j \in 1 .. L : Left(q, kz, q[j]) = f[j]
  <2>1. \A j \in 1 .. Len(q) : kz[q[j]] \in Int
    BY <1>6
  <2>2. \A j \in 1 .. Len(q) : f[j] = f[j - 1] + kz[q[j]]
    BY <1>6
  <2>3. PICK g : g = f
    OBVIOUS
  <2>4. g[0] = 0 /\ \A j \in 1 .. Len(q) : g[j] = g[j - 1] + kz[q[j]]
    BY <1>7, <2>2, <2>3
  <2>5. \A j \in 1 .. Len(q) : Left(q, kz, q[j]) = g[j]
    <3>1. PICK k : k = kz
      OBVIOUS
    <3>2. /\ QueueOf(S, q) /\ \A j \in 1 .. Len(q) : k[q[j]] \in Int
          /\ g[0] = 0 /\ \A j \in 1 .. Len(q) : g[j] = g[j - 1] + k[q[j]]
      BY <2>1, <2>4, <3>1
    <3>3. \A j \in 1 .. Len(q) : Left(q, k, q[j]) = g[j]
      BY <3>2, LeftBySums, SMTT(30)
    <3>4. QED
      BY <3>1, <3>3
  <2>6. QED
    BY <2>3, <2>5
<1>9. ASSUME NEW j \in 1 .. L
      PROVE  Left(q, kz, q[j]) = Left(q, ky, q[j]) - 1
  <2>1. Left(q, ky, q[j]) = e[j]
    BY <1>3, LeftAt
  <2>2. f[j] = e[j] - 1
    BY DEF f
  <2>3. QED
    BY <1>8, <2>1, <2>2
<1>10. QED
  BY <1>1, <1>9

-----------------------------------------------------------------------------
(* Circular queues: indices of a ring of N places.                        *)

LEMMA Wrap ==
  ASSUME NEW N \in Nat \ {0}, NEW x \in 0 .. N - 1
  PROVE  x % N = x /\ (x + N) % N = x /\ (x - N) % N = x
<1>1. ASSUME NEW y \in Int, NEW k \in {-1, 0, 1}, y = x + k * N
      PROVE  y % N = x
  <2>1. y \div N \in Int /\ y % N \in 0 .. N - 1 /\ y = N * (y \div N) + (y % N)
    OBVIOUS
  <2>2. PICK q, r : q = y \div N /\ r = y % N
    OBVIOUS
  <2>3. q \in Int /\ r \in 0 .. N - 1 /\ y = N * q + r
    BY <2>1, <2>2
  <2>4. PICK e \in Int : e = q - k
    BY <2>3
  <2>5. q = e + k /\ N * q = N * e + N * k /\ k * N = N * k /\ N * e \in Int /\ N * k \in Int
    BY <2>3, <2>4, Z3
  <2>6. x - r = N * e
    BY <1>1, <2>3, <2>5
  <2>7. e >= 1 => N * e >= N
    BY <2>4, Z3
  <2>8. e <= -1 => N * e <= -N
    BY <2>4, Z3
  <2>9. e = 0
    BY <2>3, <2>4, <2>6, <2>7, <2>8
  <2>10. N * e = 0
    BY <2>9
  <2>11. QED
    BY <2>2, <2>3, <2>6, <2>10
<1>2. x % N = x
  BY <1>1
<1>3. (x + N) % N = x
  BY <1>1
<1>4. (x - N) % N = x
  BY <1>1
<1>5. QED
  BY <1>2, <1>3, <1>4

\* The place n after i, and how far i is behind h.
LEMMA RingAfter ==
  ASSUME NEW N \in Nat \ {0}, NEW i \in 0 .. N - 1
  PROVE  /\ \A n \in 0 .. N : (i + n) % N = IF i + n < N THEN i + n ELSE i + n - N
         /\ \A h \in 0 .. N - 1 : (i + (-h)) % N = IF i >= h THEN i - h ELSE i - h + N
<1>1. ASSUME NEW n \in 0 .. N
      PROVE  (i + n) % N = IF i + n < N THEN i + n ELSE i + n - N
  <2>1. CASE i + n < N
    <3>1. i + n \in 0 .. N - 1
      BY <2>1
    <3>2. QED
      BY <2>1, <3>1, Wrap
  <2>2. CASE i + n >= N
    <3>1. PICK x \in 0 .. N - 1 : x = i + n - N
      BY <2>2
    <3>2. (x + N) % N = x /\ x + N = i + n
      BY <3>1, Wrap
    <3>3. QED
      BY <2>2, <3>1, <3>2
  <2>3. QED
    BY <2>1, <2>2
<1>2. ASSUME NEW h \in 0 .. N - 1
      PROVE  (i + (-h)) % N = IF i >= h THEN i - h ELSE i - h + N
  <2>1. CASE i >= h
    <3>1. i - h \in 0 .. N - 1 /\ i + (-h) = i - h
      BY <2>1
    <3>2. QED
      BY <2>1, <3>1, Wrap
  <2>2. CASE i < h
    <3>1. PICK x \in 0 .. N - 1 : x = i - h + N
      BY <2>2
    <3>2. (x - N) % N = x /\ x - N = i + (-h)
      BY <3>1, Wrap
    <3>3. QED
      BY <2>2, <3>1, <3>2
  <2>3. QED
    BY <2>1, <2>2
<1>3. QED
  BY <1>1, <1>2

\* The place n after i, of N.
RingPlace(N, i, n) == IF i + n < N THEN i + n ELSE i + n - N

\* Places of a ring: they are different, every index is one of them, and the
\* place m after the place n after i is the place n + m after i.
LEMMA RingPlaces ==
  ASSUME NEW N \in Nat \ {0}, NEW i \in 0 .. N - 1
  PROVE  /\ \A n \in 0 .. N : RingPlace(N, i, n) \in 0 .. N - 1
         /\ \A m, n \in 0 .. N - 1 : RingPlace(N, i, m) = RingPlace(N, i, n) => m = n
         /\ \A x \in 0 .. N - 1 : \E n \in 0 .. N - 1 : x = RingPlace(N, i, n)
         /\ \A n \in 0 .. N : \A m \in 0 .. N - n : RingPlace(N, RingPlace(N, i, n), m) = RingPlace(N, i, n + m)
<1>1. \A n \in 0 .. N : RingPlace(N, i, n) \in 0 .. N - 1
  BY DEF RingPlace
<1>2. \A m, n \in 0 .. N - 1 : RingPlace(N, i, m) = RingPlace(N, i, n) => m = n
  BY DEF RingPlace
<1>3. ASSUME NEW x \in 0 .. N - 1
      PROVE  \E n \in 0 .. N - 1 : x = RingPlace(N, i, n)
  <2>1. CASE x >= i
    <3>1. x - i \in 0 .. N - 1 /\ x = RingPlace(N, i, x - i)
      BY <2>1 DEF RingPlace
    <3>2. QED
      BY <3>1
  <2>2. CASE x < i
    <3>1. x - i + N \in 0 .. N - 1 /\ x = RingPlace(N, i, x - i + N)
      BY <2>2 DEF RingPlace
    <3>2. QED
      BY <3>1
  <2>3. QED
    BY <2>1, <2>2
<1>4. \A n \in 0 .. N : \A m \in 0 .. N - n : RingPlace(N, RingPlace(N, i, n), m) = RingPlace(N, i, n + m)
  BY DEF RingPlace
<1>5. QED
  BY <1>1, <1>2, <1>3, <1>4

\* The same with the remainder, as the code counts.
RingTurn(N, i, n) == (i + n) % N

LEMMA RingTurns ==
  ASSUME NEW N \in Nat \ {0}, NEW i \in 0 .. N - 1
  PROVE  /\ RingTurn(N, i, 0) = i
         /\ \A n \in 0 .. N : RingTurn(N, i, n) \in 0 .. N - 1
         /\ \A m, n \in 0 .. N - 1 : RingTurn(N, i, m) = RingTurn(N, i, n) => m = n
         /\ \A x \in 0 .. N - 1 : \E n \in 0 .. N - 1 : x = RingTurn(N, i, n)
         /\ \A n, m \in Nat : n + m <= N => RingTurn(N, RingTurn(N, i, n), m) = RingTurn(N, i, n + m)
         /\ \A n \in 0 .. N - 1 : RingTurn(N, RingTurn(N, i, n), -i) = n
<1>1. \A x \in 0 .. N - 1 : \A n \in 0 .. N : RingTurn(N, x, n) = RingPlace(N, x, n)
  BY RingAfter DEF RingPlace, RingTurn
<1>2. \A x \in 0 .. N - 1 : RingTurn(N, x, -i) = IF x >= i THEN x - i ELSE x - i + N
  BY RingAfter DEF RingTurn
<1>3. RingTurn(N, i, 0) = i
  <2>1. RingTurn(N, i, 0) = RingPlace(N, i, 0)
    BY <1>1
  <2>2. QED
    BY <2>1 DEF RingPlace
<1>4. \A n \in 0 .. N : RingPlace(N, i, n) \in 0 .. N - 1
  BY RingPlaces
<1>5. \A m, n \in 0 .. N - 1 : RingPlace(N, i, m) = RingPlace(N, i, n) => m = n
  BY RingPlaces
<1>6. \A x \in 0 .. N - 1 : \E n \in 0 .. N - 1 : x = RingPlace(N, i, n)
  BY RingPlaces
<1>7. ASSUME NEW n \in Nat, NEW m \in Nat, n + m <= N
      PROVE  RingTurn(N, RingTurn(N, i, n), m) = RingTurn(N, i, n + m)
  <2>1. m \in 0 .. N - n /\ m \in 0 .. N /\ n \in 0 .. N /\ n + m \in 0 .. N
    BY <1>7
  <2>2. PICK x \in 0 .. N - 1 : x = RingTurn(N, i, n) /\ x = RingPlace(N, i, n)
    BY <1>1, <1>4, <2>1
  <2>3. RingTurn(N, x, m) = RingPlace(N, x, m) /\ RingTurn(N, i, n + m) = RingPlace(N, i, n + m)
    BY <1>1, <2>1
  <2>4. RingPlace(N, x, m) = RingPlace(N, i, n + m)
    BY <2>1, <2>2, RingPlaces
  <2>5. QED
    BY <2>2, <2>3, <2>4
<1>8. ASSUME NEW n \in 0 .. N - 1
      PROVE  RingTurn(N, RingTurn(N, i, n), -i) = n
  <2>1. PICK x \in 0 .. N - 1 : x = RingTurn(N, i, n) /\ x = RingPlace(N, i, n)
    BY <1>1, <1>4
  <2>2. QED
    BY <1>2, <2>1 DEF RingPlace
<1>9. \A n \in 0 .. N : RingTurn(N, i, n) \in 0 .. N - 1
  BY <1>1, <1>4
<1>10. \A m, n \in 0 .. N - 1 : RingTurn(N, i, m) = RingTurn(N, i, n) => m = n
  BY <1>1, <1>5
<1>11. \A x \in 0 .. N - 1 : \E n \in 0 .. N - 1 : x = RingTurn(N, i, n)
  BY <1>1, <1>6
<1>12. QED
  BY <1>3, <1>7, <1>8, <1>9, <1>10, <1>11

\* A circular queue of N places holds q, from place h on.
RingHolds(N, f, h, q) ==
    /\ DOMAIN f = 0 .. N - 1
    /\ Len(q) <= N
    /\ \A i \in 1 .. Len(q) : f[RingTurn(N, h, i - 1)] = q[i]

\* One place on, and one place less to go.
LEMMA RingNext ==
  ASSUME NEW N \in Nat \ {0}, NEW h \in 0 .. N - 1, NEW n \in Nat, n < N
  PROVE  RingTurn(N, RingTurn(N, h, n), 1) = RingTurn(N, h, n + 1)
<1>1. \A i, j \in Nat : i + j <= N => RingTurn(N, RingTurn(N, h, i), j) = RingTurn(N, h, i + j)
  BY RingTurns
<1>2. n + 1 <= N /\ 1 \in Nat
  OBVIOUS
<1>3. QED
  BY <1>1, <1>2

LEMMA RingFirst ==
  ASSUME NEW N \in Nat \ {0}, NEW h \in 0 .. N - 1, NEW n \in Nat \ {0}, n <= N
  PROVE  RingTurn(N, RingTurn(N, h, 1), n - 1) = RingTurn(N, h, n)
<1>1. \A i, j \in Nat : i + j <= N => RingTurn(N, RingTurn(N, h, i), j) = RingTurn(N, h, i + j)
  BY RingTurns
<1>2. PICK m : m = n - 1
  OBVIOUS
<1>3. m \in Nat /\ 1 \in Nat /\ 1 + m <= N /\ 1 + m = n
  BY <1>2
<1>4. RingTurn(N, RingTurn(N, h, 1), m) = RingTurn(N, h, 1 + m)
  BY <1>1, <1>3
<1>5. QED
  BY <1>2, <1>3, <1>4

\* What is at the place i after the head.
LEMMA RingAt ==
  ASSUME NEW N, NEW f, NEW h, NEW q, RingHolds(N, f, h, q), Len(q) \in Nat,
         NEW i \in 0 .. Len(q) - 1
  PROVE  f[RingTurn(N, h, i)] = q[i + 1]
<1>1. i + 1 \in 1 .. Len(q) /\ (i + 1) - 1 = i
  OBVIOUS
<1>2. f[RingTurn(N, h, (i + 1) - 1)] = q[i + 1]
  BY <1>1 DEF RingHolds
<1>3. QED
  BY <1>1, <1>2

\* One more at the end.
LEMMA RingPut ==
  ASSUME NEW N \in Nat \ {0}, NEW B, NEW f, NEW h \in 0 .. N - 1, NEW q \in Seq(B), NEW b \in B,
         RingHolds(N, f, h, q), Len(q) < N
  PROVE  RingHolds(N, [f EXCEPT ![RingTurn(N, h, Len(q))] = b], h, Append(q, b))
<1>1. PICK n, t : n = Len(q) /\ t = RingTurn(N, h, Len(q))
  OBVIOUS
<1>2. n \in Nat /\ n < N /\ n \in 0 .. N - 1 /\ n + 1 <= N
  BY <1>1, LenProperties
<1>3. t \in 0 .. N - 1
  <2>1. n \in 0 .. N
    BY <1>2
  <2>2. QED
    BY <1>1, <2>1, RingTurns
<1>4. /\ Append(q, b) \in Seq(B)
      /\ Len(Append(q, b)) = n + 1
      /\ \A i \in 1 .. n : Append(q, b)[i] = q[i]
      /\ Append(q, b)[n + 1] = b
  BY <1>1, AppendProperties
<1>5. DOMAIN [f EXCEPT ![t] = b] = 0 .. N - 1
  BY DEF RingHolds
<1>6. ASSUME NEW i \in 1 .. n + 1
      PROVE  [f EXCEPT ![t] = b][RingTurn(N, h, i - 1)] = Append(q, b)[i]
  <2>1. i - 1 \in 0 .. N /\ i - 1 \in 0 .. N - 1
    BY <1>2
  <2>2. RingTurn(N, h, i - 1) \in 0 .. N - 1
    BY <2>1, RingTurns
  <2>3. CASE i = n + 1
    <3>1. RingTurn(N, h, i - 1) = t
      BY <1>1, <1>2, <2>3
    <3>2. t \in DOMAIN f
      BY <1>3 DEF RingHolds
    <3>3. QED
      BY <1>4, <2>3, <3>1, <3>2
  <2>4. CASE i # n + 1
    <3>1. i \in 1 .. n
      BY <1>2, <2>4
    <3>2. RingTurn(N, h, i - 1) # t
      <4>1. RingTurn(N, h, i - 1) = RingTurn(N, h, n) => i - 1 = n
        BY <1>2, <2>1, RingTurns
      <4>2. QED
        BY <1>1, <1>2, <2>4, <4>1
    <3>3. f[RingTurn(N, h, i - 1)] = q[i]
      BY <1>1, <3>1 DEF RingHolds
    <3>4. RingTurn(N, h, i - 1) \in DOMAIN f
      BY <2>2 DEF RingHolds
    <3>5. QED
      BY <1>4, <3>1, <3>2, <3>3, <3>4
  <2>5. QED
    BY <2>3, <2>4
<1>7. RingHolds(N, [f EXCEPT ![t] = b], h, Append(q, b))
  BY <1>2, <1>4, <1>5, <1>6 DEF RingHolds
<1>8. QED
  BY <1>1, <1>7

\* The first is at the head.
LEMMA RingHead ==
  ASSUME NEW N \in Nat \ {0}, NEW B, NEW f, NEW h \in 0 .. N - 1, NEW q \in Seq(B),
         RingHolds(N, f, h, q), q # <<>>
  PROVE  f[h] = Head(q)
<1>1. Len(q) \in Nat /\ Len(q) >= 1
  BY LenProperties, EmptySeq
<1>2. 0 \in 0 .. Len(q) - 1 /\ 0 + 1 = 1
  BY <1>1
<1>3. f[RingTurn(N, h, 0)] = q[0 + 1]
  BY <1>1, <1>2, RingAt
<1>4. RingTurn(N, h, 0) = h
  BY RingTurns
<1>5. Head(q) = q[1]
  BY HeadTailProperties
<1>6. QED
  BY <1>2, <1>3, <1>4, <1>5

\* The first is taken.
LEMMA RingTake ==
  ASSUME NEW N \in Nat \ {0}, NEW B, NEW f, NEW h \in 0 .. N - 1, NEW q \in Seq(B),
         RingHolds(N, f, h, q), q # <<>>,
         NEW g, DOMAIN g = DOMAIN f, \A i \in 0 .. N - 1 : i # h => g[i] = f[i]
  PROVE  RingHolds(N, g, RingTurn(N, h, 1), Tail(q))
<1>1. PICK n, t : n = Len(q) /\ t = RingTurn(N, h, 1)
  OBVIOUS
<1>2. n \in Nat /\ n >= 1 /\ n <= N /\ n - 1 \in 0 .. N
  BY <1>1, LenProperties, EmptySeq DEF RingHolds
<1>3. t \in 0 .. N - 1
  <2>1. 1 \in 0 .. N
    OBVIOUS
  <2>2. QED
    BY <1>1, <2>1, RingTurns
<1>4. Head(q) = q[1] /\ Tail(q) \in Seq(B)
  BY HeadTailProperties
<1>5. Len(Tail(q)) = n - 1
  BY <1>1, HeadTailProperties
<1>6. \A i \in 1 .. n - 1 : Tail(q)[i] = q[i + 1]
  BY <1>1, <1>5, HeadTailProperties
<1>7. \A m \in Nat : m + 1 <= N => RingTurn(N, t, m) = RingTurn(N, h, m + 1)
  <2>1. TAKE m \in Nat
  <2>2. HAVE m + 1 <= N
  <2>3. 1 \in Nat /\ m \in Nat /\ 1 + m <= N
    BY <2>2
  <2>4. RingTurn(N, RingTurn(N, h, 1), m) = RingTurn(N, h, 1 + m)
    BY <2>3, RingTurns
  <2>5. 1 + m = m + 1
    OBVIOUS
  <2>6. QED
    BY <1>1, <2>4, <2>5
<1>8. DOMAIN g = 0 .. N - 1
  BY DEF RingHolds
<1>9. ASSUME NEW i \in 1 .. n - 1
       PROVE  g[RingTurn(N, t, i - 1)] = Tail(q)[i]
  <2>1. i - 1 \in Nat /\ (i - 1) + 1 = i /\ i <= N /\ i \in 0 .. N - 1 /\ i \in 0 .. N /\ i # 0
    BY <1>2
  <2>2. RingTurn(N, t, i - 1) = RingTurn(N, h, i)
    BY <1>7, <2>1
  <2>3. RingTurn(N, h, i) \in 0 .. N - 1
    BY <2>1, RingTurns
  <2>4. RingTurn(N, h, i) # h
    <3>1. 0 \in 0 .. N - 1 /\ RingTurn(N, h, 0) = h
      BY RingTurns
    <3>2. RingTurn(N, h, i) = RingTurn(N, h, 0) => i = 0
      BY <2>1, <3>1, RingTurns
    <3>3. QED
      BY <2>1, <3>1, <3>2
  <2>5. f[RingTurn(N, h, i)] = q[i + 1]
    <3>1. i + 1 \in 1 .. n /\ (i + 1) - 1 = i
      BY <1>2
    <3>2. f[RingTurn(N, h, (i + 1) - 1)] = q[i + 1]
      BY <1>1, <3>1 DEF RingHolds
    <3>3. QED
      BY <3>1, <3>2
  <2>6. g[RingTurn(N, h, i)] = f[RingTurn(N, h, i)]
    BY <2>3, <2>4
  <2>7. QED
    BY <1>6, <2>2, <2>5, <2>6
<1>10. RingHolds(N, g, t, Tail(q))
  <2>1. n - 1 <= N
    BY <1>2
  <2>2. QED
    BY <1>5, <1>8, <1>9, <2>1 DEF RingHolds
<1>11. QED
  BY <1>1, <1>10

-----------------------------------------------------------------------------
(* Semaphores.                                                             *)

\* A semaphore that is used, with those of P that wait.
SemOf(P) == [used : {TRUE}, count : Int, queue : Seq(P)]

\* Nobody waits where nobody blocked.
LEMMA NobodyWaits ==
  ASSUME NEW P, NEW s \in SemOf(P), SemOK(s), s.count >= 0, NEW p
  PROVE  ~Waits(s, p)
<1>1. s.queue \in Seq(P) /\ Len(s.queue) = 0
  BY DEF SemOf, SemOK
<1>2. DOMAIN s.queue = {}
  BY <1>1, LenProperties
<1>3. QED
  BY <1>2 DEF Waits

\* wait: the process goes to the end of the queue if it blocks.
LEMMA SemWaited ==
  ASSUME NEW P, NEW s \in SemOf(P), SemOK(s), NEW p \in P, ~Waits(s, p)
  PROVE  /\ Waited(s, p) \in SemOf(P)
         /\ SemOK(Waited(s, p))
         /\ Waited(s, p).count = s.count - 1
         /\ \A q : Waits(Waited(s, p), q) <=> (Waits(s, q) \/ (Blocks(s) /\ q = p))
<1> DEFINE w == Waited(s, p)
           n == Len(s.queue)
<1>1. /\ s.queue \in Seq(P) /\ n \in Nat /\ DOMAIN s.queue = 1 .. n
      /\ s.count \in Int /\ s.used = TRUE
      /\ \A i, j \in 1 .. n : i # j => s.queue[i] # s.queue[j]
  <2>1. s.queue \in Seq(P) /\ s.count \in Int /\ s.used = TRUE
    BY DEF SemOf
  <2>2. n \in Nat /\ DOMAIN s.queue = 1 .. n
    BY <2>1, LenProperties
  <2>3. \A i, j \in 1 .. n : i # j => s.queue[i] # s.queue[j]
    BY <2>2 DEF SemOK
  <2>4. QED
    BY <2>1, <2>2, <2>3
<1>2. w = [used |-> TRUE, count |-> s.count - 1,
           queue |-> IF Blocks(s) THEN Append(s.queue, p) ELSE s.queue]
  BY <1>1 DEF Waited
<1>3. CASE ~Blocks(s)
  <2>1. w = [used |-> TRUE, count |-> s.count - 1, queue |-> s.queue] /\ s.count >= 1
    BY <1>1, <1>2, <1>3 DEF Blocks
  <2>2. n = 0
    BY <2>1, <1>1 DEF SemOK
  <2> HIDE DEF w
  <2>3. /\ w.queue = s.queue /\ w.count = s.count - 1
    BY <2>1
  <2>4. w \in SemOf(P)
    BY <1>1, <2>1 DEF SemOf
  <2>5. SemOK(w)
    BY <1>1, <2>1, <2>2, <2>3 DEF SemOK
  <2>6. \A q : Waits(w, q) <=> Waits(s, q)
    BY <2>3 DEF Waits
  <2>7. QED
    BY <1>3, <2>3, <2>4, <2>5, <2>6 DEF w
<1>4. CASE Blocks(s)
  <2> DEFINE r == Append(s.queue, p)
  <2>1. w = [used |-> TRUE, count |-> s.count - 1, queue |-> r] /\ s.count <= 0
    BY <1>1, <1>2, <1>4 DEF Blocks
  <2>2. /\ r \in Seq(P) /\ Len(r) = n + 1 /\ DOMAIN r = 1 .. n + 1
        /\ \A i \in 1 .. n : r[i] = s.queue[i]
        /\ r[n + 1] = p
    BY <1>1, AppendProperties, LenProperties
  <2> HIDE DEF w, r
  <2>3. w.queue = r /\ w.count = s.count - 1
    BY <2>1
  <2>4. w \in SemOf(P)
    BY <1>1, <2>1, <2>2 DEF SemOf
  <2>5. \A i \in 1 .. n : s.queue[i] # p
    BY <1>1 DEF Waits
  <2>6. \A i, j \in DOMAIN r : i # j => r[i] # r[j]
    <3> SUFFICES ASSUME NEW i \in 1 .. n + 1, NEW j \in 1 .. n + 1, i # j
                 PROVE  r[i] # r[j]
      BY <2>2
    <3>1. (i = n + 1 \/ i \in 1 .. n) /\ (j = n + 1 \/ j \in 1 .. n)
      BY <1>1
    <3>2. QED
      BY <1>1, <2>2, <2>5, <3>1
  <2>7. Len(r) = IF w.count < 0 THEN -w.count ELSE 0
    BY <1>1, <2>1, <2>2, <2>3 DEF SemOK
  <2>8. SemOK(w)
    BY <2>3, <2>6, <2>7 DEF SemOK
  <2>9. ASSUME NEW q
        PROVE  Waits(w, q) <=> (Waits(s, q) \/ q = p)
    <3>1. Waits(w, q) <=> \E i \in 1 .. n + 1 : r[i] = q
      BY <2>2, <2>3 DEF Waits
    <3>2. Waits(s, q) <=> \E i \in 1 .. n : s.queue[i] = q
      BY <1>1 DEF Waits
    <3>3. n + 1 \in 1 .. n + 1 /\ \A i \in 1 .. n + 1 : i = n + 1 \/ i \in 1 .. n
      BY <1>1
    <3>4. \A i \in 1 .. n : i \in 1 .. n + 1
      BY <1>1
    <3>5. QED
      BY <3>1, <3>2, <3>3, <3>4, <2>2
  <2>10. QED
    BY <1>4, <2>3, <2>4, <2>8, <2>9 DEF w
<1>5. QED
  BY <1>3, <1>4

\* signal: the first of those who wait is released, if one does.
LEMMA SemSignalled ==
  ASSUME NEW P, NEW s \in SemOf(P), SemOK(s)
  PROVE  /\ Signalled(s) \in SemOf(P)
         /\ SemOK(Signalled(s))
         /\ Signalled(s).count = s.count + 1
         /\ s.count >= 0 => \A q : ~Waits(s, q) /\ ~Waits(Signalled(s), q)
         /\ s.count < 0 => \E h \in P :
              Waits(s, h) /\ \A q : Waits(Signalled(s), q) <=> (Waits(s, q) /\ q # h)
<1> DEFINE w == Signalled(s)
           n == Len(s.queue)
<1>1. /\ s.queue \in Seq(P) /\ n \in Nat /\ DOMAIN s.queue = 1 .. n
      /\ s.count \in Int /\ s.used = TRUE
      /\ \A i, j \in 1 .. n : i # j => s.queue[i] # s.queue[j]
  <2>1. s.queue \in Seq(P) /\ s.count \in Int /\ s.used = TRUE
    BY DEF SemOf
  <2>2. n \in Nat /\ DOMAIN s.queue = 1 .. n
    BY <2>1, LenProperties
  <2>3. \A i, j \in 1 .. n : i # j => s.queue[i] # s.queue[j]
    BY <2>2 DEF SemOK
  <2>4. QED
    BY <2>1, <2>2, <2>3
<1>2. w = [used |-> TRUE, count |-> s.count + 1,
           queue |-> IF Releases(s) THEN Tail(s.queue) ELSE s.queue]
  BY <1>1 DEF Signalled
<1>3. CASE s.count >= 0
  <2>1. w = [used |-> TRUE, count |-> s.count + 1, queue |-> s.queue]
    <3>1. ~Releases(s)
      BY <1>1, <1>3 DEF Releases
    <3>2. QED
      BY <1>2, <3>1
  <2>2. n = 0 /\ \A q : ~Waits(s, q)
    BY <1>1, <1>3, NobodyWaits DEF SemOK
  <2> HIDE DEF w
  <2>3. /\ w.queue = s.queue /\ w.count = s.count + 1
    BY <2>1
  <2>4. w \in SemOf(P)
    BY <1>1, <2>1 DEF SemOf
  <2>5. SemOK(w)
    BY <1>1, <1>3, <2>1, <2>2, <2>3 DEF SemOK
  <2>6. \A q : ~Waits(w, q)
    BY <2>2, <2>3 DEF Waits
  <2>7. QED
    BY <1>1, <1>3, <2>2, <2>3, <2>4, <2>5, <2>6 DEF w
<1>4. CASE s.count < 0
  <2> DEFINE r == Tail(s.queue)
             h == s.queue[1]
  <2>1. w = [used |-> TRUE, count |-> s.count + 1, queue |-> r] /\ n = -s.count
    BY <1>1, <1>2, <1>4 DEF Releases, SemOK
  <2>2. s.queue # <<>> /\ n >= 1
    BY <1>1, <1>4, <2>1
  <2>3. /\ r \in Seq(P) /\ Len(r) = n - 1 /\ DOMAIN r = 1 .. n - 1
        /\ \A i \in 1 .. n - 1 : r[i] = s.queue[i + 1]
        /\ h \in P
    BY <1>1, <2>2, HeadTailProperties, LenProperties, ElementOfSeq
  <2> HIDE DEF w, r
  <2>4. w.queue = r /\ w.count = s.count + 1
    BY <2>1
  <2>5. w \in SemOf(P)
    BY <1>1, <2>1, <2>3 DEF SemOf
  <2>6. \A i, j \in DOMAIN r : i # j => r[i] # r[j]
    <3> SUFFICES ASSUME NEW i \in 1 .. n - 1, NEW j \in 1 .. n - 1, i # j
                 PROVE  r[i] # r[j]
      BY <2>3
    <3>1. i + 1 \in 1 .. n /\ j + 1 \in 1 .. n /\ i + 1 # j + 1
      BY <1>1
    <3>2. QED
      BY <1>1, <2>3, <3>1
  <2>7. Len(r) = IF w.count < 0 THEN -w.count ELSE 0
    BY <1>1, <1>4, <2>1, <2>3, <2>4
  <2>8. SemOK(w)
    BY <2>4, <2>6, <2>7 DEF SemOK
  <2>9. Waits(s, h)
    BY <1>1, <2>2 DEF Waits
  <2>10. ASSUME NEW q
         PROVE  Waits(w, q) <=> (Waits(s, q) /\ q # h)
    <3>1. Waits(w, q) <=> \E i \in 1 .. n - 1 : s.queue[i + 1] = q
      BY <2>3, <2>4 DEF Waits
    <3>2. Waits(s, q) <=> \E i \in 1 .. n : s.queue[i] = q
      BY <1>1 DEF Waits
    <3>3. \A i \in 1 .. n - 1 : i + 1 \in 1 .. n /\ s.queue[i + 1] # h
      <4> SUFFICES ASSUME NEW i \in 1 .. n - 1
                   PROVE  i + 1 \in 1 .. n /\ s.queue[i + 1] # h
        OBVIOUS
      <4>1. i + 1 \in 1 .. n /\ 1 \in 1 .. n /\ i + 1 # 1
        BY <1>1, <2>2
      <4>2. QED
        BY <1>1, <4>1
    <3>4. \A i \in 1 .. n : i = 1 \/ (i - 1 \in 1 .. n - 1 /\ (i - 1) + 1 = i)
      BY <1>1
    <3>5. QED
      BY <3>1, <3>2, <3>3, <3>4
  <2>11. QED
    BY <1>1, <1>4, <2>3, <2>4, <2>5, <2>8, <2>9, <2>10 DEF w
<1>5. QED
  BY <1>1, <1>3, <1>4

\* Those who wait cancel a count below 0.
LEMMA SemSum ==
  ASSUME NEW P, NEW s \in SemOf(P), SemOK(s)
  PROVE  /\ s.count \in Int /\ Len(s.queue) \in Nat
         /\ s.count + Len(s.queue) = IF s.count < 0 THEN 0 ELSE s.count
<1>1. s.count \in Int /\ s.queue \in Seq(P)
  BY DEF SemOf
<1>2. Len(s.queue) \in Nat
  BY <1>1, LenProperties
<1>3. Len(s.queue) = IF s.count < 0 THEN -s.count ELSE 0
  BY DEF SemOK
<1>4. QED
  BY <1>1, <1>2, <1>3

-----------------------------------------------------------------------------
(* Semaphores: signaln.                                                    *)

\* signaln: the first n of those who wait are released, or all if they are fewer.
ReleasedBy(s, n) == {s.queue[i] : i \in {k \in DOMAIN s.queue : k <= n}}

\* What a count admits.
Admits(s) == IF s.count < 0 THEN 0 ELSE s.count

LEMMA SemQueue ==
  ASSUME NEW P, NEW s \in SemOf(P), SemOK(s)
  PROVE  /\ s.queue \in Seq(P) /\ Len(s.queue) \in Nat /\ DOMAIN s.queue = 1 .. Len(s.queue)
         /\ \A i, j \in 1 .. Len(s.queue) : i # j => s.queue[i] # s.queue[j]
         /\ s.count \in Int /\ s.used = TRUE
         /\ Len(s.queue) = IF s.count < 0 THEN -s.count ELSE 0
<1>1. s.queue \in Seq(P) /\ s.count \in Int /\ s.used = TRUE
  BY DEF SemOf
<1>2. Len(s.queue) \in Nat /\ DOMAIN s.queue = 1 .. Len(s.queue)
  BY <1>1, LenProperties
<1>3. \A i, j \in 1 .. Len(s.queue) : i # j => s.queue[i] # s.queue[j]
  BY <1>2 DEF SemOK
<1>4. Len(s.queue) = IF s.count < 0 THEN -s.count ELSE 0
  BY DEF SemOK
<1>5. QED
  BY <1>1, <1>2, <1>3, <1>4

\* The first m entries of a queue are m processes.
LEMMA FirstOfQueue ==
  ASSUME NEW P, NEW s \in SemOf(P), SemOK(s), NEW m \in 0 .. Len(s.queue)
  PROVE  IsFiniteSet({s.queue[i] : i \in 1 .. m}) /\ Cardinality({s.queue[i] : i \in 1 .. m}) = m
<1> DEFINE T == {s.queue[i] : i \in 1 .. m}
           f == [i \in 1 .. m |-> s.queue[i]]
<1>1. /\ m \in Nat /\ 1 .. m \subseteq 1 .. Len(s.queue)
      /\ \A i, j \in 1 .. Len(s.queue) : i # j => s.queue[i] # s.queue[j]
  <2>1. Len(s.queue) \in Nat
    BY SemQueue
  <2>2. m \in Nat /\ 1 .. m \subseteq 1 .. Len(s.queue)
    BY <2>1
  <2>3. \A i, j \in 1 .. Len(s.queue) : i # j => s.queue[i] # s.queue[j]
    BY SemQueue
  <2>4. QED
    BY <2>2, <2>3
<1>2. f \in Bijection(1 .. m, T)
  <2>1. f \in [1 .. m -> T]
    OBVIOUS
  <2>2. \A i, j \in 1 .. m : f[i] = f[j] => i = j
    BY <1>1
  <2>3. \A t \in T : \E i \in 1 .. m : f[i] = t
    OBVIOUS
  <2> HIDE DEF f, T
  <2>4. f \in Injection(1 .. m, T)
    BY <2>1, <2>2 DEF Injection, IsInjective
  <2>5. f \in Surjection(1 .. m, T)
    BY <2>1, <2>3 DEF Surjection
  <2>6. QED
    BY <2>4, <2>5 DEF Bijection
<1>3. ExistsBijection(1 .. m, T)
  BY <1>2 DEF ExistsBijection
<1> HIDE DEF f, T
<1>4. IsFiniteSet(1 .. m) /\ Cardinality(1 .. m) = m
  BY <1>1, FS_Interval
<1>5. IsFiniteSet(T) /\ Cardinality(T) = m
  BY <1>3, <1>4, FS_Bijection
<1>6. QED
  BY <1>5 DEF T

LEMMA SemSignalledN ==
  ASSUME NEW P, NEW s \in SemOf(P), SemOK(s), NEW n \in Nat
  PROVE  /\ SignalledN(s, n) \in SemOf(P)
         /\ SemOK(SignalledN(s, n))
         /\ SignalledN(s, n).count = s.count + n
         /\ \A q : Waits(SignalledN(s, n), q) <=> (Waits(s, q) /\ q \notin ReleasedBy(s, n))
         /\ \A q \in ReleasedBy(s, n) : q \in P /\ Waits(s, q)
         /\ IsFiniteSet(ReleasedBy(s, n))
         /\ Admits(SignalledN(s, n)) + Cardinality(ReleasedBy(s, n)) = Admits(s) + n
<1> DEFINE L == Len(s.queue)
           m == IF n < L THEN n ELSE L
           r == SubSeq(s.queue, 1 + m, L)
           w == SignalledN(s, n)
<1>1. /\ s.queue \in Seq(P) /\ L \in Nat /\ DOMAIN s.queue = 1 .. L
      /\ \A i, j \in 1 .. L : i # j => s.queue[i] # s.queue[j]
      /\ s.count \in Int /\ s.used = TRUE
      /\ L = IF s.count < 0 THEN -s.count ELSE 0
  BY SemQueue
<1>2. m \in 0 .. L /\ m \in Nat
  BY <1>1
<1>3. w = [used |-> TRUE, count |-> s.count + n, queue |-> r]
  <2>1. s = [used |-> TRUE, count |-> s.count, queue |-> s.queue]
    BY <1>1 DEF SemOf
  <2>2. PICK c, q : c = s.count /\ q = s.queue
    OBVIOUS
  <2>3. s = [used |-> TRUE, count |-> c, queue |-> q]
    BY <2>1, <2>2
  <2>4. w = [[s EXCEPT !.count = c + n] EXCEPT !.queue = r]
    BY <2>2 DEF SignalledN
  <2>5. q \in Seq(P) /\ c \in Int
    BY <1>1, <2>2
  <2>6. w = [used |-> TRUE, count |-> c + n, queue |-> r]
    BY <2>3, <2>4
  <2>7. QED
    BY <2>2, <2>6
<1>4. /\ r \in Seq(P) /\ Len(r) = L - m /\ DOMAIN r = 1 .. L - m
      /\ \A i \in 1 .. L - m : r[i] = s.queue[i + m]
  <2>1. \A i \in 1 + m .. L : s.queue[i] \in P
    BY <1>1, <1>2, ElementOfSeq
  <2>2. 1 + m \in 1 .. L + 1 /\ L \in 1 + m - 1 .. L
    BY <1>1, <1>2
  <2>3. /\ r \in Seq(P) /\ Len(r) = L - (1 + m) + 1
        /\ \A i \in 1 .. L - (1 + m) + 1 : r[i] = s.queue[1 + m + i - 1]
    <3>1. PICK k \in Int, l \in Int, q \in {s.queue} : k = 1 + m /\ l = L
      <4>1. 1 + m \in Int /\ L \in Int
        BY <1>1, <1>2
      <4>2. QED
        BY <4>1
    <3>2. \A i \in k .. l : q[i] \in P
      BY <2>1, <3>1
    <3>3. SubSeq(q, k, l) \in Seq(P)
      BY <3>2, SubSeqProperties
    <3>4. Len(SubSeq(q, k, l)) = IF k <= l THEN l - k + 1 ELSE 0
      BY <3>2, SubSeqProperties
    <3>5. \A i \in 1 .. l - k + 1 : SubSeq(q, k, l)[i] = q[k + i - 1]
      BY <3>2, SubSeqProperties
    <3>6. r = SubSeq(q, k, l)
      BY <3>1
    <3>7. k <= l + 1
      BY <2>2, <3>1
    <3>8. Len(r) = l - k + 1
      <4>1. PICK z : z = Len(SubSeq(q, k, l))
        OBVIOUS
      <4>2. z = IF k <= l THEN l - k + 1 ELSE 0
        BY <3>4, <4>1
      <4>3. z = l - k + 1
        BY <3>7, <4>2
      <4>4. QED
        BY <3>6, <4>1, <4>3
    <3>9. QED
      BY <3>1, <3>3, <3>5, <3>6, <3>8
  <2>4. L - (1 + m) + 1 = L - m /\ \A i \in 1 .. L - m : 1 + m + i - 1 = i + m
    BY <1>1, <1>2
  <2>5. DOMAIN r = 1 .. Len(r)
    BY <2>3, LenProperties
  <2>6. QED
    BY <2>3, <2>4, <2>5
<1> HIDE DEF w, r, m, L
<1>5. w.used = TRUE /\ w.count = s.count + n /\ w.queue = r
  BY <1>3
<1>6. w \in SemOf(P)
  BY <1>1, <1>3, <1>4 DEF SemOf
<1>7. Len(r) = IF w.count < 0 THEN -w.count ELSE 0
  BY <1>1, <1>4, <1>5 DEF m
<1>8. \A i, j \in DOMAIN r : i # j => r[i] # r[j]
  <2> SUFFICES ASSUME NEW i \in 1 .. L - m, NEW j \in 1 .. L - m, i # j
               PROVE  r[i] # r[j]
    BY <1>4
  <2>1. i + m \in 1 .. L /\ j + m \in 1 .. L /\ i + m # j + m
    BY <1>1, <1>2
  <2>2. QED
    BY <2>1, <1>1, <1>4
<1>9. SemOK(w)
  BY <1>5, <1>7, <1>8 DEF SemOK
<1>10. ReleasedBy(s, n) = {s.queue[i] : i \in 1 .. m}
  <2>1. {k \in DOMAIN s.queue : k <= n} = 1 .. m
    BY <1>1, <1>2 DEF m
  <2>2. QED
    BY <2>1 DEF ReleasedBy
<1>11. IsFiniteSet(ReleasedBy(s, n)) /\ Cardinality(ReleasedBy(s, n)) = m
  BY <1>2, <1>10, FirstOfQueue DEF L
<1>12. \A q : Waits(w, q) <=> \E i \in 1 .. L - m : s.queue[i + m] = q
  BY <1>4, <1>5 DEF Waits
<1>13. \A q : Waits(s, q) <=> \E i \in 1 .. L : s.queue[i] = q
  BY <1>1 DEF Waits
<1>14. ASSUME NEW q
       PROVE  Waits(w, q) <=> (Waits(s, q) /\ q \notin ReleasedBy(s, n))
  <2>1. ASSUME NEW i \in 1 .. L - m, s.queue[i + m] = q
        PROVE  Waits(s, q) /\ q \notin ReleasedBy(s, n)
    <3>1. i + m \in 1 .. L /\ \A k \in 1 .. m : k \in 1 .. L /\ k # i + m
      BY <1>1, <1>2
    <3>2. QED
      BY <3>1, <2>1, <1>1, <1>10, <1>13
  <2>2. ASSUME NEW i \in 1 .. L, s.queue[i] = q, q \notin ReleasedBy(s, n)
        PROVE  \E k \in 1 .. L - m : s.queue[k + m] = q
    <3>1. i \notin 1 .. m
      BY <2>2, <1>10
    <3>2. i - m \in 1 .. L - m /\ (i - m) + m = i
      BY <3>1, <1>1, <1>2
    <3>3. QED
      BY <3>2, <2>2
  <2>3. QED
    BY <2>1, <2>2, <1>12, <1>13
<1>15. ASSUME NEW q \in ReleasedBy(s, n)
       PROVE  q \in P /\ Waits(s, q)
  <2>1. PICK i \in 1 .. m : q = s.queue[i]
    BY <1>10
  <2>2. i \in 1 .. L
    BY <1>1, <1>2
  <2>3. QED
    BY <2>1, <2>2, <1>1, <1>13, ElementOfSeq DEF L
<1>16. Admits(w) + m = Admits(s) + n
  BY <1>1, <1>5 DEF Admits, m
<1>17. QED
  BY <1>5, <1>6, <1>9, <1>11, <1>14, <1>15, <1>16 DEF w

\* wait: what the count admits.
LEMMA AdmitsWaited ==
  ASSUME NEW P, NEW s \in SemOf(P), SemOK(s), NEW p \in P, ~Waits(s, p)
  PROVE  /\ Admits(s) \in Nat
         /\ Blocks(s) => Admits(Waited(s, p)) = Admits(s)
         /\ ~Blocks(s) => Admits(s) # 0 /\ Admits(Waited(s, p)) = Admits(s) - 1
<1>1. s.count \in Int
  BY DEF SemOf
<1>2. Waited(s, p).count = s.count - 1
  BY SemWaited
<1>3. QED
  BY <1>1, <1>2 DEF Admits, Blocks

-----------------------------------------------------------------------------
(* What a semaphore promises to those who have called wait.                *)

\* Those of C that do not wait at s (any more) have been admitted.
Admitted(C, s) == {p \in C : ~Waits(s, p)}

\* The semaphore s is sound, and only callers wait at it.
SoundFor(P, C, s) ==
    /\ s \in SemOf(P) /\ SemOK(s)
    /\ \A p : Waits(s, p) => p \in C
    /\ IsFiniteSet(Admitted(C, s))

\* What the count admits, and those who have been admitted and not gone on yet.
Promises(C, s) == Admits(s) + Cardinality(Admitted(C, s))

LEMMA PromisesSum ==
  ASSUME NEW P, NEW C, NEW s, SoundFor(P, C, s)
  PROVE  /\ s.count \in Int /\ Len(s.queue) \in Nat /\ Admits(s) \in Nat
         /\ Cardinality(Admitted(C, s)) \in Nat
         /\ Promises(C, s) \in Nat
         /\ s.count + Len(s.queue) + Cardinality(Admitted(C, s)) = Promises(C, s)
<1>1. s \in SemOf(P) /\ SemOK(s) /\ IsFiniteSet(Admitted(C, s))
  BY DEF SoundFor
<1>2. /\ s.count \in Int /\ Len(s.queue) \in Nat
      /\ s.count + Len(s.queue) = IF s.count < 0 THEN 0 ELSE s.count
  BY <1>1, SemSum
<1>3. Cardinality(Admitted(C, s)) \in Nat
  BY <1>1, FS_CardinalityType
<1>4. QED
  BY <1>2, <1>3 DEF Promises, Admits

\* A semaphore that was just made, or reset.
LEMMA PromisesFresh ==
  ASSUME NEW P, NEW n \in Nat
  PROVE  /\ SoundFor(P, {}, SemCreated(n)) /\ Promises({}, SemCreated(n)) = n
         /\ SemCreated(n) \in SemOf(P) /\ SemOK(SemCreated(n))
         /\ \A p : ~Waits(SemCreated(n), p)
<1>1. PICK s : s = SemCreated(n)
  OBVIOUS
<1>2. s = [used |-> TRUE, count |-> n, queue |-> <<>>]
  BY <1>1 DEF SemCreated
<1>3. s.used = TRUE /\ s.count = n /\ s.queue = <<>>
  BY <1>2
<1>4. <<>> \in Seq(P) /\ Len(<<>>) = 0 /\ DOMAIN <<>> = {}
  OBVIOUS
<1>5. s \in SemOf(P)
  BY <1>2, <1>4 DEF SemOf
<1>6. SemOK(s)
  <2>1. Len(s.queue) = IF s.count < 0 THEN -s.count ELSE 0
    BY <1>3, <1>4
  <2>2. DOMAIN s.queue = {}
    BY <1>3, <1>4
  <2>3. QED
    BY <2>1, <2>2 DEF SemOK
<1>7. \A p : ~Waits(s, p)
  BY <1>3, <1>4 DEF Waits
<1>8. Admitted({}, s) = {} /\ IsFiniteSet({}) /\ Cardinality({}) = 0
  BY FS_EmptySet DEF Admitted
<1>9. Admits(s) = n
  BY <1>3 DEF Admits
<1>10. SoundFor(P, {}, s)
  BY <1>5, <1>6, <1>7, <1>8 DEF SoundFor
<1>11. Promises({}, s) = n
  BY <1>8, <1>9 DEF Promises
<1>12. QED
  BY <1>1, <1>5, <1>6, <1>7, <1>10, <1>11

\* wait blocks: one more calls, and waits.
LEMMA PromisesBlocked ==
  ASSUME NEW P, NEW C, NEW s, SoundFor(P, C, s), NEW p \in P, p \notin C, Blocks(s)
  PROVE  /\ SoundFor(P, C \cup {p}, Waited(s, p))
         /\ Promises(C \cup {p}, Waited(s, p)) = Promises(C, s)
<1>1. PICK w : w = Waited(s, p)
  OBVIOUS
<1>2. s \in SemOf(P) /\ SemOK(s) /\ ~Waits(s, p) /\ \A q : Waits(s, q) => q \in C
  BY DEF SoundFor
<1>3. /\ w \in SemOf(P) /\ SemOK(w) /\ w.count = s.count - 1
      /\ \A q : Waits(w, q) <=> (Waits(s, q) \/ (Blocks(s) /\ q = p))
  BY <1>1, <1>2, SemWaited
<1>4. s.count \in Int /\ s.count <= 0
  BY <1>2 DEF SemOf, Blocks
<1>5. Admitted(C \cup {p}, w) = Admitted(C, s)
  BY <1>2, <1>3 DEF Admitted
<1>6. Admits(w) = Admits(s)
  BY <1>3, <1>4 DEF Admits
<1>7. SoundFor(P, C \cup {p}, w)
  BY <1>2, <1>3, <1>5 DEF SoundFor
<1>8. Promises(C \cup {p}, w) = Promises(C, s)
  BY <1>5, <1>6 DEF Promises
<1>9. QED
  BY <1>1, <1>7, <1>8

\* wait does not block.
LEMMA PromisesPassed ==
  ASSUME NEW P, NEW C, NEW s, SoundFor(P, C, s), NEW p \in P, p \notin C, ~Blocks(s)
  PROVE  /\ SoundFor(P, C, Waited(s, p))
         /\ Promises(C, Waited(s, p)) = Promises(C, s) - 1
         /\ Promises(C, s) >= 1
<1>1. PICK w : w = Waited(s, p)
  OBVIOUS
<1>2. s \in SemOf(P) /\ SemOK(s) /\ ~Waits(s, p) /\ \A q : Waits(s, q) => q \in C
  BY DEF SoundFor
<1>3. /\ w \in SemOf(P) /\ SemOK(w) /\ w.count = s.count - 1
      /\ \A q : Waits(w, q) <=> (Waits(s, q) \/ (Blocks(s) /\ q = p))
  BY <1>1, <1>2, SemWaited
<1>4. s.count \in Int /\ s.count >= 1
  BY <1>2 DEF SemOf, Blocks
<1>5. Admitted(C, w) = Admitted(C, s)
  BY <1>3 DEF Admitted
<1>6. Admits(w) = Admits(s) - 1 /\ Admits(s) >= 1 /\ Admits(s) \in Nat
  BY <1>3, <1>4 DEF Admits
<1>7. SoundFor(P, C, w)
  BY <1>2, <1>3, <1>5 DEF SoundFor
<1>8. Cardinality(Admitted(C, s)) \in Nat
  BY FS_CardinalityType DEF SoundFor
<1>9. Promises(C, w) = Promises(C, s) - 1 /\ Promises(C, s) >= 1
  BY <1>5, <1>6, <1>8 DEF Promises
<1>10. QED
  BY <1>1, <1>7, <1>9

\* One who was admitted goes on.
LEMMA PromisesKept ==
  ASSUME NEW P, NEW C, NEW s, SoundFor(P, C, s), NEW p \in C, ~Waits(s, p)
  PROVE  /\ SoundFor(P, C \ {p}, s)
         /\ Promises(C \ {p}, s) = Promises(C, s) - 1
         /\ Promises(C, s) >= 1
<1>1. Admitted(C \ {p}, s) = Admitted(C, s) \ {p} /\ p \in Admitted(C, s)
  BY DEF Admitted
<1>2. IsFiniteSet(Admitted(C, s)) /\ s \in SemOf(P) /\ SemOK(s)
      /\ \A q : Waits(s, q) => q \in C
  BY DEF SoundFor
<1>3. PICK A : A = Admitted(C, s)
  OBVIOUS
<1>4. /\ IsFiniteSet(A \ {p}) /\ Cardinality(A \ {p}) = Cardinality(A) - 1
      /\ Cardinality(A) \in Nat
  BY <1>1, <1>2, <1>3, FS_RemoveElement, FS_CardinalityType
<1>5. Cardinality(A) # 0
  BY <1>1, <1>2, <1>3, FS_EmptySet
<1>6. Admits(s) \in Nat
  BY <1>2 DEF Admits, SemOf
<1>7. SoundFor(P, C \ {p}, s)
  BY <1>1, <1>2, <1>3, <1>4 DEF SoundFor
<1>8. Promises(C \ {p}, s) = Promises(C, s) - 1 /\ Promises(C, s) >= 1
  <2>1. Promises(C, s) = Admits(s) + Cardinality(A)
    BY <1>3 DEF Promises
  <2>2. Promises(C \ {p}, s) = Admits(s) + Cardinality(A \ {p})
    BY <1>1, <1>3 DEF Promises
  <2>3. QED
    BY <2>1, <2>2, <1>4, <1>5, <1>6
<1>9. QED
  BY <1>7, <1>8

\* signal promises one more.
LEMMA PromisesSignalled ==
  ASSUME NEW P, NEW C, NEW s, SoundFor(P, C, s)
  PROVE  /\ SoundFor(P, C, Signalled(s))
         /\ Promises(C, Signalled(s)) = Promises(C, s) + 1
<1>1. PICK w : w = Signalled(s)
  OBVIOUS
<1>2. /\ s \in SemOf(P) /\ SemOK(s) /\ \A q : Waits(s, q) => q \in C
      /\ IsFiniteSet(Admitted(C, s))
  BY DEF SoundFor
<1>3. /\ w \in SemOf(P) /\ SemOK(w) /\ w.count = s.count + 1
      /\ s.count >= 0 => \A q : ~Waits(s, q) /\ ~Waits(w, q)
      /\ s.count < 0 => \E h \in P :
           Waits(s, h) /\ \A q : Waits(w, q) <=> (Waits(s, q) /\ q # h)
  BY <1>1, <1>2, SemSignalled
<1>4. s.count \in Int /\ Cardinality(Admitted(C, s)) \in Nat
  BY <1>2, FS_CardinalityType DEF SemOf
<1>5. CASE s.count >= 0
  <2>1. Admitted(C, w) = Admitted(C, s)
    BY <1>3, <1>5 DEF Admitted
  <2>2. Admits(w) = Admits(s) + 1 /\ Admits(s) \in Nat
    BY <1>3, <1>4, <1>5 DEF Admits
  <2>3. SoundFor(P, C, w)
    BY <1>2, <1>3, <1>5, <2>1 DEF SoundFor
  <2>4. Promises(C, w) = Promises(C, s) + 1
    BY <1>4, <2>1, <2>2 DEF Promises
  <2>5. QED
    BY <1>1, <2>3, <2>4
<1>6. CASE s.count < 0
  <2>1. PICK h \in P : Waits(s, h) /\ \A q : Waits(w, q) <=> (Waits(s, q) /\ q # h)
    BY <1>3, <1>6
  <2>2. h \notin Admitted(C, s) /\ Admitted(C, w) = Admitted(C, s) \cup {h}
    BY <1>2, <2>1 DEF Admitted
  <2>3. /\ IsFiniteSet(Admitted(C, w))
        /\ Cardinality(Admitted(C, w)) = Cardinality(Admitted(C, s)) + 1
    BY <1>2, <2>2, FS_AddElement
  <2>4. Admits(w) = 0 /\ Admits(s) = 0
    BY <1>3, <1>4, <1>6 DEF Admits
  <2>5. SoundFor(P, C, w)
    BY <1>2, <1>3, <2>1, <2>3 DEF SoundFor
  <2>6. Promises(C, w) = Promises(C, s) + 1
    BY <1>4, <2>3, <2>4 DEF Promises
  <2>7. QED
    BY <1>1, <2>5, <2>6
<1>7. QED
  BY <1>4, <1>5, <1>6

\* signaln promises n more.
LEMMA PromisesSignalledN ==
  ASSUME NEW P, NEW C, NEW s, SoundFor(P, C, s), NEW n \in Nat
  PROVE  /\ SoundFor(P, C, SignalledN(s, n))
         /\ Promises(C, SignalledN(s, n)) = Promises(C, s) + n
<1>1. PICK w, R : w = SignalledN(s, n) /\ R = ReleasedBy(s, n)
  OBVIOUS
<1>2. /\ s \in SemOf(P) /\ SemOK(s) /\ \A q : Waits(s, q) => q \in C
      /\ IsFiniteSet(Admitted(C, s))
  BY DEF SoundFor
<1>3. /\ w \in SemOf(P) /\ SemOK(w) /\ w.count = s.count + n
      /\ \A q : Waits(w, q) <=> (Waits(s, q) /\ q \notin R)
      /\ \A q \in R : Waits(s, q)
      /\ IsFiniteSet(R) /\ Admits(w) + Cardinality(R) = Admits(s) + n
  BY <1>1, <1>2, SemSignalledN
<1>4. PICK A : A = Admitted(C, s)
  OBVIOUS
<1>5. Admitted(C, w) = A \cup R /\ A \cap R = {}
  BY <1>2, <1>3, <1>4 DEF Admitted
<1>6. /\ IsFiniteSet(A \cup R) /\ Cardinality(A \cup R) = Cardinality(A) + Cardinality(R)
      /\ Cardinality(A) \in Nat /\ Cardinality(R) \in Nat
  <2>1. IsFiniteSet(A) /\ IsFiniteSet(R)
    BY <1>2, <1>3, <1>4
  <2>2. /\ IsFiniteSet(A \cup R)
        /\ Cardinality(A \cup R) = Cardinality(A) + Cardinality(R) - Cardinality(A \cap R)
    BY <2>1, FS_Union
  <2>3. Cardinality(A \cap R) = 0
    BY <1>5, FS_EmptySet
  <2>4. Cardinality(A) \in Nat /\ Cardinality(R) \in Nat
    BY <2>1, FS_CardinalityType
  <2>5. QED
    BY <2>2, <2>3, <2>4
<1>7. SoundFor(P, C, w)
  BY <1>2, <1>3, <1>5, <1>6 DEF SoundFor
<1>8. Admits(w) \in Int /\ Admits(s) \in Int
  BY <1>2, <1>3 DEF Admits, SemOf
<1>9. Promises(C, w) = Promises(C, s) + n
  <2>1. Promises(C, w) = Admits(w) + Cardinality(A \cup R)
    BY <1>5 DEF Promises
  <2>2. Promises(C, s) = Admits(s) + Cardinality(A)
    BY <1>4 DEF Promises
  <2>3. QED
    BY <2>1, <2>2, <1>3, <1>6, <1>8
<1>10. QED
  BY <1>1, <1>7, <1>9

\* wait: whether it blocks or not, the caller has now been promised nothing more
\* or waits.
LEMMA PromisesWaited ==
  ASSUME NEW P, NEW C, NEW s, SoundFor(P, C, s), NEW p \in P, p \notin C
  PROVE  /\ SoundFor(P, C \cup {p}, Waited(s, p))
         /\ Promises(C \cup {p}, Waited(s, p)) = Promises(C, s)
<1>1. CASE Blocks(s)
  BY <1>1, PromisesBlocked
<1>2. CASE ~Blocks(s)
  <2>1. PICK w : w = Waited(s, p)
    OBVIOUS
  <2>2. s \in SemOf(P) /\ SemOK(s) /\ ~Waits(s, p) /\ \A q : Waits(s, q) => q \in C
    BY DEF SoundFor
  <2>3. \A q : Waits(w, q) <=> Waits(s, q)
    BY <1>2, <2>1, <2>2, SemWaited
  <2>4. /\ SoundFor(P, C, w)
        /\ Promises(C, w) = Promises(C, s) - 1
    BY <1>2, <2>1, PromisesPassed
  <2>5. p \notin Admitted(C, w) /\ Admitted(C \cup {p}, w) = Admitted(C, w) \cup {p}
    BY <2>2, <2>3 DEF Admitted
  <2>6. w \in SemOf(P) /\ SemOK(w) /\ (\A q : Waits(w, q) => q \in C) /\ IsFiniteSet(Admitted(C, w))
    BY <2>4 DEF SoundFor
  <2>7. PICK A : A = Admitted(C, w)
    OBVIOUS
  <2>8. /\ IsFiniteSet(A \cup {p}) /\ Cardinality(A \cup {p}) = Cardinality(A) + 1
        /\ Cardinality(A) \in Nat
    BY <2>5, <2>6, <2>7, FS_AddElement, FS_CardinalityType
  <2>9. SoundFor(P, C \cup {p}, w)
    BY <2>5, <2>6, <2>7, <2>8 DEF SoundFor
  <2>10. Promises(C \cup {p}, w) = Promises(C, w) + 1
    <3>1. Promises(C \cup {p}, w) = Admits(w) + Cardinality(A \cup {p})
      BY <2>5, <2>7 DEF Promises
    <3>2. Promises(C, w) = Admits(w) + Cardinality(A)
      BY <2>7 DEF Promises
    <3>3. Admits(w) \in Int
      BY <2>6 DEF Admits, SemOf
    <3>4. QED
      BY <3>1, <3>2, <3>3, <2>8
  <2>11. Promises(C, s) \in Nat
    BY PromisesSum
  <2>12. QED
    BY <2>1, <2>4, <2>9, <2>10, <2>11
<1>3. QED
  BY <1>1, <1>2

=============================================================================
