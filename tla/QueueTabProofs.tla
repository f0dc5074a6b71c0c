---------------------------- MODULE QueueTabProofs ----------------------------
(***************************************************************************)
(* That queuetab implements the queues of module Queues, for any number of *)
(* processes and semaphores.  What the functions do to the links is first  *)
(* stated about two arrays of links, nx and pv, and a sequence s that they *)
(* hold; then about the table.                                             *)
(***************************************************************************)
EXTENDS QueueTab, QueueOpsProofs, FiniteSetTheorems

\* The nodes of a queue in order, from its head (0) to its tail.
Place(q, s, i) ==
    IF i = 0 THEN queuehead(q) ELSE IF i = Len(s) + 1 THEN queuetail(q) ELSE s[i]

\* The links nx and pv hold the processes s on queue q, in both directions.
ListAt(nx, pv, q, s) ==
    /\ QueueOf(Proc, s)
    /\ \A i \in 0 .. Len(s) :
          nx[Place(q, s, i)] = Place(q, s, i + 1) /\ pv[Place(q, s, i + 1)] = Place(q, s, i)

Links == [Node -> Node \cup {EMPTY}]

\* The nodes of a queue.
Nodes(q, s) == {queuehead(q), queuetail(q)} \cup Range(s)

-----------------------------------------------------------------------------
(* The nodes of the table.                                                 *)

\* Heads and tails are nodes behind the processes, two to each queue.
LEMMA HeadsApart ==
  ASSUME NEW q \in Heads
  PROVE  /\ q \in Int /\ q >= NPROC /\ q + 1 < NQENT
         /\ q \in Node /\ q + 1 \in Node /\ q \notin Proc /\ q + 1 \notin Proc
         /\ \A r \in Heads : q + 1 # r /\ (q < r => q + 2 <= r)
<1>1. NPROC \in Nat \ {0} /\ NSEM \in Nat
  BY QueueTabAssumption
<1>2. PICK i \in 0 .. NSEM + 1 : q = NPROC + 2 * i
  BY DEF Heads
<1>3. q \in Int /\ q >= NPROC /\ q + 1 < NQENT
  BY <1>1, <1>2 DEF NQENT
<1>4. q \in Node /\ q + 1 \in Node /\ q \notin Proc /\ q + 1 \notin Proc
  BY <1>1, <1>3 DEF Node, Proc, NQENT
<1>5. ASSUME NEW r \in Heads
      PROVE  q + 1 # r /\ (q < r => q + 2 <= r)
  <2>1. PICK j \in 0 .. NSEM + 1 : r = NPROC + 2 * j
    BY DEF Heads
  <2>2. QED
    BY <1>1, <1>2, <2>1
<1>6. QED
  BY <1>3, <1>4, <1>5

\* Processes are nodes; the end of a list is not.
LEMMA NodeFacts ==
  /\ NPROC \in Nat \ {0} /\ NSEM \in Nat /\ NQENT \in Nat
  /\ Proc \subseteq Node /\ EMPTY \notin Node
  /\ \A n \in Node : n < NPROC <=> n \in Proc
<1>1. NPROC \in Nat \ {0} /\ NSEM \in Nat
  BY QueueTabAssumption
<1>2. QED
  BY <1>1 DEF Proc, Node, NQENT, EMPTY

\* A queue has at most NPROC entries, since each is another process.
LEMMA ShortQueue ==
  ASSUME NEW s, QueueOf(Proc, s)
  PROVE  Len(s) \in 0 .. NPROC
<1>1. s \in Seq(Proc) /\ Len(s) \in Nat /\ s \in [1 .. Len(s) -> Proc]
  BY LenProperties DEF QueueOf
<1>2. \A j, k \in 1 .. Len(s) : s[j] = s[k] => j = k
  BY <1>1, MembersAt DEF QueueOf
<1>3. /\ IsFiniteSet(Proc) /\ Cardinality(Proc) = NPROC
      /\ IsFiniteSet(1 .. Len(s)) /\ Cardinality(1 .. Len(s)) = Len(s)
  <2>1. 0 \in Int /\ NPROC - 1 \in Int /\ NPROC \in Nat \ {0} /\ 1 \in Int /\ Len(s) \in Int
    BY NodeFacts, <1>1
  <2>2. /\ IsFiniteSet(0 .. NPROC - 1)
        /\ Cardinality(0 .. NPROC - 1) = IF 0 > NPROC - 1 THEN 0 ELSE NPROC - 1 - 0 + 1
    BY <2>1, FS_Interval
  <2>3. /\ IsFiniteSet(1 .. Len(s))
        /\ Cardinality(1 .. Len(s)) = IF 1 > Len(s) THEN 0 ELSE Len(s) - 1 + 1
    BY <2>1, FS_Interval
  <2>4. QED
    BY <2>1, <2>2, <2>3, <1>1 DEF Proc
<1>4. ~(NPROC < Len(s))
  BY <1>1, <1>2, <1>3, FS_PigeonHole
<1>5. QED
  BY <1>1, <1>4, NodeFacts

\* The nodes of a queue are nodes, each at one place.
LEMMA PlaceFacts ==
  ASSUME NEW q \in Heads, NEW s, QueueOf(Proc, s)
  PROVE  /\ s \in Seq(Proc) /\ Len(s) \in Nat
         /\ \A i \in 1 .. Len(s) :
               s[i] \in Proc /\ s[i] \in Range(s) /\ Place(q, s, i) = s[i]
         /\ Place(q, s, 0) = q /\ Place(q, s, Len(s) + 1) = q + 1
         /\ \A i \in 0 .. Len(s) + 1 :
               Place(q, s, i) \in Nodes(q, s) /\ Place(q, s, i) \in Node
         /\ \A i, j \in 0 .. Len(s) + 1 : Place(q, s, i) = Place(q, s, j) => i = j
<1>1. /\ s \in Seq(Proc) /\ Len(s) \in Nat
      /\ Range(s) = {s[j] : j \in 1 .. Len(s)} /\ Range(s) \subseteq Proc
      /\ \A j, k \in 1 .. Len(s) : s[j] = s[k] => j = k
  BY MembersAt DEF QueueOf
<1>2. q \in Int /\ q \in Node /\ q + 1 \in Node /\ q \notin Proc /\ q + 1 \notin Proc
  BY HeadsApart
<1>3. \A i \in 1 .. Len(s) : s[i] \in Proc /\ s[i] \in Range(s) /\ Place(q, s, i) = s[i]
  BY <1>1 DEF Place
<1>4. Place(q, s, 0) = q /\ Place(q, s, Len(s) + 1) = q + 1
  BY <1>1 DEF Place, queuehead, queuetail
<1>5. \A i \in 0 .. Len(s) + 1 : i = 0 \/ i \in 1 .. Len(s) \/ i = Len(s) + 1
  BY <1>1
<1>6. \A i \in 0 .. Len(s) + 1 :
         Place(q, s, i) \in Nodes(q, s) /\ Place(q, s, i) \in Node
  BY <1>2, <1>3, <1>4, <1>5, NodeFacts DEF Nodes, queuehead, queuetail
<1>7. ASSUME NEW i \in 0 .. Len(s) + 1, NEW j \in 0 .. Len(s) + 1,
             Place(q, s, i) = Place(q, s, j)
      PROVE  i = j
  <2>1. q # q + 1
    BY <1>2
  <2>2. CASE i \in 1 .. Len(s)
    BY <2>2, <1>1, <1>2, <1>3, <1>4, <1>5, <1>7
  <2>3. CASE i = 0
    BY <2>1, <2>3, <1>1, <1>2, <1>3, <1>4, <1>5, <1>7
  <2>4. CASE i = Len(s) + 1
    BY <2>1, <2>4, <1>1, <1>2, <1>3, <1>4, <1>5, <1>7
  <2>5. QED
    BY <2>2, <2>3, <2>4, <1>5
<1>8. QED
  BY <1>1, <1>3, <1>4, <1>6, <1>7

\* Two queues that share no process share no node.
LEMMA NodesApart ==
  ASSUME NEW q \in Heads, NEW r \in Heads, q # r, NEW s, NEW t,
         QueueOf(Proc, s), QueueOf(Proc, t), Range(s) \cap Range(t) = {}
  PROVE  Nodes(q, s) \cap Nodes(r, t) = {}
<1>1. Range(s) \subseteq Proc /\ Range(t) \subseteq Proc
  BY MembersAt DEF QueueOf
<1>2. /\ q \in Int /\ q \notin Proc /\ q + 1 \notin Proc /\ q + 1 # r
      /\ r \in Int /\ r \notin Proc /\ r + 1 \notin Proc /\ r + 1 # q
  BY HeadsApart
<1>3. q + 1 # r + 1
  BY <1>2
<1>4. QED
  BY <1>1, <1>2, <1>3 DEF Nodes, queuehead, queuetail

-----------------------------------------------------------------------------
(* What the assignments to links do to a list.                             *)

\* A list whose nodes keep their links stays.
LEMMA ListElsewhere ==
  ASSUME NEW nx, NEW pv, NEW nx2, NEW pv2, NEW r \in Heads, NEW t,
         ListAt(nx, pv, r, t),
         \A n \in Node : n \in Nodes(r, t) => nx2[n] = nx[n] /\ pv2[n] = pv[n]
  PROVE  ListAt(nx2, pv2, r, t)
<1>1. QueueOf(Proc, t)
  BY DEF ListAt
<1>2. /\ Len(t) \in Nat
      /\ \A i \in 0 .. Len(t) + 1 : Place(r, t, i) \in Nodes(r, t) /\ Place(r, t, i) \in Node
  BY <1>1, PlaceFacts
<1>3. ASSUME NEW i \in 0 .. Len(t)
      PROVE  /\ nx2[Place(r, t, i)] = Place(r, t, i + 1)
             /\ pv2[Place(r, t, i + 1)] = Place(r, t, i)
  <2>1. i \in 0 .. Len(t) + 1 /\ i + 1 \in 0 .. Len(t) + 1
    BY <1>2
  <2>2. /\ nx2[Place(r, t, i)] = nx[Place(r, t, i)]
        /\ pv2[Place(r, t, i + 1)] = pv[Place(r, t, i + 1)]
    BY <2>1, <1>2
  <2>3. QED
    BY <2>2 DEF ListAt
<1>4. QED
  BY <1>1, <1>3 DEF ListAt

\* The places of a queue into which p has been put at place i.
LEMMA PlaceInserted ==
  ASSUME NEW q \in Heads, NEW s, QueueOf(Proc, s), NEW p \in Proc,
         NEW i \in 1 .. Len(s) + 1, NEW j \in 0 .. Len(s) + 2
  PROVE  Place(q, InsertAt(s, i, p), j) =
            IF j < i THEN Place(q, s, j) ELSE IF j = i THEN p ELSE Place(q, s, j - 1)
<1> DEFINE r == InsertAt(s, i, p)
<1>1. s \in Seq(Proc) /\ Len(s) \in Nat
  BY PlaceFacts
<1>2. /\ Len(r) = Len(s) + 1
      /\ \A k \in 1 .. Len(s) + 1 :
            r[k] = IF k < i THEN s[k] ELSE IF k = i THEN p ELSE s[k - 1]
  <2>1. Len(r) = Len(s) + 1
    BY <1>1, InsertAtEntries
  <2>2. \A k \in 1 .. Len(s) + 1 :
           InsertAt(s, i, p)[k] = IF k < i THEN s[k] ELSE IF k = i THEN p ELSE s[k - 1]
    BY <1>1, InsertAtEntries
  <2>3. QED
    BY <2>1, <2>2
<1> HIDE DEF r
<1>3. CASE j = 0
  BY <1>1, <1>3, i >= 1 DEF Place, r
<1>4. CASE j = Len(s) + 2
  <2>1. Place(q, r, j) = queuetail(q)
    BY <1>1, <1>2, <1>4 DEF Place
  <2>2. ~(j < i) /\ j # i /\ j - 1 # 0 /\ j - 1 = Len(s) + 1
    BY <1>1, <1>4
  <2>3. QED
    BY <2>1, <2>2 DEF Place, r
<1>5. CASE j \in 1 .. Len(s) + 1
  <2>1. Place(q, r, j) = r[j]
    BY <1>1, <1>2, <1>5 DEF Place
  <2>2. CASE j < i
    BY <1>1, <1>2, <1>5, <2>1, <2>2 DEF Place, r
  <2>3. CASE j = i
    BY <1>1, <1>2, <1>5, <2>1, <2>3 DEF r
  <2>4. CASE j > i
    <3>1. r[j] = s[j - 1] /\ j - 1 # 0 /\ j - 1 # Len(s) + 1 /\ ~(j < i) /\ j # i
      BY <1>1, <1>2, <1>5, <2>4
    <3>2. QED
      BY <2>1, <3>1 DEF Place, r
  <2>5. QED
    BY <2>2, <2>3, <2>4, <1>1, <1>5
<1>6. QED
  BY <1>1, <1>3, <1>4, <1>5

\* The four assignments of insert, insertd and enqueue: p is between the two.
LEMMA LinkedIn ==
  ASSUME NEW nx \in Links, NEW pv \in Links, NEW q \in Heads, NEW s,
         ListAt(nx, pv, q, s), NEW p \in Proc, p \notin Range(s),
         NEW i \in 1 .. Len(s) + 1
  PROVE  LET prev == Place(q, s, i - 1)
             curr == Place(q, s, i)
         IN  ListAt([nx EXCEPT ![p] = curr, ![prev] = p],
                    [pv EXCEPT ![p] = prev, ![curr] = p], q, InsertAt(s, i, p))
<1> DEFINE r == InsertAt(s, i, p)
           prev == Place(q, s, i - 1)
           curr == Place(q, s, i)
           nx2 == [nx EXCEPT ![p] = curr, ![prev] = p]
           pv2 == [pv EXCEPT ![p] = prev, ![curr] = p]
<1>1. QueueOf(Proc, s)
  BY DEF ListAt
<1>2. /\ Len(s) \in Nat
      /\ \A j \in 0 .. Len(s) + 1 : Place(q, s, j) \in Node /\ Place(q, s, j) \in Nodes(q, s)
      /\ \A j, k \in 0 .. Len(s) + 1 : Place(q, s, j) = Place(q, s, k) => j = k
  BY <1>1, PlaceFacts
<1>3. p \in Node /\ p \notin Nodes(q, s)
  BY HeadsApart, NodeFacts DEF Nodes, queuehead, queuetail
<1>4. i - 1 \in 0 .. Len(s) + 1 /\ i \in 0 .. Len(s) + 1
  BY <1>2
<1>5. /\ QueueOf(Proc, r) /\ Len(r) = Len(s) + 1
  BY <1>1, InsertAtMembers
<1>6. \A j \in 0 .. Len(s) + 2 :
         Place(q, r, j) = IF j < i THEN Place(q, s, j) ELSE IF j = i THEN p ELSE Place(q, s, j - 1)
  BY <1>1, PlaceInserted
<1>7. /\ prev \in Node /\ curr \in Node /\ prev # p /\ curr # p
  BY <1>2, <1>3, <1>4
<1>8. /\ nx2[p] = curr /\ nx2[prev] = p
      /\ \A n \in Node : n # p /\ n # prev => nx2[n] = nx[n]
  BY <1>3, <1>7 DEF Links
<1>9. /\ pv2[p] = prev /\ pv2[curr] = p
      /\ \A n \in Node : n # p /\ n # curr => pv2[n] = pv[n]
  BY <1>3, <1>7 DEF Links
<1>10. \A j \in 0 .. Len(s) : /\ nx[Place(q, s, j)] = Place(q, s, j + 1)
                              /\ pv[Place(q, s, j + 1)] = Place(q, s, j)
  BY DEF ListAt
<1>20. prev = Place(q, s, i - 1) /\ curr = Place(q, s, i)
  OBVIOUS
<1> HIDE DEF r, prev, curr, nx2, pv2
<1>11. ASSUME NEW j \in 0 .. Len(s) + 1
       PROVE  /\ nx2[Place(q, r, j)] = Place(q, r, j + 1)
              /\ pv2[Place(q, r, j + 1)] = Place(q, r, j)
  <2>1. j \in 0 .. Len(s) + 2 /\ j + 1 \in 0 .. Len(s) + 2 /\ i \in Int /\ j \in Int
    BY <1>2
  <2>2. CASE j < i - 1
    <3>1. j \in 0 .. Len(s) /\ j + 1 \in 0 .. Len(s) + 1 /\ j < i /\ j + 1 < i /\ j # i - 1 /\ j + 1 # i
      BY <1>2, <2>1, <2>2
    <3>2. Place(q, r, j) = Place(q, s, j) /\ Place(q, r, j + 1) = Place(q, s, j + 1)
      BY <1>6, <2>1, <3>1
    <3>3. Place(q, s, j) # prev /\ Place(q, s, j + 1) # curr
      BY <1>2, <1>4, <1>20, <2>1, <3>1
    <3>4. /\ Place(q, s, j) \in Node /\ Place(q, s, j) # p
          /\ Place(q, s, j + 1) \in Node /\ Place(q, s, j + 1) # p
      BY <1>2, <1>3, <2>1, <3>1
    <3>5. QED
      BY <3>1, <3>2, <3>3, <3>4, <1>8, <1>9, <1>10
  <2>3. CASE j = i - 1
    <3>1. j < i /\ j + 1 = i /\ ~(j + 1 < i)
      BY <2>1, <2>3
    <3>2. Place(q, r, j) = prev /\ Place(q, r, j + 1) = p
      BY <1>6, <2>1, <3>1, <2>3, <1>20
    <3>3. QED
      BY <3>2, <1>8, <1>9
  <2>4. CASE j = i
    <3>1. ~(j < i) /\ ~(j + 1 < i) /\ j + 1 # i /\ j + 1 - 1 = i
      BY <2>1, <2>4
    <3>2. Place(q, r, j) = p /\ Place(q, r, j + 1) = curr
      BY <1>6, <2>1, <3>1, <2>4, <1>20
    <3>3. QED
      BY <3>2, <1>8, <1>9
  <2>5. CASE j > i
    <3>1. /\ ~(j < i) /\ j # i /\ ~(j + 1 < i) /\ j + 1 # i /\ j + 1 - 1 = j
          /\ j - 1 \in 0 .. Len(s) /\ j - 1 \in 0 .. Len(s) + 1 /\ j - 1 + 1 = j
          /\ j \in 0 .. Len(s) + 1 /\ j - 1 # i - 1
      BY <1>2, <2>1, <2>5
    <3>2. Place(q, r, j) = Place(q, s, j - 1) /\ Place(q, r, j + 1) = Place(q, s, j)
      BY <1>6, <2>1, <3>1
    <3>3. Place(q, s, j - 1) # prev /\ Place(q, s, j) # curr
      BY <1>2, <1>4, <1>20, <2>1, <3>1
    <3>4. /\ Place(q, s, j - 1) \in Node /\ Place(q, s, j - 1) # p
          /\ Place(q, s, j) \in Node /\ Place(q, s, j) # p
      BY <1>2, <1>3, <3>1
    <3>5. /\ nx[Place(q, s, j - 1)] = Place(q, s, j)
          /\ pv[Place(q, s, j)] = Place(q, s, j - 1)
      BY <1>10, <3>1
    <3>6. QED
      BY <3>2, <3>3, <3>4, <3>5, <1>8, <1>9
  <2>6. QED
    BY <2>1, <2>2, <2>3, <2>4, <2>5
<1>12. ListAt(nx2, pv2, q, r)
  BY <1>5, <1>11 DEF ListAt
<1>13. QED
  BY <1>12 DEF r, prev, curr, nx2, pv2

\* The places of a queue from which the process at place i has been taken.
LEMMA PlaceRemoved ==
  ASSUME NEW q \in Heads, NEW s, QueueOf(Proc, s),
         NEW i \in 1 .. Len(s), NEW j \in 0 .. Len(s)
  PROVE  Place(q, RemoveAt(s, i), j) = IF j < i THEN Place(q, s, j) ELSE Place(q, s, j + 1)
<1> DEFINE r == RemoveAt(s, i)
<1>1. s \in Seq(Proc) /\ Len(s) \in Nat
  BY PlaceFacts
<1>2. /\ Len(r) = Len(s) - 1
      /\ \A k \in 1 .. Len(s) - 1 : r[k] = IF k < i THEN s[k] ELSE s[k + 1]
  BY <1>1, RemoveAtEntries
<1> HIDE DEF r
<1>3. CASE j = 0
  BY <1>1, <1>3, i >= 1 DEF Place, r
<1>4. CASE j = Len(s) /\ j # 0
  <2>1. Place(q, r, j) = queuetail(q)
    BY <1>1, <1>2, <1>4 DEF Place
  <2>2. ~(j < i) /\ j + 1 # 0 /\ j + 1 = Len(s) + 1
    BY <1>1, <1>4
  <2>3. QED
    BY <2>1, <2>2 DEF Place, r
<1>5. CASE j \in 1 .. Len(s) - 1
  <2>1. Place(q, r, j) = r[j]
    BY <1>1, <1>2, <1>5 DEF Place
  <2>2. r[j] = IF j < i THEN s[j] ELSE s[j + 1]
    BY <1>2, <1>5
  <2>3. Place(q, s, j) = s[j] /\ Place(q, s, j + 1) = s[j + 1]
    BY <1>1, <1>5 DEF Place
  <2>4. QED
    BY <2>1, <2>2, <2>3 DEF r
<1>6. QED
  BY <1>1, <1>3, <1>4, <1>5

\* The two assignments of getitem: the neighbours point at each other.  What the
\* links of the process itself become does not matter.
LEMMA LinkedOut ==
  ASSUME NEW nx \in Links, NEW pv \in Links, NEW q \in Heads, NEW s,
         ListAt(nx, pv, q, s), NEW i \in 1 .. Len(s), NEW nx2, NEW pv2,
         nx2[pv[s[i]]] = nx[s[i]], pv2[nx[s[i]]] = pv[s[i]],
         \A n \in Node : n # s[i] /\ n # pv[s[i]] => nx2[n] = nx[n],
         \A n \in Node : n # s[i] /\ n # nx[s[i]] => pv2[n] = pv[n]
  PROVE  /\ ListAt(nx2, pv2, q, RemoveAt(s, i))
         /\ nx[s[i]] = Place(q, s, i + 1) /\ pv[s[i]] = Place(q, s, i - 1)
         /\ nx[s[i]] \in Nodes(q, s) /\ pv[s[i]] \in Nodes(q, s) /\ s[i] \in Nodes(q, s)
         /\ nx[s[i]] \in Node /\ pv[s[i]] \in Node /\ s[i] \in Node
<1> DEFINE r == RemoveAt(s, i)
           prev == Place(q, s, i - 1)
           next == Place(q, s, i + 1)
<1>1. QueueOf(Proc, s)
  BY DEF ListAt
<1>2. /\ Len(s) \in Nat
      /\ \A j \in 0 .. Len(s) + 1 : Place(q, s, j) \in Node /\ Place(q, s, j) \in Nodes(q, s)
      /\ \A j, k \in 0 .. Len(s) + 1 : Place(q, s, j) = Place(q, s, k) => j = k
      /\ Place(q, s, i) = s[i]
  BY <1>1, PlaceFacts
<1>3. \A j \in 0 .. Len(s) : /\ nx[Place(q, s, j)] = Place(q, s, j + 1)
                             /\ pv[Place(q, s, j + 1)] = Place(q, s, j)
  BY DEF ListAt
<1>4. /\ i \in 0 .. Len(s) /\ i - 1 \in 0 .. Len(s) /\ i - 1 + 1 = i
      /\ i \in 0 .. Len(s) + 1 /\ i - 1 \in 0 .. Len(s) + 1 /\ i + 1 \in 0 .. Len(s) + 1
  BY <1>2
<1>5. nx[s[i]] = next /\ pv[s[i]] = prev
  BY <1>2, <1>3, <1>4
<1>6. QueueOf(Proc, r) /\ Len(r) = Len(s) - 1
  BY <1>1, RemoveAtMembers
<1>7. \A j \in 0 .. Len(s) :
         Place(q, r, j) = IF j < i THEN Place(q, s, j) ELSE Place(q, s, j + 1)
  BY <1>1, PlaceRemoved
<1>8. /\ next \in Node /\ prev \in Node /\ s[i] \in Node
      /\ next \in Nodes(q, s) /\ prev \in Nodes(q, s) /\ s[i] \in Nodes(q, s)
  BY <1>2, <1>4
<1>9. /\ nx2[prev] = next /\ pv2[next] = prev
      /\ \A n \in Node : n # s[i] /\ n # prev => nx2[n] = nx[n]
      /\ \A n \in Node : n # s[i] /\ n # next => pv2[n] = pv[n]
  BY <1>5
<1>20. prev = Place(q, s, i - 1) /\ next = Place(q, s, i + 1)
  OBVIOUS
<1> HIDE DEF r, prev, next
<1>10. ASSUME NEW j \in 0 .. Len(s) - 1
       PROVE  /\ nx2[Place(q, r, j)] = Place(q, r, j + 1)
              /\ pv2[Place(q, r, j + 1)] = Place(q, r, j)
  <2>1. j \in Int /\ i \in Int /\ j \in 0 .. Len(s) /\ j + 1 \in 0 .. Len(s)
    BY <1>2
  <2>2. CASE j < i - 1
    <3>1. /\ j < i /\ j + 1 < i /\ j \in 0 .. Len(s) + 1 /\ j + 1 \in 0 .. Len(s) + 1
          /\ j # i - 1 /\ j # i /\ j + 1 # i /\ j + 1 # i + 1
      BY <1>2, <2>1, <2>2
    <3>2. Place(q, r, j) = Place(q, s, j) /\ Place(q, r, j + 1) = Place(q, s, j + 1)
      BY <1>7, <2>1, <3>1
    <3>3. /\ Place(q, s, j) # prev /\ Place(q, s, j) # s[i] /\ Place(q, s, j) \in Node
          /\ Place(q, s, j + 1) # next /\ Place(q, s, j + 1) # s[i]
          /\ Place(q, s, j + 1) \in Node
      BY <1>2, <1>4, <1>20, <3>1
    <3>4. QED
      BY <3>2, <3>3, <1>3, <1>9, <2>1
  <2>3. CASE j = i - 1
    <3>1. j < i /\ ~(j + 1 < i) /\ j + 1 + 1 = i + 1
      BY <2>1, <2>3
    <3>2. Place(q, r, j) = prev /\ Place(q, r, j + 1) = next
      BY <1>7, <1>20, <2>1, <2>3, <3>1
    <3>3. QED
      BY <3>2, <1>9
  <2>4. CASE j >= i
    <3>1. /\ ~(j < i) /\ ~(j + 1 < i) /\ j + 1 \in 0 .. Len(s) + 1 /\ j + 2 \in 0 .. Len(s) + 1
          /\ j + 1 # i - 1 /\ j + 1 # i /\ j + 2 # i /\ j + 2 # i + 1 /\ j + 1 + 1 = j + 2
      BY <1>2, <2>1, <2>4
    <3>2. Place(q, r, j) = Place(q, s, j + 1) /\ Place(q, r, j + 1) = Place(q, s, j + 2)
      BY <1>7, <2>1, <3>1
    <3>3. /\ Place(q, s, j + 1) # prev /\ Place(q, s, j + 1) # s[i] /\ Place(q, s, j + 1) \in Node
          /\ Place(q, s, j + 2) # next /\ Place(q, s, j + 2) # s[i]
          /\ Place(q, s, j + 2) \in Node
      BY <1>2, <1>4, <1>20, <3>1
    <3>4. /\ nx[Place(q, s, j + 1)] = Place(q, s, j + 2)
          /\ pv[Place(q, s, j + 2)] = Place(q, s, j + 1)
      BY <1>3, <2>1, <3>1
    <3>5. QED
      BY <3>2, <3>3, <3>4, <1>9
  <2>5. QED
    BY <2>1, <2>2, <2>3, <2>4
<1>11. ListAt(nx2, pv2, q, r)
  BY <1>2, <1>6, <1>10 DEF ListAt
<1>12. QED
  BY <1>5, <1>8, <1>11, <1>20 DEF r

-----------------------------------------------------------------------------
(* The recursive definitions: following the links from the head.           *)

\* One turn of Follow, on the sequences that are found in one turn less.
Turn(nx, i, before) ==
    [n \in Node \cup {EMPTY} |->
        IF i = 0 \/ n \notin Proc THEN <<>> ELSE <<n>> \o before[nx[n]]]

\* The recursion of Follow defines a function.
LEMMA FollowTurns ==
  ASSUME NEW nx
  PROVE  \A i \in 0 .. NPROC : Follow(nx)[i] = Turn(nx, i, Follow(nx)[i - 1])
<1> DEFINE Defines(f, N) == f = [i \in 0 .. N |-> Turn(nx, i, f[i - 1])]
           T == {N \in Nat : \E f : Defines(f, N)}
<1>1. NPROC \in Nat
  BY NodeFacts
<1>2. 0 \in T
  <2> DEFINE f == [i \in 0 .. 0 |-> Turn(nx, 0, <<>>)]
  <2>1. Turn(nx, 0, f[0 - 1]) = Turn(nx, 0, <<>>)
    BY DEF Turn
  <2>2. Defines(f, 0)
    BY <2>1
  <2>3. QED
    BY <2>2
<1>3. ASSUME NEW N \in 0 .. NPROC - 1, N \in T
      PROVE  N + 1 \in T
  <2>1. PICK f : Defines(f, N)
    BY <1>3
  <2> DEFINE g == [i \in 0 .. N + 1 |-> IF i = N + 1 THEN Turn(nx, N + 1, f[N]) ELSE f[i]]
  <2>2. N + 1 \in Nat /\ N \in Nat /\ N \in 0 .. N
    BY <1>1
  <2>3. ASSUME NEW i \in 0 .. N + 1
        PROVE  g[i] = Turn(nx, i, g[i - 1])
    <3>1. CASE i = N + 1
      <4>1. g[i - 1] = f[N]
        BY <2>2, <3>1
      <4>2. QED
        BY <3>1, <4>1
    <3>2. CASE i \in 1 .. N
      <4>1. g[i] = f[i] /\ g[i - 1] = f[i - 1]
        BY <2>2, <3>2
      <4>2. f[i] = Turn(nx, i, f[i - 1])
        BY <2>1, <2>2, <3>2
      <4>3. QED
        BY <4>1, <4>2
    <3>3. CASE i = 0
      <4>1. g[0] = f[0] /\ f[0] = Turn(nx, 0, f[0 - 1])
        BY <2>1, <2>2
      <4>2. QED
        BY <3>3, <4>1 DEF Turn
    <3>4. QED
      BY <2>2, <3>1, <3>2, <3>3
  <2>4. Defines(g, N + 1)
    <3> DEFINE h == [i \in 0 .. N + 1 |-> Turn(nx, i, g[i - 1])]
    <3>1. \A i \in 0 .. N + 1 : g[i] = h[i]
      BY <2>3
    <3>2. DOMAIN g = 0 .. N + 1 /\ DOMAIN h = 0 .. N + 1
      OBVIOUS
    <3>3. QED
      BY <3>1, <3>2
  <2>5. QED
    BY <2>2, <2>4
<1>4. NPROC \in T
  <2> HIDE DEF T
  <2>1. NPROC \in 0 .. NPROC
    BY <1>1
  <2>2. QED
    BY <1>1, <1>2, <1>3, <2>1, UpTo
<1>5. PICK f : Defines(f, NPROC)
  BY <1>4
<1>6. Follow(nx) = [i \in 0 .. NPROC |-> Turn(nx, i, Follow(nx)[i - 1])]
  BY <1>5 DEF Follow, Turn
<1>7. QED
  BY <1>6

\* A list is what is found from its head.
LEMMA EntriesAre ==
  ASSUME NEW nx \in Links, NEW pv, NEW q \in Heads, NEW s, ListAt(nx, pv, q, s)
  PROVE  Entries(nx, q) = s
<1> DEFINE L == Len(s)
           T == {j \in 0 .. L : \A i \in j .. NPROC :
                    Follow(nx)[i][Place(q, s, L + 1 - j)] = SubSeq(s, L + 1 - j, L)}
<1>1. QueueOf(Proc, s)
  BY DEF ListAt
<1>2. /\ s \in Seq(Proc) /\ L \in Nat
      /\ \A i \in 1 .. L : s[i] \in Proc /\ Place(q, s, i) = s[i]
      /\ Place(q, s, 0) = q /\ Place(q, s, L + 1) = q + 1
      /\ \A i \in 0 .. L + 1 : Place(q, s, i) \in Node
  BY <1>1, PlaceFacts
<1>3. L \in 0 .. NPROC /\ NPROC \in Nat
  BY <1>1, ShortQueue, NodeFacts
<1>4. \A j \in 0 .. L : nx[Place(q, s, j)] = Place(q, s, j + 1)
  BY DEF ListAt
<1>5. q + 1 \in Node /\ q + 1 \notin Proc
  BY HeadsApart
<1>6. \A i \in 0 .. NPROC : \A n \in Node :
         Follow(nx)[i][n] = IF i = 0 \/ n \notin Proc THEN <<>>
                            ELSE <<n>> \o Follow(nx)[i - 1][nx[n]]
  <2> TAKE i \in 0 .. NPROC
  <2>1. Follow(nx)[i] = Turn(nx, i, Follow(nx)[i - 1])
    BY FollowTurns
  <2>2. QED
    BY <2>1 DEF Turn
<1> HIDE DEF L
<1>7. 0 \in T
  <2>1. \A i \in 0 .. NPROC : Follow(nx)[i][q + 1] = <<>>
    BY <1>5, <1>6
  <2>2. SubSeq(s, L + 1, L) = <<>>
    BY <1>3, SubSeqEmpty
  <2>3. L + 1 - 0 = L + 1 /\ 0 \in 0 .. L
    BY <1>3
  <2>4. QED
    BY <2>1, <2>2, <2>3, <1>2
<1>8. ASSUME NEW j \in 0 .. L - 1, j \in T
      PROVE  j + 1 \in T
  <2> DEFINE k == L - j
  <2>1. k \in 1 .. L /\ L + 1 - (j + 1) = k /\ L + 1 - j = k + 1 /\ j + 1 \in 0 .. L /\ k \in 0 .. L
    BY <1>3
  <2> HIDE DEF k
  <2>2. ASSUME NEW i \in j + 1 .. NPROC
        PROVE  Follow(nx)[i][Place(q, s, k)] = SubSeq(s, k, L)
    <3>1. i \in 0 .. NPROC /\ i - 1 \in j .. NPROC /\ i # 0
      BY <1>3
    <3>2. Place(q, s, k) = s[k] /\ s[k] \in Proc /\ s[k] \in Node
      BY <2>1, <1>2, NodeFacts
    <3>3. Follow(nx)[i][s[k]] = <<s[k]>> \o Follow(nx)[i - 1][nx[s[k]]]
      BY <3>1, <3>2, <1>6
    <3>4. nx[s[k]] = Place(q, s, k + 1)
      BY <1>4, <2>1, <3>2
    <3>5. Follow(nx)[i - 1][Place(q, s, k + 1)] = SubSeq(s, k + 1, L)
      BY <1>8, <2>1, <3>1
    <3>6. SubSeq(s, k, L) = <<s[k]>> \o SubSeq(s, k + 1, L)
      <4>1. k \in 1 .. Len(s) /\ L \in k .. Len(s)
        BY <2>1, <1>3 DEF L
      <4>2. QED
        BY <4>1, <1>2, SubSeqRecursiveFirst
    <3>7. QED
      BY <3>2, <3>3, <3>4, <3>5, <3>6
  <2>3. QED
    BY <2>1, <2>2
<1>9. L \in T
  <2> HIDE DEF T
  <2>1. L \in Nat /\ L \in 0 .. L
    BY <1>3
  <2>2. QED
    BY <2>1, <1>7, <1>8, UpTo
<1>10. Follow(nx)[NPROC][Place(q, s, 1)] = SubSeq(s, 1, L)
  <2>1. NPROC \in L .. NPROC /\ L + 1 - L = 1
    BY <1>3
  <2>2. QED
    BY <1>9, <2>1
<1>11. nx[queuehead(q)] = Place(q, s, 1)
  <2>1. 0 \in 0 .. L /\ 0 + 1 = 1
    BY <1>3
  <2>2. QED
    BY <2>1, <1>2, <1>4 DEF queuehead
<1>12. SubSeq(s, 1, L) = s
  BY <1>2, SubSeqFull DEF L
<1>13. QED
  BY <1>10, <1>11, <1>12 DEF Entries

-----------------------------------------------------------------------------
(* The table.                                                              *)

\* The queues that newqueue has created.
Made == {q \in Heads : q < nextqid}

\* The inductive invariant: each of them is a list, which ends at a key below
\* all others, and no process is on two.
IInv ==
    /\ TypeOK
    /\ nextqid \in Heads \cup {NQENT}
    /\ \A q \in Made :
          ListAt(qnext, qprev, q, Chain(q)) /\ key[queuetail(q)] = MINKEY
    /\ \A q, r \in Made : q # r => Range(Chain(q)) \cap Range(Chain(r)) = {}

\* After the start every queue is there.
LEMMA BootedFacts ==
  ASSUME IInv, Booted
  PROVE  /\ Made = Heads /\ qnext \in Links /\ qprev \in Links /\ key \in [Node -> Int]
         /\ \A q \in Heads :
               /\ lists[q] = Chain(q) /\ key[queuetail(q)] = MINKEY
               /\ ListAt(qnext, qprev, q, Chain(q)) /\ QueueOf(Proc, Chain(q))
<1>1. \A q \in Heads : q < nextqid
  <2>1. TAKE q \in Heads
  <2>2. q \in Int /\ q + 1 < NQENT /\ NQENT \in Nat
    BY HeadsApart, NodeFacts
  <2>3. nextqid \in Int /\ nextqid >= NQENT
    BY <2>2, NodeFacts DEF IInv, TypeOK, Booted
  <2>4. QED
    BY <2>2, <2>3
<1>2. Made = Heads
  BY <1>1 DEF Made
<1>3. \A q \in Heads : lists[q] = Chain(q)
  BY <1>1 DEF lists
<1>4. QED
  BY <1>2, <1>3 DEF IInv, TypeOK, Links, ListAt

\* A step that makes t of queue q and leaves the other lists alone.
LEMMA ListChanges ==
  ASSUME IInv, Booted, NEW q \in Heads, NEW t,
         qnext' \in Links, qprev' \in Links, key' \in [Node -> Int], nextqid' = nextqid,
         ListAt(qnext', qprev', q, t),
         \A r \in Heads : r # q => /\ ListAt(qnext', qprev', r, Chain(r))
                                   /\ Range(t) \cap Range(Chain(r)) = {},
         \A r \in Heads : key'[queuetail(r)] = MINKEY
  PROVE  IInv' /\ lists' = [lists EXCEPT ![q] = t]
<1>1. Chain(q)' = t
  BY EntriesAre DEF Chain
<1>2. \A r \in Heads : r # q => Chain(r)' = Chain(r)
  <2>1. TAKE r \in Heads
  <2>2. ASSUME r # q PROVE Entries(qnext', r) = Chain(r)
    BY <2>2, EntriesAre
  <2>3. QED
    BY <2>2 DEF Chain
<1>3. Made = Heads /\ Made' = Made
  BY BootedFacts DEF Made
<1>4. TypeOK' /\ (nextqid \in Heads \cup {NQENT})'
  BY DEF IInv, TypeOK, Links
<1>5. ASSUME NEW r \in Heads
      PROVE  ListAt(qnext', qprev', r, Chain(r)')
  BY <1>1, <1>2
<1>6. ASSUME NEW r \in Heads, NEW u \in Heads, r # u
      PROVE  Range(Chain(r)') \cap Range(Chain(u)') = {}
  <2>1. Range(Chain(r)) \cap Range(Chain(u)) = {}
    BY <1>3, <1>6 DEF IInv
  <2>2. CASE r = q
    <3>1. Chain(r)' = t /\ Chain(u)' = Chain(u)
      BY <1>1, <1>2, <1>6, <2>2
    <3>2. Range(t) \cap Range(Chain(u)) = {}
      BY <1>6, <2>2
    <3>3. QED
      BY <3>1, <3>2
  <2>3. CASE u = q
    <3>1. Chain(u)' = t /\ Chain(r)' = Chain(r)
      BY <1>1, <1>2, <1>6, <2>3
    <3>2. Range(t) \cap Range(Chain(r)) = {}
      BY <1>6, <2>3
    <3>3. QED
      BY <3>1, <3>2
  <2>4. CASE r # q /\ u # q
    <3>1. Chain(r)' = Chain(r) /\ Chain(u)' = Chain(u)
      BY <1>2, <2>4
    <3>2. QED
      BY <3>1, <2>1
  <2>5. QED
    BY <2>2, <2>3, <2>4
<1>7. IInv'
  <2>1. Made' = Heads
    BY <1>3
  <2>2. ASSUME NEW r \in Heads
        PROVE  (ListAt(qnext, qprev, r, Chain(r)) /\ key[queuetail(r)] = MINKEY)'
    BY <1>5 DEF MINKEY, Inf, queuetail
  <2>3. QED
    BY <1>4, <1>6, <2>1, <2>2 DEF IInv
<1>8. lists' = [lists EXCEPT ![q] = t]
  <2>1. \A r \in Heads : r < nextqid
    BY <1>3 DEF Made
  <2>2. lists = [r \in Heads |-> Chain(r)]
    BY <2>1 DEF lists
  <2>3. lists' = [r \in Heads |-> Chain(r)']
    BY <2>1 DEF lists
  <2>4. \A r \in Heads : Chain(r)' = IF r = q THEN t ELSE Chain(r)
    BY <1>1, <1>2
  <2>5. QED
    BY <2>2, <2>3, <2>4
<1>9. QED
  BY <1>7, <1>8

\* insert, insertd and enqueue, once the place is known.
LEMMA ProcessComes ==
  ASSUME IInv, Booted, NEW p \in Proc, ~OnQueue(p), NEW q \in Heads,
         NEW s, s = Chain(q), NEW i \in 1 .. Len(s) + 1,
         Link(p, Place(q, s, i - 1), Place(q, s, i)),
         key' \in [Node -> Int], nextqid' = nextqid,
         \A r \in Heads : key'[queuetail(r)] = key[queuetail(r)]
  PROVE  IInv' /\ lists' = [lists EXCEPT ![q] = InsertAt(s, i, p)]
<1> DEFINE prev == Place(q, s, i - 1)
           curr == Place(q, s, i)
           t == InsertAt(s, i, p)
<1>1. /\ qnext \in Links /\ qprev \in Links /\ Made = Heads
      /\ \A r \in Heads : /\ ListAt(qnext, qprev, r, Chain(r)) /\ QueueOf(Proc, Chain(r))
                          /\ key[queuetail(r)] = MINKEY
  BY BootedFacts
<1>2. \A r \in Heads : p \notin Range(Chain(r))
  BY DEF OnQueue
<1>3. QueueOf(Proc, s) /\ ListAt(qnext, qprev, q, s) /\ p \notin Range(s)
  BY <1>1, <1>2
<1>4. /\ Len(s) \in Nat
      /\ \A j \in 0 .. Len(s) + 1 : Place(q, s, j) \in Nodes(q, s) /\ Place(q, s, j) \in Node
  BY <1>3, PlaceFacts
<1>5. i - 1 \in 0 .. Len(s) + 1 /\ i \in 0 .. Len(s) + 1
  BY <1>4
<1>6. prev \in Node /\ curr \in Node /\ prev \in Nodes(q, s) /\ curr \in Nodes(q, s)
  BY <1>4, <1>5
<1>7. p \in Node
  BY NodeFacts
<1>8. /\ qnext' = [qnext EXCEPT ![p] = curr, ![prev] = p]
      /\ qprev' = [qprev EXCEPT ![p] = prev, ![curr] = p]
  BY DEF Link
<1>9. ListAt(qnext', qprev', q, t)
  BY <1>1, <1>3, <1>8, LinkedIn
<1>10. Range(t) = Range(s) \cup {p}
  BY <1>3, InsertAtMembers
<1> HIDE DEF prev, curr, t
<1>11. /\ qnext' \in Links /\ qprev' \in Links
       /\ \A n \in Node : n # p /\ n # prev /\ n # curr => /\ qnext'[n] = qnext[n]
                                                           /\ qprev'[n] = qprev[n]
  BY <1>1, <1>6, <1>7, <1>8 DEF Links
<1>12. ASSUME NEW r \in Heads, r # q
       PROVE  /\ ListAt(qnext', qprev', r, Chain(r))
              /\ Range(t) \cap Range(Chain(r)) = {}
  <2>1. Range(s) \cap Range(Chain(r)) = {}
    BY <1>1, <1>12 DEF IInv
  <2>2. Nodes(q, s) \cap Nodes(r, Chain(r)) = {}
    BY <1>1, <1>3, <1>12, <2>1, NodesApart
  <2>3. p \notin Nodes(r, Chain(r))
    BY <1>2, HeadsApart DEF Nodes, queuehead, queuetail
  <2>4. \A n \in Node : n \in Nodes(r, Chain(r)) => qnext'[n] = qnext[n] /\ qprev'[n] = qprev[n]
    BY <1>6, <1>11, <2>2, <2>3
  <2>5. ListAt(qnext', qprev', r, Chain(r))
    BY <1>1, <2>4, ListElsewhere
  <2>6. QED
    BY <1>2, <1>10, <2>1, <2>5
<1>13. \A r \in Heads : key'[queuetail(r)] = MINKEY
  BY <1>1
<1>14. QED
  BY <1>9, <1>11, <1>12, <1>13, ListChanges DEF t

\* getitem and its callers: the process at place i is taken out.
LEMMA ProcessGoes ==
  ASSUME IInv, Booted, NEW q \in Heads, NEW s, s = Chain(q), NEW i \in 1 .. Len(s),
         qnext' \in Links, qprev' \in Links,
         qnext'[qprev[s[i]]] = qnext[s[i]], qprev'[qnext[s[i]]] = qprev[s[i]],
         \A n \in Node : n # s[i] /\ n # qprev[s[i]] => qnext'[n] = qnext[n],
         \A n \in Node : n # s[i] /\ n # qnext[s[i]] => qprev'[n] = qprev[n],
         key' \in [Node -> Int], nextqid' = nextqid,
         \A r \in Heads : key'[queuetail(r)] = key[queuetail(r)]
  PROVE  IInv' /\ lists' = [lists EXCEPT ![q] = RemoveAt(s, i)]
<1> DEFINE t == RemoveAt(s, i)
<1>1. /\ qnext \in Links /\ qprev \in Links /\ Made = Heads
      /\ \A r \in Heads : /\ ListAt(qnext, qprev, r, Chain(r)) /\ QueueOf(Proc, Chain(r))
                          /\ key[queuetail(r)] = MINKEY
  BY BootedFacts
<1>2. QueueOf(Proc, s) /\ ListAt(qnext, qprev, q, s)
  BY <1>1
<1>3. /\ ListAt(qnext', qprev', q, t)
      /\ qnext[s[i]] \in Nodes(q, s) /\ qprev[s[i]] \in Nodes(q, s) /\ s[i] \in Nodes(q, s)
  BY <1>1, <1>2, LinkedOut
<1>4. Range(t) = Range(s) \ {s[i]}
  BY <1>2, RemoveAtMembers
<1> HIDE DEF t
<1>5. ASSUME NEW r \in Heads, r # q
      PROVE  /\ ListAt(qnext', qprev', r, Chain(r))
             /\ Range(t) \cap Range(Chain(r)) = {}
  <2>1. Range(s) \cap Range(Chain(r)) = {}
    BY <1>1, <1>5 DEF IInv
  <2>2. Nodes(q, s) \cap Nodes(r, Chain(r)) = {}
    BY <1>1, <1>2, <1>5, <2>1, NodesApart
  <2>3. \A n \in Node : n \in Nodes(r, Chain(r)) => qnext'[n] = qnext[n] /\ qprev'[n] = qprev[n]
    BY <1>3, <2>2
  <2>4. ListAt(qnext', qprev', r, Chain(r))
    BY <1>1, <2>3, ListElsewhere
  <2>5. QED
    BY <1>4, <2>1, <2>4
<1>6. \A r \in Heads : key'[queuetail(r)] = MINKEY
  BY <1>1
<1>7. QED
  BY <1>3, <1>5, <1>6, ListChanges DEF t

-----------------------------------------------------------------------------
(* The walks of insert and insertd.                                        *)

\* The keys of the processes.
ProcKeys == [p \in Proc |-> key[p]]

\* What the walks find on their way.
LEMMA OnTheWay ==
  ASSUME IInv, Booted, NEW q \in Heads, NEW s, s = Chain(q)
  PROVE  /\ QueueOf(Proc, s) /\ s \in Seq(Proc) /\ Len(s) \in 0 .. NPROC
         /\ ProcKeys \in [Proc -> Int]
         /\ firstid(q) = Place(q, s, 1) /\ lastid(q) = Place(q, s, Len(s))
         /\ \A i \in 1 .. Len(s) :
               /\ s[i] \in Proc /\ Place(q, s, i) = s[i] /\ s[i] # queuetail(q)
               /\ key[s[i]] = ProcKeys[s[i]] /\ ProcKeys[s[i]] \in Int
               /\ qnext[s[i]] = Place(q, s, i + 1) /\ qprev[s[i]] = Place(q, s, i - 1)
         /\ Place(q, s, Len(s) + 1) = queuetail(q) /\ key[queuetail(q)] = MINKEY
         /\ \A i \in 0 .. Len(s) :
               /\ qnext[Place(q, s, i)] = Place(q, s, i + 1)
               /\ qprev[Place(q, s, i + 1)] = Place(q, s, i)
<1>1. /\ key \in [Node -> Int] /\ key[queuetail(q)] = MINKEY
      /\ ListAt(qnext, qprev, q, s) /\ QueueOf(Proc, s)
  BY BootedFacts
<1>2. /\ s \in Seq(Proc) /\ Len(s) \in Nat
      /\ \A i \in 1 .. Len(s) : s[i] \in Proc /\ Place(q, s, i) = s[i]
      /\ Place(q, s, 0) = q /\ Place(q, s, Len(s) + 1) = q + 1
  BY <1>1, PlaceFacts
<1>3. \A i \in 0 .. Len(s) : /\ qnext[Place(q, s, i)] = Place(q, s, i + 1)
                             /\ qprev[Place(q, s, i + 1)] = Place(q, s, i)
  BY <1>1 DEF ListAt
<1>4. ProcKeys \in [Proc -> Int] /\ \A p \in Proc : key[p] = ProcKeys[p]
  BY <1>1, NodeFacts DEF ProcKeys
<1>5. firstid(q) = Place(q, s, 1) /\ lastid(q) = Place(q, s, Len(s))
  <2>1. 0 \in 0 .. Len(s) /\ 0 + 1 = 1 /\ Len(s) \in 0 .. Len(s)
    BY <1>2
  <2>2. qnext[q] = Place(q, s, 1) /\ qprev[q + 1] = Place(q, s, Len(s))
    BY <2>1, <1>2, <1>3
  <2>3. QED
    BY <2>2 DEF firstid, lastid, queuehead, queuetail
<1>6. ASSUME NEW i \in 1 .. Len(s)
      PROVE  qnext[s[i]] = Place(q, s, i + 1) /\ qprev[s[i]] = Place(q, s, i - 1)
  <2>1. i \in 0 .. Len(s) /\ i - 1 \in 0 .. Len(s) /\ i - 1 + 1 = i
    BY <1>2
  <2>2. QED
    BY <2>1, <1>2, <1>3
<1>7. q + 1 \notin Proc
  BY HeadsApart
<1>8. QED
  BY <1>1, <1>2, <1>3, <1>4, <1>5, <1>6, <1>7, ShortQueue DEF queuetail

\* insert stops at the entry that Insert puts the process in front of.
LEMMA insertStops ==
  ASSUME IInv, Booted, NEW q \in Heads, NEW s, s = Chain(q), NEW k \in Nat
  PROVE  insertWalk(q, k)[NPROC] = Place(q, s, InsertPos(s, ProcKeys, k))
<1> DEFINE pos == InsertPos(s, ProcKeys, k)
           m(i) == IF i < pos THEN i ELSE pos - 1
           w == [i \in 0 .. NPROC |-> Place(q, s, m(i) + 1)]
           turn(i, curr) == IF i = 0 THEN firstid(q)
                            ELSE IF key[curr] >= k THEN qnext[curr] ELSE curr
           walk == insertWalk(q, k)
<1>1. /\ s \in Seq(Proc) /\ Len(s) \in 0 .. NPROC
      /\ firstid(q) = Place(q, s, 1)
      /\ \A i \in 1 .. Len(s) :
            /\ Place(q, s, i) = s[i] /\ key[s[i]] = ProcKeys[s[i]] /\ ProcKeys[s[i]] \in Int
            /\ qnext[s[i]] = Place(q, s, i + 1)
      /\ Place(q, s, Len(s) + 1) = queuetail(q) /\ key[queuetail(q)] = MINKEY
  <2> HIDE DEF pos, w, walk
  <2>1. /\ s \in Seq(Proc) /\ Len(s) \in 0 .. NPROC /\ firstid(q) = Place(q, s, 1)
        /\ Place(q, s, Len(s) + 1) = queuetail(q) /\ key[queuetail(q)] = MINKEY
    BY OnTheWay
  <2>2. ASSUME NEW i \in 1 .. Len(s)
        PROVE  /\ Place(q, s, i) = s[i] /\ key[s[i]] = ProcKeys[s[i]] /\ ProcKeys[s[i]] \in Int
               /\ qnext[s[i]] = Place(q, s, i + 1)
    BY OnTheWay
  <2>3. QED
    BY <2>1, <2>2
<1>2. NPROC \in Nat
  BY NodeFacts
<1>3. /\ pos \in 1 .. Len(s) + 1
      /\ pos \in 1 .. Len(s) => ProcKeys[s[pos]] < k
      /\ \A j \in 1 .. Len(s) : j < pos => ~(ProcKeys[s[j]] < k)
  BY <1>1, InsertPosKeys
<1> HIDE DEF pos
<1>4. ASSUME NEW i \in 1 .. NPROC
      PROVE  Place(q, s, m(i) + 1) = turn(i, Place(q, s, m(i - 1) + 1))
  <2>1. i \in Int /\ pos \in Int /\ i # 0 /\ Len(s) \in Nat
    BY <1>1, <1>3
  <2>2. CASE i < pos
    <3>1. m(i - 1) + 1 = i /\ m(i) + 1 = i + 1 /\ i \in 1 .. Len(s)
      BY <1>3, <2>1, <2>2
    <3>2. key[s[i]] \in Int /\ ~(key[s[i]] < k) /\ Place(q, s, i) = s[i] /\ qnext[s[i]] = Place(q, s, i + 1)
      BY <1>1, <1>3, <2>2, <3>1
    <3>3. key[s[i]] >= k
      BY <3>2
    <3> HIDE DEF m
    <3>4. QED
      BY <2>1, <3>1, <3>2, <3>3
  <2>3. CASE i >= pos
    <3>1. m(i - 1) + 1 = pos /\ m(i) + 1 = pos
      BY <1>3, <2>1, <2>3
    <3>2. ~(key[Place(q, s, pos)] >= k)
      <4>1. CASE pos \in 1 .. Len(s)
        BY <1>1, <1>3, <4>1
      <4>2. CASE pos = Len(s) + 1
        BY <1>1, <4>2 DEF MINKEY, Inf
      <4>3. QED
        BY <1>1, <1>3, <4>1, <4>2
    <3> HIDE DEF m
    <3>3. QED
      BY <2>1, <3>1, <3>2
  <2>4. QED
    BY <2>1, <2>2, <2>3
<1>5. Place(q, s, m(0) + 1) = firstid(q)
  BY <1>1, <1>3
<1>6. ASSUME NEW i \in 0 .. NPROC
      PROVE  w[i] = turn(i, w[i - 1])
  <2>1. CASE i = 0
    BY <1>2, <1>5, <2>1
  <2>2. CASE i # 0
    <3>1. i \in 1 .. NPROC /\ i - 1 \in 0 .. NPROC
      BY <1>2, <2>2
    <3> HIDE DEF m, turn
    <3>2. w[i] = Place(q, s, m(i) + 1) /\ w[i - 1] = Place(q, s, m(i - 1) + 1)
      BY <3>1
    <3>3. QED
      BY <3>1, <3>2, <1>4
  <2>3. QED
    BY <2>1, <2>2
<1>7. w = [i \in 0 .. NPROC |-> turn(i, w[i - 1])]
  <2> DEFINE h == [i \in 0 .. NPROC |-> turn(i, w[i - 1])]
  <2>1. DOMAIN w = 0 .. NPROC /\ DOMAIN h = 0 .. NPROC
    OBVIOUS
  <2>2. \A i \in 0 .. NPROC : w[i] = h[i]
    BY <1>6
  <2>3. w = [i \in DOMAIN w |-> w[i]] /\ h = [i \in DOMAIN h |-> h[i]]
    OBVIOUS
  <2> HIDE DEF w, h
  <2>4. w = h
    BY <2>1, <2>2, <2>3
  <2>5. QED
    BY <2>4 DEF h
<1>8. walk = [i \in 0 .. NPROC |-> turn(i, walk[i - 1])]
  <2> HIDE DEF w
  <2>1. QED
    BY <1>7 DEF insertWalk
<1>9. \A i \in 0 .. NPROC : walk[i] = turn(i, walk[i - 1])
  <2> HIDE DEF walk
  <2>1. QED
    BY <1>8
<1> DEFINE T == {i \in 0 .. NPROC : walk[i] = w[i]}
<1>10. 0 \in T
  <2> HIDE DEF walk, w
  <2>1. 0 \in 0 .. NPROC
    BY <1>2
  <2>2. QED
    BY <2>1, <1>6, <1>9
<1>11. ASSUME NEW i \in 0 .. NPROC - 1, i \in T
       PROVE  i + 1 \in T
  <2> HIDE DEF walk, w, turn
  <2>1. i + 1 \in 0 .. NPROC /\ i + 1 - 1 = i
    BY <1>2
  <2>2. QED
    BY <2>1, <1>6, <1>9, <1>11
<1>12. walk[NPROC] = w[NPROC]
  <2>1. NPROC \in 0 .. NPROC
    BY <1>2
  <2> HIDE DEF walk, w, T
  <2>2. NPROC \in T
    BY <1>2, <1>10, <1>11, <2>1, UpTo
  <2>3. QED
    BY <2>2 DEF T
<1>13. w[NPROC] = Place(q, s, pos)
  <2>1. m(NPROC) + 1 = pos /\ NPROC \in 0 .. NPROC
    BY <1>1, <1>2, <1>3
  <2> HIDE DEF m
  <2>2. QED
    BY <2>1
<1>14. QED
  BY <1>12, <1>13 DEF pos

\* insertd stops between the same entries as Insertd, with the same delay left.
LEMMA insertdStops ==
  ASSUME IInv, Booted, NEW q \in Heads, NEW s, s = Chain(q), NEW d \in Int
  PROVE  LET pos == InsertdPos(s, ProcKeys, d) IN
         insertdWalk(q, d)[NPROC] =
            [prev |-> Place(q, s, pos - 1), next |-> Place(q, s, pos),
             left |-> d - Elapsed(s, ProcKeys)[pos - 1]]
<1> DEFINE pos == InsertdPos(s, ProcKeys, d)
           e == Elapsed(s, ProcKeys)
           m(i) == IF i < pos THEN i ELSE pos - 1
           at(k) == [prev |-> Place(q, s, k), next |-> Place(q, s, k + 1), left |-> d - e[k]]
           w == [i \in 0 .. NPROC |-> at(m(i))]
           turn(i, v) ==
              IF i = 0 THEN [prev |-> queuehead(q), next |-> firstid(q), left |-> d]
              ELSE IF v.next # queuetail(q) /\ key[v.next] <= v.left
                   THEN [prev |-> v.next, next |-> qnext[v.next], left |-> v.left - key[v.next]]
                   ELSE v
           walk == insertdWalk(q, d)
<1>1. /\ s \in Seq(Proc) /\ Len(s) \in 0 .. NPROC /\ firstid(q) = Place(q, s, 1)
      /\ Place(q, s, Len(s) + 1) = queuetail(q) /\ Place(q, s, 0) = queuehead(q)
      /\ \A i \in 1 .. Len(s) :
            /\ Place(q, s, i) = s[i] /\ key[s[i]] = ProcKeys[s[i]] /\ ProcKeys[s[i]] \in Int
            /\ qnext[s[i]] = Place(q, s, i + 1) /\ s[i] # queuetail(q)
  <2> HIDE DEF pos, w, walk, e
  <2>1. /\ s \in Seq(Proc) /\ Len(s) \in 0 .. NPROC /\ firstid(q) = Place(q, s, 1)
        /\ Place(q, s, Len(s) + 1) = queuetail(q)
    BY OnTheWay
  <2>2. ASSUME NEW i \in 1 .. Len(s)
        PROVE  /\ Place(q, s, i) = s[i] /\ key[s[i]] = ProcKeys[s[i]] /\ ProcKeys[s[i]] \in Int
               /\ qnext[s[i]] = Place(q, s, i + 1) /\ s[i] # queuetail(q)
    BY OnTheWay
  <2>3. Place(q, s, 0) = queuehead(q)
    BY DEF Place
  <2>4. QED
    BY <2>1, <2>2, <2>3
<1>2. NPROC \in Nat /\ Len(s) \in Nat
  BY <1>1, NodeFacts
<1>3. /\ pos \in 1 .. Len(s) + 1
      /\ pos \in 1 .. Len(s) => e[pos] > d
      /\ \A j \in 1 .. Len(s) : j < pos => ~(e[j] > d)
  BY <1>1, InsertdPosDue
<1>4. /\ e[0] = 0
      /\ \A i \in 1 .. Len(s) : e[i] = e[i - 1] + ProcKeys[s[i]]
      /\ \A i \in 0 .. Len(s) : e[i] \in Int
  <2> HIDE DEF pos, e, at, m, w, turn, walk
  <2>1. s \in Seq(Proc) /\ \A i \in 1 .. Len(s) : ProcKeys[s[i]] \in Int
    BY <1>1
  <2>2. Elapsed(s, ProcKeys)[0] = 0
    BY <2>1, ElapsedSums
  <2>3. \A i \in 1 .. Len(s) : Elapsed(s, ProcKeys)[i] = Elapsed(s, ProcKeys)[i - 1] + ProcKeys[s[i]]
    BY <2>1, ElapsedSums
  <2>4. \A i \in 0 .. Len(s) : Elapsed(s, ProcKeys)[i] \in Int
    BY <2>1, ElapsedSums
  <2>5. QED
    BY <2>2, <2>3, <2>4 DEF e
<1> HIDE DEF pos, e
<1>5. ASSUME NEW i \in 1 .. NPROC
      PROVE  at(m(i)) = turn(i, at(m(i - 1)))
  <2>1. i \in Int /\ pos \in Int /\ i # 0
    BY <1>2, <1>3
  <2>2. CASE i < pos
    <3>1. m(i - 1) = i - 1 /\ m(i) = i /\ i - 1 + 1 = i /\ i \in 1 .. Len(s)
      BY <1>2, <1>3, <2>1, <2>2
    <3>2. /\ Place(q, s, i) = s[i] /\ s[i] # queuetail(q) /\ qnext[s[i]] = Place(q, s, i + 1)
          /\ key[s[i]] \in Int /\ e[i] = e[i - 1] + key[s[i]] /\ e[i] \in Int /\ e[i - 1] \in Int
          /\ e[i] <= d
      <4>1. i - 1 \in 0 .. Len(s) /\ i \in 0 .. Len(s)
        BY <1>2, <3>1
      <4>2. /\ e[i] \in Int /\ e[i - 1] \in Int /\ ~(e[i] > d) /\ e[i] = e[i - 1] + ProcKeys[s[i]]
        BY <1>3, <1>4, <2>2, <3>1, <4>1
      <4>3. QED
        BY <1>1, <3>1, <4>2
    <3>3. key[s[i]] <= d - e[i - 1] /\ d - e[i - 1] - key[s[i]] = d - e[i]
      BY <3>2
    <3>4. at(i - 1) = [prev |-> Place(q, s, i - 1), next |-> s[i], left |-> d - e[i - 1]]
      BY <3>1, <3>2
    <3>5. turn(i, at(i - 1)) = [prev |-> s[i], next |-> Place(q, s, i + 1), left |-> d - e[i]]
      BY <2>1, <3>2, <3>3, <3>4
    <3>6. at(i) = [prev |-> s[i], next |-> Place(q, s, i + 1), left |-> d - e[i]]
      BY <3>2
    <3> HIDE DEF m, at, turn
    <3>7. QED
      BY <3>1, <3>5, <3>6
  <2>3. CASE i >= pos
    <3>1. m(i - 1) = pos - 1 /\ m(i) = pos - 1 /\ pos - 1 + 1 = pos
      BY <1>3, <2>1, <2>3
    <3>2. ~(Place(q, s, pos) # queuetail(q) /\ key[Place(q, s, pos)] <= d - e[pos - 1])
      <4>1. CASE pos \in 1 .. Len(s)
        <5>1. pos - 1 \in 0 .. Len(s)
          BY <1>2, <4>1
        <5>2. /\ e[pos] > d /\ e[pos] = e[pos - 1] + key[s[pos]]
              /\ e[pos - 1] \in Int /\ key[s[pos]] \in Int /\ Place(q, s, pos) = s[pos]
          BY <1>1, <1>3, <1>4, <4>1, <5>1
        <5>3. ~(key[s[pos]] <= d - e[pos - 1])
          BY <5>2
        <5>4. QED
          BY <5>2, <5>3
      <4>2. CASE pos = Len(s) + 1
        BY <1>1, <4>2
      <4>3. QED
        BY <1>2, <1>3, <4>1, <4>2
    <3>3. at(pos - 1) = [prev |-> Place(q, s, pos - 1), next |-> Place(q, s, pos),
                         left |-> d - e[pos - 1]]
      BY <3>1
    <3>4. turn(i, at(pos - 1)) = at(pos - 1)
      BY <2>1, <3>2, <3>3
    <3> HIDE DEF m, at, turn
    <3>5. QED
      BY <3>1, <3>4
  <2>4. QED
    BY <2>1, <2>2, <2>3
<1>6. at(m(0)) = [prev |-> queuehead(q), next |-> firstid(q), left |-> d]
  <2>1. m(0) = 0 /\ 0 + 1 = 1
    BY <1>3
  <2>2. at(0) = [prev |-> queuehead(q), next |-> firstid(q), left |-> d]
    BY <1>1, <1>4
  <2> HIDE DEF m, at
  <2>3. QED
    BY <2>1, <2>2
<1> HIDE DEF m, at
<1>7. ASSUME NEW i \in 0 .. NPROC
      PROVE  w[i] = turn(i, w[i - 1])
  <2>1. CASE i = 0
    BY <1>2, <1>6, <2>1
  <2>2. CASE i # 0
    <3>1. i \in 1 .. NPROC /\ i - 1 \in 0 .. NPROC
      BY <1>2, <2>2
    <3>2. w[i] = at(m(i)) /\ w[i - 1] = at(m(i - 1))
      BY <3>1
    <3>3. at(m(i)) = turn(i, at(m(i - 1)))
      BY <1>5, <3>1
    <3> HIDE DEF turn, w
    <3>4. QED
      BY <3>2, <3>3
  <2>3. QED
    BY <2>1, <2>2
<1>8. w = [i \in 0 .. NPROC |-> turn(i, w[i - 1])]
  <2> DEFINE h == [i \in 0 .. NPROC |-> turn(i, w[i - 1])]
  <2> HIDE DEF turn
  <2>1. \A i \in 0 .. NPROC : w[i] = h[i]
    BY <1>7
  <2>2. w = [i \in 0 .. NPROC |-> w[i]] /\ h = [i \in 0 .. NPROC |-> h[i]]
    OBVIOUS
  <2> HIDE DEF w, h
  <2>3. w = h
    BY <2>1, <2>2
  <2>4. QED
    BY <2>3 DEF h
<1>9. walk = [i \in 0 .. NPROC |-> turn(i, walk[i - 1])]
  <2> HIDE DEF w
  <2>1. QED
    BY <1>8 DEF insertdWalk
<1>10. \A i \in 0 .. NPROC : walk[i] = turn(i, walk[i - 1])
  <2> HIDE DEF walk, turn
  <2>1. QED
    BY <1>9
<1> DEFINE T == {i \in 0 .. NPROC : walk[i] = w[i]}
<1>11. 0 \in T
  <2> HIDE DEF walk, w
  <2>1. 0 \in 0 .. NPROC
    BY <1>2
  <2>2. turn(0, walk[0 - 1]) = turn(0, w[0 - 1])
    OBVIOUS
  <2> HIDE DEF turn
  <2>3. QED
    BY <2>1, <2>2, <1>7, <1>10
<1>12. ASSUME NEW i \in 0 .. NPROC - 1, i \in T
       PROVE  i + 1 \in T
  <2> HIDE DEF walk, w, turn
  <2>1. i + 1 \in 0 .. NPROC /\ i + 1 - 1 = i
    BY <1>2
  <2>2. QED
    BY <2>1, <1>7, <1>10, <1>12
<1>13. walk[NPROC] = w[NPROC]
  <2>1. NPROC \in 0 .. NPROC
    BY <1>2
  <2> HIDE DEF walk, w, T
  <2>2. NPROC \in T
    BY <1>2, <1>11, <1>12, <2>1, UpTo
  <2>3. QED
    BY <2>2 DEF T
<1>14. w[NPROC] = at(pos - 1)
  <2>1. m(NPROC) = pos - 1 /\ NPROC \in 0 .. NPROC
    BY <1>1, <1>2, <1>3 DEF m
  <2>2. QED
    BY <2>1
<1>15. at(pos - 1) = [prev |-> Place(q, s, pos - 1), next |-> Place(q, s, pos), left |-> d - e[pos - 1]]
  <2>1. pos - 1 + 1 = pos
    BY <1>3
  <2>2. QED
    BY <2>1 DEF at
<1> HIDE DEF w, walk
<1>16. QED
  BY <1>13, <1>14, <1>15 DEF pos, e, walk

-----------------------------------------------------------------------------
(* The operators of Queues are those of QueueOps, on the queues of the     *)
(* table.                                                                  *)

\* ReadyQ, SleepQ and the semaphore queues are the queues of the table.
LEMMA AllQueues ==
  /\ ReadyQ \in Heads /\ SleepQ \in Heads /\ FifoQs \subseteq Heads
  /\ SleepQ \notin FifoQs /\ AsQueues!Queue = Heads
<1>1. NPROC \in Nat \ {0} /\ NSEM \in Nat
  BY QueueTabAssumption
<1>2. ReadyQ = NPROC + 2 * NSEM /\ SleepQ = NPROC + 2 * (NSEM + 1)
  BY <1>1 DEF ReadyQ, SleepQ
<1>3. NSEM \in 0 .. NSEM + 1 /\ NSEM + 1 \in 0 .. NSEM + 1
  BY <1>1
<1>4. ReadyQ \in Heads /\ SleepQ \in Heads
  BY <1>2, <1>3 DEF Heads
<1>5. FifoQs \subseteq Heads
  <2>1. \A i \in 0 .. NSEM - 1 : i \in 0 .. NSEM + 1
    BY <1>1
  <2>2. QED
    BY <2>1 DEF FifoQs, Heads
<1>6. ASSUME NEW q \in Heads PROVE q \in {ReadyQ, SleepQ} \cup FifoQs
  <2>1. PICK i \in 0 .. NSEM + 1 : q = NPROC + 2 * i
    BY DEF Heads
  <2>2. i = NSEM \/ i = NSEM + 1 \/ i \in 0 .. NSEM - 1
    BY <1>1, <2>1
  <2>3. QED
    BY <1>2, <2>1, <2>2 DEF FifoQs
<1>7. SleepQ \notin FifoQs
  <2>1. \A i \in 0 .. NSEM - 1 : NPROC + 2 * (NSEM + 1) # NPROC + 2 * i
    BY <1>1
  <2>2. QED
    BY <1>2, <2>1 DEF FifoQs
<1>8. QED
  BY <1>4, <1>5, <1>6, <1>7 DEF AsQueues!Queue

\* The definitions are the same ones.
LEMMA SameOps ==
  ASSUME NEW q, NEW p, NEW ky, NEW k
  PROVE  /\ AsQueues!Insert(q, p, ky, k) = Insert(q, p, ky, k)
         /\ AsQueues!Insertd(q, p, ky, k) = Insertd(q, p, ky, k)
         /\ AsQueues!InsertdKeys(q, p, ky, k) = InsertdKeys(q, p, ky, k)
         /\ AsQueues!GetItem(q, p) = GetItem(q, p)
         /\ AsQueues!UnsleepKeys(q, p, ky) = UnsleepKeys(q, p, ky)
         /\ AsQueues!Range(q) = Range(q)
         /\ AsQueues!Front(q) = Front(q)
<1>1. AsQueues!Range(q) = Range(q) /\ AsQueues!Front(q) = Front(q)
  BY DEF AsQueues!Range, Range, AsQueues!Front, Front
<1>2. AsQueues!PosOf(q, p) = PosOf(q, p)
  BY DEF AsQueues!PosOf, PosOf
<1>3. AsQueues!GetItem(q, p) = GetItem(q, p)
  BY <1>2 DEF AsQueues!GetItem, GetItem, AsQueues!RemoveAt, RemoveAt
<1>4. AsQueues!UnsleepKeys(q, p, ky) = UnsleepKeys(q, p, ky)
  BY <1>2 DEF AsQueues!UnsleepKeys, UnsleepKeys
<1>5. AsQueues!Elapsed(q, ky) = Elapsed(q, ky)
  BY DEF AsQueues!Elapsed, Elapsed
<1>6. AsQueues!InsertdPos(q, ky, k) = InsertdPos(q, ky, k)
  BY <1>5 DEF AsQueues!InsertdPos, InsertdPos, AsQueues!Min, Min
<1>7. AsQueues!InsertPos(q, ky, k) = InsertPos(q, ky, k)
  BY DEF AsQueues!InsertPos, InsertPos, AsQueues!Min, Min
<1>8. AsQueues!Insertd(q, p, ky, k) = Insertd(q, p, ky, k)
  BY <1>6 DEF AsQueues!Insertd, Insertd, AsQueues!InsertAt, InsertAt
<1>9. AsQueues!Insert(q, p, ky, k) = Insert(q, p, ky, k)
  BY <1>7 DEF AsQueues!Insert, Insert, AsQueues!InsertAt, InsertAt
<1>10. AsQueues!InsertdKeys(q, p, ky, k) = InsertdKeys(q, p, ky, k)
  BY <1>5, <1>6 DEF AsQueues!InsertdKeys, InsertdKeys
<1>11. QED
  BY <1>1, <1>3, <1>4, <1>8, <1>9, <1>10

\* A process is queued there when it is here.
LEMMA SameQueued ==
  ASSUME IInv, Booted, NEW p
  PROVE  AsQueues!Queued(p) <=> OnQueue(p)
<1>1. \A q \in Heads : AsQueues!Range(lists[q]) = Range(Chain(q))
  BY BootedFacts, SameOps
<1>2. QED
  BY <1>1, AllQueues DEF AsQueues!Queued, OnQueue

\* The last place of a queue, and the first.
LEMMA EndsOf ==
  ASSUME NEW S, NEW s, QueueOf(S, s)
  PROVE  /\ \A p \in S : Append(s, p) = InsertAt(s, Len(s) + 1, p)
         /\ s # <<>> => /\ Len(s) \in 1 .. Len(s) /\ 1 \in 1 .. Len(s)
                        /\ Tail(s) = RemoveAt(s, 1) /\ Front(s) = RemoveAt(s, Len(s))
                        /\ Head(s) = s[1]
         /\ Len(s) >= 1 => s # <<>>
<1>1. s \in Seq(S) /\ Len(s) \in Nat
  BY LenProperties DEF QueueOf
<1>2. ASSUME NEW p \in S
      PROVE  Append(s, p) = InsertAt(s, Len(s) + 1, p)
  <2> DEFINE i == Len(s) + 1
             r == InsertAt(s, i, p)
  <2>1. i \in 1 .. Len(s) + 1
    BY <1>1
  <2> HIDE DEF i
  <2>2. InsertAt(s, i, p) \in Seq(S) /\ Len(InsertAt(s, i, p)) = Len(s) + 1
    BY <1>1, <2>1, InsertAtEntries
  <2>3. \A j \in 1 .. Len(s) + 1 :
           InsertAt(s, i, p)[j] = IF j < i THEN s[j] ELSE IF j = i THEN p ELSE s[j - 1]
    BY <1>1, <2>1, InsertAtEntries
  <2>8. i = Len(s) + 1
    BY DEF i
  <2> HIDE DEF r
  <2>4. /\ Append(s, p) \in Seq(S) /\ Len(Append(s, p)) = Len(s) + 1
        /\ \A j \in 1 .. Len(s) + 1 : Append(s, p)[j] = IF j <= Len(s) THEN s[j] ELSE p
    BY <1>1
  <2>5. \A j \in 1 .. Len(s) + 1 : Append(s, p)[j] = r[j]
    BY <1>1, <2>3, <2>4, <2>8 DEF r
  <2>9. r \in Seq(S) /\ Len(r) = Len(s) + 1
    BY <2>2 DEF r
  <2>6. Append(s, p) = r
    BY <2>4, <2>5, <2>9, SeqEqual
  <2>7. QED
    BY <2>6 DEF r, i
<1>3. ASSUME s # <<>>
      PROVE  /\ Len(s) \in 1 .. Len(s) /\ 1 \in 1 .. Len(s)
             /\ Tail(s) = RemoveAt(s, 1) /\ Front(s) = RemoveAt(s, Len(s))
             /\ Head(s) = s[1]
  <2>1. Len(s) \in Nat \ {0}
    BY <1>1, <1>3, EmptySeq
  <2>2. Len(s) \in 1 .. Len(s) /\ 1 \in 1 .. Len(s) /\ Head(s) = s[1]
    BY <1>1, <2>1
  <2>3. /\ Tail(s) \in Seq(S) /\ Len(Tail(s)) = Len(s) - 1
        /\ \A j \in 1 .. Len(s) - 1 : Tail(s)[j] = s[j + 1]
    BY <1>1, <1>3, HeadTailProperties
  <2>4. /\ RemoveAt(s, 1) \in Seq(S) /\ Len(RemoveAt(s, 1)) = Len(s) - 1
        /\ \A j \in 1 .. Len(s) - 1 : RemoveAt(s, 1)[j] = IF j < 1 THEN s[j] ELSE s[j + 1]
    BY <1>1, <2>2, RemoveAtEntries
  <2>5. Tail(s) = RemoveAt(s, 1)
    <3>1. \A j \in 1 .. Len(s) - 1 : Tail(s)[j] = RemoveAt(s, 1)[j]
      BY <2>3, <2>4
    <3>2. QED
      BY <2>3, <2>4, <3>1, SeqEqual
  <2>6. /\ RemoveAt(s, Len(s)) \in Seq(S) /\ Len(RemoveAt(s, Len(s))) = Len(s) - 1
        /\ \A j \in 1 .. Len(s) - 1 :
              RemoveAt(s, Len(s))[j] = IF j < Len(s) THEN s[j] ELSE s[j + 1]
    BY <1>1, <2>2, RemoveAtEntries
  <2>7. /\ Front(s) \in Seq(S) /\ Len(Front(s)) = Len(s) - 1
        /\ \A j \in 1 .. Len(s) - 1 : Front(s)[j] = s[j]
    <3>1. \A j \in 1 .. Len(s) - 1 : s[j] \in S
      BY <1>1, <2>1, ElementOfSeq
    <3>2. 1 \in Int /\ Len(s) - 1 \in Int
      BY <1>1
    <3>3. /\ SubSeq(s, 1, Len(s) - 1) \in Seq(S)
          /\ Len(SubSeq(s, 1, Len(s) - 1)) = IF 1 <= Len(s) - 1 THEN Len(s) - 1 - 1 + 1 ELSE 0
          /\ \A j \in 1 .. Len(s) - 1 - 1 + 1 : SubSeq(s, 1, Len(s) - 1)[j] = s[1 + j - 1]
      BY <3>1, <3>2, SubSeqProperties
    <3>4. Front(s) = SubSeq(s, 1, Len(s) - 1)
      BY DEF Front
    <3>5. /\ Front(s) \in Seq(S)
          /\ Len(Front(s)) = IF 1 <= Len(s) - 1 THEN Len(s) - 1 - 1 + 1 ELSE 0
          /\ \A j \in 1 .. Len(s) - 1 - 1 + 1 : Front(s)[j] = s[1 + j - 1]
      BY <3>3, <3>4
    <3>6. PICK n \in Nat \ {0} : n = Len(s)
      BY <2>1
    <3>7. Len(Front(s)) = Len(s) - 1
      <4>1. n - 1 = IF 1 <= n - 1 THEN n - 1 - 1 + 1 ELSE 0
        OBVIOUS
      <4>2. QED
        BY <3>5, <3>6, <4>1
    <3>8. ASSUME NEW j \in 1 .. Len(s) - 1
          PROVE  Front(s)[j] = s[j]
      <4>1. 1 + j - 1 = j /\ j \in 1 .. Len(s) - 1 - 1 + 1
        BY <2>1
      <4>2. Front(s)[j] = s[1 + j - 1]
        BY <3>5, <4>1
      <4>3. QED
        BY <4>1, <4>2
    <3>9. QED
      BY <3>5, <3>7, <3>8
  <2>8. Front(s) = RemoveAt(s, Len(s))
    <3>1. \A j \in 1 .. Len(s) - 1 : Front(s)[j] = RemoveAt(s, Len(s))[j]
      BY <1>1, <2>6, <2>7
    <3>2. QED
      BY <2>6, <2>7, <3>1, SeqEqual
  <2>9. QED
    BY <2>2, <2>5, <2>8
<1>4. Len(s) >= 1 => s # <<>>
  BY <1>1, EmptySeq
<1>5. QED
  BY <1>2, <1>3, <1>4

\* A queue is empty when its first node is no process.
LEMMA EmptyIs ==
  ASSUME IInv, Booted, NEW q \in Heads, NEW s, s = Chain(q)
  PROVE  isempty(q) <=> s = <<>>
<1>1. /\ QueueOf(Proc, s) /\ s \in Seq(Proc) /\ Len(s) \in 0 .. NPROC
      /\ firstid(q) = Place(q, s, 1) /\ Place(q, s, Len(s) + 1) = queuetail(q)
  BY OnTheWay
<1>2. q + 1 \in Int /\ q + 1 >= NPROC /\ NPROC \in Nat
  BY HeadsApart, NodeFacts
<1>3. CASE s = <<>>
  <2>1. Len(s) = 0
    BY <1>1, <1>3, EmptySeq
  <2>2. firstid(q) = q + 1
    BY <1>1, <2>1 DEF queuetail
  <2>3. QED
    BY <1>2, <1>3, <2>2 DEF isempty
<1>4. CASE s # <<>>
  <2>1. 1 \in 1 .. Len(s)
    BY <1>1, <1>4, EndsOf
  <2>2. firstid(q) \in Proc
    BY <1>1, <2>1, PlaceFacts
  <2>3. QED
    BY <1>2, <1>4, <2>2 DEF isempty, Proc
<1>5. QED
  BY <1>3, <1>4

-----------------------------------------------------------------------------
(* The steps.  Each keeps the invariant and is one of Queues, or none.     *)

\* newqueue (newqueue.c) makes an empty queue of two nodes that no other has.
LEMMA newqueueStep ==
  ASSUME IInv, newqueue
  PROVE  IInv' /\ lists' = lists /\ ProcKeys' = ProcKeys
<1> DEFINE q == nextqid
<1>1. /\ qnext \in Links /\ qprev \in Links /\ key \in [Node -> Int]
      /\ q < NQENT /\ q \in Heads \cup {NQENT} /\ NQENT \in Nat
  BY NodeFacts DEF IInv, TypeOK, Links, newqueue
<1>2. q \in Heads /\ q \in Int /\ q \in Node /\ q + 1 \in Node /\ q >= NPROC /\ q + 1 < NQENT
  <2>1. q \in Heads
    BY <1>1
  <2>2. QED
    BY <2>1, HeadsApart
<1>3. /\ qnext' = [qnext EXCEPT ![q] = q + 1, ![q + 1] = EMPTY]
      /\ qprev' = [qprev EXCEPT ![q] = EMPTY, ![q + 1] = q]
      /\ key' = [key EXCEPT ![q] = MAXKEY, ![q + 1] = MINKEY]
      /\ nextqid' = q + 2
  BY DEF newqueue, queuehead, queuetail
<1>4. q # q + 1 /\ q \notin Proc /\ q + 1 \notin Proc
  BY <1>2, HeadsApart
<1>5. /\ qnext' \in Links /\ qprev' \in Links /\ key' \in [Node -> Int]
      /\ qnext'[q] = q + 1 /\ qprev'[q + 1] = q /\ key'[q + 1] = MINKEY
      /\ \A n \in Node : n # q /\ n # q + 1 =>
            qnext'[n] = qnext[n] /\ qprev'[n] = qprev[n] /\ key'[n] = key[n]
  BY <1>1, <1>2, <1>3, <1>4 DEF Links, MAXKEY, MINKEY, Inf
<1>6. nextqid' \in Heads \cup {NQENT} /\ nextqid' \in NPROC .. NQENT
  <2>1. NPROC \in Nat \ {0} /\ NSEM \in Nat
    BY NodeFacts
  <2>2. PICK i \in 0 .. NSEM + 1 : q = NPROC + 2 * i
    BY <1>2 DEF Heads
  <2>3. CASE i = NSEM + 1
    <3>1. q + 2 = NQENT
      BY <2>1, <2>2, <2>3 DEF NQENT
    <3>2. NQENT \in NPROC .. NQENT
      BY <2>1 DEF NQENT
    <3>3. QED
      BY <1>3, <3>1, <3>2
  <2>4. CASE i # NSEM + 1
    <3>1. i + 1 \in 0 .. NSEM + 1 /\ q + 2 = NPROC + 2 * (i + 1)
      BY <2>1, <2>2, <2>4
    <3>2. q + 2 \in Heads
      BY <3>1 DEF Heads
    <3>3. q + 2 >= NPROC /\ q + 2 <= NQENT /\ q + 2 \in Int
      BY <1>2, <2>1, <3>2, HeadsApart, NodeFacts
    <3>4. QED
      BY <1>3, <3>2, <3>3, NodeFacts
  <2>5. QED
    BY <2>3, <2>4
<1>7. ListAt(qnext', qprev', q, <<>>)
  <2>1. QueueOf(Proc, <<>>) /\ Len(<<>>) = 0
    BY DEF QueueOf, IsInjective
  <2>2. Place(q, <<>>, 0) = q /\ Place(q, <<>>, 0 + 1) = q + 1
    BY <2>1 DEF Place, queuehead, queuetail
  <2>3. \A i \in 0 .. 0 : i = 0
    OBVIOUS
  <2>4. QED
    BY <2>1, <2>2, <2>3, <1>5 DEF ListAt
<1>8. ASSUME NEW r \in Made
      PROVE  /\ ListAt(qnext', qprev', r, Chain(r)) /\ key'[queuetail(r)] = MINKEY
             /\ r # q
  <2>1. /\ r \in Heads /\ r < q /\ ListAt(qnext, qprev, r, Chain(r))
        /\ key[queuetail(r)] = MINKEY
    BY DEF Made, IInv
  <2>2. /\ r \in Int /\ r \in Node /\ r + 1 \in Node /\ r + 1 # q /\ r + 2 <= q
    BY <1>2, <2>1, HeadsApart
  <2>3. r # q /\ r # q + 1 /\ r + 1 # q + 1
    BY <1>2, <2>1, <2>2
  <2>4. Range(Chain(r)) \subseteq Proc
    BY <2>1, MembersAt DEF ListAt, QueueOf
  <2>5. q \notin Nodes(r, Chain(r)) /\ q + 1 \notin Nodes(r, Chain(r))
    BY <1>4, <2>2, <2>3, <2>4 DEF Nodes, queuehead, queuetail
  <2>6. \A n \in Node : n \in Nodes(r, Chain(r)) => qnext'[n] = qnext[n] /\ qprev'[n] = qprev[n]
    BY <1>5, <2>5
  <2>7. ListAt(qnext', qprev', r, Chain(r))
    BY <2>1, <2>6, ListElsewhere
  <2>8. QED
    BY <1>5, <2>1, <2>2, <2>3, <2>7 DEF queuetail
<1>9. Chain(q)' = Chain(nextqid)' /\ Entries(qnext', q) = <<>>
  BY <1>2, <1>5, <1>7, EntriesAre
<1>10. PICK h : h = nextqid
  OBVIOUS
<1>11. Chain(h)' = <<>>
  BY <1>9, <1>10 DEF Chain
<1>12. \A r \in Made : Chain(r)' = Chain(r)
  <2>1. TAKE r \in Made
  <2>2. Entries(qnext', r) = Chain(r)
    BY <1>5, <1>8, EntriesAre DEF Made
  <2>3. QED
    BY <2>2 DEF Chain
<1>13. Made' = Made \cup {h}
  <2>1. \A r \in Heads : r < q + 2 <=> (r < q \/ r = q)
    <3>1. TAKE r \in Heads
    <3>2. r \in Int /\ (q < r => q + 2 <= r)
      BY <1>2, HeadsApart
    <3>3. QED
      BY <1>2, <3>2
  <2>2. QED
    BY <1>2, <1>3, <1>10, <2>1 DEF Made
<1>14. TypeOK'
  BY <1>5, <1>6 DEF TypeOK, Links
<1>15. ASSUME NEW r \in Made'
       PROVE  (ListAt(qnext, qprev, r, Chain(r)) /\ key[queuetail(r)] = MINKEY)'
  <2>1. CASE r \in Made
    BY <1>8, <1>12, <2>1 DEF queuetail, MINKEY, Inf
  <2>2. CASE r = h
    <3>1. ListAt(qnext', qprev', h, Chain(h)')
      BY <1>7, <1>10, <1>11
    <3>2. key'[h + 1] = MINKEY
      BY <1>5, <1>10
    <3>3. QED
      BY <2>2, <3>1, <3>2 DEF queuetail, MINKEY, Inf
  <2>3. QED
    BY <1>13, <2>1, <2>2
<1>16. ASSUME NEW r \in Made', NEW u \in Made', r # u
       PROVE  Range(Chain(r)') \cap Range(Chain(u)') = {}
  <2>1. Range(<<>>) = {}
    BY DEF Range
  <2>2. CASE r = h \/ u = h
    BY <1>11, <2>1, <2>2
  <2>3. CASE r # h /\ u # h
    BY <1>12, <1>13, <1>16, <2>3 DEF IInv
  <2>4. QED
    BY <2>2, <2>3
<1>17. IInv'
  BY <1>6, <1>14, <1>15, <1>16 DEF IInv
<1>18. lists' = lists
  <2>1. \A r \in Heads : (r < nextqid <=> r \in Made) /\ (r < nextqid' <=> r \in Made')
    BY DEF Made
  <2>2. \A r \in Heads : (IF r < nextqid' THEN Chain(r)' ELSE <<>>)
                            = (IF r < nextqid THEN Chain(r) ELSE <<>>)
    <3>1. TAKE r \in Heads
    <3>2. CASE r \in Made
      BY <1>12, <1>13, <2>1, <3>2
    <3>3. CASE r = h
      <4>1. r \notin Made
        BY <1>8, <1>10, <3>3
      <4>2. QED
        BY <1>11, <2>1, <3>3, <4>1
    <3>4. CASE r \notin Made /\ r # h
      BY <1>13, <2>1, <3>4
    <3>5. QED
      BY <3>2, <3>3, <3>4
  <2>3. QED
    BY <2>2 DEF lists
<1>19. ProcKeys' = ProcKeys
  <2>1. \A p \in Proc : key'[p] = key[p]
    BY <1>4, <1>5, NodeFacts
  <2>2. QED
    BY <2>1 DEF ProcKeys
<1>20. QED
  BY <1>17, <1>18, <1>19

\* What the keys of the queues need: those of processes change only.
LEMMA TailKeys ==
  ASSUME NEW r \in Heads
  PROVE  queuetail(r) \in Node /\ queuetail(r) \notin Proc
BY HeadsApart DEF queuetail

\* insert (insert.c) puts the process where Insert does.
LEMMA insertStep ==
  ASSUME IInv, NEW p \in Proc, NEW k \in Keys, insert(p, ReadyQ, k)
  PROVE  IInv' /\ AsQueues!Enter(p, k)
<1> DEFINE q == ReadyQ
<1>1. q \in Heads /\ k \in Nat
  BY AllQueues, QueueTabAssumption
<1>2. Booted /\ ~OnQueue(p) /\ nextqid' = nextqid /\ key' = [key EXCEPT ![p] = k]
  BY DEF insert
<1>3. PICK s : s = Chain(q)
  OBVIOUS
<1>4. PICK pos : pos = InsertPos(s, ProcKeys, k)
  OBVIOUS
<1> HIDE DEF q
<1>5. s \in Seq(Proc) /\ Len(s) \in 0 .. NPROC /\ key \in [Node -> Int]
  BY <1>1, <1>2, <1>3, OnTheWay, BootedFacts
<1>6. pos \in 1 .. Len(s) + 1
  BY <1>4, <1>5, InsertPosRange
<1>7. insertWalk(q, k)[NPROC] = Place(q, s, pos)
  BY <1>1, <1>2, <1>3, <1>4, insertStops
<1>8. qprev[Place(q, s, pos)] = Place(q, s, pos - 1)
  <2>1. pos - 1 \in 0 .. Len(s) /\ pos - 1 + 1 = pos
    BY <1>5, <1>6
  <2>2. \A i \in 0 .. Len(s) : qprev[Place(q, s, i + 1)] = Place(q, s, i)
    BY <1>1, <1>2, <1>3, OnTheWay
  <2>3. QED
    BY <2>1, <2>2
<1>9. Link(p, Place(q, s, pos - 1), Place(q, s, pos))
  BY <1>7, <1>8 DEF insert, q
<1>10. key' \in [Node -> Int] /\ \A r \in Heads : key'[queuetail(r)] = key[queuetail(r)]
  <2>1. k \in Int /\ p \in Node
    BY <1>1, NodeFacts
  <2>2. key' \in [Node -> Int] /\ \A n \in Node : n # p => key'[n] = key[n]
    BY <1>2, <1>5, <2>1
  <2>3. QED
    BY <2>2, TailKeys
<1>11. IInv' /\ lists' = [lists EXCEPT ![q] = InsertAt(s, pos, p)]
  BY <1>1, <1>2, <1>3, <1>6, <1>9, <1>10, ProcessComes
<1>12. ProcKeys' = [ProcKeys EXCEPT ![p] = k]
  BY <1>2, <1>5, NodeFacts DEF ProcKeys
<1>13. AsQueues!Insert(lists[q], p, ProcKeys, k) = InsertAt(s, pos, p)
  <2>1. lists[q] = s
    BY <1>1, <1>2, <1>3, BootedFacts
  <2>2. QED
    BY <1>4, <2>1, SameOps DEF Insert
<1>14. ~AsQueues!Queued(p)
  BY <1>2, SameQueued
<1>15. QED
  BY <1>11, <1>12, <1>13, <1>14 DEF AsQueues!Enter, AsQueues!Put, ProcKeys, q

\* insertd (insertd.c) puts the process where Insertd does, with the same keys.
LEMMA insertdStep ==
  ASSUME IInv, NEW p \in Proc, NEW d \in Delays, insertd(p, SleepQ, d)
  PROVE  IInv' /\ AsQueues!Sleep(p, d)
<1> DEFINE q == SleepQ
<1>1. q \in Heads /\ d \in Nat
  BY AllQueues, QueueTabAssumption
<1>2. Booted /\ ~OnQueue(p) /\ nextqid' = nextqid
  BY DEF insertd
<1>3. PICK s : s = Chain(q)
  OBVIOUS
<1>4. PICK pos : pos = InsertdPos(s, ProcKeys, d)
  OBVIOUS
<1>5. PICK left : left = d - Elapsed(s, ProcKeys)[pos - 1]
  OBVIOUS
<1> HIDE DEF q
<1>6. /\ s \in Seq(Proc) /\ Len(s) \in 0 .. NPROC /\ key \in [Node -> Int]
      /\ QueueOf(Proc, s) /\ Place(q, s, Len(s) + 1) = queuetail(q)
  BY <1>1, <1>2, <1>3, OnTheWay, BootedFacts
<1>7. \A i \in 1 .. Len(s) : /\ s[i] \in Proc /\ Place(q, s, i) = s[i] /\ s[i] # queuetail(q)
                             /\ ProcKeys[s[i]] \in Int /\ s[i] # p
  <2>1. \A i \in 1 .. Len(s) : /\ s[i] \in Proc /\ Place(q, s, i) = s[i] /\ s[i] # queuetail(q)
                               /\ ProcKeys[s[i]] \in Int
    BY <1>1, <1>2, <1>3, OnTheWay
  <2>2. p \notin Range(s)
    BY <1>1, <1>2, <1>3 DEF OnQueue
  <2>3. \A i \in 1 .. Len(s) : s[i] \in Range(s)
    BY <1>1, <1>6, PlaceFacts
  <2>4. QED
    BY <2>1, <2>2, <2>3
<1>8. pos \in 1 .. Len(s) + 1
  BY <1>4, <1>6, InsertdPosRange
<1>9. left \in Int
  <2>1. pos - 1 \in 0 .. Len(s)
    BY <1>6, <1>8
  <2>2. Elapsed(s, ProcKeys)[pos - 1] \in Int
    BY <1>6, <1>7, <2>1, ElapsedSums
  <2>3. QED
    BY <1>1, <1>5, <2>2
<1>10. insertdWalk(q, d)[NPROC] =
          [prev |-> Place(q, s, pos - 1), next |-> Place(q, s, pos), left |-> left]
  <2>1. d \in Int
    BY <1>1
  <2>2. QED
    BY <1>1, <1>2, <1>3, <1>4, <1>5, <2>1, insertdStops
<1>11. /\ Link(p, Place(q, s, pos - 1), Place(q, s, pos))
       /\ key' = [n \in Node |-> IF n = p THEN left
                                 ELSE IF n = Place(q, s, pos) /\ n # queuetail(q)
                                      THEN key[n] - left ELSE key[n]]
  BY <1>10 DEF insertd, q
<1>12. key' \in [Node -> Int]
  BY <1>6, <1>9, <1>11
<1>13. pos \in 1 .. Len(s) \/ pos = Len(s) + 1
  BY <1>6, <1>8
<1>14. \A r \in Heads : key'[queuetail(r)] = key[queuetail(r)]
  <2>1. TAKE r \in Heads
  <2>2. queuetail(r) \in Node /\ queuetail(r) # p /\ queuetail(r) \notin Proc
    BY TailKeys
  <2>3. ~(queuetail(r) = Place(q, s, pos) /\ queuetail(r) # queuetail(q))
    BY <1>6, <1>7, <1>13, <2>2
  <2>4. QED
    BY <1>11, <2>2, <2>3
<1>15. IInv' /\ lists' = [lists EXCEPT ![q] = InsertAt(s, pos, p)]
  BY <1>1, <1>2, <1>3, <1>8, <1>11, <1>12, <1>14, ProcessComes
<1>16. ProcKeys' = InsertdKeys(s, p, ProcKeys, d)
  <2>1. ASSUME NEW x \in Proc
        PROVE  key'[x] = IF x = p THEN left
                         ELSE IF pos <= Len(s) /\ x = s[pos] THEN key[x] - left ELSE key[x]
    <3>1. x \in Node /\ x # queuetail(q)
      BY <1>1, NodeFacts, TailKeys
    <3>2. x = Place(q, s, pos) /\ x # queuetail(q) <=> pos <= Len(s) /\ x = s[pos]
      <4>1. CASE pos \in 1 .. Len(s)
        BY <1>6, <1>7, <3>1, <4>1
      <4>2. CASE pos = Len(s) + 1
        BY <1>6, <3>1, <4>2
      <4>3. QED
        BY <1>13, <4>1, <4>2
    <3>3. QED
      BY <1>11, <3>1, <3>2
  <2>2. DOMAIN ProcKeys = Proc /\ \A x \in Proc : ProcKeys[x] = key[x]
    BY DEF ProcKeys
  <2>3. InsertdKeys(s, p, ProcKeys, d) =
           [x \in Proc |-> IF x = p THEN left
                           ELSE IF pos <= Len(s) /\ x = s[pos] THEN ProcKeys[x] - left
                           ELSE ProcKeys[x]]
    BY <1>4, <1>5, <2>2 DEF InsertdKeys
  <2>4. ProcKeys' = [x \in Proc |-> key'[x]]
    BY DEF ProcKeys
  <2>5. QED
    BY <2>1, <2>2, <2>3, <2>4
<1>17. /\ AsQueues!Insertd(lists[q], p, ProcKeys, d) = InsertAt(s, pos, p)
       /\ AsQueues!InsertdKeys(lists[q], p, ProcKeys, d) = InsertdKeys(s, p, ProcKeys, d)
  <2>1. lists[q] = s
    BY <1>1, <1>2, <1>3, BootedFacts
  <2>2. QED
    BY <1>4, <2>1, SameOps DEF Insertd
<1>18. ~AsQueues!Queued(p)
  BY <1>2, SameQueued
<1>19. QED
  BY <1>15, <1>16, <1>17, <1>18 DEF AsQueues!Sleep, AsQueues!Put, ProcKeys, q

\* enqueue (queue.c) puts the process at the end.
LEMMA enqueueStep ==
  ASSUME IInv, NEW p \in Proc, NEW q \in FifoQs, enqueue(p, q)
  PROVE  IInv' /\ AsQueues!Join(p, q)
<1>1. q \in Heads
  BY AllQueues
<1>2. Booted /\ ~OnQueue(p) /\ nextqid' = nextqid /\ key' = key
  BY DEF enqueue
<1>3. PICK s : s = Chain(q)
  OBVIOUS
<1>4. /\ QueueOf(Proc, s) /\ Len(s) \in 0 .. NPROC /\ key \in [Node -> Int]
      /\ lastid(q) = Place(q, s, Len(s)) /\ queuetail(q) = Place(q, s, Len(s) + 1)
  BY <1>1, <1>2, <1>3, OnTheWay, BootedFacts
<1>5. PICK pos \in 1 .. Len(s) + 1 : pos = Len(s) + 1 /\ pos - 1 = Len(s)
  BY <1>4
<1>6. Link(p, Place(q, s, pos - 1), Place(q, s, pos))
  BY <1>4, <1>5 DEF enqueue
<1>7. IInv' /\ lists' = [lists EXCEPT ![q] = InsertAt(s, pos, p)]
  BY <1>1, <1>2, <1>3, <1>4, <1>6, ProcessComes
<1>8. lists[q] = s /\ Append(s, p) = InsertAt(s, pos, p)
  <2>1. Append(s, p) = InsertAt(s, Len(s) + 1, p)
    BY <1>4, EndsOf
  <2>2. QED
    BY <1>1, <1>2, <1>3, <1>5, <2>1, BootedFacts
<1>9. ~AsQueues!Queued(p)
  BY <1>2, SameQueued
<1>10. ProcKeys' = ProcKeys
  BY <1>2 DEF ProcKeys
<1>11. QED
  BY <1>7, <1>8, <1>9, <1>10 DEF AsQueues!Join, AsQueues!Put, ProcKeys

\* getitem (getitem.c) takes out the process at place i.
LEMMA getitemStep ==
  ASSUME IInv, Booted, NEW q \in Heads, NEW s, s = Chain(q), NEW i \in 1 .. Len(s),
         NEW p, p = s[i], getitem(p), nextqid' = nextqid,
         key' \in [Node -> Int], \A r \in Heads : key'[queuetail(r)] = key[queuetail(r)]
  PROVE  IInv' /\ lists' = [lists EXCEPT ![q] = RemoveAt(s, i)]
<1>1. qnext \in Links /\ qprev \in Links /\ ListAt(qnext, qprev, q, s)
  BY BootedFacts
<1>2. /\ qnext[p] \in Node /\ qprev[p] \in Node /\ p \in Node
  <2>1. s[i] \in Proc /\ qnext[s[i]] = Place(q, s, i + 1) /\ qprev[s[i]] = Place(q, s, i - 1)
    BY OnTheWay
  <2>2. QueueOf(Proc, s) /\ Len(s) \in Nat
    BY <1>1, PlaceFacts DEF ListAt
  <2>3. i + 1 \in 0 .. Len(s) + 1 /\ i - 1 \in 0 .. Len(s) + 1
    BY <2>2
  <2>4. Place(q, s, i + 1) \in Node /\ Place(q, s, i - 1) \in Node
    BY <2>2, <2>3, PlaceFacts
  <2>5. QED
    BY <2>1, <2>4, NodeFacts
<1>3. /\ qnext' = [qnext EXCEPT ![qprev[p]] = qnext[p]]
      /\ qprev' = [qprev EXCEPT ![qnext[p]] = qprev[p]]
  BY DEF getitem
<1>4. /\ qnext' \in Links /\ qprev' \in Links
      /\ qnext'[qprev[p]] = qnext[p] /\ qprev'[qnext[p]] = qprev[p]
      /\ \A n \in Node : n # p /\ n # qprev[p] => qnext'[n] = qnext[n]
      /\ \A n \in Node : n # p /\ n # qnext[p] => qprev'[n] = qprev[n]
  BY <1>1, <1>2, <1>3 DEF Links
<1>5. QED
  BY <1>4, ProcessGoes

\* Taking a process out of any queue but the sleep queue.
LEMMA RemoveItemStep ==
  ASSUME IInv, NEW p \in Proc, NEW q \in Heads, RemoveItem(p, q)
  PROVE  IInv' /\ AsQueues!Take(p, q)
<1>1. /\ Booted /\ q # SleepQ /\ p \in Range(Chain(q)) /\ getitem(p)
      /\ nextqid' = nextqid /\ key' = key
  BY DEF RemoveItem
<1>2. PICK s : s = Chain(q)
  OBVIOUS
<1>3. QueueOf(Proc, s) /\ key \in [Node -> Int] /\ lists[q] = s
  BY <1>1, <1>2, BootedFacts
<1>4. PICK i : i = PosOf(s, p)
  OBVIOUS
<1>5. i \in 1 .. Len(s) /\ s[i] = p
  <2>1. Range(s) = {s[j] : j \in 1 .. Len(s)}
    BY <1>3, MembersAt DEF QueueOf
  <2>2. \E j \in 1 .. Len(s) : s[j] = p
    BY <1>1, <1>2, <2>1
  <2>3. QED
    BY <1>4, <2>2 DEF PosOf
<1>6. IInv' /\ lists' = [lists EXCEPT ![q] = RemoveAt(s, i)]
  BY <1>1, <1>2, <1>3, <1>5, getitemStep
<1>7. /\ AsQueues!GetItem(lists[q], p) = RemoveAt(s, i)
      /\ AsQueues!Range(lists[q]) = Range(s)
  BY <1>3, <1>4, SameOps DEF GetItem
<1>8. ProcKeys' = ProcKeys
  BY <1>1 DEF ProcKeys
<1>9. QED
  BY <1>1, <1>2, <1>6, <1>7, <1>8 DEF AsQueues!Take, AsQueues!Put, ProcKeys

\* unsleep (unsleep.c) takes a process out and passes its time on.
LEMMA unsleepStep ==
  ASSUME IInv, NEW p \in Proc, unsleep(p)
  PROVE  IInv' /\ AsQueues!Take(p, SleepQ)
<1> DEFINE q == SleepQ
<1>1. q \in Heads
  BY AllQueues
<1>2. /\ Booted /\ p \in Range(Chain(q)) /\ getitem(p) /\ nextqid' = nextqid
      /\ key' = IF qnext[p] < NPROC THEN [key EXCEPT ![qnext[p]] = @ + key[p]] ELSE key
  BY DEF unsleep
<1> HIDE DEF q
<1>3. PICK s : s = Chain(q)
  OBVIOUS
<1>4. /\ QueueOf(Proc, s) /\ s \in Seq(Proc) /\ Len(s) \in Nat /\ key \in [Node -> Int]
      /\ lists[q] = s /\ Place(q, s, Len(s) + 1) = queuetail(q)
  <2>1. QueueOf(Proc, s) /\ Place(q, s, Len(s) + 1) = queuetail(q)
    BY <1>1, <1>2, <1>3, OnTheWay
  <2>2. s \in Seq(Proc) /\ Len(s) \in Nat
    BY <2>1, LenProperties DEF QueueOf
  <2>3. QED
    BY <1>1, <1>2, <1>3, <2>1, <2>2, BootedFacts
<1>5. PICK i : i = PosOf(s, p)
  OBVIOUS
<1>6. i \in 1 .. Len(s) /\ s[i] = p
  <2>1. Range(s) = {s[j] : j \in 1 .. Len(s)}
    BY <1>4, MembersAt
  <2>2. \E j \in 1 .. Len(s) : s[j] = p
    BY <1>2, <1>3, <2>1
  <2>3. QED
    BY <1>5, <2>2 DEF PosOf
<1>7. \A j \in 1 .. Len(s) : s[j] \in Proc /\ Place(q, s, j) = s[j]
  BY <1>1, <1>4, PlaceFacts
<1>8. qnext[p] = Place(q, s, i + 1)
  BY <1>1, <1>2, <1>3, <1>6, OnTheWay
<1>9. /\ i < Len(s) => qnext[p] = s[i + 1] /\ s[i + 1] \in Proc
      /\ ~(i < Len(s)) => qnext[p] = queuetail(q)
  <2>1. i < Len(s) => i + 1 \in 1 .. Len(s)
    BY <1>4, <1>6
  <2>2. ~(i < Len(s)) => i = Len(s)
    BY <1>4, <1>6
  <2>3. QED
    BY <1>4, <1>7, <1>8, <2>1, <2>2
<1>10. /\ qnext[p] \in Node
       /\ qnext[p] < NPROC <=> i < Len(s)
  <2>1. CASE i < Len(s)
    BY <1>9, <2>1, NodeFacts
  <2>2. CASE ~(i < Len(s))
    <3>1. queuetail(q) \in Node /\ queuetail(q) \notin Proc
      BY <1>1, TailKeys
    <3>2. QED
      BY <1>9, <2>2, <3>1, NodeFacts
  <2>3. QED
    BY <2>1, <2>2
<1>11. /\ key' \in [Node -> Int]
       /\ \A n \in Node : key'[n] = IF i < Len(s) /\ n = s[i + 1] THEN key[n] + key[p] ELSE key[n]
  <2>1. p \in Node
    BY NodeFacts
  <2>2. CASE i < Len(s)
    <3>1. key' = [key EXCEPT ![qnext[p]] = @ + key[p]] /\ s[i + 1] = qnext[p]
      BY <1>2, <1>9, <1>10, <2>2
    <3>2. QED
      BY <1>4, <1>10, <2>1, <2>2, <3>1
  <2>3. CASE ~(i < Len(s))
    <3>1. key' = key
      BY <1>2, <1>10, <2>3
    <3>2. QED
      BY <1>4, <2>3, <3>1
  <2>4. QED
    BY <2>2, <2>3
<1>12. \A r \in Heads : key'[queuetail(r)] = key[queuetail(r)]
  BY <1>9, <1>11, TailKeys
<1>13. IInv' /\ lists' = [lists EXCEPT ![q] = RemoveAt(s, i)]
  BY <1>1, <1>2, <1>3, <1>6, <1>11, <1>12, getitemStep
<1>14. ProcKeys' = UnsleepKeys(s, p, ProcKeys)
  <2>1. ProcKeys' = [x \in Proc |-> key'[x]] /\ ProcKeys = [x \in Proc |-> key[x]]
    BY DEF ProcKeys
  <2>2. \A x \in Proc : key'[x] = IF i < Len(s) /\ x = s[i + 1] THEN key[x] + key[p] ELSE key[x]
    BY <1>11, NodeFacts
  <2>3. UnsleepKeys(s, p, ProcKeys) =
           IF i < Len(s) THEN [ProcKeys EXCEPT ![s[i + 1]] = @ + ProcKeys[p]] ELSE ProcKeys
    BY <1>5 DEF UnsleepKeys
  <2>4. CASE i < Len(s)
    <3>1. s[i + 1] \in Proc
      BY <1>9, <2>4
    <3>2. [ProcKeys EXCEPT ![s[i + 1]] = @ + ProcKeys[p]] =
             [x \in Proc |-> IF x = s[i + 1] THEN key[x] + key[p] ELSE key[x]]
      BY <2>1, <3>1
    <3>3. QED
      BY <2>1, <2>2, <2>3, <2>4, <3>2
  <2>5. CASE ~(i < Len(s))
    BY <2>1, <2>2, <2>3, <2>5
  <2>6. QED
    BY <2>4, <2>5
<1>15. /\ AsQueues!GetItem(lists[q], p) = RemoveAt(s, i)
       /\ AsQueues!Range(lists[q]) = Range(s)
       /\ AsQueues!UnsleepKeys(lists[q], p, ProcKeys) = UnsleepKeys(s, p, ProcKeys)
  BY <1>4, <1>5, SameOps DEF GetItem
<1>16. QED
  BY <1>2, <1>3, <1>13, <1>14, <1>15 DEF AsQueues!Take, AsQueues!Put, ProcKeys, q

\* The first and the last entry of a queue that is not empty.
LEMMA FirstAndLast ==
  ASSUME IInv, Booted, NEW q \in Heads, ~isempty(q), NEW s, s = Chain(q)
  PROVE  /\ QueueOf(Proc, s) /\ lists[q] = s /\ key \in [Node -> Int] /\ s # <<>>
         /\ 1 \in 1 .. Len(s) /\ Len(s) \in 1 .. Len(s)
         /\ firstid(q) = s[1] /\ lastid(q) = s[Len(s)]
         /\ Tail(s) = RemoveAt(s, 1) /\ Front(s) = RemoveAt(s, Len(s)) /\ Head(s) = s[1]
<1>1. /\ QueueOf(Proc, s) /\ lists[q] = s /\ key \in [Node -> Int]
      /\ firstid(q) = Place(q, s, 1) /\ lastid(q) = Place(q, s, Len(s))
  BY OnTheWay, BootedFacts
<1>2. s # <<>>
  BY EmptyIs
<1>3. /\ 1 \in 1 .. Len(s) /\ Len(s) \in 1 .. Len(s)
      /\ Tail(s) = RemoveAt(s, 1) /\ Front(s) = RemoveAt(s, Len(s)) /\ Head(s) = s[1]
  BY <1>1, <1>2, EndsOf
<1>4. Place(q, s, 1) = s[1] /\ Place(q, s, Len(s)) = s[Len(s)]
  BY <1>1, <1>3, PlaceFacts
<1>5. QED
  BY <1>1, <1>2, <1>3, <1>4

\* getfirst and getlast (getitem.c) take out the ends of a queue.
LEMMA getfirstStep ==
  ASSUME IInv, NEW q \in Heads, getfirst(q)
  PROVE  IInv' /\ AsQueues!TakeFirst(q)
<1>1. Booted /\ ~isempty(q) /\ getitem(firstid(q)) /\ nextqid' = nextqid /\ key' = key
  BY DEF getfirst
<1>2. PICK s : s = Chain(q)
  OBVIOUS
<1>3. /\ lists[q] = s /\ key \in [Node -> Int] /\ s # <<>> /\ 1 \in 1 .. Len(s)
      /\ firstid(q) = s[1] /\ Tail(s) = RemoveAt(s, 1)
  BY <1>1, <1>2, FirstAndLast
<1>4. getitem(s[1])
  BY <1>1, <1>3
<1>5. IInv' /\ lists' = [lists EXCEPT ![q] = RemoveAt(s, 1)]
  BY <1>1, <1>2, <1>3, <1>4, getitemStep
<1>6. ProcKeys' = ProcKeys
  BY <1>1 DEF ProcKeys
<1>7. QED
  BY <1>3, <1>5, <1>6 DEF AsQueues!TakeFirst, AsQueues!Put, ProcKeys

LEMMA getlastStep ==
  ASSUME IInv, NEW q \in Heads, getlast(q)
  PROVE  IInv' /\ AsQueues!TakeLast(q)
<1>1. Booted /\ ~isempty(q) /\ getitem(lastid(q)) /\ nextqid' = nextqid /\ key' = key
  BY DEF getlast
<1>2. PICK s : s = Chain(q)
  OBVIOUS
<1>3. /\ lists[q] = s /\ key \in [Node -> Int] /\ s # <<>> /\ Len(s) \in 1 .. Len(s)
      /\ lastid(q) = s[Len(s)] /\ Front(s) = RemoveAt(s, Len(s))
  BY <1>1, <1>2, FirstAndLast
<1>4. getitem(s[Len(s)])
  BY <1>1, <1>3
<1>5. IInv' /\ lists' = [lists EXCEPT ![q] = RemoveAt(s, Len(s))]
  BY <1>1, <1>2, <1>3, <1>4, getitemStep
<1>6. ProcKeys' = ProcKeys
  BY <1>1 DEF ProcKeys
<1>7. AsQueues!Front(lists[q]) = RemoveAt(s, Len(s))
  BY <1>3, SameOps
<1>8. QED
  BY <1>3, <1>5, <1>6, <1>7 DEF AsQueues!TakeLast, AsQueues!Put, ProcKeys

\* dequeue (queue.c) takes out the first entry, and clears its links.
LEMMA dequeueStep ==
  ASSUME IInv, NEW q \in Heads, dequeue(q)
  PROVE  IInv' /\ AsQueues!TakeFirst(q)
<1>1. PICK p : p = firstid(q)
  OBVIOUS
<1>2. /\ Booted /\ ~isempty(q) /\ nextqid' = nextqid /\ key' = key
      /\ qnext' = [qnext EXCEPT ![qprev[p]] = qnext[p], ![p] = EMPTY]
      /\ qprev' = [qprev EXCEPT ![qnext[p]] = qprev[p], ![p] = EMPTY]
  BY <1>1 DEF dequeue
<1>3. PICK s : s = Chain(q)
  OBVIOUS
<1>4. /\ QueueOf(Proc, s) /\ lists[q] = s /\ key \in [Node -> Int] /\ s # <<>>
      /\ 1 \in 1 .. Len(s) /\ p = s[1] /\ Tail(s) = RemoveAt(s, 1)
  BY <1>1, <1>2, <1>3, FirstAndLast
<1>5. qnext \in Links /\ qprev \in Links
  BY <1>2, BootedFacts
<1>6. /\ qnext[p] \in Node /\ qprev[p] \in Node /\ p \in Node
      /\ qnext[p] # p /\ qprev[p] # p
  <2>1. qnext[p] = Place(q, s, 1 + 1) /\ qprev[p] = Place(q, s, 1 - 1)
    BY <1>2, <1>3, <1>4, OnTheWay
  <2>2. p = Place(q, s, 1) /\ Len(s) \in Nat
    BY <1>4, PlaceFacts
  <2>3. /\ 0 \in 0 .. Len(s) + 1 /\ 1 \in 0 .. Len(s) + 1 /\ 2 \in 0 .. Len(s) + 1
        /\ 1 + 1 = 2 /\ 1 - 1 = 0
    BY <1>4, <2>2
  <2>4. QueueOf(Proc, s)
    BY <1>4
  <2>5. \A i \in 0 .. Len(s) + 1 : Place(q, s, i) \in Node
    BY <2>4, PlaceFacts
  <2>6. \A i, j \in 0 .. Len(s) + 1 : Place(q, s, i) = Place(q, s, j) => i = j
    BY <2>4, PlaceFacts
  <2>7. QED
    BY <2>1, <2>2, <2>3, <2>5, <2>6
<1>7. EMPTY \in Node \cup {EMPTY}
  OBVIOUS
<1>8. /\ qnext' \in Links /\ qprev' \in Links
      /\ qnext'[qprev[p]] = qnext[p] /\ qprev'[qnext[p]] = qprev[p]
      /\ \A n \in Node : n # p /\ n # qprev[p] => qnext'[n] = qnext[n]
      /\ \A n \in Node : n # p /\ n # qnext[p] => qprev'[n] = qprev[n]
  BY <1>2, <1>5, <1>6, <1>7 DEF Links
<1>9. \A r \in Heads : key'[queuetail(r)] = key[queuetail(r)]
  BY <1>2
<1>10. IInv' /\ lists' = [lists EXCEPT ![q] = RemoveAt(s, 1)]
  <2>1. qnext'[qprev[s[1]]] = qnext[s[1]] /\ qprev'[qnext[s[1]]] = qprev[s[1]]
    BY <1>4, <1>8
  <2>2. \A n \in Node : n # s[1] /\ n # qprev[s[1]] => qnext'[n] = qnext[n]
    BY <1>4, <1>8
  <2>3. \A n \in Node : n # s[1] /\ n # qnext[s[1]] => qprev'[n] = qprev[n]
    BY <1>4, <1>8
  <2>4. /\ qnext' \in Links /\ qprev' \in Links /\ key' \in [Node -> Int]
        /\ nextqid' = nextqid /\ Booted /\ 1 \in 1 .. Len(s) /\ s = Chain(q)
    BY <1>2, <1>3, <1>4, <1>8
  <2>5. QED
    BY <1>9, <2>1, <2>2, <2>3, <2>4, ProcessGoes
<1>11. ProcKeys' = ProcKeys
  BY <1>2 DEF ProcKeys
<1>12. QED
  BY <1>4, <1>10, <1>11 DEF AsQueues!TakeFirst, AsQueues!Put, ProcKeys

\* The clock (clkhandler.c) counts the first key of the sleep queue.
LEMMA TickFirstStep ==
  ASSUME IInv, TickFirst
  PROVE  IInv' /\ AsQueues!TickFirst
<1> DEFINE q == SleepQ
<1>1. q \in Heads
  BY AllQueues
<1>2. PICK p : p = firstid(q)
  OBVIOUS
<1>3. /\ Booted /\ ~isempty(q) /\ key' = [key EXCEPT ![p] = @ - 1]
      /\ qnext' = qnext /\ qprev' = qprev /\ nextqid' = nextqid
  BY <1>2 DEF TickFirst
<1> HIDE DEF q
<1>4. PICK s : s = Chain(q)
  OBVIOUS
<1>5. /\ QueueOf(Proc, s) /\ lists[q] = s /\ key \in [Node -> Int] /\ s # <<>>
      /\ 1 \in 1 .. Len(s) /\ p = s[1] /\ Head(s) = s[1]
  BY <1>1, <1>2, <1>3, <1>4, FirstAndLast
<1>6. p \in Proc /\ p \in Node
  BY <1>1, <1>5, PlaceFacts, NodeFacts
<1>7. key' \in [Node -> Int] /\ \A n \in Node : n # p => key'[n] = key[n]
  BY <1>3, <1>5, <1>6
<1>8. \A r \in Heads : key'[queuetail(r)] = key[queuetail(r)]
  BY <1>6, <1>7, TailKeys
<1>9. \A r \in Heads : Chain(r)' = Chain(r)
  BY <1>3 DEF Chain
<1>10. IInv'
  <2>1. TypeOK' /\ Made' = Made /\ (nextqid \in Heads \cup {NQENT})'
    BY <1>3, <1>7 DEF IInv, TypeOK, Made
  <2>2. ASSUME NEW r \in Made
        PROVE  (ListAt(qnext, qprev, r, Chain(r)) /\ key[queuetail(r)] = MINKEY)'
    <3>1. r \in Heads /\ ListAt(qnext, qprev, r, Chain(r)) /\ key[queuetail(r)] = MINKEY
      BY DEF IInv, Made
    <3>2. ListAt(qnext', qprev', r, Chain(r)')
      BY <1>3, <1>9, <3>1
    <3>3. key'[queuetail(r)] = MINKEY
      BY <1>8, <3>1
    <3>4. QED
      BY <3>2, <3>3 DEF queuetail, MINKEY, Inf
  <2>3. ASSUME NEW r \in Made, NEW u \in Made, r # u
        PROVE  Range(Chain(r)') \cap Range(Chain(u)') = {}
    BY <1>9, <2>3 DEF IInv, Made
  <2>4. QED
    BY <2>1, <2>2, <2>3 DEF IInv
<1>11. lists' = lists
  BY <1>3, <1>9 DEF lists
<1>12. ProcKeys' = [ProcKeys EXCEPT ![p] = @ - 1]
  BY <1>3, <1>5, <1>6, NodeFacts DEF ProcKeys
<1>13. QED
  BY <1>5, <1>10, <1>11, <1>12 DEF AsQueues!TickFirst, ProcKeys, q

-----------------------------------------------------------------------------
(* The theorems.                                                           *)

\* Every step keeps the invariant and is a step of Queues, or leaves its
\* queues and keys as they are.
LEMMA TableStep ==
  ASSUME IInv, [Next]_tabVars
  PROVE  IInv' /\ [AsQueues!Next]_<<lists, ProcKeys>>
<1>1. CASE UNCHANGED tabVars
  <2>1. /\ qnext' = qnext /\ qprev' = qprev /\ key' = key /\ nextqid' = nextqid
    BY <1>1 DEF tabVars
  <2>2. \A q \in Heads : Chain(q)' = Chain(q)
    BY <2>1 DEF Chain
  <2>3. lists' = lists /\ ProcKeys' = ProcKeys /\ Made' = Made
    BY <2>1, <2>2 DEF lists, ProcKeys, Made
  <2>4. IInv'
    <3>1. TypeOK' /\ (nextqid \in Heads \cup {NQENT})'
      BY <2>1 DEF IInv, TypeOK
    <3>2. ASSUME NEW r \in Made
          PROVE  (ListAt(qnext, qprev, r, Chain(r)) /\ key[queuetail(r)] = MINKEY)'
      <4>1. r \in Heads /\ ListAt(qnext, qprev, r, Chain(r)) /\ key[queuetail(r)] = MINKEY
        BY DEF IInv, Made
      <4>2. ListAt(qnext', qprev', r, Chain(r)') /\ key'[queuetail(r)] = MINKEY
        BY <2>1, <2>2, <4>1
      <4>3. QED
        BY <4>2 DEF queuetail, MINKEY, Inf
    <3>3. ASSUME NEW r \in Made, NEW u \in Made, r # u
          PROVE  Range(Chain(r)') \cap Range(Chain(u)') = {}
      BY <2>2, <3>3 DEF IInv, Made
    <3>4. QED
      BY <2>3, <3>1, <3>2, <3>3 DEF IInv
  <2>5. QED
    BY <2>3, <2>4
<1>2. CASE newqueue
  BY <1>2, newqueueStep
<1>3. CASE \E p \in Proc : \E k \in Keys : insert(p, ReadyQ, k)
  BY <1>3, insertStep DEF AsQueues!Next
<1>4. CASE \E p \in Proc : \E d \in Delays : insertd(p, SleepQ, d)
  BY <1>4, insertdStep DEF AsQueues!Next
<1>5. CASE \E p \in Proc : \E q \in FifoQs : enqueue(p, q)
  BY <1>5, enqueueStep DEF AsQueues!Next
<1>6. CASE \E p \in Proc : \E q \in Heads : RemoveItem(p, q)
  BY <1>6, RemoveItemStep, AllQueues DEF AsQueues!Next
<1>7. CASE \E p \in Proc : unsleep(p)
  BY <1>7, unsleepStep, AllQueues DEF AsQueues!Next
<1>8. CASE \E q \in Heads : dequeue(q)
  BY <1>8, dequeueStep, AllQueues DEF AsQueues!Next
<1>9. CASE \E q \in FifoQs : getfirst(q) \/ getlast(q)
  BY <1>9, getfirstStep, getlastStep, AllQueues DEF AsQueues!Next
<1>10. CASE TickFirst
  BY <1>10, TickFirstStep DEF AsQueues!Next
<1>11. QED
  BY <1>1, <1>2, <1>3, <1>4, <1>5, <1>6, <1>7, <1>8, <1>9, <1>10 DEF Next

\* At the start there is no queue.
LEMMA TableStart ==
  ASSUME Init
  PROVE  IInv /\ AsQueues!Init
<1>1. NPROC \in Nat \ {0} /\ NSEM \in Nat /\ NQENT \in Nat /\ NPROC <= NQENT
  BY NodeFacts DEF NQENT
<1>2. \A q \in Heads : q \in Int /\ q >= NPROC
  BY HeadsApart
<1>3. Made = {}
  BY <1>1, <1>2 DEF Init, Made
<1>4. NPROC \in Heads
  <2>1. 0 \in 0 .. NSEM + 1 /\ NPROC = NPROC + 2 * 0
    BY <1>1
  <2>2. QED
    BY <2>1 DEF Heads
<1>5. TypeOK
  <2>1. 0 \in Node
    BY <1>1 DEF Node, NQENT
  <2>2. nextqid \in NPROC .. NQENT
    BY <1>1 DEF Init
  <2>3. QED
    BY <2>1, <2>2 DEF Init, TypeOK
<1>6. IInv
  BY <1>3, <1>4, <1>5 DEF IInv, Init
<1>7. AsQueues!Init
  <2>1. \A q \in Heads : ~(q < nextqid)
    BY <1>1, <1>2 DEF Init
  <2>2. lists = [q \in Heads |-> <<>>]
    BY <2>1 DEF lists
  <2>3. ProcKeys \in [Proc -> Int]
    BY <1>5, NodeFacts DEF TypeOK, ProcKeys
  <2>4. QED
    BY <2>2, <2>3, AllQueues DEF AsQueues!Init, ProcKeys
<1>8. QED
  BY <1>6, <1>7

\* The nodes on the way from head to tail, as LinkedBothWays lists them.
LEMMA ListIsLinked ==
  ASSUME IInv, Booted, NEW q \in Heads
  PROVE  LET path == <<queuehead(q)>> \o Chain(q) \o <<queuetail(q)>>
         IN  \A i \in 1 .. Len(path) - 1 :
                qnext[path[i]] = path[i + 1] /\ qprev[path[i + 1]] = path[i]
<1>1. PICK s : s = Chain(q)
  OBVIOUS
<1>2. PICK h \in Node : h = queuehead(q)
  BY HeadsApart DEF queuehead
<1>3. PICK t \in Node : t = queuetail(q)
  BY HeadsApart DEF queuetail
<1>4. s \in Seq(Node) /\ Len(s) \in Nat
  <2>1. s \in Seq(Proc) /\ Proc \subseteq Node
    BY <1>1, NodeFacts, OnTheWay
  <2>2. QED
    BY <2>1, SeqMonotonic, LenProperties
<1> DEFINE path == <<h>> \o s \o <<t>>
<1>5. Len(path) = Len(s) + 2 /\ \A i \in 1 .. Len(s) + 2 : path[i] = Place(q, s, i - 1)
  <2> DEFINE hs == <<h>> \o s
  <2>1. /\ <<h>> \in Seq(Node) /\ Len(<<h>>) = 1 /\ <<h>>[1] = h
        /\ <<t>> \in Seq(Node) /\ Len(<<t>>) = 1 /\ <<t>>[1] = t
    OBVIOUS
  <2>2. /\ hs \in Seq(Node) /\ Len(hs) = Len(<<h>>) + Len(s)
        /\ \A i \in 1 .. Len(<<h>>) + Len(s) :
              hs[i] = IF i <= Len(<<h>>) THEN <<h>>[i] ELSE s[i - Len(<<h>>)]
    BY <1>4, <2>1, ConcatProperties
  <2> HIDE DEF hs
  <2>3. /\ Len(hs \o <<t>>) = Len(hs) + Len(<<t>>)
        /\ \A i \in 1 .. Len(hs) + Len(<<t>>) :
              (hs \o <<t>>)[i] = IF i <= Len(hs) THEN hs[i] ELSE <<t>>[i - Len(hs)]
    BY <2>1, <2>2, ConcatProperties
  <2>4. path = hs \o <<t>>
    BY DEF hs
  <2>5. Len(hs) = Len(s) + 1 /\ Len(path) = Len(s) + 2
    BY <1>4, <2>1, <2>2, <2>3, <2>4
  <2> HIDE DEF path
  <2>6. ASSUME NEW i \in 1 .. Len(s) + 2
        PROVE  path[i] = Place(q, s, i - 1)
    <3>1. CASE i = 1
      <4>1. hs[1] = h /\ (hs \o <<t>>)[1] = hs[1]
        BY <1>4, <2>1, <2>2, <2>3, <2>5
      <4>2. QED
        BY <1>2, <2>4, <3>1, <4>1 DEF Place
    <3>2. CASE i \in 2 .. Len(s) + 1
      <4>1. hs[i] = s[i - 1] /\ (hs \o <<t>>)[i] = hs[i]
        BY <1>4, <2>1, <2>2, <2>3, <2>5, <3>2
      <4>2. i - 1 # 0 /\ i - 1 # Len(s) + 1
        BY <1>4, <3>2
      <4>3. QED
        BY <2>4, <4>1, <4>2 DEF Place
    <3>3. CASE i = Len(s) + 2
      <4>1. (hs \o <<t>>)[i] = t
        BY <1>4, <2>1, <2>2, <2>3, <2>5, <3>3
      <4>2. i - 1 # 0 /\ i - 1 = Len(s) + 1
        BY <1>4, <3>3
      <4>3. QED
        BY <1>3, <2>4, <4>1, <4>2 DEF Place
    <3>4. QED
      BY <1>4, <3>1, <3>2, <3>3
  <2>7. QED
    BY <2>5, <2>6
<1> HIDE DEF path
<1>6. ASSUME NEW i \in 1 .. Len(path) - 1
      PROVE  qnext[path[i]] = path[i + 1] /\ qprev[path[i + 1]] = path[i]
  <2>1. i - 1 \in 0 .. Len(s) /\ i - 1 + 1 = i /\ i \in 1 .. Len(s) + 2 /\ i + 1 \in 1 .. Len(s) + 2
    BY <1>4, <1>5
  <2>2. path[i] = Place(q, s, i - 1) /\ path[i + 1] = Place(q, s, i)
    <3>1. i + 1 - 1 = i
      BY <2>1
    <3>2. QED
      BY <1>5, <2>1, <3>1
  <2>3. qnext[Place(q, s, i - 1)] = Place(q, s, i) /\ qprev[Place(q, s, i)] = Place(q, s, i - 1)
    <3>1. \A j \in 0 .. Len(s) : /\ qnext[Place(q, s, j)] = Place(q, s, j + 1)
                                 /\ qprev[Place(q, s, j + 1)] = Place(q, s, j)
      BY <1>1, OnTheWay
    <3>2. QED
      BY <2>1, <3>1
  <2>4. QED
    BY <2>2, <2>3
<1>7. QED
  BY <1>1, <1>2, <1>3, <1>6 DEF path

\* The invariant says what TableOK says.
LEMMA TableIs ==
  ASSUME IInv
  PROVE  TableOK
<1>1. LinkedBothWays
  BY ListIsLinked DEF LinkedBothWays
<1>2. QED
  BY <1>1 DEF TableOK, IInv

\* IInv holds in every reachable state of the table.
THEOREM TableInvariant == Spec => []IInv
<1>1. Init => IInv
  BY TableStart
<1>2. IInv /\ [Next]_tabVars => IInv'
  BY TableStep
<1>3. QED
  BY <1>1, <1>2, PTL DEF Spec

\* After the start every chain of links is a list in both directions, of
\* processes that are on no other list, whatever is called (queue.c, insert.c,
\* insertd.c, getitem.c, unsleep.c), for any NPROC and NSEM.
THEOREM ListsStayLinked == Spec => []TableOK
<1>1. IInv => TableOK
  BY TableIs
<1>2. QED
  BY <1>1, TableInvariant, PTL

\* queuetab implements the queues of module Queues: insert, insertd, enqueue,
\* dequeue, getitem and unsleep do to the links what Queues does to sequences.
THEOREM QueuesAreImplemented == Spec => ImplementsQueues
<1>1. Init => AsQueues!Init
  BY TableStart
<1>2. IInv /\ [Next]_tabVars => [AsQueues!Next]_<<lists, ProcKeys>>
  BY TableStep
<1>3. IInv /\ [Next]_tabVars => [AsQueues!Next]_(AsQueues!queueVars)
  BY <1>2 DEF AsQueues!queueVars, ProcKeys
<1>4. Spec => AsQueues!Spec
  BY <1>1, <1>3, TableInvariant, PTL DEF Spec, AsQueues!Spec
<1>5. QED
  BY <1>4 DEF ImplementsQueues

=============================================================================
