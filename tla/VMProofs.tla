------------------------------- MODULE VMProofs -------------------------------
(***************************************************************************)
(* Proofs about the virtual memory, for any number of processes, frames    *)
(* and table entries.                                                      *)
(*                                                                         *)
(* vfree clears the entries that follow in memory.  For a heap that        *)
(* vmalloc continued in another table these may be entries of anything,    *)
(* the directory of the process included.  PagesExclusive and NothingLost  *)
(* are therefore proved for programs that do not call vfree, or whose      *)
(* requests are of one page or of at least a table, which vmalloc never    *)
(* continues elsewhere.                                                    *)
(***************************************************************************)
EXTENDS VM, FiniteSetTheorems, WellFoundedInduction, TLAPS

-----------------------------------------------------------------------------
(* Division, and the smallest of a set.                                    *)

LEMMA DivModBasic ==
  ASSUME NEW s \in Int, NEW n \in Nat \ {0}
  PROVE  s \div n \in Int /\ s % n \in 0 .. n - 1 /\ s = n * (s \div n) + (s % n)
OBVIOUS

\* There is one quotient and one remainder.
LEMMA DivModUnique ==
  ASSUME NEW n \in Nat \ {0}, NEW q \in Int, NEW r \in 0 .. n - 1,
         NEW u \in Int, NEW v \in 0 .. n - 1, n * q + r = n * u + v
  PROVE  q = u /\ r = v
<1>1. ASSUME q < u
      PROVE  FALSE
  <2>1. u - q >= 1 /\ n >= 1
    BY <1>1
  <2>2. n * (u - q) >= n
    BY <2>1, Z3
  <2>3. n * (u - q) = r - v
    BY Z3
  <2>4. QED
    BY <2>2, <2>3
<1>2. ASSUME u < q
      PROVE  FALSE
  <2>1. q - u >= 1 /\ n >= 1
    BY <1>2
  <2>2. n * (q - u) >= n
    BY <2>1, Z3
  <2>3. n * (q - u) = v - r
    BY Z3
  <2>4. QED
    BY <2>2, <2>3
<1>3. q = u
  BY <1>1, <1>2
<1>4. QED
  BY <1>3

LEMMA DivMod ==
  ASSUME NEW n \in Nat \ {0}, NEW q \in Int, NEW r \in 0 .. n - 1
  PROVE  (n * q + r) \div n = q /\ (n * q + r) % n = r
<1> DEFINE s == n * q + r
<1>1. s \in Int
  OBVIOUS
<1>2. s \div n \in Int /\ s % n \in 0 .. n - 1 /\ s = n * (s \div n) + (s % n)
  BY <1>1, DivModBasic
<1> HIDE DEF s
<1>3. n * q + r = n * (s \div n) + (s % n)
  BY <1>2 DEF s
<1>4. QED
  BY <1>2, <1>3, DivModUnique DEF s

LEMMA MinIsIn ==
  ASSUME NEW S \in SUBSET Nat, S # {}
  PROVE  Min(S) \in S /\ \A y \in S : Min(S) <= y
<1>1. PICK x \in S : \A y \in S : ~(<<y, x>> \in OpToRel(<, Nat))
  BY NatLessThanWellFounded, WFMin
<1>2. \A y \in S : x <= y
  <2>1. \A y \in S : ~(y < x)
    BY <1>1 DEF OpToRel
  <2>2. QED
    BY <2>1
<1>3. QED
  BY <1>2 DEF Min

-----------------------------------------------------------------------------
(* Frames and slots.                                                       *)

LEMMA Constants ==
  /\ PTSIZE \in Nat \ {0} /\ XPDE \in 1 .. PTSIZE - 1 /\ NPT \in Nat \ {0}
  /\ 0 \in Frame /\ 0 \in Index /\ UserPde \subseteq Index
  /\ Frame \subseteq Nat /\ Index \subseteq Nat /\ Slot \subseteq Nat /\ Ffs \subseteq Nat
  /\ SYSTEM \notin Frame
BY PagingAssumption DEF Frame, Index, UserPde, Slot, Ffs, SYSTEM

\* A slot is an entry of a frame.
LEMMA AtFacts ==
  ASSUME NEW f \in Frame, NEW i \in Index
  PROVE  /\ At(f, i) \in Slot
         /\ At(f, i) \div PTSIZE = f /\ At(f, i) % PTSIZE = i
<1>1. PTSIZE \in Nat \ {0} /\ f \in Int /\ i \in 0 .. PTSIZE - 1 /\ At(f, i) = PTSIZE * f + i
  BY PagingAssumption DEF Frame, Index, At
<1>2. At(f, i) \div PTSIZE = f /\ At(f, i) % PTSIZE = i
  BY <1>1, DivMod
<1>3. At(f, i) \in 0 .. NPT * PTSIZE - 1
  <2>1. f \in Nat /\ f + 1 <= NPT /\ NPT \in Nat
    BY PagingAssumption DEF Frame
  <2>2. PTSIZE * f >= 0 /\ PTSIZE * (f + 1) <= PTSIZE * NPT
    BY <1>1, <2>1, Z3
  <2>3. PTSIZE * (f + 1) = PTSIZE * f + PTSIZE /\ PTSIZE * NPT = NPT * PTSIZE
    BY <1>1, <2>1, Z3
  <2>4. PTSIZE * f \in Int /\ NPT * PTSIZE \in Int
    BY <1>1, <2>1
  <2>5. QED
    BY <1>1, <2>2, <2>3, <2>4
<1>4. QED
  BY <1>2, <1>3 DEF Slot

LEMMA SlotFacts ==
  ASSUME NEW s \in Slot
  PROVE  s \div PTSIZE \in Frame /\ s % PTSIZE \in Index /\ s = At(s \div PTSIZE, s % PTSIZE)
<1>1. s \in Nat /\ s < NPT * PTSIZE /\ PTSIZE \in Nat \ {0} /\ NPT \in Nat
  BY PagingAssumption DEF Slot
<1>2. /\ s \div PTSIZE \in Int /\ s % PTSIZE \in 0 .. PTSIZE - 1
      /\ s = PTSIZE * (s \div PTSIZE) + (s % PTSIZE)
  BY <1>1, DivModBasic
<1> DEFINE q == s \div PTSIZE
           r == s % PTSIZE
<1>3. q \in Int /\ r \in 0 .. PTSIZE - 1 /\ s = PTSIZE * q + r
  BY <1>2
<1> HIDE DEF q, r
<1>4. q >= 0
  <2>1. ASSUME q < 0
        PROVE  FALSE
    <3>1. q <= -1
      BY <1>3, <2>1
    <3>2. PTSIZE * q <= -PTSIZE
      BY <1>1, <1>3, <3>1, Z3
    <3>3. PTSIZE * q \in Int
      BY <1>1, <1>3
    <3>4. QED
      BY <1>1, <1>3, <3>2, <3>3
  <2>2. QED
    BY <1>3, <2>1
<1>5. q < NPT
  <2>1. ASSUME q >= NPT
        PROVE  FALSE
    <3>1. PTSIZE * q >= PTSIZE * NPT /\ PTSIZE * NPT = NPT * PTSIZE
      BY <1>1, <1>3, <2>1, Z3
    <3>2. PTSIZE * q \in Int /\ NPT * PTSIZE \in Int
      BY <1>1, <1>3
    <3>3. QED
      BY <1>1, <1>3, <3>1, <3>2
  <2>2. QED
    BY <1>1, <1>3, <2>1
<1>6. At(q, r) = PTSIZE * q + r
  BY <1>1, <1>3 DEF At
<1>7. QED
  BY <1>1, <1>3, <1>4, <1>5, <1>6 DEF q, r, Frame, Index

\* Slots that follow each other: within a frame, and across frames.
LEMMA SlotsInFrame ==
  ASSUME NEW f \in Frame, NEW i \in Index, NEW n \in Nat, i + n <= PTSIZE,
         NEW s \in At(f, i) .. At(f, i) + n - 1
  PROVE  s \in Slot /\ s \div PTSIZE = f
<1>1. PTSIZE \in Nat \ {0} /\ f \in Nat /\ i \in 0 .. PTSIZE - 1
  BY PagingAssumption DEF Frame, Index
<1>2. f * PTSIZE \in Int
  BY <1>1
<1>3. At(f, i) = f * PTSIZE + i
  BY DEF At
<1> DEFINE k == s - f * PTSIZE
<1>4. k \in Index /\ s = f * PTSIZE + k
  BY <1>1, <1>2, <1>3 DEF Index
<1> HIDE DEF k
<1>5. s = At(f, k)
  BY <1>4 DEF At
<1>6. QED
  BY <1>4, <1>5, AtFacts

LEMMA SlotsAcrossFrames ==
  ASSUME NEW f \in Frame, NEW n \in Nat, f + n - 1 \in Frame,
         NEW s \in At(f, 0) .. At(f, 0) + PTSIZE * n - 1
  PROVE  s \in Slot /\ s \div PTSIZE \in f .. f + n - 1
<1>1. PTSIZE \in Nat \ {0} /\ f \in Nat /\ NPT \in Nat /\ f + n <= NPT
  BY PagingAssumption DEF Frame
<1>2. At(f, 0) = PTSIZE * f /\ PTSIZE * f \in Int /\ PTSIZE * n \in Int
  BY <1>1 DEF At
<1>3. s \in Int /\ s >= PTSIZE * f /\ s < PTSIZE * f + PTSIZE * n
  BY <1>2
<1> DEFINE q == s \div PTSIZE
           r == s % PTSIZE
<1>4. q \in Int /\ r \in 0 .. PTSIZE - 1 /\ s = PTSIZE * q + r
  BY <1>1, <1>3, DivModBasic
<1> HIDE DEF q, r
<1>5. PTSIZE * q \in Int
  BY <1>1, <1>4
<1>6. q >= f
  <2>1. ASSUME q < f
        PROVE  FALSE
    <3>1. q <= f - 1
      BY <1>1, <1>4, <2>1
    <3>2. PTSIZE * q <= PTSIZE * (f - 1)
      BY <1>1, <1>4, <3>1, Z3
    <3>3. PTSIZE * (f - 1) = PTSIZE * f - PTSIZE
      BY <1>1, Z3
    <3>4. QED
      BY <1>1, <1>2, <1>3, <1>4, <1>5, <3>2, <3>3
  <2>2. QED
    BY <1>1, <1>4, <2>1
<1>7. q < f + n
  <2>1. ASSUME q >= f + n
        PROVE  FALSE
    <3>1. PTSIZE * q >= PTSIZE * (f + n)
      BY <1>1, <1>4, <2>1, Z3
    <3>2. PTSIZE * (f + n) = PTSIZE * f + PTSIZE * n
      BY <1>1, Z3
    <3>3. QED
      BY <1>1, <1>2, <1>3, <1>4, <1>5, <3>1, <3>2
  <2>2. QED
    BY <1>1, <1>4, <2>1
<1>8. q \in Frame
  BY <1>1, <1>4, <1>6, <1>7 DEF Frame
<1>9. s = At(q, r) /\ r \in Index
  BY <1>1, <1>4, <1>5 DEF At, Index
<1>10. s \in Slot
  BY <1>8, <1>9, AtFacts
<1>11. QED
  BY <1>1, <1>4, <1>6, <1>7, <1>10 DEF q

\* Slots are equal when their frames and entries are.
LEMMA SameSlot ==
  ASSUME NEW s \in Slot, NEW u \in Slot, s \div PTSIZE = u \div PTSIZE, s % PTSIZE = u % PTSIZE
  PROVE  s = u
BY SlotFacts

\* The directory entry and the table entry of a page.
LEMMA PageFacts ==
  /\ \A v \in UserPage : v \div PTSIZE \in UserPde /\ v % PTSIZE \in Index
  /\ \A i \in UserPde, j \in Index :
        /\ i * PTSIZE + j \in UserPage
        /\ (i * PTSIZE + j) \div PTSIZE = i /\ (i * PTSIZE + j) % PTSIZE = j
<1>1. PTSIZE \in Nat \ {0} /\ XPDE \in 1 .. PTSIZE - 1
  BY PagingAssumption
<1>2. ASSUME NEW v \in UserPage
      PROVE  v \div PTSIZE \in UserPde /\ v % PTSIZE \in Index
  <2> DEFINE q == v \div PTSIZE
             r == v % PTSIZE
  <2>1. v \in Int /\ v >= XPDE * PTSIZE /\ v < PTSIZE * PTSIZE
    <3>1. XPDE * PTSIZE \in Int /\ PTSIZE * PTSIZE \in Int
      BY <1>1
    <3>2. QED
      BY <3>1 DEF UserPage
  <2>2. q \in Int /\ r \in 0 .. PTSIZE - 1 /\ v = PTSIZE * q + r
    BY <1>1, <2>1, DivModBasic
  <2> HIDE DEF q, r
  <2>3. q >= XPDE
    <3>1. ASSUME q < XPDE
          PROVE  FALSE
      <4>1. q <= XPDE - 1
        BY <1>1, <2>2, <3>1
      <4>2. PTSIZE * q <= PTSIZE * (XPDE - 1)
        BY <1>1, <2>2, <4>1, Z3
      <4>3. PTSIZE * (XPDE - 1) = XPDE * PTSIZE - PTSIZE
        BY <1>1, Z3
      <4>4. PTSIZE * q \in Int /\ XPDE * PTSIZE \in Int
        BY <1>1, <2>2
      <4>5. QED
        BY <1>1, <2>1, <2>2, <4>2, <4>3, <4>4
    <3>2. QED
      BY <1>1, <2>2, <3>1
  <2>4. q < PTSIZE
    <3>1. ASSUME q >= PTSIZE
          PROVE  FALSE
      <4>1. PTSIZE * q >= PTSIZE * PTSIZE
        BY <1>1, <2>2, <3>1, Z3
      <4>2. PTSIZE * q \in Int /\ PTSIZE * PTSIZE \in Int
        BY <1>1, <2>2
      <4>3. QED
        BY <1>1, <2>1, <2>2, <4>1, <4>2
    <3>2. QED
      BY <1>1, <2>2, <3>1
  <2>5. QED
    BY <1>1, <2>2, <2>3, <2>4 DEF q, r, UserPde, Index
<1>3. ASSUME NEW i \in UserPde, NEW j \in Index
      PROVE  /\ i * PTSIZE + j \in UserPage
             /\ (i * PTSIZE + j) \div PTSIZE = i /\ (i * PTSIZE + j) % PTSIZE = j
  <2>1. i \in Int /\ i >= XPDE /\ i <= PTSIZE - 1 /\ j \in 0 .. PTSIZE - 1
    BY <1>1 DEF UserPde, Index
  <2>2. i * PTSIZE = PTSIZE * i /\ PTSIZE * i \in Int
    BY <1>1, <2>1
  <2>3. i * PTSIZE >= XPDE * PTSIZE
    BY <1>1, <2>1, Z3
  <2>4. (PTSIZE - 1) * PTSIZE >= i * PTSIZE /\ (PTSIZE - 1) * PTSIZE = PTSIZE * PTSIZE - PTSIZE
    BY <1>1, <2>1, Z3
  <2>5. XPDE * PTSIZE \in Int /\ PTSIZE * PTSIZE \in Int
    BY <1>1
  <2>6. i * PTSIZE + j \in UserPage
    BY <1>1, <2>1, <2>2, <2>3, <2>4, <2>5 DEF UserPage
  <2>7. QED
    BY <1>1, <2>1, <2>2, <2>6, DivMod
<1>4. QED
  BY <1>2, <1>3

-----------------------------------------------------------------------------
(* The inductive invariant.                                                *)

\* A program whose heaps vfree can free: each is in one table, or in tables that
\* follow each other in memory.
FreeableHeaps ==
    "vfree" \in Calls => \A b \in Requests : Pages(b) = 1 \/ LargeRequest(b)

\* The tables of all user processes.
Tabled == UNION {Tables(p) : p \in Users}

\* A directory leads to the XINU area, to tables, and from the first entry that
\* leads nowhere on to nothing.
DirectoriesOK ==
    \A p \in Users :
        /\ dir[p] \in Frame
        /\ \A i \in Index : i < XPDE => Pde(p, i) = Lead(SYSTEM)
        /\ \A i \in UserPde : Pde(p, i) = Empty \/ \E b \in Frame : Pde(p, i) = Lead(b)
        /\ \A i, j \in UserPde : i < j /\ Pde(p, j).pres => Pde(p, i).pres

\* No frame is a directory or a table twice.
Separate ==
    /\ \A p, q \in Users : dir[p] = dir[q] => p = q
    /\ \A p, q \in Users : \A i \in UserPde : Pde(p, i).pres => Pde(p, i).base # dir[q]
    /\ \A p, q \in Users : \A i, j \in UserPde :
          Pde(p, i).pres /\ Pde(q, j).pres /\ Pde(p, i).base = Pde(q, j).base
             => p = q /\ i = j

\* No table looks free, and what an entry maps is in use.
EntriesOK ==
    \A s \in SlotsOf(Tabled) :
        /\ ent[s].avail # 0
        /\ ent[s].pres => ent[s].avail = 3 /\ ent[s].base \in Ffs /\ ffs[ent[s].base] = 3

\* A frame of the FFS area is mapped once.
MapsOnce ==
    \A s, u \in SlotsOf(Tabled) :
        ent[s].pres /\ ent[u].pres /\ ent[s].base = ent[u].base => s = u

\* What vfree would clear are entries of the tables of the process.
HeapOK(p, h) ==
    /\ Pde(p, h.page \div PTSIZE).pres
    /\ ToFree(p, h) \subseteq SlotsOf(Tables(p))

HeldOK == "vfree" \in Calls => \A p \in Users : \A h \in held[p] : HeapOK(p, h)

\* Only user processes are in vmalloc, and a process that asks for a table or
\* more has none.
CallOK ==
    /\ prstate[currpid] = "eligible"
    /\ \A p \in Pid :
          /\ call[p] # InUserCode => call[p].bytes > 0
          /\ call[p].bytes > 0 =>
                /\ User(p) /\ call[p].bytes \in Requests
                /\ LargeRequest(call[p].bytes) => ~Pde(p, XPDE).pres
          /\ prstate[p] # "eligible" => held[p] = {}

FramesOK == DirectoriesOK /\ Separate /\ EntriesOK /\ MapsOnce

IInv == TypeOK /\ FramesOK /\ HeldOK /\ CallOK

\* A frame of the FFS area that is taken is mapped, and a frame of the PT area
\* that looks taken is a table or a directory.
FfsOwned ==
    \A k \in Ffs : ffs[k] = 3 => \E s \in SlotsOf(Tabled) : ent[s].pres /\ ent[s].base = k

TablesOwned ==
    \A f \in Frame \ Junk :
        ent[At(f, 0)].avail # 0 => f \in Tabled \/ \E p \in Users : f = dir[p]

Owned == FfsOwned /\ TablesOwned

-----------------------------------------------------------------------------
(* Directories and tables of users.                                        *)

LEMMA UserFacts ==
  ASSUME TypeOK, DirectoriesOK, NEW p \in Users
  PROVE  /\ p \in Pid /\ dir[p] \in Frame
         /\ \A i \in Index : At(dir[p], i) \in Slot /\ Pde(p, i) \in Entry
         /\ \A i \in UserPde : i \in Index /\ (Pde(p, i).pres => Pde(p, i).base \in Frame)
         /\ Tables(p) \subseteq Frame
<1>1. p \in Pid /\ dir[p] \in Frame
  BY DEF Users, DirectoriesOK
<1>2. \A i \in Index : At(dir[p], i) \in Slot /\ Pde(p, i) \in Entry
  BY <1>1, AtFacts DEF TypeOK, Pde
<1>3. \A i \in UserPde : i \in Index /\ (Pde(p, i).pres => Pde(p, i).base \in Frame)
  <2>1. ASSUME NEW i \in UserPde, Pde(p, i).pres
        PROVE  Pde(p, i).base \in Frame
    <3>1. Pde(p, i) # Empty
      BY <2>1 DEF Empty
    <3>2. PICK b \in Frame : Pde(p, i) = Lead(b)
      BY <3>1 DEF DirectoriesOK
    <3>3. QED
      BY <3>2 DEF Lead
  <2>2. QED
    BY <2>1, Constants
<1>4. Tables(p) \subseteq Frame
  BY <1>3 DEF Tables
<1>5. QED
  BY <1>1, <1>2, <1>3, <1>4

\* The entries of its directory and its tables are not those of another's.
LEMMA OwnSlots ==
  ASSUME TypeOK, DirectoriesOK, Separate
  PROVE  /\ Tabled \subseteq Frame
         /\ \A p \in Users : dir[p] \notin Tabled
         /\ \A p, q \in Users : p # q => Tables(p) \cap Tables(q) = {} /\ dir[p] # dir[q]
         /\ \A p \in Users : \A s \in SlotsOf({dir[p]}) : s \notin SlotsOf(Tabled)
         /\ \A p \in Users : \A i \in Index : At(dir[p], i) \in SlotsOf({dir[p]})
<1>1. Tabled \subseteq Frame
  BY UserFacts DEF Tabled
<1>2. \A p \in Users : dir[p] \notin Tabled
  BY DEF Separate, Tabled, Tables
<1>3. \A p, q \in Users : p # q => Tables(p) \cap Tables(q) = {} /\ dir[p] # dir[q]
  BY DEF Separate, Tables
<1>4. \A p \in Users : \A i \in Index : At(dir[p], i) \in SlotsOf({dir[p]})
  BY UserFacts, AtFacts DEF SlotsOf
<1>5. \A p \in Users : \A s \in SlotsOf({dir[p]}) : s \notin SlotsOf(Tabled)
  BY <1>2 DEF SlotsOf
<1>6. QED
  BY <1>1, <1>2, <1>3, <1>4, <1>5

\* The users that go on keep their directories and tables.
LEMMA KeptTables ==
  ASSUME TypeOK, DirectoriesOK, Users' \subseteq Users, dir' = dir,
         \A p \in Users' : \A i \in Index : ent'[At(dir[p], i)] = ent[At(dir[p], i)]
  PROVE  /\ \A p \in Users' : \A i \in Index : Pde(p, i)' = Pde(p, i)
         /\ \A p \in Users' : Tables(p)' = Tables(p)
         /\ Tabled' \subseteq Tabled
         /\ DirectoriesOK'
         /\ Separate => Separate'
         /\ \A p \in Users' : \A h : h.page \in UserPage => ToFree(p, h)' = ToFree(p, h)
<1>1. \A p \in Users' : \A i \in Index : Pde(p, i)' = Pde(p, i)
  BY DEF Pde
<1>2. UserPde \subseteq Index
  BY Constants
<1>3. \A p \in Users' : Tables(p)' = Tables(p)
  BY <1>1, <1>2 DEF Tables
<1>4. Tabled' \subseteq Tabled
  BY <1>3 DEF Tabled
<1>5. DirectoriesOK'
  BY <1>1, <1>2 DEF DirectoriesOK
<1>6. Separate => Separate'
  BY <1>1, <1>2 DEF Separate
<1>7. ASSUME NEW p \in Users', NEW h, h.page \in UserPage
      PROVE  ToFree(p, h)' = ToFree(p, h)
  <2>1. Pde(p, h.page \div PTSIZE)' = Pde(p, h.page \div PTSIZE)
    BY <1>1, <1>2, <1>7, PageFacts
  <2>2. QED
    BY <2>1 DEF ToFree, SlotOf
<1>8. QED
  BY <1>1, <1>3, <1>4, <1>5, <1>6, <1>7

\* They keep their heaps then too.
LEMMA KeptHeaps ==
  ASSUME TypeOK, DirectoriesOK, HeldOK, Users' \subseteq Users, dir' = dir,
         \A p \in Users' : \A i \in Index : ent'[At(dir[p], i)] = ent[At(dir[p], i)],
         \A p \in Users' : held'[p] \subseteq held[p]
  PROVE  HeldOK'
<1>1. /\ \A p \in Users' : \A i \in Index : Pde(p, i)' = Pde(p, i)
      /\ \A p \in Users' : Tables(p)' = Tables(p)
      /\ \A p \in Users' : \A h : h.page \in UserPage => ToFree(p, h)' = ToFree(p, h)
  BY KeptTables
<1>2. ASSUME "vfree" \in Calls, NEW p \in Users', NEW h \in held'[p]
      PROVE  HeapOK(p, h)'
  <2>1. h \in held[p] /\ p \in Users /\ p \in Pid
    BY <1>2 DEF Users
  <2>2. h.page \in UserPage
    BY <2>1 DEF TypeOK
  <2>3. h.page \div PTSIZE \in Index
    BY <2>2, PageFacts, Constants
  <2>4. Pde(p, h.page \div PTSIZE).pres /\ ToFree(p, h) \subseteq SlotsOf(Tables(p))
    BY <1>2, <2>1 DEF HeldOK, HeapOK
  <2>5. QED
    BY <1>1, <1>2, <2>2, <2>3, <2>4 DEF SlotsOf, HeapOK
<1>3. QED
  BY <1>2 DEF HeldOK

\* Users whose frames are not touched keep what FramesOK says of them.
LEMMA FramesKept ==
  ASSUME TypeOK, FramesOK, Users' \subseteq Users, dir' = dir,
         \A p \in Users' : \A s \in SlotsOf(Tables(p) \cup {dir[p]}) : ent'[s] = ent[s],
         \A p \in Users' : \A s \in SlotsOf(Tables(p)) :
            ent[s].pres => ffs'[ent[s].base] = ffs[ent[s].base]
  PROVE  /\ FramesOK'
         /\ \A p \in Users' : \A i \in Index : ent'[At(dir[p], i)] = ent[At(dir[p], i)]
<1>1. DirectoriesOK /\ Separate /\ EntriesOK /\ MapsOnce
  BY DEF FramesOK
<1>2. \A p \in Users' : \A i \in Index : ent'[At(dir[p], i)] = ent[At(dir[p], i)]
  <2>1. \A p \in Users' : \A i \in Index : At(dir[p], i) \in SlotsOf({dir[p]})
    BY <1>1, OwnSlots
  <2>2. QED
    BY <2>1 DEF SlotsOf
<1>3. /\ \A p \in Users' : Tables(p)' = Tables(p)
      /\ DirectoriesOK' /\ Separate' /\ Tabled' \subseteq Tabled
  BY <1>1, <1>2, KeptTables
<1>4. ASSUME NEW s \in SlotsOf(Tabled')
      PROVE  /\ s \in SlotsOf(Tabled) /\ ent'[s] = ent[s]
             /\ ent[s].pres => ffs'[ent[s].base] = ffs[ent[s].base]
  <2>1. PICK p \in Users' : s \div PTSIZE \in Tables(p)'
    BY DEF SlotsOf, Tabled
  <2>2. s \in SlotsOf(Tables(p)) /\ s \in SlotsOf(Tables(p) \cup {dir[p]})
    BY <1>3, <2>1 DEF SlotsOf
  <2>3. QED
    BY <1>3, <2>2 DEF SlotsOf
<1>5. SlotsOf(Tabled)' = SlotsOf(Tabled')
  BY DEF SlotsOf
<1>6. EntriesOK'
  BY <1>1, <1>4, <1>5 DEF EntriesOK
<1>7. MapsOnce'
  BY <1>1, <1>4, <1>5 DEF MapsOnce
<1>8. QED
  BY <1>2, <1>3, <1>6, <1>7 DEF FramesOK

\* What changes entries of tables only leaves the directories alone.
LEMMA TablesChanged ==
  ASSUME TypeOK, FramesOK, Users' = Users, dir' = dir,
         \A s \in Slot : s \notin SlotsOf(Tabled) => ent'[s] = ent[s]
  PROVE  /\ \A p \in Users : \A i \in Index : ent'[At(dir[p], i)] = ent[At(dir[p], i)]
         /\ \A p \in Users : \A i \in Index : Pde(p, i)' = Pde(p, i)
         /\ DirectoriesOK' /\ Separate' /\ SlotsOf(Tabled)' = SlotsOf(Tabled)
<1>1. DirectoriesOK /\ Separate
  BY DEF FramesOK
<1>2. \A p \in Users : \A i \in Index : ent'[At(dir[p], i)] = ent[At(dir[p], i)]
  BY <1>1, OwnSlots, UserFacts
<1>3. /\ \A p \in Users : \A i \in Index : Pde(p, i)' = Pde(p, i)
      /\ \A p \in Users : Tables(p)' = Tables(p)
      /\ DirectoriesOK' /\ Separate'
  BY <1>1, <1>2, KeptTables
<1>4. Tabled' = Tabled
  BY <1>3 DEF Tabled
<1>5. QED
  BY <1>2, <1>3, <1>4 DEF SlotsOf

LEMMA QuietOwned ==
  ASSUME UNCHANGED <<ent, ffs, dir>>, Users' = Users
  PROVE  Owned => Owned'
<1>1. \A p \in Users : Tables(p)' = Tables(p)
  BY DEF Tables, Pde
<1>2. Tabled' = Tabled /\ SlotsOf(Tabled)' = SlotsOf(Tabled)
  BY <1>1 DEF Tabled, SlotsOf
<1>3. QED
  BY <1>2 DEF Owned, FfsOwned, TablesOwned

LEMMA TablesChangedOwned ==
  ASSUME TypeOK, FramesOK, Users' = Users, dir' = dir,
         \A s \in Slot : s \notin SlotsOf(Tabled) => ent'[s] = ent[s]
  PROVE  TablesOwned => TablesOwned'
<1>1. \A p \in Users : \A i \in Index : Pde(p, i)' = Pde(p, i)
  BY TablesChanged
<1>2. \A p \in Users : Tables(p)' = Tables(p)
  BY <1>1, Constants DEF Tables
<1>3. Tabled' = Tabled
  BY <1>2 DEF Tabled
<1>4. \A f \in Frame : f \notin Tabled => ent'[At(f, 0)] = ent[At(f, 0)]
  BY AtFacts, Constants DEF SlotsOf
<1>5. QED
  BY <1>3, <1>4 DEF TablesOwned

-----------------------------------------------------------------------------
(* What the invariant says.                                                *)

LEMMA MappedFacts ==
  ASSUME TypeOK, FramesOK, NEW m \in Mapped
  PROVE  /\ m[1] \in Users /\ m[2] \in UserPage
         /\ m[2] \div PTSIZE \in UserPde /\ m[2] % PTSIZE \in Index
         /\ Pde(m[1], m[2] \div PTSIZE).pres
         /\ Pde(m[1], m[2] \div PTSIZE).base \in Frame
         /\ SlotOf(m[1], m[2]) \in SlotsOf(Tabled) /\ ent[SlotOf(m[1], m[2])].pres
         /\ SlotOf(m[1], m[2]) \div PTSIZE = Pde(m[1], m[2] \div PTSIZE).base
         /\ SlotOf(m[1], m[2]) % PTSIZE = m[2] % PTSIZE
<1>1. m[1] \in Users /\ m[2] \in UserPage /\ Present(m[1], m[2])
  BY DEF Mapped
<1>2. m[2] \div PTSIZE \in UserPde /\ m[2] % PTSIZE \in Index
  BY <1>1, PageFacts
<1>3. Pde(m[1], m[2] \div PTSIZE).pres /\ ent[SlotOf(m[1], m[2])].pres
  BY <1>1 DEF Present
<1>4. Pde(m[1], m[2] \div PTSIZE).base \in Frame
  BY <1>1, <1>2, <1>3, UserFacts DEF FramesOK
<1>5. Pde(m[1], m[2] \div PTSIZE).base \in Tabled
  BY <1>1, <1>2, <1>3 DEF Tabled, Tables
<1>6. /\ SlotOf(m[1], m[2]) \in Slot
      /\ SlotOf(m[1], m[2]) \div PTSIZE = Pde(m[1], m[2] \div PTSIZE).base
      /\ SlotOf(m[1], m[2]) % PTSIZE = m[2] % PTSIZE
  BY <1>2, <1>4, AtFacts DEF SlotOf
<1>7. QED
  BY <1>1, <1>2, <1>3, <1>4, <1>5, <1>6 DEF SlotsOf

LEMMA FramesOKExclusive ==
  ASSUME TypeOK, FramesOK
  PROVE  FramesExclusive
<1>1. ASSUME NEW m \in Mapped, NEW o \in Mapped, FrameOf(m[1], m[2]) = FrameOf(o[1], o[2])
      PROVE  m = o
  <2>1. SlotOf(m[1], m[2]) = SlotOf(o[1], o[2])
    BY <1>1, MappedFacts DEF FramesOK, MapsOnce, FrameOf
  <2>2. m[1] = o[1] /\ m[2] \div PTSIZE = o[2] \div PTSIZE
    BY <2>1, MappedFacts DEF FramesOK, Separate
  <2>3. m[2] % PTSIZE = o[2] % PTSIZE
    BY <2>1, MappedFacts
  <2>4. /\ PTSIZE \in Nat \ {0} /\ m[2] \in Int /\ o[2] \in Int
    <3>1. m[2] \in UserPage /\ o[2] \in UserPage
      BY MappedFacts
    <3>2. XPDE * PTSIZE \in Int /\ PTSIZE * PTSIZE \in Int
      BY Constants
    <3>3. QED
      BY <3>1, <3>2, Constants DEF UserPage
  <2>5. /\ m[2] = PTSIZE * (m[2] \div PTSIZE) + (m[2] % PTSIZE)
        /\ o[2] = PTSIZE * (o[2] \div PTSIZE) + (o[2] % PTSIZE)
    BY <2>4, DivModBasic
  <2>6. m[2] = o[2]
    BY <2>2, <2>3, <2>5
  <2>7. QED
    BY <2>2, <2>6 DEF Mapped
<1>2. ASSUME NEW m \in Mapped
      PROVE  ffs[FrameOf(m[1], m[2])] = 3 /\ Allocated(m[1], m[2])
  <2>1. ent[SlotOf(m[1], m[2])].avail = 3 /\ ffs[FrameOf(m[1], m[2])] = 3
    BY MappedFacts DEF FramesOK, EntriesOK, FrameOf
  <2>2. Pde(m[1], m[2] \div PTSIZE).avail = 3
    <3>1. Pde(m[1], m[2] \div PTSIZE) # Empty
      BY MappedFacts DEF Empty
    <3>2. PICK b \in Frame : Pde(m[1], m[2] \div PTSIZE) = Lead(b)
      BY <3>1, MappedFacts DEF FramesOK, DirectoriesOK
    <3>3. QED
      BY <3>2 DEF Lead
  <2>3. QED
    BY <2>1, <2>2 DEF Allocated
<1>3. QED
  BY <1>1, <1>2 DEF FramesExclusive

LEMMA UsedFrames ==
  ASSUME TypeOK, FramesOK, NEW p \in Users, NEW f \in Tables(p) \cup {dir[p]}
  PROVE  f \in Frame /\ ent[At(f, 0)].avail # 0
<1>1. f \in Frame /\ dir[p] \in Frame /\ 0 \in Index
  BY UserFacts, Constants DEF FramesOK
<1>2. CASE f = dir[p]
  <2>1. Pde(p, 0) = Lead(SYSTEM)
    BY <1>1, Constants DEF FramesOK, DirectoriesOK
  <2>2. QED
    BY <1>1, <1>2, <2>1 DEF Pde, Lead
<1>3. CASE f \in Tables(p)
  <2>1. f \in Tabled
    BY <1>3 DEF Tabled
  <2>2. At(f, 0) \in SlotsOf(Tabled)
    BY <1>1, <2>1, AtFacts DEF SlotsOf
  <2>3. QED
    BY <1>1, <2>2 DEF FramesOK, EntriesOK
<1>4. QED
  BY <1>2, <1>3

LEMMA TablesOKExclusive ==
  ASSUME TypeOK, FramesOK
  PROVE  TablesExclusive
<1>1. ASSUME NEW p \in Users
      PROVE  Cardinality(Tables(p)) = Cardinality({i \in UserPde : Pde(p, i).pres})
  <2> DEFINE D == {i \in UserPde : Pde(p, i).pres}
             g == [i \in D |-> Pde(p, i).base]
  <2>1. Tables(p) = {Pde(p, i).base : i \in D}
    BY DEF Tables
  <2>2. \A i, j \in D : g[i] = g[j] => i = j
    BY DEF FramesOK, Separate
  <2>3. g \in [D -> Tables(p)] /\ \A t \in Tables(p) : \E i \in D : g[i] = t
    BY <2>1
  <2>4. IsFiniteSet(D)
    <3>1. IsFiniteSet(UserPde)
      BY Constants, FS_Interval DEF UserPde
    <3>2. D \subseteq UserPde
      OBVIOUS
    <3>3. QED
      BY <3>1, <3>2, FS_Subset
  <2> HIDE DEF D, g
  <2>5. g \in Bijection(D, Tables(p))
    BY <2>2, <2>3 DEF Bijection, Injection, Surjection, IsInjective
  <2>6. Cardinality(Tables(p)) = Cardinality(D)
    <3>1. ExistsBijection(D, Tables(p))
      BY <2>5 DEF ExistsBijection
    <3>2. QED
      BY <2>4, <3>1, FS_Bijection
  <2>7. QED
    BY <2>6 DEF D
<1>2. \A p \in Users : dir[p] \notin Tables(p)
  BY DEF FramesOK, Separate, Tables
<1>3. \A p, q \in Users : p # q =>
         (Tables(p) \cup {dir[p]}) \cap (Tables(q) \cup {dir[q]}) = {}
  BY DEF FramesOK, Separate, Tables
<1>4. QED
  BY <1>1, <1>2, <1>3, UsedFrames DEF TablesExclusive

-----------------------------------------------------------------------------
(* Steps that write no tables.                                             *)

LEMMA Entries ==
  /\ Zero \in Entry /\ Empty \in Entry /\ Valid \in Entry /\ Lead(SYSTEM) \in Entry
  /\ \A b \in Frame : Lead(b) \in Entry
  /\ \A e \in Entry : [e EXCEPT !.avail = 3] \in Entry
BY Constants DEF Zero, Empty, Valid, Lead, Entry

LEMMA Users_ == \A p : p \in Users <=> p \in Pid /\ prstate[p] = "eligible" /\ dir[p] # SYSTEM
BY DEF Users, User

LEMMA QuietOK ==
  ASSUME IInv, UNCHANGED <<ent, ffs, dir>>, Users' \subseteq Users, TypeOK', CallOK',
         \A p \in Users' : held'[p] \subseteq held[p]
  PROVE  IInv'
<1>1. TypeOK /\ FramesOK /\ HeldOK /\ DirectoriesOK
  BY DEF IInv, FramesOK
<1>2. FramesOK'
  BY <1>1, FramesKept
<1>3. HeldOK'
  BY <1>1, KeptHeaps
<1>4. QED
  BY <1>2, <1>3 DEF IInv

LEMMA SwitchOK ==
  ASSUME IInv, NEW p \in Pid, Switch(p)
  PROVE  IInv'
<1>1. /\ currpid' = p /\ cr3' = dir[p] /\ prstate[p] = "eligible"
      /\ ent' = ent /\ ffs' = ffs /\ dir' = dir /\ prstate' = prstate /\ intr' = intr
      /\ call' = call /\ held' = held
  BY DEF Switch, Dispatch
<1>2. TypeOK'
  BY <1>1 DEF IInv, TypeOK
<1>3. Users' = Users /\ CallOK'
  BY <1>1 DEF IInv, CallOK, Users, User, Pde
<1>4. QED
  BY <1>1, <1>2, <1>3, QuietOK

LEMMA KillOtherOK ==
  ASSUME IInv, NEW p \in Pid, KillOther(p)
  PROVE  IInv'
<1>1. /\ p # currpid /\ prstate' = [prstate EXCEPT ![p] = "PR_FREE"]
      /\ call' = [call EXCEPT ![p] = InUserCode] /\ held' = [held EXCEPT ![p] = {}]
      /\ ent' = ent /\ ffs' = ffs /\ dir' = dir /\ cr3' = cr3 /\ currpid' = currpid
      /\ intr' = intr
  BY DEF KillOther, EndOf
<1>2. TypeOK
  BY DEF IInv
<1>3. InUserCode \in [bytes : Nat, saved : Frame \cup {SYSTEM}] /\ InUserCode.bytes = 0
  BY DEF InUserCode
<1>4. TypeOK'
  <2>1. prstate' \in [Pid -> {"PR_FREE", "eligible", "stranded"}]
    BY <1>1, <1>2 DEF TypeOK
  <2>2. call' \in [Pid -> [bytes : Nat, saved : Frame \cup {SYSTEM}]]
    BY <1>1, <1>2, <1>3 DEF TypeOK
  <2>3. held' \in [Pid -> SUBSET [page : UserPage, bytes : Requests]]
    BY <1>1, <1>2 DEF TypeOK
  <2>4. QED
    BY <1>1, <1>2, <2>1, <2>2, <2>3 DEF TypeOK
<1>5. Users' \subseteq Users /\ \A q \in Users' : q # p
  BY <1>1, <1>2 DEF Users, User, TypeOK
<1>6. ASSUME NEW q \in Pid
      PROVE  /\ call'[q] # InUserCode => call'[q].bytes > 0
             /\ call'[q].bytes > 0 =>
                   /\ User(q)' /\ call'[q].bytes \in Requests
                   /\ LargeRequest(call'[q].bytes) => ~Pde(q, XPDE)'.pres
             /\ prstate'[q] # "eligible" => held'[q] = {}
  <2>1. CASE q = p
    BY <1>1, <1>2, <1>3, <2>1 DEF TypeOK
  <2>2. CASE q # p
    <3>1. call'[q] = call[q] /\ prstate'[q] = prstate[q] /\ held'[q] = held[q]
      BY <1>1, <1>2, <2>2 DEF TypeOK
    <3>2. QED
      BY <1>1, <3>1 DEF IInv, CallOK, User, Pde
  <2>3. QED
    BY <2>1, <2>2
<1>7. prstate'[currpid'] = "eligible"
  BY <1>1, <1>2 DEF IInv, CallOK, TypeOK
<1>8. CallOK'
  BY <1>6, <1>7 DEF CallOK
<1>9. \A q \in Users' : held'[q] \subseteq held[q]
  BY <1>1, <1>2, <1>5 DEF TypeOK, Users
<1>10. QED
  BY <1>1, <1>4, <1>5, <1>8, <1>9, QuietOK

LEMMA VcreateFailsOK ==
  ASSUME IInv, VcreateFails
  PROVE  IInv'
<1>1. /\ cr3' = SYSTEM /\ ent' = ent /\ ffs' = ffs /\ dir' = dir /\ prstate' = prstate
      /\ currpid' = currpid /\ intr' = intr /\ call' = call /\ held' = held
  BY DEF VcreateFails, procVars
<1>2. TypeOK'
  BY <1>1 DEF IInv, TypeOK
<1>3. Users' = Users /\ CallOK'
  BY <1>1 DEF IInv, CallOK, Users, User, Pde
<1>4. QED
  BY <1>1, <1>2, <1>3, QuietOK

\* The null process, without a free frame for the directory.
LEMMA StrandedOK ==
  ASSUME IInv, NEW p \in Pid, prstate[p] = "PR_FREE",
         prstate' = [prstate EXCEPT ![p] = "stranded"],
         UNCHANGED <<ent, ffs, cr3, currpid, call, held>>, UNCHANGED <<dir, intr>>
  PROVE  IInv'
<1>1. TypeOK
  BY DEF IInv
<1>2. TypeOK'
  BY <1>1 DEF TypeOK
<1>3. Users' = Users
  BY <1>1 DEF Users, User, TypeOK
<1>4. ASSUME NEW q \in Pid
      PROVE  /\ call[q] # InUserCode => call[q].bytes > 0
             /\ call[q].bytes > 0 =>
                   /\ User(q)' /\ call[q].bytes \in Requests
                   /\ LargeRequest(call[q].bytes) => ~Pde(q, XPDE)'.pres
             /\ prstate'[q] # "eligible" => held[q] = {}
  <2>1. CASE q = p
    BY <1>1, <2>1 DEF IInv, CallOK, User, TypeOK
  <2>2. CASE q # p
    <3>1. prstate'[q] = prstate[q]
      BY <1>1, <2>2 DEF TypeOK
    <3>2. QED
      BY <3>1 DEF IInv, CallOK, User, Pde
  <2>3. QED
    BY <2>1, <2>2
<1>5. prstate'[currpid'] = "eligible"
  BY <1>1 DEF IInv, CallOK, TypeOK
<1>6. CallOK'
  BY <1>4, <1>5 DEF CallOK
<1>7. QED
  BY <1>2, <1>3, <1>6, QuietOK

LEMMA VmallocOK ==
  ASSUME IInv, Vmalloc
  PROVE  IInv'
<1>1. PICK bytes \in Requests :
        /\ User(currpid)
        /\ LargeRequest(bytes) => ~Pde(currpid, XPDE).pres
        /\ VmallocEnter(bytes)
  BY DEF Vmalloc
<1> DEFINE c == [bytes |-> bytes, saved |-> cr3]
<1>2. /\ call' = [call EXCEPT ![currpid] = c] /\ cr3' = SYSTEM
      /\ ent' = ent /\ ffs' = ffs /\ dir' = dir /\ prstate' = prstate
      /\ currpid' = currpid /\ intr' = intr /\ held' = held
  BY <1>1 DEF VmallocEnter
<1>3. TypeOK /\ currpid \in Pid
  BY DEF IInv, TypeOK
<1>4. bytes \in Nat /\ bytes > 0
  BY PagingAssumption
<1>5. c \in [bytes : Nat, saved : Frame \cup {SYSTEM}] /\ c.bytes = bytes
  BY <1>3, <1>4 DEF TypeOK
<1> HIDE DEF c
<1>6. TypeOK'
  BY <1>2, <1>3, <1>5 DEF TypeOK
<1>7. Users' = Users
  BY <1>2 DEF Users, User
<1>8. ASSUME NEW q \in Pid
      PROVE  /\ call'[q] # InUserCode => call'[q].bytes > 0
             /\ call'[q].bytes > 0 =>
                   /\ User(q)' /\ call'[q].bytes \in Requests
                   /\ LargeRequest(call'[q].bytes) => ~Pde(q, XPDE)'.pres
             /\ prstate'[q] # "eligible" => held'[q] = {}
  <2>1. CASE q = currpid
    <3>1. call'[q] = c
      BY <1>2, <1>3, <2>1 DEF TypeOK
    <3>2. User(q) /\ (LargeRequest(bytes) => ~Pde(q, XPDE).pres)
      BY <1>1, <2>1
    <3>3. User(q)'
      BY <1>2, <3>2 DEF User
    <3>4. LargeRequest(bytes) => ~Pde(q, XPDE)'.pres
      BY <1>2, <3>2 DEF Pde
    <3>5. prstate'[q] # "eligible" => held'[q] = {}
      BY <1>2 DEF IInv, CallOK
    <3>6. call'[q].bytes = bytes
      BY <1>5, <3>1
    <3>7. QED
      BY <1>4, <3>3, <3>4, <3>5, <3>6
  <2>2. CASE q # currpid
    <3>1. call'[q] = call[q]
      BY <1>2, <1>3, <2>2 DEF TypeOK
    <3>2. QED
      BY <1>2, <3>1 DEF IInv, CallOK, User, Pde
  <2>3. QED
    BY <2>1, <2>2
<1>9. CallOK'
  BY <1>2, <1>8 DEF IInv, CallOK
<1>10. QED
  BY <1>2, <1>6, <1>7, <1>9, QuietOK

-----------------------------------------------------------------------------
(* The end of a process.                                                   *)

LEMMA DiesOK ==
  ASSUME IInv, Dies, UNCHANGED <<dir, intr>>,
         prstate' \in [Pid -> {"PR_FREE", "eligible", "stranded"}],
         prstate'[currpid] = "PR_FREE",
         \A q \in Pid \ {currpid} : \/ prstate'[q] = prstate[q]
                                    \/ prstate[q] # "eligible" /\ prstate'[q] # "eligible"
  PROVE  IInv' /\ (Owned => Owned')
<1> DEFINE c == currpid
<1>1. PICK p \in Pid \ {c} : prstate[p] = "eligible" /\ currpid' = p /\ cr3' = dir[p]
  BY DEF Dies, Dispatch
<1>2. call' = [call EXCEPT ![c] = InUserCode] /\ held' = [held EXCEPT ![c] = {}]
  BY DEF Dies, EndOf
<1>3. /\ TypeOK /\ FramesOK /\ HeldOK /\ DirectoriesOK /\ Separate /\ MapsOnce /\ EntriesOK
      /\ c \in Pid /\ prstate[c] = "eligible"
  BY DEF IInv, FramesOK, TypeOK, CallOK
<1>4. /\ ent' = IF dir[c] = SYSTEM THEN ent ELSE Rewrite(Cleared(c), Zero)
      /\ ffs' = IF dir[c] = SYSTEM THEN ffs ELSE Unmapped(SlotsOf(Tables(c)))
  BY DEF Dies
<1>5. dir[c] # SYSTEM => c \in Users
  BY <1>3 DEF Users, User
<1>6. Users' \subseteq Users /\ \A q \in Users' : q # c /\ q \in Pid
  BY <1>3 DEF Users, User, TypeOK
<1> HIDE DEF c
<1>7. ASSUME NEW q \in Users', NEW s \in SlotsOf(Tables(q) \cup {dir[q]})
      PROVE  ent'[s] = ent[s]
  <2>1. s \in Slot /\ s \div PTSIZE \in Tables(q) \cup {dir[q]}
    BY DEF SlotsOf
  <2>2. dir[c] # SYSTEM => s \notin Cleared(c)
    <3>1. q \in Users /\ q # c
      BY <1>6
    <3>2. dir[c] # SYSTEM => s \div PTSIZE \notin Tables(c) \cup {dir[c]}
      BY <1>3, <1>5, <2>1, <3>1 DEF Separate, Tables
    <3>3. QED
      BY <3>2 DEF Cleared, SlotsOf
  <2>3. QED
    BY <1>4, <2>1, <2>2 DEF Rewrite
<1>8. ASSUME NEW q \in Users', NEW s \in SlotsOf(Tables(q)), ent[s].pres
      PROVE  ffs'[ent[s].base] = ffs[ent[s].base]
  <2> DEFINE used == {ent[u].base : u \in {t \in SlotsOf(Tables(c)) : ent[t].pres}}
  <2>1. q \in Users /\ q # c /\ s \in SlotsOf(Tabled)
    BY <1>6 DEF SlotsOf, Tabled
  <2>2. ent[s].base \in Ffs
    BY <1>3, <1>8, <2>1 DEF EntriesOK
  <2>3. ASSUME dir[c] # SYSTEM, ent[s].base \in used
        PROVE  FALSE
    <3>1. PICK u \in SlotsOf(Tables(c)) : ent[u].pres /\ ent[s].base = ent[u].base
      BY <2>3
    <3>2. u \in SlotsOf(Tabled)
      BY <1>5, <2>3 DEF SlotsOf, Tabled
    <3>3. s = u
      BY <1>3, <1>8, <2>1, <3>1, <3>2 DEF MapsOnce
    <3>4. s \div PTSIZE \in Tables(q) \cap Tables(c)
      BY <3>1, <3>3 DEF SlotsOf
    <3>5. QED
      BY <1>3, <1>5, <2>1, <2>3, <3>4, OwnSlots
  <2>4. dir[c] # SYSTEM => ffs' = [k \in Ffs |-> IF k \in used THEN 2 ELSE ffs[k]]
    BY <1>4 DEF Unmapped
  <2> HIDE DEF used
  <2>5. QED
    BY <1>4, <2>2, <2>3, <2>4
<1>9. /\ FramesOK'
      /\ \A q \in Users' : \A i \in Index : ent'[At(dir[q], i)] = ent[At(dir[q], i)]
  BY <1>3, <1>6, <1>7, <1>8, FramesKept
<1>10. \A q \in Users' : held'[q] = held[q] /\ call'[q] = call[q]
  BY <1>2, <1>3, <1>6 DEF TypeOK
<1>11. HeldOK'
  BY <1>3, <1>6, <1>9, <1>10, KeptHeaps
<1>12. TypeOK'
  <2>1. ent' \in [Slot -> Entry]
    BY <1>3, <1>4, Entries DEF Rewrite, TypeOK
  <2>2. ffs' \in [Ffs -> {2, 3}]
    <3>1. Unmapped(SlotsOf(Tables(c))) \in [Ffs -> {2, 3}]
      BY <1>3 DEF Unmapped, TypeOK
    <3>2. QED
      BY <1>3, <1>4, <3>1 DEF TypeOK
  <2>3. InUserCode \in [bytes : Nat, saved : Frame \cup {SYSTEM}]
    BY DEF InUserCode
  <2>4. call' \in [Pid -> [bytes : Nat, saved : Frame \cup {SYSTEM}]]
    BY <1>2, <1>3, <2>3 DEF TypeOK
  <2>5. held' \in [Pid -> SUBSET [page : UserPage, bytes : Requests]]
    BY <1>2, <1>3 DEF TypeOK
  <2>6. QED
    BY <1>1, <1>3, <2>1, <2>2, <2>4, <2>5 DEF TypeOK
<1>13. ASSUME NEW q \in Pid
       PROVE  /\ call'[q] # InUserCode => call'[q].bytes > 0
              /\ call'[q].bytes > 0 =>
                    /\ User(q)' /\ call'[q].bytes \in Requests
                    /\ LargeRequest(call'[q].bytes) => ~Pde(q, XPDE)'.pres
              /\ prstate'[q] # "eligible" => held'[q] = {}
  <2>1. CASE q = c
    <3>1. call'[q] = InUserCode /\ held'[q] = {}
      BY <1>2, <1>3, <2>1 DEF TypeOK
    <3>2. QED
      BY <3>1 DEF InUserCode
  <2>2. CASE q # c
    <3>1. call'[q] = call[q] /\ held'[q] = held[q]
      BY <1>2, <1>3, <2>2 DEF TypeOK
    <3>2. \/ prstate'[q] = prstate[q]
          \/ prstate[q] # "eligible" /\ prstate'[q] # "eligible"
      BY <2>2 DEF c
    <3>3. /\ call[q] # InUserCode => call[q].bytes > 0
          /\ call[q].bytes > 0 =>
                /\ User(q) /\ call[q].bytes \in Requests
                /\ LargeRequest(call[q].bytes) => ~Pde(q, XPDE).pres
          /\ prstate[q] # "eligible" => held[q] = {}
      BY DEF IInv, CallOK
    <3>4. User(q) => User(q)'
      BY <3>2 DEF User
    <3>5. User(q) => Pde(q, XPDE)' = Pde(q, XPDE)
      <4>1. User(q)' => q \in Users'
        BY DEF Users
      <4>2. XPDE \in Index
        BY Constants DEF Index
      <4>3. QED
        BY <1>9, <3>4, <4>1, <4>2 DEF Pde
    <3>6. QED
      BY <3>1, <3>2, <3>3, <3>4, <3>5
  <2>3. QED
    BY <2>1, <2>2
<1>14. prstate'[currpid'] = "eligible"
  BY <1>1 DEF c
<1>15. CallOK'
  BY <1>13, <1>14 DEF CallOK
<1>16. Owned => Owned'
  <2>1. CASE dir[c] = SYSTEM
    <3>1. c \notin Users
      BY <2>1 DEF Users, User
    <3>2. Users' = Users
      BY <1>6, <3>1 DEF Users, User, c
    <3>3. QED
      BY <1>4, <2>1, <3>2, QuietOwned
  <2>2. CASE dir[c] # SYSTEM
    <3> DEFINE used == {ent[u].base : u \in {t \in SlotsOf(Tables(c)) : ent[t].pres}}
    <3>1. /\ ffs' = [k \in Ffs |-> IF k \in used THEN 2 ELSE ffs[k]]
          /\ \A s \in Slot : ent'[s] = IF s \in Cleared(c) THEN Zero ELSE ent[s]
      BY <1>4, <2>2 DEF Unmapped, Rewrite
    <3>2. \A q \in Users : q # c => q \in Users'
      BY DEF Users, User, c
    <3>3. \A q \in Users' : Tables(q)' = Tables(q)
      BY <1>3, <1>6, <1>9, KeptTables
    <3>4. FfsOwned => FfsOwned'
      <4>1. ASSUME FfsOwned, NEW k \in Ffs, ffs'[k] = 3
            PROVE  \E s \in SlotsOf(Tabled)' : ent'[s].pres /\ ent'[s].base = k
        <5>1. k \notin used /\ ffs[k] = 3
          BY <3>1, <4>1
        <5>2. PICK s \in SlotsOf(Tabled) : ent[s].pres /\ ent[s].base = k
          BY <4>1, <5>1 DEF FfsOwned
        <5>3. s \notin SlotsOf(Tables(c))
          BY <5>1, <5>2
        <5>4. PICK q \in Users : s \div PTSIZE \in Tables(q)
          BY <5>2 DEF SlotsOf, Tabled
        <5>5. s \in Slot /\ q # c
          BY <5>2, <5>3, <5>4 DEF SlotsOf
        <5>6. q \in Users' /\ s \in SlotsOf(Tables(q) \cup {dir[q]})
          BY <3>2, <5>4, <5>5 DEF SlotsOf
        <5>7. ent'[s] = ent[s] /\ s \in SlotsOf(Tabled)'
          BY <1>7, <3>3, <5>4, <5>5, <5>6 DEF SlotsOf, Tabled
        <5>8. QED
          BY <5>2, <5>7
      <4>2. QED
        BY <4>1 DEF FfsOwned
    <3>5. TablesOwned => TablesOwned'
      <4>1. ASSUME TablesOwned, NEW f \in Frame \ Junk, ent'[At(f, 0)].avail # 0
            PROVE  f \in Tabled' \/ \E p_1 \in Users' : f = dir'[p_1]
        <5>1. At(f, 0) \in Slot /\ At(f, 0) \div PTSIZE = f
          BY AtFacts, Constants
        <5>2. f \notin Tables(c) \cup {dir[c]} /\ ent'[At(f, 0)] = ent[At(f, 0)]
          BY <3>1, <4>1, <5>1 DEF Cleared, SlotsOf, Zero
        <5>3. f \in Tabled \/ \E q \in Users : f = dir[q]
          BY <4>1, <5>2 DEF TablesOwned
        <5>4. PICK q \in Users : f \in Tables(q) \/ f = dir[q]
          BY <5>3 DEF Tabled
        <5>5. q \in Users'
          BY <3>2, <5>2, <5>4
        <5>6. QED
          BY <3>3, <5>4, <5>5 DEF Tabled
      <4>2. QED
        BY <4>1 DEF TablesOwned
    <3>6. QED
      BY <3>4, <3>5 DEF Owned
  <2>3. QED
    BY <2>1, <2>2
<1>17. QED
  BY <1>9, <1>11, <1>12, <1>15, <1>16 DEF IInv

-----------------------------------------------------------------------------
(* vcreate.                                                                *)

LEMMA VcreateOK ==
  ASSUME IInv, NEW p \in Pid, Vcreate(p)
  PROVE  IInv' /\ (Owned => Owned')
<1> DEFINE f == Min({g \in Frame : DirFree(g)})
<1>1. /\ prstate[p] = "PR_FREE" /\ {g \in Frame : DirFree(g)} # {}
      /\ dir' = [dir EXCEPT ![p] = f] /\ ent' = NewDirectory(f)
      /\ prstate' = [prstate EXCEPT ![p] = "eligible"] /\ intr' = [intr EXCEPT ![p] = TRUE]
      /\ cr3' = dir[currpid]
      /\ ffs' = ffs /\ currpid' = currpid /\ call' = call /\ held' = held
  BY DEF Vcreate
<1>2. f \in Frame /\ ent[At(f, 0)].avail = 0
  <2>1. f \in {g \in Frame : DirFree(g)}
    BY <1>1, Constants, MinIsIn
  <2>2. QED
    BY <2>1 DEF DirFree
<1> HIDE DEF f
<1>3. /\ TypeOK /\ FramesOK /\ HeldOK /\ CallOK
      /\ DirectoriesOK /\ Separate /\ EntriesOK /\ MapsOnce
  BY DEF IInv, FramesOK
<1>4. /\ f # SYSTEM /\ p \notin Users /\ Users' = Users \cup {p}
      /\ \A q \in Users : q # p /\ q \in Pid /\ dir'[q] = dir[q]
      /\ dir'[p] = f
  BY <1>1, <1>2, <1>3, Constants DEF Users, User, TypeOK
<1>5. \A q \in Users : f \notin Tables(q) \cup {dir[q]}
  BY <1>2, <1>3, UsedFrames
<1>6. \A s \in Slot : s \div PTSIZE # f => ent'[s] = ent[s]
  BY <1>1 DEF NewDirectory
<1>7. \A i \in Index : ent'[At(f, i)] = IF i < XPDE THEN Lead(SYSTEM) ELSE Empty
  BY <1>1, <1>2, AtFacts DEF NewDirectory
<1>8. \A q \in Users : \A i \in Index : Pde(q, i)' = Pde(q, i)
  <2>1. \A q \in Users : \A i \in Index : At(dir[q], i) \in Slot /\ At(dir[q], i) \div PTSIZE # f
    BY <1>2, <1>3, <1>5, UserFacts, AtFacts
  <2>2. QED
    BY <1>4, <1>6, <2>1 DEF Pde
<1>9. \A i \in Index : Pde(p, i)' = IF i < XPDE THEN Lead(SYSTEM) ELSE Empty
  BY <1>4, <1>7 DEF Pde
<1>10. \A i \in UserPde : i \in Index /\ Pde(p, i)' = Empty /\ ~Pde(p, i)'.pres
  <2>1. \A i \in UserPde : i \in Index /\ ~(i < XPDE)
    BY Constants DEF UserPde
  <2>2. QED
    BY <1>9, <2>1 DEF Empty
<1>11. /\ \A q \in Users : Tables(q)' = Tables(q)
       /\ Tables(p)' = {}
  BY <1>8, <1>10, Constants DEF Tables
<1>12. Tabled' = Tabled
  BY <1>4, <1>11 DEF Tabled
<1>13. DirectoriesOK'
  <2>1. ASSUME NEW q \in Users
        PROVE  /\ dir'[q] \in Frame
               /\ \A i \in Index : i < XPDE => Pde(q, i)' = Lead(SYSTEM)
               /\ \A i \in UserPde : Pde(q, i)' = Empty \/ \E b \in Frame : Pde(q, i)' = Lead(b)
               /\ \A i, j \in UserPde : i < j /\ Pde(q, j)'.pres => Pde(q, i)'.pres
    BY <1>3, <1>4, <1>8, Constants DEF DirectoriesOK
  <2>2. /\ dir'[p] \in Frame
        /\ \A i \in Index : i < XPDE => Pde(p, i)' = Lead(SYSTEM)
        /\ \A i \in UserPde : Pde(p, i)' = Empty \/ \E b \in Frame : Pde(p, i)' = Lead(b)
        /\ \A i, j \in UserPde : i < j /\ Pde(p, j)'.pres => Pde(p, i)'.pres
    BY <1>2, <1>4, <1>9, <1>10
  <2>3. QED
    BY <1>4, <2>1, <2>2 DEF DirectoriesOK
<1>14. Separate'
  <2>1. \A q, o \in Users' : dir'[q] = dir'[o] => q = o
    BY <1>3, <1>4, <1>5 DEF Separate
  <2>2. \A q \in Users : \A i \in UserPde : Pde(q, i)'.pres => Pde(q, i)'.base # f
    BY <1>5, <1>8, Constants DEF Tables
  <2>3. \A q, o \in Users' : \A i \in UserPde : Pde(q, i)'.pres => Pde(q, i)'.base # dir'[o]
    BY <1>3, <1>4, <1>8, <1>10, <2>2, Constants DEF Separate
  <2>4. \A q, o \in Users' : \A i, j \in UserPde :
           Pde(q, i)'.pres /\ Pde(o, j)'.pres /\ Pde(q, i)'.base = Pde(o, j)'.base
              => q = o /\ i = j
    BY <1>3, <1>4, <1>8, <1>10, Constants DEF Separate
  <2>5. QED
    BY <2>1, <2>3, <2>4 DEF Separate
<1>15. SlotsOf(Tabled)' = SlotsOf(Tabled) /\ \A s \in SlotsOf(Tabled) : ent'[s] = ent[s]
  BY <1>5, <1>6, <1>12 DEF SlotsOf, Tabled
<1>16. EntriesOK' /\ MapsOnce'
  BY <1>1, <1>3, <1>15 DEF EntriesOK, MapsOnce
<1>17. HeldOK'
  <2>1. ASSUME "vfree" \in Calls, NEW q \in Users', NEW h \in held'[q]
        PROVE  HeapOK(q, h)'
    <3>1. h \in held[q]
      BY <1>1, <2>1
    <3>2. q \in Users
      BY <1>1, <1>3, <1>4, <3>1 DEF CallOK
    <3>3. h.page \in UserPage
      BY <1>4, <3>1, <3>2, <1>3 DEF TypeOK
    <3>4. h.page \div PTSIZE \in Index
      BY <3>3, PageFacts, Constants
    <3>5. HeapOK(q, h)
      BY <1>3, <2>1, <3>1, <3>2 DEF HeldOK
    <3>6. Pde(q, h.page \div PTSIZE)' = Pde(q, h.page \div PTSIZE)
      BY <1>8, <3>2, <3>4
    <3>7. ToFree(q, h)' = ToFree(q, h)
      BY <3>6 DEF ToFree, SlotOf
    <3>8. QED
      BY <1>11, <3>2, <3>5, <3>6, <3>7 DEF HeapOK, SlotsOf
  <2>2. QED
    BY <2>1 DEF HeldOK
<1>18. TypeOK'
  <2>1. ent' \in [Slot -> Entry]
    BY <1>1, <1>3, Entries DEF NewDirectory, TypeOK
  <2>2. QED
    BY <1>1, <1>2, <1>3, <2>1 DEF TypeOK
<1>19. CallOK'
  <2>1. ASSUME NEW q \in Pid
        PROVE  /\ call'[q] # InUserCode => call'[q].bytes > 0
               /\ call'[q].bytes > 0 =>
                     /\ User(q)' /\ call'[q].bytes \in Requests
                     /\ LargeRequest(call'[q].bytes) => ~Pde(q, XPDE)'.pres
               /\ prstate'[q] # "eligible" => held'[q] = {}
    <3>1. /\ call[q] # InUserCode => call[q].bytes > 0
          /\ call[q].bytes > 0 =>
                /\ User(q) /\ call[q].bytes \in Requests
                /\ LargeRequest(call[q].bytes) => ~Pde(q, XPDE).pres
          /\ prstate[q] # "eligible" => held[q] = {}
      BY <1>3 DEF CallOK
    <3>2. User(q) => q \in Users /\ User(q)'
      BY <1>4 DEF Users
    <3>3. XPDE \in Index
      BY Constants DEF Index
    <3>4. User(q) => Pde(q, XPDE)' = Pde(q, XPDE)
      BY <1>8, <3>2, <3>3
    <3>5. prstate'[q] # "eligible" => prstate[q] # "eligible"
      BY <1>1, <1>3 DEF TypeOK
    <3>6. QED
      BY <1>1, <3>1, <3>2, <3>4, <3>5
  <2>2. prstate'[currpid'] = "eligible"
    BY <1>1, <1>3 DEF CallOK, TypeOK
  <2>3. QED
    BY <2>1, <2>2 DEF CallOK
<1>20. FfsOwned => FfsOwned'
  BY <1>1, <1>15 DEF FfsOwned
<1>21. TablesOwned => TablesOwned'
  <2>1. \A g \in Frame : g # f => ent'[At(g, 0)] = ent[At(g, 0)]
    BY <1>6, AtFacts, Constants
  <2>2. p \in Users' /\ \A q \in Users : q \in Users'
    BY <1>4
  <2>3. QED
    BY <1>4, <1>12, <2>1, <2>2 DEF TablesOwned
<1>22. QED
  BY <1>13, <1>14, <1>16, <1>17, <1>18, <1>19, <1>20, <1>21 DEF IInv, FramesOK, Owned

-----------------------------------------------------------------------------
(* vmalloc.                                                                *)

\* The return of vmalloc, with a heap or without.
LEMMA ReturnOK ==
  ASSUME TypeOK, CallOK, call[currpid].bytes > 0,
         NEW result \in SUBSET [page : UserPage, bytes : Requests], Return(result),
         ent' \in [Slot -> Entry], intr' \in [Pid -> BOOLEAN],
         \A q \in Users : q # currpid => Pde(q, XPDE)' = Pde(q, XPDE)
  PROVE  /\ TypeOK' /\ CallOK' /\ Users' = Users
         /\ \A q \in Pid : held'[q] = IF q = currpid THEN held[q] \cup result ELSE held[q]
<1>1. /\ call' = [call EXCEPT ![currpid] = InUserCode] /\ cr3' = call[currpid].saved
      /\ held' = [held EXCEPT ![currpid] = @ \cup result]
      /\ ffs' = ffs /\ dir' = dir /\ prstate' = prstate /\ currpid' = currpid
  BY DEF Return
<1>2. currpid \in Pid /\ User(currpid) /\ call[currpid].saved \in Frame \cup {SYSTEM}
  BY DEF TypeOK, CallOK
<1>3. InUserCode \in [bytes : Nat, saved : Frame \cup {SYSTEM}] /\ InUserCode.bytes = 0
  BY DEF InUserCode
<1>4. Users' = Users
  BY <1>1 DEF Users, User
<1>5. \A q \in Pid : held'[q] = IF q = currpid THEN held[q] \cup result ELSE held[q]
  BY <1>1 DEF TypeOK
<1>6. TypeOK'
  <2>1. call' \in [Pid -> [bytes : Nat, saved : Frame \cup {SYSTEM}]]
    BY <1>1, <1>3 DEF TypeOK
  <2>2. held' \in [Pid -> SUBSET [page : UserPage, bytes : Requests]]
    BY <1>1, <1>2 DEF TypeOK
  <2>3. QED
    BY <1>1, <1>2, <2>1, <2>2 DEF TypeOK
<1>7. ASSUME NEW q \in Pid
      PROVE  /\ call'[q] # InUserCode => call'[q].bytes > 0
             /\ call'[q].bytes > 0 =>
                   /\ User(q)' /\ call'[q].bytes \in Requests
                   /\ LargeRequest(call'[q].bytes) => ~Pde(q, XPDE)'.pres
             /\ prstate'[q] # "eligible" => held'[q] = {}
  <2>1. CASE q = currpid
    <3>1. call'[q] = InUserCode
      BY <1>1, <2>1 DEF TypeOK
    <3>2. QED
      BY <1>1, <1>2, <1>3, <2>1, <3>1 DEF User
  <2>2. CASE q # currpid
    <3>1. call'[q] = call[q] /\ held'[q] = held[q] /\ prstate'[q] = prstate[q]
      BY <1>1, <1>5, <2>2 DEF TypeOK
    <3>2. User(q) => User(q)' /\ Pde(q, XPDE)' = Pde(q, XPDE)
      BY <1>1, <2>2 DEF User, Users
    <3>3. QED
      BY <3>1, <3>2 DEF CallOK
  <2>3. QED
    BY <2>1, <2>2
<1>8. CallOK'
  BY <1>1, <1>7 DEF CallOK
<1>9. QED
  BY <1>4, <1>5, <1>6, <1>8

\* vmalloc returns SYSERR.
LEMMA RefusedOK ==
  ASSUME IInv, call[currpid].bytes > 0, Return({}), ent' = ent, intr' \in [Pid -> BOOLEAN]
  PROVE  IInv'
<1>1. /\ ffs' = ffs /\ dir' = dir
  BY DEF Return
<1>2. TypeOK /\ CallOK /\ ent' \in [Slot -> Entry]
  BY DEF IInv, TypeOK
<1>3. \A q \in Users : q # currpid => Pde(q, XPDE)' = Pde(q, XPDE)
  BY <1>1 DEF Pde
<1>4. /\ TypeOK' /\ CallOK' /\ Users' = Users
      /\ \A q \in Pid : held'[q] = IF q = currpid THEN held[q] \cup {} ELSE held[q]
  BY <1>2, <1>3, ReturnOK
<1>5. \A q \in Users : held'[q] = held[q]
  BY <1>4 DEF Users
<1>6. QED
  BY <1>1, <1>4, <1>5, QuietOK

\* Heaps stay good, and the new one is.
LEMMA HeapsAndOne ==
  ASSUME TypeOK, DirectoriesOK, HeldOK, Users' = Users, NEW result,
         \A q \in Pid : held'[q] = IF q = currpid THEN held[q] \cup result ELSE held[q],
         \A q \in Users : Tables(q) \subseteq Tables(q)',
         \A q \in Users : \A i \in UserPde :
            Pde(q, i).pres => Pde(q, i)' = Pde(q, i),
         "vfree" \in Calls => \A q \in Users : q = currpid => \A h \in result : HeapOK(q, h)'
  PROVE  HeldOK'
<1>1. ASSUME "vfree" \in Calls, NEW p \in Users', NEW h \in held'[p]
      PROVE  HeapOK(p, h)'
  <2>1. p \in Users /\ p \in Pid
    BY DEF Users
  <2>2. CASE h \in held[p]
    <3>1. h.page \in UserPage
      BY <2>1, <2>2 DEF TypeOK
    <3>2. h.page \div PTSIZE \in UserPde
      BY <3>1, PageFacts
    <3>3. Pde(p, h.page \div PTSIZE).pres /\ ToFree(p, h) \subseteq SlotsOf(Tables(p))
      BY <1>1, <2>1, <2>2 DEF HeldOK, HeapOK
    <3>4. Pde(p, h.page \div PTSIZE)' = Pde(p, h.page \div PTSIZE)
      BY <2>1, <3>2, <3>3
    <3>5. ToFree(p, h)' = ToFree(p, h)
      BY <3>4 DEF ToFree, SlotOf
    <3>6. SlotsOf(Tables(p)) \subseteq SlotsOf(Tables(p)')
      BY <2>1 DEF SlotsOf
    <3>7. SlotsOf(Tables(p))' = SlotsOf(Tables(p)')
      BY DEF SlotsOf
    <3>8. QED
      BY <3>3, <3>4, <3>5, <3>6, <3>7 DEF HeapOK
  <2>3. CASE h \notin held[p]
    BY <1>1, <2>1, <2>3
  <2>4. QED
    BY <2>2, <2>3
<1>2. QED
  BY <1>1 DEF HeldOK

\* Entries of tables that become valid.
LEMMA MarkedOK ==
  ASSUME TypeOK, FramesOK, Users' = Users, dir' = dir, ffs' = ffs,
         NEW S, S \subseteq SlotsOf(Tabled),
         ent' = [s \in Slot |-> IF s \in S THEN [ent[s] EXCEPT !.avail = 3] ELSE ent[s]]
  PROVE  /\ FramesOK' /\ ent' \in [Slot -> Entry]
         /\ \A p \in Users : \A i \in Index : Pde(p, i)' = Pde(p, i)
         /\ \A p \in Users : Tables(p)' = Tables(p)
         /\ Owned => Owned'
<1>1. \A s \in Slot : s \notin SlotsOf(Tabled) => ent'[s] = ent[s]
  OBVIOUS
<1>2. /\ \A p \in Users : \A i \in Index : Pde(p, i)' = Pde(p, i)
      /\ DirectoriesOK' /\ Separate' /\ SlotsOf(Tabled)' = SlotsOf(Tabled)
  BY <1>1, TablesChanged
<1>3. ASSUME NEW s \in Slot
      PROVE  /\ ent'[s] \in Entry /\ ent'[s].pres = ent[s].pres /\ ent'[s].base = ent[s].base
             /\ ent'[s].avail = IF s \in S THEN 3 ELSE ent[s].avail
  <2>1. ent[s] \in Entry
    BY DEF TypeOK
  <2>2. QED
    BY <2>1, Entries DEF Entry
<1>4. SlotsOf(Tabled) \subseteq Slot
  BY DEF SlotsOf
<1>5. EntriesOK' /\ MapsOnce'
  BY <1>2, <1>3, <1>4 DEF FramesOK, EntriesOK, MapsOnce
<1>6. \A p \in Users : Tables(p)' = Tables(p)
  BY <1>2, Constants DEF Tables
<1>7. ent' \in [Slot -> Entry]
  BY <1>3
<1>8. FfsOwned => FfsOwned'
  BY <1>2, <1>3, <1>4 DEF FfsOwned
<1>9. TablesOwned => TablesOwned'
  BY <1>1, TablesChangedOwned
<1>10. QED
  BY <1>2, <1>5, <1>6, <1>7, <1>8, <1>9 DEF FramesOK, Owned

LEMMA PagesFacts ==
  ASSUME NEW bytes \in Requests
  PROVE  /\ Pages(bytes) \in Nat \ {0}
         /\ bytes \div PAGE \in Nat /\ bytes \div PAGE <= Pages(bytes)
<1>1. bytes \in Nat \ {0}
  BY PagingAssumption
<1>2. bytes \div 2 \in Nat
  BY <1>1
<1>3. QED
  BY <1>2 DEF Pages, PAGE

\* A table with the pages that are asked for, or with the first of them.
LEMMA AtOldTableOK ==
  ASSUME IInv, FreeableHeaps, call[currpid].bytes > 0,
         NEW i \in UserPde, NEW n, n = Pages(call[currpid].bytes), n < PTSIZE,
         Ends(i, n), Pde(currpid, i).pres, AtOldTable(i, n)
  PROVE  IInv' /\ (Owned => Owned')
<1> DEFINE p == currpid
           b == call[currpid].bytes
           t == Pde(p, i).base
           u == Pde(p, i + 1).base
           j == IF Fits(t, n) # {} THEN Min(Fits(t, n)) ELSE Min(Spills(t, n))
           h == [page |-> i * PTSIZE + j, bytes |-> b]
           rest == n - (PTSIZE - j)
           tail == {At(t, k) : k \in j .. PTSIZE - 1}
           S1 == At(t, j) .. At(t, j) + n - 1
           S2 == tail \cup (At(t, 0) .. At(t, rest - 1))
           S3 == tail \cup (At(u, 0) .. At(u, rest - 1))
           Mark(S) == [s \in Slot |-> IF s \in S THEN [ent[s] EXCEPT !.avail = 3] ELSE ent[s]]
<1>1. /\ TypeOK /\ FramesOK /\ DirectoriesOK /\ HeldOK /\ CallOK
      /\ p \in Users /\ p \in Pid /\ b \in Requests
  BY DEF IInv, FramesOK, CallOK, Users, TypeOK
<1>2. \/ Fits(t, n) # {} /\ ent' = Mark(S1)
      \/ Fits(t, n) = {} /\ ~Pde(p, i + 1).pres /\ ent' = Mark(S2)
      \/ Fits(t, n) = {} /\ Pde(p, i + 1).pres /\ ent' = Mark(S3)
  <2> DEFINE N2 == [s \in Slot |->
                      IF s \in tail \/ s \in At(t, 0) .. At(t, n - (PTSIZE - j) - 1)
                      THEN [ent[s] EXCEPT !.avail = 3] ELSE ent[s]]
             N3 == [s \in Slot |->
                      IF s \in tail \/ s \in At(u, 0) .. At(u, n - (PTSIZE - j) - 1)
                      THEN [ent[s] EXCEPT !.avail = 3] ELSE ent[s]]
  <2>1. N2 = Mark(S2)
    <3>1. \A s : s \in S2 <=> s \in tail \/ s \in At(t, 0) .. At(t, rest - 1)
      OBVIOUS
    <3>2. QED
      BY <3>1
  <2>2. N3 = Mark(S3)
    <3>1. \A s : s \in S3 <=> s \in tail \/ s \in At(u, 0) .. At(u, rest - 1)
      OBVIOUS
    <3>2. QED
      BY <3>1
  <2>3. \/ Fits(t, n) # {} /\ ent' = Mark(S1)
        \/ Fits(t, n) = {} /\ ~Pde(p, i + 1).pres /\ ent' = N2
        \/ Fits(t, n) = {} /\ Pde(p, i + 1).pres /\ ent' = N3
    BY DEF AtOldTable
  <2> HIDE DEF N2, N3
  <2>4. QED
    BY <2>1, <2>2, <2>3
<1>3. Return({h}) /\ intr' = intr
  BY DEF AtOldTable, Granted
<1>4. ffs' = ffs /\ dir' = dir /\ currpid' = p /\ prstate' = prstate
  BY <1>3 DEF Return
<1>5. n \in Nat \ {0} /\ b \div PAGE \in Nat /\ b \div PAGE <= n
  BY <1>1, PagesFacts
<1>6. t \in Frame /\ t \in Tables(p) /\ i \in Index
  BY <1>1, UserFacts DEF Tables
<1>7. Fits(t, n) = {} => /\ Spills(t, n) # {} /\ i + 1 \in UserPde
  <2>1. Fits(t, n) = {} => Spills(t, n) # {} /\ i # PTSIZE - 1
    BY DEF Ends
  <2>2. i # PTSIZE - 1 => i + 1 \in UserPde
    BY Constants DEF UserPde
  <2>3. QED
    BY <2>1, <2>2
<1>8. Fits(t, n) \subseteq Index /\ Spills(t, n) \subseteq Index /\ Index \subseteq Nat
  BY Constants DEF Fits, Spills
<1>9. CASE Fits(t, n) # {}
  <2>1. j \in Fits(t, n)
    BY <1>8, <1>9, MinIsIn
  <2>2. j \in Index /\ j + n <= PTSIZE
    BY <2>1 DEF Fits
  <2> HIDE DEF j, t, u, b
  <2>3. \A s \in S1 : s \in Slot /\ s \div PTSIZE = t
    BY <1>5, <1>6, <2>2, SlotsInFrame
  <2>4. S1 \subseteq SlotsOf(Tables(p)) /\ S1 \subseteq SlotsOf(Tabled)
    BY <1>1, <1>6, <2>3 DEF SlotsOf, Tabled
  <2>5. ent' = Mark(S1)
    BY <1>2, <1>9
  <2>6. Users' = Users
    BY <1>4 DEF Users, User
  <2>7. /\ FramesOK' /\ ent' \in [Slot -> Entry]
        /\ \A q \in Users : \A k \in Index : Pde(q, k)' = Pde(q, k)
        /\ \A q \in Users : Tables(q)' = Tables(q)
        /\ Owned => Owned'
    BY <1>1, <1>4, <2>4, <2>5, <2>6, MarkedOK
  <2>8. PICK g : g = h
    OBVIOUS
  <2>9. /\ g.page \in UserPage /\ g.page \div PTSIZE = i /\ g.page % PTSIZE = j /\ g.bytes = b
        /\ g \in [page : UserPage, bytes : Requests]
    BY <1>1, <2>2, <2>8, PageFacts
  <2>10. XPDE \in Index
    BY Constants DEF Index
  <2>11. /\ TypeOK' /\ CallOK' /\ Users' = Users
         /\ \A q \in Pid : held'[q] = IF q = currpid THEN held[q] \cup {g} ELSE held[q]
    <3> HIDE DEF h
    <3>1. {g} \in SUBSET [page : UserPage, bytes : Requests] /\ Return({g})
      BY <1>3, <2>8, <2>9
    <3>2. QED
      BY <1>1, <1>3, <2>7, <2>10, <3>1, ReturnOK DEF TypeOK, b
  <2> HIDE DEF h
  <2>12. ASSUME NEW q \in Users, q = p
         PROVE  HeapOK(q, g)'
    <3>1. Pde(q, i)' = Pde(q, i) /\ Pde(q, i).pres /\ Pde(q, i).base = t
      BY <1>1, <1>6, <2>7, <2>12 DEF t
    <3>2. ToFree(q, g)' = At(Pde(q, i)'.base, j) .. At(Pde(q, i)'.base, j) + (b \div PAGE) - 1
      BY <2>9 DEF ToFree, SlotOf
    <3>3. ToFree(q, g)' = At(t, j) .. At(t, j) + (b \div PAGE) - 1
      BY <3>1, <3>2
    <3>4. At(t, j) \in Int
      BY <1>6, <2>2, Constants DEF At
    <3>5. ToFree(q, g)' \subseteq S1
      BY <1>5, <3>3, <3>4
    <3>6. Tables(q)' = Tables(q) /\ Tables(q) = Tables(p)
      BY <2>7, <2>12
    <3>7. Pde(q, g.page \div PTSIZE)'.pres
      BY <2>9, <3>1
    <3>8. SlotsOf(Tables(q))' = SlotsOf(Tables(p))
      BY <3>6 DEF SlotsOf
    <3>9. QED
      BY <2>4, <3>5, <3>7, <3>8 DEF HeapOK
  <2>13. HeldOK'
    <3>1. \A q \in Users : q = currpid => \A o \in {g} : HeapOK(q, o)'
      BY <2>12
    <3>2. QED
      BY <1>1, <2>7, <2>11, <3>1, HeapsAndOne, Constants
  <2>14. QED
    BY <2>7, <2>11, <2>13 DEF IInv
<1>10. CASE Fits(t, n) = {}
  <2>1. j \in Spills(t, n)
    BY <1>7, <1>8, <1>10, MinIsIn
  <2>2. j \in Index /\ j + n > PTSIZE
    BY <2>1 DEF Spills
  <2>3. "vfree" \notin Calls
    <3>1. n # 1
      <4>1. PTSIZE \in Nat /\ j \in 0 .. PTSIZE - 1
        BY <2>2, Constants DEF Index
      <4> HIDE DEF j
      <4>2. j + n > PTSIZE
        BY <2>2
      <4>3. QED
        BY <1>5, <4>1, <4>2
    <3>2. n = Pages(b) /\ ~LargeRequest(b)
      BY Constants, <1>5 DEF LargeRequest
    <3>3. QED
      BY <1>1, <3>1, <3>2 DEF FreeableHeaps
  <2>4. CASE ~Pde(p, i + 1).pres
    <3>1. ent' = Mark(S2)
      BY <1>2, <1>10, <2>4
    <3> HIDE DEF t, u, j, b
    <3>2. rest \in Nat /\ 0 + rest <= PTSIZE /\ 0 \in Index
      BY <1>5, <2>2, Constants DEF Index
    <3>3. At(t, rest - 1) = At(t, 0) + rest - 1
      BY <1>5, <1>6, <2>2, Constants DEF At
    <3> HIDE DEF rest
    <3>4. \A s \in At(t, 0) .. At(t, rest - 1) : s \in Slot /\ s \div PTSIZE = t
      BY <1>6, <3>2, <3>3, SlotsInFrame
    <3>5. \A k \in j .. PTSIZE - 1 : k \in Index
      BY <2>2 DEF Index
    <3>6. \A s \in tail : s \in Slot /\ s \div PTSIZE = t
      BY <1>6, <3>5, AtFacts
    <3>7. S2 \subseteq SlotsOf(Tabled)
      BY <1>1, <1>6, <3>4, <3>6 DEF SlotsOf, Tabled
    <3> HIDE DEF S2
    <3>8. Users' = Users
      BY <1>4 DEF Users, User
    <3>9. /\ FramesOK' /\ ent' \in [Slot -> Entry]
          /\ \A q \in Users : \A k \in Index : Pde(q, k)' = Pde(q, k)
          /\ Owned => Owned'
      BY <1>1, <1>4, <3>1, <3>7, <3>8, MarkedOK
    <3>10. h.page \in UserPage
      BY <2>2, PageFacts
    <3>11. {h} \in SUBSET [page : UserPage, bytes : Requests]
      BY <1>1, <3>10
    <3>12. XPDE \in Index
      BY Constants DEF Index
    <3>13. TypeOK' /\ CallOK'
      BY <1>1, <1>3, <3>9, <3>11, <3>12, ReturnOK DEF TypeOK, b
    <3>14. QED
      BY <2>3, <3>9, <3>13 DEF IInv, HeldOK
  <2>5. CASE Pde(p, i + 1).pres
    <3>1. ent' = Mark(S3)
      BY <1>2, <1>10, <2>5
    <3>2. u \in Frame /\ u \in Tables(p)
      BY <1>1, <1>7, <1>10, <2>5, UserFacts DEF Tables
    <3> HIDE DEF t, u, j, b
    <3>3. rest \in Nat /\ 0 + rest <= PTSIZE /\ 0 \in Index
      BY <1>5, <2>2, Constants DEF Index
    <3>4. At(u, rest - 1) = At(u, 0) + rest - 1
      BY <1>5, <3>2, <2>2, Constants DEF At
    <3> HIDE DEF rest
    <3>5. \A s \in At(u, 0) .. At(u, rest - 1) : s \in Slot /\ s \div PTSIZE = u
      BY <3>2, <3>3, <3>4, SlotsInFrame
    <3>6. \A k \in j .. PTSIZE - 1 : k \in Index
      BY <2>2 DEF Index
    <3>7. \A s \in tail : s \in Slot /\ s \div PTSIZE = t
      BY <1>6, <3>6, AtFacts
    <3>8. S3 \subseteq SlotsOf(Tabled)
      BY <1>1, <1>6, <3>2, <3>5, <3>7 DEF SlotsOf, Tabled
    <3> HIDE DEF S3
    <3>9. Users' = Users
      BY <1>4 DEF Users, User
    <3>10. /\ FramesOK' /\ ent' \in [Slot -> Entry]
           /\ \A q \in Users : \A k \in Index : Pde(q, k)' = Pde(q, k)
           /\ Owned => Owned'
      BY <1>1, <1>4, <3>1, <3>8, <3>9, MarkedOK
    <3>11. h.page \in UserPage
      BY <2>2, PageFacts
    <3>12. {h} \in SUBSET [page : UserPage, bytes : Requests]
      BY <1>1, <3>11
    <3>13. XPDE \in Index
      BY Constants DEF Index
    <3>14. TypeOK' /\ CallOK'
      BY <1>1, <1>3, <3>10, <3>12, <3>13, ReturnOK DEF TypeOK, b
    <3>15. QED
      BY <2>3, <3>10, <3>14 DEF IInv, HeldOK
  <2>6. QED
    BY <2>4, <2>5
<1>11. QED
  BY <1>9, <1>10

\* New tables, in frames that look free.
LEMMA NewTablesOK ==
  ASSUME TypeOK, FramesOK, NEW p \in Users, Users' = Users, dir' = dir, ffs' = ffs,
         NEW i \in UserPde, NEW n \in Nat \ {0}, i + n <= PTSIZE,
         \A j \in UserPde : Pde(p, j).pres <=> j < i,
         NEW f \in Runs(n), NEW last, ent' = NewTables(dir[p], i, f, n, last)
  PROVE  /\ FramesOK' /\ ent' \in [Slot -> Entry]
         /\ \A q \in Users : \A k \in Index :
               Pde(q, k)' = IF q = p /\ k \in i .. i + n - 1 THEN Lead(f + k - i) ELSE Pde(q, k)
         /\ \A q \in Users : Tables(q)' = IF q = p THEN Tables(q) \cup (f .. f + n - 1) ELSE Tables(q)
         /\ Owned => Owned'
<1> DEFINE N == f .. f + n - 1
           range == i .. i + n - 1
           lead(k) == Lead(f + k - i)
<1>1. /\ DirectoriesOK /\ Separate /\ EntriesOK /\ MapsOnce
      /\ PTSIZE \in Nat /\ i \in Nat /\ XPDE <= i /\ XPDE \in Nat /\ p \in Pid
  BY Constants DEF FramesOK, UserPde, Users
<1>2. /\ f \in Frame /\ f \in Nat /\ f + n - 1 \in Frame /\ N \subseteq Frame
      /\ \A g \in N : ent[At(g, 0)].avail = 0
  BY Constants DEF Runs, TableFree, Frame
<1>3. \A g \in N : \A q \in Users : g \notin Tables(q) /\ g # dir[q]
  BY <1>2, UsedFrames
<1>4. \A k \in range : k \in UserPde /\ k \in Index /\ f + k - i \in N
  BY <1>1, <1>2 DEF UserPde, Index
<1>5. ASSUME NEW q \in Users, NEW k \in Index
      PROVE  Pde(q, k)' = IF q = p /\ k \in range THEN lead(k) ELSE Pde(q, k)
  <2> DEFINE s == At(dir[q], k)
  <2>1. s \in Slot /\ s \div PTSIZE = dir[q] /\ s % PTSIZE = k
    BY <1>1, UserFacts, AtFacts
  <2>2. dir[q] \notin N /\ (dir[q] = dir[p] <=> q = p)
    BY <1>1, <1>3 DEF Separate
  <2> HIDE DEF s
  <2>3. ent'[s] = IF dir[q] = dir[p] /\ k \in range THEN lead(k) ELSE ent[s]
    BY <2>1, <2>2 DEF NewTables
  <2>4. QED
    BY <2>2, <2>3 DEF s, Pde
<1>6. \A s \in Slot : s \div PTSIZE \notin N \cup {dir[p]} => ent'[s] = ent[s]
  BY DEF NewTables
<1>7. \A s \in Slot : s \div PTSIZE \in N => ent'[s] \in {Valid, Empty}
  BY DEF NewTables
<1>8. \A k \in range : ~Pde(p, k).pres
  BY <1>1, <1>4
<1>9. \A q \in Users : Tables(q)' = IF q = p THEN Tables(q) \cup N ELSE Tables(q)
  <2>1. ASSUME NEW q \in Users, q # p
        PROVE  Tables(q)' = Tables(q)
    BY <1>5, <2>1, Constants DEF Tables
  <2>2. Tables(p)' \subseteq Tables(p) \cup N
    <3>1. ASSUME NEW k \in UserPde, Pde(p, k)'.pres
          PROVE  Pde(p, k)'.base \in Tables(p) \cup N
      BY <1>4, <1>5, <3>1, Constants DEF Tables, Lead
    <3>2. QED
      BY <3>1 DEF Tables
  <2>3. Tables(p) \subseteq Tables(p)'
    <3>1. ASSUME NEW k \in UserPde, Pde(p, k).pres
          PROVE  Pde(p, k)'.pres /\ Pde(p, k)'.base = Pde(p, k).base
      BY <1>5, <1>8, <3>1, Constants
    <3>2. QED
      BY <3>1 DEF Tables
  <2>4. ASSUME NEW g \in N
        PROVE  g \in Tables(p)'
    <3>1. g - f + i \in range /\ f + (g - f + i) - i = g
      BY <1>1, <1>2
    <3>2. g - f + i \in UserPde /\ Pde(p, g - f + i)' = Lead(g)
      BY <1>4, <1>5, <3>1
    <3>3. QED
      BY <3>2 DEF Tables, Lead
  <2>5. QED
    BY <2>1, <2>2, <2>3, <2>4
<1> HIDE DEF N, range, lead
<1>10. Tabled' = Tabled \cup N
  BY <1>9 DEF Tabled
<1>11. ASSUME NEW s \in SlotsOf(Tabled)
       PROVE  ent'[s] = ent[s]
  <2>1. s \in Slot /\ s \div PTSIZE \in Tabled
    BY DEF SlotsOf
  <2>2. s \div PTSIZE \notin N /\ s \div PTSIZE # dir[p]
    BY <1>1, <1>3, <2>1, OwnSlots DEF Tabled
  <2>3. QED
    BY <1>6, <2>1, <2>2
<1>12. /\ SlotsOf(Tabled)' = SlotsOf(Tabled) \cup SlotsOf(N)
       /\ \A s \in SlotsOf(N) : ent'[s].avail # 0 /\ ~ent'[s].pres
  BY <1>7, <1>10 DEF SlotsOf, Valid, Empty
<1>13. EntriesOK'
  BY <1>1, <1>11, <1>12 DEF EntriesOK
<1>14. MapsOnce'
  BY <1>1, <1>11, <1>12 DEF MapsOnce
<1>15. \A k \in range : lead(k).pres /\ lead(k).base = f + k - i
  BY DEF lead, Lead
<1>16. DirectoriesOK'
  <2>1. \A q \in Users : dir'[q] \in Frame
    BY <1>1 DEF DirectoriesOK
  <2>2. \A q \in Users : \A k \in Index : k < XPDE => Pde(q, k)' = Lead(SYSTEM)
    <3>1. \A k \in range : ~(k < XPDE)
      BY <1>1 DEF range
    <3>2. QED
      BY <1>1, <1>5, <3>1 DEF DirectoriesOK
  <2>3. ASSUME NEW q \in Users, NEW k \in UserPde
        PROVE  Pde(q, k)' = Empty \/ \E b \in Frame : Pde(q, k)' = Lead(b)
    <3>1. k \in Index
      BY Constants
    <3>2. CASE q = p /\ k \in range
      BY <1>2, <1>4, <1>5, <3>1, <3>2 DEF lead
    <3>3. CASE ~(q = p /\ k \in range)
      BY <1>1, <1>5, <3>1, <3>3 DEF DirectoriesOK
    <3>4. QED
      BY <3>2, <3>3
  <2>4. ASSUME NEW q \in Users, NEW k \in UserPde, NEW j \in UserPde, k < j, Pde(q, j)'.pres
        PROVE  Pde(q, k)'.pres
    <3>1. k \in Index /\ j \in Index /\ k \in Int /\ j \in Int
      BY Constants
    <3>2. CASE q # p
      BY <1>1, <1>5, <2>4, <3>1, <3>2 DEF DirectoriesOK
    <3>3. CASE q = p
      <4>1. j < i \/ j \in range
        BY <1>5, <2>4, <3>1, <3>3
      <4>2. k < i \/ k \in range
        BY <1>1, <2>4, <3>1, <4>1 DEF range
      <4>3. k \notin range => Pde(q, k)'.pres
        BY <1>5, <3>1, <3>3, <4>2
      <4>4. k \in range => Pde(q, k)'.pres
        BY <1>5, <1>15, <3>1, <3>3
      <4>5. QED
        BY <4>3, <4>4
    <3>4. QED
      BY <3>2, <3>3
  <2>5. QED
    BY <2>1, <2>2, <2>3, <2>4 DEF DirectoriesOK
<1>17. ASSUME NEW q \in Users, NEW k \in UserPde, Pde(q, k)'.pres
       PROVE  \/ q = p /\ k \in range /\ Pde(q, k)'.base = f + k - i /\ Pde(q, k)'.base \in N
              \/ /\ ~(q = p /\ k \in range) /\ Pde(q, k).pres /\ Pde(q, k)'.base = Pde(q, k).base
                 /\ Pde(q, k)'.base \notin N
  <2>1. k \in Index
    BY Constants
  <2>2. CASE q = p /\ k \in range
    BY <1>4, <1>5, <1>15, <2>1, <2>2
  <2>3. CASE ~(q = p /\ k \in range)
    <3>1. Pde(q, k)' = Pde(q, k)
      BY <1>5, <2>1, <2>3
    <3>2. Pde(q, k).base \in Tables(q)
      BY <1>17, <3>1 DEF Tables
    <3>3. QED
      BY <1>3, <1>17, <2>3, <3>1, <3>2
  <2>4. QED
    BY <2>2, <2>3
<1>18. Separate'
  <2>1. \A q, o \in Users : dir'[q] = dir'[o] => q = o
    BY <1>1 DEF Separate
  <2>2. ASSUME NEW q \in Users, NEW o \in Users, NEW k \in UserPde, Pde(q, k)'.pres
        PROVE  Pde(q, k)'.base # dir'[o]
    BY <1>1, <1>3, <1>17, <2>2 DEF Separate
  <2>3. ASSUME NEW q \in Users, NEW o \in Users, NEW k \in UserPde, NEW j \in UserPde,
               Pde(q, k)'.pres, Pde(o, j)'.pres, Pde(q, k)'.base = Pde(o, j)'.base
        PROVE  q = o /\ k = j
    <3>1. CASE Pde(q, k)'.base \in N
      <4>1. /\ q = p /\ o = p /\ k \in range /\ j \in range /\ f + k - i = f + j - i
        BY <1>17, <2>3, <3>1
      <4>2. QED
        BY <1>1, <1>2, <4>1 DEF range
    <3>2. CASE Pde(q, k)'.base \notin N
      BY <1>1, <1>17, <2>3, <3>2 DEF Separate
    <3>3. QED
      BY <3>1, <3>2
  <2>4. QED
    BY <2>1, <2>2, <2>3 DEF Separate
<1>19. ent' \in [Slot -> Entry]
  <2>1. ASSUME NEW s \in Slot
        PROVE  ent'[s] \in Entry
    <3>1. \A k \in range : lead(k) \in Entry
      BY <1>2, <1>4, Entries DEF lead
    <3>2. \/ ent'[s] \in {Valid, Empty} \/ ent'[s] = ent[s]
          \/ s % PTSIZE \in range /\ ent'[s] = lead(s % PTSIZE)
      BY DEF NewTables, range, lead
    <3>3. QED
      BY <3>1, <3>2, Entries DEF TypeOK
  <2>2. ent' = [s \in Slot |-> ent'[s]]
    BY DEF NewTables
  <2>3. QED
    BY <2>1, <2>2
<1>20. FfsOwned => FfsOwned'
  BY <1>11, <1>12 DEF FfsOwned
<1>21. TablesOwned => TablesOwned'
  <2>1. \A g \in Frame : g \notin N /\ g # dir[p] => ent'[At(g, 0)] = ent[At(g, 0)]
    BY <1>6, AtFacts, Constants
  <2>2. QED
    BY <1>10, <2>1 DEF TablesOwned
<1>22. QED
  BY <1>5, <1>9, <1>13, <1>14, <1>16, <1>18, <1>19, <1>20, <1>21
  DEF FramesOK, Owned, N, range, lead

LEMMA TablesForFacts ==
  ASSUME NEW bytes \in Requests
  PROVE  /\ TablesFor(bytes) \in Nat \ {0}
         /\ PTSIZE * TablesFor(bytes) >= Pages(bytes)
         /\ Pages(bytes) < PTSIZE => TablesFor(bytes) = 1
<1> DEFINE n == Pages(bytes)
           w == Whole(bytes)
           r == Rest(bytes)
           m == TablesFor(bytes)
<1>1. n \in Nat \ {0} /\ PTSIZE \in Nat \ {0}
  BY PagesFacts, Constants
<1>2. w = n \div PTSIZE /\ r = n % PTSIZE /\ m = w + IF r > 0 THEN 1 ELSE 0
  BY DEF Whole, Rest, TablesFor
<1>3. w \in Int /\ r \in 0 .. PTSIZE - 1 /\ n = PTSIZE * w + r
  <2> HIDE DEF n, w, r, m
  <2>1. QED
    BY <1>1, <1>2, DivModBasic
<1> HIDE DEF n, w, r, m
<1>4. w >= 0
  <2>1. ASSUME w < 0
        PROVE  FALSE
    <3>1. w <= -1
      BY <1>3, <2>1
    <3>2. PTSIZE * w <= -PTSIZE
      BY <1>1, <1>3, <3>1, Z3
    <3>3. PTSIZE * w \in Int
      BY <1>1, <1>3
    <3>4. QED
      BY <1>1, <1>3, <3>2, <3>3
  <2>2. QED
    BY <1>3, <2>1
<1>5. m \in Nat
  BY <1>2, <1>3, <1>4
<1>6. m # 0
  <2>1. ASSUME m = 0
        PROVE  FALSE
    <3>1. w = 0 /\ r = 0
      BY <1>2, <1>3, <1>4, <2>1
    <3>2. QED
      BY <1>1, <1>3, <3>1
  <2>2. QED
    BY <2>1
<1>7. PTSIZE * m >= n
  <2>1. CASE r = 0
    <3>1. m = w
      BY <1>2, <1>3, <2>1
    <3>2. PTSIZE * w \in Int
      BY <1>1, <1>3
    <3>3. QED
      BY <1>1, <1>3, <2>1, <3>1, <3>2
  <2>2. CASE r # 0
    <3>1. m = w + 1
      BY <1>2, <1>3, <2>2
    <3>2. PTSIZE * (w + 1) = PTSIZE * w + PTSIZE
      BY <1>1, <1>3, Z3
    <3>3. PTSIZE * w \in Int
      BY <1>1, <1>3
    <3>4. PTSIZE * m = PTSIZE * w + PTSIZE
      BY <3>1, <3>2
    <3>5. QED
      BY <1>1, <1>3, <3>3, <3>4
  <2>3. QED
    BY <2>1, <2>2
<1>8. ASSUME n < PTSIZE
      PROVE  m = 1
  <2>1. PTSIZE * 0 + n = PTSIZE * w + r /\ n \in 0 .. PTSIZE - 1
    BY <1>1, <1>3, <1>8
  <2>2. w = 0 /\ r = n
    BY <1>1, <1>3, <2>1, DivModUnique
  <2>3. QED
    BY <1>1, <1>2, <2>2
<1>9. QED
  BY <1>5, <1>6, <1>7, <1>8 DEF n, m

\* New tables for the heap, from directory entry i on.
LEMMA AtNewTableOK ==
  ASSUME IInv, call[currpid].bytes > 0, NEW i \in UserPde,
         \A j \in UserPde : Pde(currpid, j).pres <=> j < i,
         i + TablesFor(call[currpid].bytes) <= PTSIZE, AtNewTable(i)
  PROVE  IInv' /\ (Owned => Owned')
<1> DEFINE b == call[currpid].bytes
           n == TablesFor(b)
           last == IF Rest(b) > 0 THEN Rest(b) ELSE PTSIZE
           h == [page |-> i * PTSIZE, bytes |-> b]
<1>1. /\ TypeOK /\ FramesOK /\ DirectoriesOK /\ HeldOK /\ CallOK
      /\ currpid \in Users /\ currpid \in Pid /\ b \in Requests
  BY DEF IInv, FramesOK, CallOK, Users, TypeOK
<1>2. CASE Runs(n) = {}
  <2>1. intr' = [intr EXCEPT ![currpid] = FALSE] /\ Return({}) /\ ent' = ent
    BY <1>2 DEF AtNewTable
  <2>2. intr' \in [Pid -> BOOLEAN]
    BY <1>1, <2>1 DEF TypeOK
  <2>3. QED
    BY <2>1, <2>2, RefusedOK, QuietOwned DEF Return, Users, User
<1>3. CASE Runs(n) # {}
  <2> DEFINE f == Min(Runs(n))
  <2>1. /\ ent' = NewTables(dir[currpid], i, f, n, last)
        /\ Return({h}) /\ intr' = intr
    BY <1>3 DEF AtNewTable, Granted
  <2>2. f \in Runs(n)
    <3>1. Runs(n) \subseteq Nat
      BY Constants DEF Runs
    <3>2. QED
      BY <1>3, <3>1, MinIsIn
  <2> HIDE DEF f, last
  <2>3. /\ ffs' = ffs /\ dir' = dir /\ currpid' = currpid /\ Users' = Users
    BY <2>1 DEF Return, Users, User
  <2>4. n \in Nat \ {0} /\ PTSIZE * n >= Pages(b) /\ i + n <= PTSIZE
    BY <1>1, TablesForFacts
  <2>5. \A j \in UserPde : Pde(currpid, j).pres <=> j < i
    OBVIOUS
  <2>6. b \div PAGE \in Nat /\ b \div PAGE <= Pages(b) /\ Pages(b) \in Nat
    BY <1>1, PagesFacts
  <2>7. PICK c, g, m, d : c = currpid /\ g = h /\ m = n /\ d = f
    OBVIOUS
  <2>8. /\ g.page = i * PTSIZE + 0 /\ g.bytes = b /\ i \in Int
        /\ g.page \in UserPage /\ g.page \div PTSIZE = i /\ g.page % PTSIZE = 0
        /\ g \in [page : UserPage, bytes : Requests]
    <3>1. g.page = i * PTSIZE /\ g.bytes = b /\ g = [page |-> i * PTSIZE, bytes |-> b]
      BY <2>7
    <3>2. i \in Int /\ i * PTSIZE \in Int /\ 0 \in Index
      BY Constants DEF UserPde
    <3>3. i * PTSIZE + 0 = i * PTSIZE
      BY <3>2
    <3>4. g.page \in UserPage /\ g.page \div PTSIZE = i /\ g.page % PTSIZE = 0
      BY <3>1, <3>2, <3>3, PageFacts
    <3>5. QED
      BY <1>1, <3>1, <3>2, <3>3, <3>4
  <2>9. Return({g})
    BY <2>1, <2>7
  <2> HIDE DEF n, h, b
  <2>10. /\ FramesOK' /\ ent' \in [Slot -> Entry]
         /\ \A q \in Users : \A k \in Index :
               Pde(q, k)' = IF q = c /\ k \in i .. i + m - 1 THEN Lead(d + k - i) ELSE Pde(q, k)
         /\ \A q \in Users : Tables(q)' = IF q = c THEN Tables(q) \cup (d .. d + m - 1) ELSE Tables(q)
         /\ Owned => Owned'
    <3>1. PICK l : l = last
      OBVIOUS
    <3>2. ent' = NewTables(dir[c], i, d, m, l)
      BY <2>1, <2>7, <3>1
    <3>3. c \in Users /\ m \in Nat \ {0} /\ i + m <= PTSIZE /\ d \in Runs(m)
      BY <1>1, <2>2, <2>4, <2>7
    <3>4. \A j \in UserPde : Pde(c, j).pres <=> j < i
      BY <2>5, <2>7
    <3> HIDE <2>1, <2>2, <2>4, <2>5, <2>7, <2>8, <2>9, <3>1
    <3>5. QED
      BY <1>1, <2>3, <3>2, <3>3, <3>4, NewTablesOK
  <2>11. XPDE \in Index
    BY Constants DEF Index
  <2>12. /\ TypeOK' /\ CallOK' /\ Users' = Users
         /\ \A q \in Pid : held'[q] = IF q = currpid THEN held[q] \cup {g} ELSE held[q]
    <3>1. {g} \in SUBSET [page : UserPage, bytes : Requests]
      BY <2>8
    <3>2. intr' \in [Pid -> BOOLEAN]
      BY <1>1, <2>1 DEF TypeOK
    <3>3. \A q \in Users : q # currpid => Pde(q, XPDE)' = Pde(q, XPDE)
      BY <2>7, <2>10, <2>11
    <3>4. QED
      BY <1>1, <2>9, <2>10, <3>1, <3>2, <3>3, ReturnOK
  <2>13. /\ d \in Frame /\ d + m - 1 \in Frame /\ m \in Nat \ {0} /\ d \in Nat /\ PTSIZE \in Nat
    BY <2>2, <2>4, <2>7, Constants DEF Runs
  <2>14. HeapOK(c, g)'
    <3>1. c \in Users /\ i \in Index /\ i \in i .. i + m - 1
      BY <1>1, <2>7, <2>8, <2>13, Constants
    <3>2. Pde(c, i)' = Lead(d)
      <4>1. Pde(c, i)' = Lead(d + i - i)
        BY <2>10, <3>1
      <4>2. d + i - i = d
        BY <2>8, <2>13
      <4>3. QED
        BY <4>1, <4>2
    <3>3. Pde(c, i)'.pres /\ Pde(c, i)'.base = d
      BY <3>2 DEF Lead
    <3>4. ToFree(c, g)' = At(d, 0) .. At(d, 0) + (g.bytes \div PAGE) - 1
      BY <2>8, <3>3 DEF ToFree, SlotOf
    <3>5. ToFree(c, g)' \subseteq At(d, 0) .. At(d, 0) + PTSIZE * m - 1
      <4>1. At(d, 0) \in Int /\ PTSIZE * m \in Int
        BY <2>13 DEF At
      <4>2. g.bytes \div PAGE <= PTSIZE * m /\ g.bytes \div PAGE \in Int
        BY <2>4, <2>6, <2>7, <2>8, <4>1
      <4>3. QED
        BY <3>4, <4>1, <4>2
    <3>6. \A s \in ToFree(c, g)' : s \in Slot /\ s \div PTSIZE \in d .. d + m - 1
      BY <2>13, <3>5, SlotsAcrossFrames
    <3>7. \A s \in ToFree(c, g)' : s \in SlotsOf(Tables(c))'
      BY <2>10, <3>1, <3>6 DEF SlotsOf
    <3>8. QED
      BY <2>8, <3>3, <3>7 DEF HeapOK
  <2>15. HeldOK'
    <3>1. \A q \in Users : q = currpid => \A o \in {g} : HeapOK(q, o)'
      BY <2>7, <2>14
    <3>2. \A q \in Users : Tables(q) \subseteq Tables(q)'
      BY <2>10
    <3>3. \A q \in Users : \A k \in UserPde : Pde(q, k).pres => Pde(q, k)' = Pde(q, k)
      <4>1. ASSUME NEW q \in Users, NEW k \in UserPde, Pde(q, k).pres
            PROVE  ~(q = c /\ k \in i .. i + m - 1)
        BY <2>5, <2>7, <2>8, <2>13, <4>1
      <4>2. QED
        BY <2>10, <4>1, Constants
    <3>4. QED
      BY <1>1, <2>12, <3>1, <3>2, <3>3, HeapsAndOne
  <2>16. QED
    BY <2>10, <2>12, <2>15 DEF IInv
<1>4. QED
  BY <1>2, <1>3

LEMMA VmallocRestOK ==
  ASSUME IInv, FreeableHeaps, VmallocRest
  PROVE  IInv' /\ (Owned => Owned')
<1> DEFINE b == call[currpid].bytes
           n == Pages(b)
           stops == {i \in UserPde : Ends(i, n)}
<1>1. /\ TypeOK /\ FramesOK /\ DirectoriesOK /\ CallOK /\ b > 0
      /\ currpid \in Users /\ currpid \in Pid /\ b \in Requests
      /\ LargeRequest(b) => ~Pde(currpid, XPDE).pres
  BY DEF IInv, FramesOK, CallOK, Users, TypeOK, VmallocRest
<1>2. n \in Nat \ {0} /\ PTSIZE \in Nat \ {0} /\ UserPde \subseteq Nat /\ XPDE \in 1 .. PTSIZE - 1
  BY <1>1, PagesFacts, Constants DEF UserPde
<1>3. CASE Return({}) /\ ent' = ent /\ intr' = intr
  <2>1. IInv'
    BY <1>1, <1>3, RefusedOK DEF TypeOK
  <2>2. ffs' = ffs /\ dir' = dir /\ Users' = Users
    BY <1>3 DEF Return, Users, User
  <2>3. QED
    BY <1>3, <2>1, <2>2, QuietOwned
<1>4. CASE n < PTSIZE /\ stops # {} /\ ~(Return({}) /\ ent' = ent /\ intr' = intr)
  <2> DEFINE i == Min(stops)
  <2>1. i \in stops /\ \A j \in stops : i <= j
    BY <1>2, <1>4, MinIsIn
  <2> HIDE DEF i
  <2>2. i \in UserPde /\ Ends(i, n) /\ \A j \in UserPde : j < i => ~Ends(j, n)
    BY <1>2, <2>1
  <2>3. CASE Pde(currpid, i).pres
    <3>1. AtOldTable(i, n)
      BY <1>1, <1>2, <1>4, <2>3 DEF VmallocRest, i
    <3>2. QED
      BY <1>1, <1>4, <2>2, <2>3, <3>1, AtOldTableOK
  <2>4. CASE ~Pde(currpid, i).pres
    <3>1. AtNewTable(i)
      BY <1>1, <1>2, <1>4, <2>4 DEF VmallocRest, i
    <3>2. \A j \in UserPde : j < i => Pde(currpid, j).pres
      BY <2>2 DEF Ends
    <3>3. \A j \in UserPde : ~(j < i) => ~Pde(currpid, j).pres
      BY <1>1, <1>2, <2>2, <2>4 DEF DirectoriesOK
    <3>4. TablesFor(b) = 1
      BY <1>1, <1>4, TablesForFacts
    <3>5. i + TablesFor(b) <= PTSIZE
      BY <1>2, <2>2, <3>4 DEF UserPde
    <3>6. QED
      BY <1>1, <2>2, <3>1, <3>2, <3>3, <3>5, AtNewTableOK
  <2>5. QED
    BY <2>3, <2>4
<1>5. CASE n >= PTSIZE /\ ~(Return({}) /\ ent' = ent /\ intr' = intr)
  <2>1. XPDE + TablesFor(b) < PTSIZE /\ AtNewTable(XPDE)
    BY <1>2, <1>5 DEF VmallocRest
  <2>2. ~Pde(currpid, XPDE).pres /\ XPDE \in UserPde
    BY <1>1, <1>2, <1>5 DEF LargeRequest, UserPde
  <2>3. \A j \in UserPde : Pde(currpid, j).pres <=> j < XPDE
    <3>1. \A j \in UserPde : ~(j < XPDE) /\ (j = XPDE \/ XPDE < j)
      BY <1>2 DEF UserPde
    <3>2. QED
      BY <1>1, <2>2, <3>1 DEF DirectoriesOK
  <2>4. XPDE + TablesFor(b) <= PTSIZE
    BY <1>1, <1>2, <2>1, TablesForFacts
  <2>5. QED
    BY <1>1, <2>1, <2>2, <2>3, <2>4, AtNewTableOK
<1>6. QED
  BY <1>2, <1>3, <1>4, <1>5 DEF VmallocRest

-----------------------------------------------------------------------------
(* vfree, and page faults.                                                 *)

\* Steps of a user process that write tables only, and nobody's vmalloc.
LEMMA TablesOnlyOK ==
  ASSUME IInv, UNCHANGED <<dir, cr3, prstate, currpid, intr, call>>,
         \A s \in Slot : s \notin SlotsOf(Tabled) => ent'[s] = ent[s],
         ent' \in [Slot -> Entry], ffs' \in [Ffs -> {2, 3}],
         held' \in [Pid -> SUBSET [page : UserPage, bytes : Requests]],
         \A p \in Pid : held'[p] \subseteq held[p],
         SlotsOf(Tabled)' = SlotsOf(Tabled) => EntriesOK' /\ MapsOnce'
  PROVE  IInv'
<1>1. TypeOK /\ FramesOK /\ DirectoriesOK /\ HeldOK /\ CallOK
  BY DEF IInv, FramesOK
<1>2. Users' = Users
  BY DEF Users, User
<1>3. /\ \A p \in Users : \A i \in Index : ent'[At(dir[p], i)] = ent[At(dir[p], i)]
      /\ \A p \in Users : \A i \in Index : Pde(p, i)' = Pde(p, i)
      /\ DirectoriesOK' /\ Separate' /\ SlotsOf(Tabled)' = SlotsOf(Tabled)
  BY <1>1, <1>2, TablesChanged
<1>4. HeldOK'
  BY <1>1, <1>2, <1>3, KeptHeaps DEF Users
<1>5. TypeOK'
  BY <1>1 DEF TypeOK
<1>6. CallOK'
  <2>1. ASSUME NEW q \in Pid
        PROVE  /\ call'[q] # InUserCode => call'[q].bytes > 0
               /\ call'[q].bytes > 0 =>
                     /\ User(q)' /\ call'[q].bytes \in Requests
                     /\ LargeRequest(call'[q].bytes) => ~Pde(q, XPDE)'.pres
               /\ prstate'[q] # "eligible" => held'[q] = {}
    <3>1. User(q) => User(q)' /\ q \in Users
      BY DEF User, Users
    <3>2. User(q) => Pde(q, XPDE)' = Pde(q, XPDE)
      BY <1>3, <3>1, Constants DEF Index
    <3>3. prstate'[q] # "eligible" => held'[q] = {}
      BY <1>1 DEF CallOK
    <3>4. QED
      BY <1>1, <3>1, <3>2, <3>3 DEF CallOK
  <2>2. QED
    BY <1>1, <2>1 DEF CallOK
<1>7. QED
  BY <1>3, <1>4, <1>5, <1>6 DEF IInv, FramesOK

LEMMA VfreeOK ==
  ASSUME IInv, NEW h \in held[currpid], Vfree(h)
  PROVE  IInv'
<1> DEFINE S == ToFree(currpid, h)
           used == {ent[s].base : s \in {t \in S : ent[t].pres}}
<1>1. TypeOK /\ FramesOK /\ HeldOK /\ EntriesOK /\ MapsOnce /\ currpid \in Pid
  BY DEF IInv, FramesOK, TypeOK
<1>2. /\ "vfree" \in Calls /\ currpid \in Users
      /\ ffs' = Unmapped(S) /\ ent' = Rewrite(S, Empty)
      /\ held' = [held EXCEPT ![currpid] = @ \ {h}]
      /\ UNCHANGED <<dir, cr3, prstate, currpid, intr, call>>
  BY <1>1 DEF Vfree, Does, Users
<1>3. S \subseteq SlotsOf(Tabled)
  <2>1. S \subseteq SlotsOf(Tables(currpid))
    BY <1>1, <1>2 DEF HeldOK, HeapOK
  <2>2. QED
    BY <1>2, <2>1 DEF SlotsOf, Tabled
<1>4. ffs' = [k \in Ffs |-> IF k \in used THEN 2 ELSE ffs[k]]
  BY <1>2 DEF Unmapped
<1> HIDE DEF S
<1>5. \A s \in Slot : ent'[s] = IF s \in S THEN Empty ELSE ent[s]
  BY <1>2 DEF Rewrite
<1>6. ent' \in [Slot -> Entry]
  BY <1>1, <1>2, Entries DEF Rewrite, TypeOK
<1>7. ffs' \in [Ffs -> {2, 3}]
  BY <1>1, <1>4 DEF TypeOK
<1>8. /\ held' \in [Pid -> SUBSET [page : UserPage, bytes : Requests]]
      /\ \A p \in Pid : held'[p] \subseteq held[p]
  BY <1>1, <1>2 DEF TypeOK
<1>9. SlotsOf(Tabled) \subseteq Slot /\ ~Empty.pres /\ Empty.avail # 0
  BY DEF SlotsOf, Empty
<1>10. ASSUME NEW s \in SlotsOf(Tabled), ent'[s].pres
       PROVE  s \notin S /\ ent'[s] = ent[s] /\ ent[s].base \in Ffs /\ ent[s].base \notin used
  <2>1. s \notin S /\ ent'[s] = ent[s]
    BY <1>5, <1>9, <1>10
  <2>2. ent[s].base \in Ffs
    BY <1>1, <1>10, <2>1 DEF EntriesOK
  <2>3. ASSUME NEW t \in S, ent[t].pres
        PROVE  ent[s].base # ent[t].base
    BY <1>1, <1>3, <1>10, <2>1, <2>3 DEF MapsOnce
  <2>4. QED
    BY <2>1, <2>2, <2>3
<1> HIDE DEF used
<1>11. SlotsOf(Tabled)' = SlotsOf(Tabled) => EntriesOK'
  <2>1. ASSUME NEW s \in SlotsOf(Tabled)
        PROVE  /\ ent'[s].avail # 0
               /\ ent'[s].pres => ent'[s].avail = 3 /\ ent'[s].base \in Ffs /\ ffs'[ent'[s].base] = 3
    <3>1. ent'[s].avail # 0
      BY <1>1, <1>5, <1>9 DEF EntriesOK
    <3>2. ASSUME ent'[s].pres
          PROVE  ent'[s].avail = 3 /\ ent'[s].base \in Ffs /\ ffs'[ent'[s].base] = 3
      BY <1>1, <1>4, <1>10, <3>2 DEF EntriesOK
    <3>3. QED
      BY <3>1, <3>2
  <2>2. QED
    BY <2>1 DEF EntriesOK
<1>12. SlotsOf(Tabled)' = SlotsOf(Tabled) => MapsOnce'
  BY <1>1, <1>10 DEF MapsOnce
<1>13. QED
  BY <1>2, <1>3, <1>5, <1>6, <1>7, <1>8, <1>11, <1>12, TablesOnlyOK

\* The entry of an allocated page is in a table of the process.
LEMMA AllocatedFacts ==
  ASSUME TypeOK, FramesOK, NEW p \in Users, NEW v \in UserPage, Allocated(p, v)
  PROVE  /\ Pde(p, v \div PTSIZE).pres /\ SlotOf(p, v) \in SlotsOf(Tables(p))
         /\ SlotOf(p, v) \in SlotsOf(Tabled) /\ ent[SlotOf(p, v)].avail = 3
<1>1. v \div PTSIZE \in UserPde /\ v % PTSIZE \in Index
  BY PageFacts
<1>2. Pde(p, v \div PTSIZE).avail = 3 /\ ent[SlotOf(p, v)].avail = 3
  BY DEF Allocated
<1>3. PICK b \in Frame : Pde(p, v \div PTSIZE) = Lead(b)
  BY <1>1, <1>2 DEF FramesOK, DirectoriesOK, Empty
<1>4. Pde(p, v \div PTSIZE).pres /\ Pde(p, v \div PTSIZE).base = b
  BY <1>3 DEF Lead
<1>5. SlotOf(p, v) \in Slot /\ SlotOf(p, v) \div PTSIZE = b
  BY <1>1, <1>4, AtFacts DEF SlotOf
<1>6. b \in Tables(p)
  BY <1>1, <1>4 DEF Tables
<1>7. QED
  BY <1>2, <1>4, <1>5, <1>6 DEF SlotsOf, Tabled

LEMMA MapPageOK ==
  ASSUME IInv, NEW v \in UserPage, MapPage(v)
  PROVE  IInv'
<1> DEFINE k == Min(FreeFfs)
           x == SlotOf(currpid, v)
           e == [pres |-> TRUE, avail |-> ent[x].avail, base |-> k]
<1>1. TypeOK /\ FramesOK /\ EntriesOK /\ MapsOnce
  BY DEF IInv, FramesOK
<1>2. /\ currpid \in Users /\ Allocated(currpid, v) /\ ~Present(currpid, v) /\ FreeFfs # {}
      /\ ent' = [ent EXCEPT ![x] = e] /\ ffs' = [ffs EXCEPT ![k] = 3]
      /\ UNCHANGED <<dir, cr3, prstate, currpid, intr, call>> /\ held' = held
  BY <1>1 DEF MapPage, Faults, Users, TypeOK, procVars
<1>3. x \in SlotsOf(Tabled) /\ x \in Slot /\ ent[x].avail = 3 /\ ~ent[x].pres
  <2>1. x \in SlotsOf(Tabled) /\ ent[x].avail = 3 /\ Pde(currpid, v \div PTSIZE).pres
    BY <1>1, <1>2, AllocatedFacts
  <2>2. QED
    BY <1>2, <2>1 DEF Present, SlotsOf
<1>4. k \in Ffs /\ ffs[k] # 3
  <2>1. FreeFfs \subseteq Nat
    BY Constants DEF FreeFfs
  <2>2. k \in FreeFfs
    BY <1>2, <2>1, MinIsIn
  <2>3. QED
    BY <2>2 DEF FreeFfs
<1> HIDE DEF k, x
<1>5. e \in Entry /\ e.pres /\ e.avail = 3 /\ e.base = k
  BY <1>3, <1>4 DEF Entry
<1> HIDE DEF e
<1>6. \A s \in Slot : ent'[s] = IF s = x THEN e ELSE ent[s]
  BY <1>1, <1>2, <1>3 DEF TypeOK
<1>7. \A o \in Ffs : ffs'[o] = IF o = k THEN 3 ELSE ffs[o]
  BY <1>1, <1>2, <1>4 DEF TypeOK
<1>8. ent' \in [Slot -> Entry] /\ ffs' \in [Ffs -> {2, 3}]
  BY <1>1, <1>2, <1>5 DEF TypeOK
<1>9. SlotsOf(Tabled) \subseteq Slot
  BY DEF SlotsOf
<1>10. \A s \in SlotsOf(Tabled) : ent[s].pres => ent[s].base # k
  BY <1>1, <1>4 DEF EntriesOK
<1>11. SlotsOf(Tabled)' = SlotsOf(Tabled) => EntriesOK' /\ MapsOnce'
  BY <1>1, <1>4, <1>5, <1>6, <1>7, <1>9, <1>10 DEF EntriesOK, MapsOnce
<1>12. held' \in [Pid -> SUBSET [page : UserPage, bytes : Requests]]
  BY <1>1, <1>2 DEF TypeOK
<1>13. QED
  BY <1>2, <1>3, <1>6, <1>8, <1>11, <1>12, TablesOnlyOK

-----------------------------------------------------------------------------
(* PagesExclusive.                                                         *)

\* The process that runs is ended: by itself, by a page fault or in vmalloc.
LEMMA EndsOK ==
  ASSUME IInv, Dies, UNCHANGED <<dir, intr>>,
         prstate' = [prstate EXCEPT ![currpid] = "PR_FREE"]
  PROVE  IInv'
<1>1. prstate \in [Pid -> {"PR_FREE", "eligible", "stranded"}] /\ currpid \in Pid
  BY DEF IInv, TypeOK
<1>2. /\ prstate' \in [Pid -> {"PR_FREE", "eligible", "stranded"}]
      /\ prstate'[currpid] = "PR_FREE"
      /\ \A q \in Pid \ {currpid} : prstate'[q] = prstate[q]
  BY <1>1
<1>3. QED
  BY <1>2, DiesOK

LEMMA VcreateRunsOffOK ==
  ASSUME IInv, NEW p \in Pid, VcreateRunsOff(p)
  PROVE  IInv'
<1>1. CASE /\ prstate' = [prstate EXCEPT ![p] = "stranded"]
           /\ UNCHANGED <<ent, ffs, cr3, currpid, call, held>>
  BY <1>1, StrandedOK DEF VcreateRunsOff
<1>2. CASE /\ prstate' = [prstate EXCEPT ![p] = "stranded", ![currpid] = "PR_FREE"]
           /\ Dies
  <2>1. /\ prstate \in [Pid -> {"PR_FREE", "eligible", "stranded"}] /\ currpid \in Pid
        /\ prstate[p] = "PR_FREE" /\ UNCHANGED <<dir, intr>>
    BY DEF IInv, TypeOK, VcreateRunsOff
  <2>2. /\ prstate' \in [Pid -> {"PR_FREE", "eligible", "stranded"}]
        /\ prstate'[currpid] = "PR_FREE"
        /\ \A q \in Pid \ {currpid} : \/ prstate'[q] = prstate[q]
                                      \/ prstate[q] # "eligible" /\ prstate'[q] # "eligible"
    BY <1>2, <2>1
  <2>3. QED
    BY <1>2, <2>1, <2>2, DiesOK
<1>3. QED
  BY <1>1, <1>2 DEF VcreateRunsOff

LEMMA InitOK == Init => IInv
<1> SUFFICES ASSUME Init
             PROVE  IInv
  OBVIOUS
<1>1. InUserCode \in [bytes : Nat, saved : Frame \cup {SYSTEM}] /\ InUserCode.bytes = 0
  BY DEF InUserCode
<1>2. NULLPROC \in Pid
  BY PagingAssumption DEF NULLPROC, Pid
<1>3. ent \in [Slot -> Entry]
  BY Entries DEF Init, Raw
<1>4. TypeOK
  BY <1>1, <1>2, <1>3 DEF Init, TypeOK
<1>5. Users = {} /\ Tabled = {} /\ SlotsOf(Tabled) = {}
  BY DEF Init, Users, User, Tabled, SlotsOf
<1>6. FramesOK /\ HeldOK
  BY <1>5 DEF FramesOK, DirectoriesOK, Separate, EntriesOK, MapsOnce, HeldOK
<1>7. CallOK
  BY <1>1, <1>2 DEF Init, CallOK
<1>8. QED
  BY <1>4, <1>6, <1>7 DEF IInv

LEMMA NextOK ==
  ASSUME IInv, FreeableHeaps, [Next]_vars
  PROVE  IInv'
<1>1. ASSUME NEW p \in Pid, Switch(p)
      PROVE  IInv'
  BY <1>1, SwitchOK
<1>2. ASSUME NEW p \in Pid, KillOther(p)
      PROVE  IInv'
  BY <1>2, KillOtherOK
<1>3. ASSUME NEW p \in Pid, Vcreate(p)
      PROVE  IInv'
  BY <1>3, VcreateOK
<1>4. ASSUME NEW p \in Pid, VcreateRunsOff(p)
      PROVE  IInv'
  BY <1>4, VcreateRunsOffOK
<1>5. ASSUME Exit
      PROVE  IInv'
  BY <1>5, EndsOK DEF Exit
<1>6. ASSUME VcreateFails
      PROVE  IInv'
  BY <1>6, VcreateFailsOK
<1>7. ASSUME Vmalloc
      PROVE  IInv'
  BY <1>7, VmallocOK
<1>8. ASSUME VmallocFaults
      PROVE  IInv'
  BY <1>8, EndsOK DEF VmallocFaults
<1>9. ASSUME VmallocRest
      PROVE  IInv'
  BY <1>9, VmallocRestOK
<1>10. ASSUME NEW h \in held[currpid], Vfree(h)
       PROVE  IInv'
  BY <1>10, VfreeOK
<1>11. ASSUME NEW v \in UserPage, MapPage(v)
       PROVE  IInv'
  BY <1>11, MapPageOK
<1>12. ASSUME NEW v \in UserPage, SegFault(v)
       PROVE  IInv'
  BY <1>12, EndsOK DEF SegFault
<1>13. ASSUME UNCHANGED vars
       PROVE  IInv'
  <2>1. UNCHANGED <<ent, ffs, dir, cr3, prstate, currpid, intr, call, held>>
    BY <1>13 DEF vars, procVars
  <2>2. TypeOK' /\ CallOK' /\ Users' = Users
    BY <2>1 DEF IInv, TypeOK, CallOK, Users, User, Pde
  <2>3. QED
    BY <2>1, <2>2, QuietOK
<1>14. QED
  BY <1>1, <1>2, <1>3, <1>4, <1>5, <1>6, <1>7, <1>8, <1>9, <1>10, <1>11, <1>12, <1>13 DEF Next, UserNext

\* No frame of the PT area is a directory or a table twice, or looks free while
\* it is one; no frame of the FFS area is the memory of two pages, or is taken
\* again by the page fault handler while it is mapped.
THEOREM PagesAreExclusive ==
  ASSUME FreeableHeaps
  PROVE  Spec => []PagesExclusive
<1>1. Init => IInv
  BY InitOK
<1>2. IInv /\ [Next]_vars => IInv'
  BY NextOK
<1>3. IInv => PagesExclusive
  BY FramesOKExclusive, TablesOKExclusive DEF IInv, PagesExclusive
<1>4. QED
  BY <1>1, <1>2, <1>3, PTL DEF Spec

-----------------------------------------------------------------------------
(* OwnDirectory.                                                           *)

\* A process in vmalloc has saved its own directory, and any other process that
\* runs has it in CR3.
OwnIInv ==
    /\ prstate \in [Pid -> {"PR_FREE", "eligible", "stranded"}]
    /\ dir \in [Pid -> Frame \cup {SYSTEM}]
    /\ cr3 \in Frame \cup {SYSTEM}
    /\ currpid \in Pid
    /\ call \in [Pid -> [bytes : Nat, saved : Frame \cup {SYSTEM}]]
    /\ prstate[currpid] = "eligible"
    /\ \A p \in Pid :
          call[p] # InUserCode => prstate[p] = "eligible" /\ call[p].saved = dir[p]
    /\ OwnDirectory

LEMMA OwnEnds ==
  ASSUME OwnIInv, Dies, UNCHANGED dir,
         prstate' \in [Pid -> {"PR_FREE", "eligible", "stranded"}],
         \A q \in Pid \ {currpid} : prstate[q] = "eligible" => prstate'[q] = "eligible"
  PROVE  OwnIInv'
<1>1. PICK p \in Pid \ {currpid} : prstate[p] = "eligible" /\ currpid' = p /\ cr3' = dir[p]
  BY DEF Dies, Dispatch
<1>2. call' = [call EXCEPT ![currpid] = InUserCode]
  BY DEF Dies, EndOf
<1>3. InUserCode \in [bytes : Nat, saved : Frame \cup {SYSTEM}]
  BY DEF InUserCode
<1>4. call' \in [Pid -> [bytes : Nat, saved : Frame \cup {SYSTEM}]]
  BY <1>2, <1>3 DEF OwnIInv
<1>5. cr3' \in Frame \cup {SYSTEM}
  BY <1>1 DEF OwnIInv
<1>6. ASSUME NEW q \in Pid, call'[q] # InUserCode
      PROVE  prstate'[q] = "eligible" /\ call'[q].saved = dir'[q]
  BY <1>2, <1>6 DEF OwnIInv
<1>7. OwnDirectory'
  BY <1>1 DEF OwnDirectory
<1>8. QED
  BY <1>1, <1>4, <1>5, <1>6, <1>7 DEF OwnIInv

LEMMA OwnReturns ==
  ASSUME OwnIInv, call[currpid].bytes > 0, NEW result, Return(result)
  PROVE  OwnIInv'
<1>1. /\ call' = [call EXCEPT ![currpid] = InUserCode] /\ cr3' = call[currpid].saved
      /\ dir' = dir /\ prstate' = prstate /\ currpid' = currpid
  BY DEF Return
<1>2. call[currpid] # InUserCode
  BY DEF InUserCode
<1>3. cr3' = dir'[currpid']
  BY <1>1, <1>2 DEF OwnIInv
<1>4. InUserCode \in [bytes : Nat, saved : Frame \cup {SYSTEM}]
  BY DEF InUserCode
<1>5. call' \in [Pid -> [bytes : Nat, saved : Frame \cup {SYSTEM}]]
  BY <1>1, <1>4 DEF OwnIInv
<1>6. \A q \in Pid : call'[q] # InUserCode => call'[q] = call[q]
  BY <1>1 DEF OwnIInv
<1>7. cr3' \in Frame \cup {SYSTEM}
  BY <1>1, <1>3 DEF OwnIInv
<1>8. QED
  BY <1>1, <1>3, <1>5, <1>6, <1>7 DEF OwnIInv, OwnDirectory

LEMMA OwnNext ==
  ASSUME OwnIInv, "badvcreate" \notin Calls, [Next]_vars
  PROVE  OwnIInv'
<1>0. /\ prstate \in [Pid -> {"PR_FREE", "eligible", "stranded"}]
      /\ currpid \in Pid /\ prstate[currpid] = "eligible"
  BY DEF OwnIInv
<1>1. ASSUME NEW p \in Pid, Switch(p)
      PROVE  OwnIInv'
  <2>1. /\ prstate[p] = "eligible" /\ currpid' = p /\ cr3' = dir[p]
        /\ dir' = dir /\ prstate' = prstate /\ call' = call
    BY <1>1 DEF Switch, Dispatch
  <2>2. QED
    BY <2>1 DEF OwnIInv, OwnDirectory
<1>2. ASSUME NEW p \in Pid, KillOther(p)
      PROVE  OwnIInv'
  <2>1. /\ p # currpid /\ prstate' = [prstate EXCEPT ![p] = "PR_FREE"]
        /\ call' = [call EXCEPT ![p] = InUserCode]
        /\ dir' = dir /\ cr3' = cr3 /\ currpid' = currpid
    BY <1>2 DEF KillOther, EndOf
  <2>2. InUserCode \in [bytes : Nat, saved : Frame \cup {SYSTEM}]
    BY DEF InUserCode
  <2>3. call' \in [Pid -> [bytes : Nat, saved : Frame \cup {SYSTEM}]]
    BY <2>1, <2>2 DEF OwnIInv
  <2>4. \A q \in Pid : IF q = p THEN call'[q] = InUserCode
                       ELSE call'[q] = call[q] /\ prstate'[q] = prstate[q]
    BY <2>1 DEF OwnIInv
  <2>5. prstate' \in [Pid -> {"PR_FREE", "eligible", "stranded"}]
    BY <1>0, <2>1
  <2>6. QED
    BY <2>1, <2>3, <2>4, <2>5 DEF OwnIInv, OwnDirectory
<1>3. ASSUME NEW p \in Pid, Vcreate(p)
      PROVE  OwnIInv'
  <2> DEFINE f == Min({g \in Frame : DirFree(g)})
  <2>1. /\ call[currpid] = InUserCode /\ prstate[p] = "PR_FREE" /\ {g \in Frame : DirFree(g)} # {}
        /\ dir' = [dir EXCEPT ![p] = f] /\ prstate' = [prstate EXCEPT ![p] = "eligible"]
        /\ cr3' = dir[currpid] /\ currpid' = currpid /\ call' = call
    BY <1>3 DEF Vcreate, Does
  <2>2. f \in Frame
    <3>1. f \in {g \in Frame : DirFree(g)}
      BY <2>1, Constants, MinIsIn
    <3>2. QED
      BY <3>1
  <2> HIDE DEF f
  <2>3. p # currpid /\ call[p] = InUserCode
    BY <1>0, <2>1 DEF OwnIInv
  <2>4. dir' \in [Pid -> Frame \cup {SYSTEM}]
    BY <2>1, <2>2 DEF OwnIInv
  <2>5. prstate' \in [Pid -> {"PR_FREE", "eligible", "stranded"}]
    BY <1>0, <2>1
  <2>6. \A q \in Pid : q # p => dir'[q] = dir[q] /\ prstate'[q] = prstate[q]
    BY <1>0, <2>1 DEF OwnIInv
  <2>7. cr3' = dir'[currpid'] /\ cr3' \in Frame \cup {SYSTEM}
    BY <1>0, <2>1, <2>3, <2>6 DEF OwnIInv
  <2>8. QED
    BY <1>0, <2>1, <2>3, <2>4, <2>5, <2>6, <2>7 DEF OwnIInv, OwnDirectory
<1>4. ASSUME NEW p \in Pid, VcreateRunsOff(p)
      PROVE  OwnIInv'
  <2>1. CASE /\ prstate' = [prstate EXCEPT ![p] = "stranded"]
             /\ UNCHANGED <<ent, ffs, cr3, currpid, call, held>>
    <3>1. prstate[p] = "PR_FREE" /\ dir' = dir
      BY <1>4 DEF VcreateRunsOff
    <3>2. \A q \in Pid : prstate[q] = "eligible" => prstate'[q] = "eligible"
      BY <1>0, <2>1, <3>1
    <3>3. prstate' \in [Pid -> {"PR_FREE", "eligible", "stranded"}]
      BY <1>0, <2>1
    <3>4. QED
      BY <1>0, <2>1, <3>1, <3>2, <3>3 DEF OwnIInv, OwnDirectory
  <2>2. CASE /\ prstate' = [prstate EXCEPT ![p] = "stranded", ![currpid] = "PR_FREE"]
             /\ Dies
    <3>1. prstate[p] = "PR_FREE" /\ UNCHANGED dir
      BY <1>4 DEF VcreateRunsOff
    <3>2. /\ prstate' \in [Pid -> {"PR_FREE", "eligible", "stranded"}]
          /\ \A q \in Pid \ {currpid} : prstate[q] = "eligible" => prstate'[q] = "eligible"
      BY <1>0, <2>2, <3>1
    <3>3. QED
      BY <2>2, <3>1, <3>2, OwnEnds
  <2>3. QED
    BY <1>4, <2>1, <2>2 DEF VcreateRunsOff
<1>5. ASSUME Dies, UNCHANGED <<dir, intr>>, prstate' = [prstate EXCEPT ![currpid] = "PR_FREE"]
      PROVE  OwnIInv'
  <2>1. /\ prstate' \in [Pid -> {"PR_FREE", "eligible", "stranded"}]
        /\ \A q \in Pid \ {currpid} : prstate[q] = "eligible" => prstate'[q] = "eligible"
    BY <1>0, <1>5
  <2>2. QED
    BY <1>5, <2>1, OwnEnds
<1>6. ASSUME Exit \/ VmallocFaults \/ \E v \in UserPage : SegFault(v)
      PROVE  OwnIInv'
  BY <1>5, <1>6 DEF Exit, VmallocFaults, SegFault
<1>7. ASSUME Vmalloc
      PROVE  OwnIInv'
  <2>1. PICK bytes \in Requests : VmallocEnter(bytes)
    BY <1>7 DEF Vmalloc
  <2> DEFINE c == [bytes |-> bytes, saved |-> cr3]
  <2>2. /\ call[currpid] = InUserCode /\ call' = [call EXCEPT ![currpid] = c] /\ cr3' = SYSTEM
        /\ dir' = dir /\ prstate' = prstate /\ currpid' = currpid
    BY <2>1 DEF VmallocEnter, Does
  <2>3. bytes \in Nat /\ bytes > 0
    BY PagingAssumption
  <2>4. /\ c \in [bytes : Nat, saved : Frame \cup {SYSTEM}] /\ c.saved = dir[currpid]
        /\ c # InUserCode
    BY <2>2, <2>3 DEF OwnIInv, OwnDirectory, InUserCode
  <2> HIDE DEF c
  <2>5. call' \in [Pid -> [bytes : Nat, saved : Frame \cup {SYSTEM}]]
    BY <2>2, <2>4 DEF OwnIInv
  <2>6. \A q \in Pid : call'[q] = IF q = currpid THEN c ELSE call[q]
    BY <2>2 DEF OwnIInv
  <2>7. QED
    BY <1>0, <2>2, <2>4, <2>5, <2>6 DEF OwnIInv, OwnDirectory
<1>8. ASSUME VmallocRest
      PROVE  OwnIInv'
  <2>1. call[currpid].bytes > 0 /\ \E result : Return(result)
    BY <1>8 DEF VmallocRest, AtNewTable, AtOldTable, Granted
  <2>2. QED
    BY <2>1, OwnReturns
<1>9. ASSUME UNCHANGED <<dir, cr3, prstate, currpid, call>>
      PROVE  OwnIInv'
  BY <1>9 DEF OwnIInv, OwnDirectory
<1>10. ASSUME UNCHANGED vars \/ (\E h \in held[currpid] : Vfree(h))
                 \/ \E v \in UserPage : MapPage(v)
       PROVE  OwnIInv'
  BY <1>9, <1>10 DEF vars, procVars, Vfree, MapPage
<1>11. ~VcreateFails
  BY DEF VcreateFails, Does
<1>12. QED
  BY <1>1, <1>2, <1>3, <1>4, <1>6, <1>7, <1>8, <1>10, <1>11 DEF Next, UserNext

\* A process that is not in vmalloc runs with its own directory, as long as no
\* vcreate fails (vcreate.c:43, which leaves the system's directory in CR3).
THEOREM OwnDirectories ==
  ASSUME "badvcreate" \notin Calls
  PROVE  Spec => []OwnDirectory
<1>1. Init => OwnIInv
  <2>1. InUserCode \in [bytes : Nat, saved : Frame \cup {SYSTEM}]
    BY DEF InUserCode
  <2>2. NULLPROC \in Pid
    BY PagingAssumption DEF NULLPROC, Pid
  <2>3. QED
    BY <2>1, <2>2 DEF Init, OwnIInv, OwnDirectory
<1>2. OwnIInv /\ [Next]_vars => OwnIInv'
  BY OwnNext
<1>3. OwnIInv => OwnDirectory
  BY DEF OwnIInv
<1>4. QED
  BY <1>1, <1>2, <1>3, PTL DEF Spec

-----------------------------------------------------------------------------
(* NothingLost.                                                            *)

LEMMA OwnedInit == Init => Owned
<1> SUFFICES ASSUME Init
             PROVE  Owned
  OBVIOUS
<1>1. FfsOwned
  BY DEF Init, FfsOwned
<1>2. ASSUME NEW f \in Frame \ Junk
      PROVE  ent[At(f, 0)].avail = 0
  <2>1. At(f, 0) \in Slot /\ At(f, 0) \div PTSIZE = f
    BY AtFacts, Constants
  <2>2. ent[At(f, 0)] = Zero
    BY <2>1 DEF Init, Raw
  <2>3. QED
    BY <2>2 DEF Zero
<1>3. QED
  BY <1>1, <1>2 DEF Owned, TablesOwned

LEMMA VfreeOwned ==
  ASSUME IInv, NEW h \in held[currpid], Vfree(h)
  PROVE  Owned => Owned'
<1> DEFINE S == ToFree(currpid, h)
           used == {ent[s].base : s \in {t \in S : ent[t].pres}}
<1>1. TypeOK /\ FramesOK /\ HeldOK /\ currpid \in Pid
  BY DEF IInv, FramesOK, TypeOK
<1>2. /\ "vfree" \in Calls /\ currpid \in Users
      /\ ffs' = Unmapped(S) /\ ent' = Rewrite(S, Empty)
      /\ dir' = dir /\ Users' = Users
  BY <1>1 DEF Vfree, Does, Users, User
<1>3. S \subseteq SlotsOf(Tabled)
  <2>1. S \subseteq SlotsOf(Tables(currpid))
    BY <1>1, <1>2 DEF HeldOK, HeapOK
  <2>2. QED
    BY <1>2, <2>1 DEF SlotsOf, Tabled
<1>4. ffs' = [k \in Ffs |-> IF k \in used THEN 2 ELSE ffs[k]]
  BY <1>2 DEF Unmapped
<1> HIDE DEF S
<1>5. \A s \in Slot : ent'[s] = IF s \in S THEN Empty ELSE ent[s]
  BY <1>2 DEF Rewrite
<1>6. \A s \in Slot : s \notin SlotsOf(Tabled) => ent'[s] = ent[s]
  BY <1>3, <1>5
<1>7. SlotsOf(Tabled)' = SlotsOf(Tabled)
  BY <1>1, <1>2, <1>6, TablesChanged
<1>8. ASSUME FfsOwned, NEW k \in Ffs, ffs'[k] = 3
      PROVE  \E s \in SlotsOf(Tabled) : ent'[s].pres /\ ent'[s].base = k
  <2>1. k \notin used /\ ffs[k] = 3
    BY <1>4, <1>8
  <2>2. PICK s \in SlotsOf(Tabled) : ent[s].pres /\ ent[s].base = k
    BY <1>8, <2>1 DEF FfsOwned
  <2>3. s \notin S /\ s \in Slot
    BY <2>1, <2>2 DEF SlotsOf
  <2>4. QED
    BY <1>5, <2>2, <2>3
<1>9. FfsOwned => FfsOwned'
  BY <1>7, <1>8 DEF FfsOwned
<1>10. TablesOwned => TablesOwned'
  BY <1>1, <1>2, <1>6, TablesChangedOwned
<1>11. QED
  BY <1>9, <1>10 DEF Owned

LEMMA MapPageOwned ==
  ASSUME IInv, NEW v \in UserPage, MapPage(v)
  PROVE  Owned => Owned'
<1> DEFINE k == Min(FreeFfs)
           x == SlotOf(currpid, v)
           e == [pres |-> TRUE, avail |-> ent[x].avail, base |-> k]
<1>1. TypeOK /\ FramesOK
  BY DEF IInv
<1>2. /\ currpid \in Users /\ Allocated(currpid, v) /\ ~Present(currpid, v)
      /\ ent' = [ent EXCEPT ![x] = e] /\ ffs' = [ffs EXCEPT ![k] = 3]
      /\ dir' = dir /\ Users' = Users
  BY <1>1 DEF MapPage, Faults, Users, User, TypeOK, procVars
<1>3. x \in SlotsOf(Tabled) /\ x \in Slot /\ ~ent[x].pres
  <2>1. x \in SlotsOf(Tabled) /\ Pde(currpid, v \div PTSIZE).pres
    BY <1>1, <1>2, AllocatedFacts
  <2>2. QED
    BY <1>2, <2>1 DEF Present, SlotsOf
<1>4. e.pres /\ e.base = k
  OBVIOUS
<1> HIDE DEF k, x, e
<1>5. \A s \in Slot : ent'[s] = IF s = x THEN e ELSE ent[s]
  BY <1>1, <1>2, <1>3 DEF TypeOK
<1>6. \A o \in Ffs : o # k => ffs'[o] = ffs[o]
  BY <1>1, <1>2 DEF TypeOK
<1>7. \A s \in Slot : s \notin SlotsOf(Tabled) => ent'[s] = ent[s]
  BY <1>3, <1>5
<1>8. SlotsOf(Tabled)' = SlotsOf(Tabled)
  BY <1>1, <1>2, <1>7, TablesChanged
<1>9. ASSUME FfsOwned, NEW o \in Ffs, ffs'[o] = 3
      PROVE  \E s \in SlotsOf(Tabled) : ent'[s].pres /\ ent'[s].base = o
  <2>1. CASE o = k
    BY <1>3, <1>4, <1>5, <2>1
  <2>2. CASE o # k
    <3>1. PICK s \in SlotsOf(Tabled) : ent[s].pres /\ ent[s].base = o
      BY <1>6, <1>9, <2>2 DEF FfsOwned
    <3>2. s # x /\ s \in Slot
      BY <1>3, <3>1 DEF SlotsOf
    <3>3. QED
      BY <1>5, <3>1, <3>2
  <2>3. QED
    BY <2>1, <2>2
<1>10. FfsOwned => FfsOwned'
  BY <1>8, <1>9 DEF FfsOwned
<1>11. TablesOwned => TablesOwned'
  BY <1>1, <1>2, <1>7, TablesChangedOwned
<1>12. QED
  BY <1>10, <1>11 DEF Owned

LEMMA OwnedNext ==
  ASSUME IInv, Owned, FreeableHeaps, "kill" \notin Calls, [Next]_vars
  PROVE  Owned'
<1>0. /\ prstate \in [Pid -> {"PR_FREE", "eligible", "stranded"}] /\ currpid \in Pid
  BY DEF IInv, TypeOK
<1>1. ASSUME Dies, UNCHANGED <<dir, intr>>, prstate' = [prstate EXCEPT ![currpid] = "PR_FREE"]
      PROVE  Owned'
  <2>1. /\ prstate' \in [Pid -> {"PR_FREE", "eligible", "stranded"}]
        /\ prstate'[currpid] = "PR_FREE"
        /\ \A q \in Pid \ {currpid} : prstate'[q] = prstate[q]
    BY <1>0, <1>1
  <2>2. QED
    BY <1>1, <2>1, DiesOK
<1>2. ASSUME NEW p \in Pid, Switch(p)
      PROVE  Owned'
  BY <1>2, QuietOwned DEF Switch, Dispatch, Users, User
<1>3. ASSUME NEW p \in Pid, Vcreate(p)
      PROVE  Owned'
  BY <1>3, VcreateOK
<1>4. ASSUME NEW p \in Pid, VcreateRunsOff(p)
      PROVE  Owned'
  <2>1. prstate[p] = "PR_FREE" /\ UNCHANGED <<dir, intr>>
    BY <1>4 DEF VcreateRunsOff
  <2>2. CASE /\ prstate' = [prstate EXCEPT ![p] = "stranded"]
             /\ UNCHANGED <<ent, ffs, cr3, currpid, call, held>>
    <3>1. Users' = Users
      BY <1>0, <2>1, <2>2 DEF Users, User
    <3>2. QED
      BY <2>1, <2>2, <3>1, QuietOwned
  <2>3. CASE /\ prstate' = [prstate EXCEPT ![p] = "stranded", ![currpid] = "PR_FREE"]
             /\ Dies
    <3>1. /\ prstate' \in [Pid -> {"PR_FREE", "eligible", "stranded"}]
          /\ prstate'[currpid] = "PR_FREE"
          /\ \A q \in Pid \ {currpid} : \/ prstate'[q] = prstate[q]
                                        \/ prstate[q] # "eligible" /\ prstate'[q] # "eligible"
      BY <1>0, <2>1, <2>3
    <3>2. QED
      BY <2>1, <2>3, <3>1, DiesOK
  <2>4. QED
    BY <1>4, <2>2, <2>3 DEF VcreateRunsOff
<1>5. ASSUME Exit \/ VmallocFaults \/ \E v \in UserPage : SegFault(v)
      PROVE  Owned'
  BY <1>1, <1>5 DEF Exit, VmallocFaults, SegFault
<1>6. ASSUME VcreateFails \/ Vmalloc \/ UNCHANGED vars
      PROVE  Owned'
  <2>1. UNCHANGED <<ent, ffs, dir, prstate>>
    BY <1>6 DEF VcreateFails, Vmalloc, VmallocEnter, vars, procVars
  <2>2. QED
    BY <2>1, QuietOwned DEF Users, User
<1>7. ASSUME VmallocRest
      PROVE  Owned'
  BY <1>7, VmallocRestOK
<1>8. ASSUME NEW h \in held[currpid], Vfree(h)
      PROVE  Owned'
  BY <1>8, VfreeOwned
<1>9. ASSUME NEW v \in UserPage, MapPage(v)
      PROVE  Owned'
  BY <1>9, MapPageOwned
<1>10. \A p \in Pid : ~KillOther(p)
  BY DEF KillOther, Does
<1>11. QED
  BY <1>2, <1>3, <1>4, <1>5, <1>6, <1>7, <1>8, <1>9, <1>10 DEF Next, UserNext

LEMMA OwnedNothingLost ==
  ASSUME TypeOK, FramesOK, Owned
  PROVE  NothingLost
<1>1. ASSUME NEW k \in Ffs, ffs[k] = 3
      PROVE  \E m \in Mapped : FrameOf(m[1], m[2]) = k
  <2>1. PICK s \in SlotsOf(Tabled) : ent[s].pres /\ ent[s].base = k
    BY <1>1 DEF Owned, FfsOwned
  <2>2. s \in Slot /\ s \div PTSIZE \in Tabled
    BY <2>1 DEF SlotsOf
  <2>3. PICK p \in Users : s \div PTSIZE \in Tables(p)
    BY <2>2 DEF Tabled
  <2>4. PICK i \in UserPde : Pde(p, i).pres /\ Pde(p, i).base = s \div PTSIZE
    BY <2>3 DEF Tables
  <2>5. s % PTSIZE \in Index /\ s = At(s \div PTSIZE, s % PTSIZE)
    BY <2>2, SlotFacts
  <2> DEFINE v == i * PTSIZE + (s % PTSIZE)
  <2>6. v \in UserPage /\ v \div PTSIZE = i /\ v % PTSIZE = s % PTSIZE
    BY <2>5, PageFacts
  <2> HIDE DEF v
  <2>7. SlotOf(p, v) = s
    BY <2>4, <2>5, <2>6 DEF SlotOf
  <2>8. Present(p, v) /\ FrameOf(p, v) = k
    BY <2>1, <2>4, <2>6, <2>7 DEF Present, FrameOf
  <2>9. <<p, v>> \in Mapped
    BY <2>3, <2>6, <2>8 DEF Mapped
  <2>10. QED
    BY <2>8, <2>9
<1>2. ASSUME NEW f \in Frame \ Junk, ~TableFree(f)
      PROVE  \E p \in Users : f \in Tables(p) \cup {dir[p]}
  BY <1>2 DEF Owned, TablesOwned, TableFree, Tabled
<1>3. QED
  BY <1>1, <1>2 DEF NothingLost

\* As long as no process is killed by another (kill.c calls kill_vm for the
\* process that calls it only), a frame that is not free belongs to a process.
THEOREM NothingIsLost ==
  ASSUME FreeableHeaps, "kill" \notin Calls
  PROVE  Spec => []NothingLost
<1>1. Init => IInv /\ Owned
  BY InitOK, OwnedInit
<1>2. IInv /\ Owned /\ [Next]_vars => IInv' /\ Owned'
  BY NextOK, OwnedNext
<1>3. IInv /\ Owned => NothingLost
  BY OwnedNothingLost DEF IInv
<1>4. QED
  BY <1>1, <1>2, <1>3, PTL DEF Spec

=============================================================================
