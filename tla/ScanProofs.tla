----------------------------- MODULE ScanProofs -----------------------------
(***************************************************************************)
(* Proofs about the scan for cold pages, for both builds, any processes    *)
(* and address spaces, and any size of a page and of a chunk.              *)
(***************************************************************************)
EXTENDS HugeScan, TLAPS

(***************************************************************************)
(* Addresses and pages                                                     *)
(***************************************************************************)

LEMMA DivFacts ==
  ASSUME NEW P \in Nat \ {0}, NEW a \in Nat
  PROVE  /\ a \div P \in Nat
         /\ P * (a \div P) \in Nat
         /\ P * (a \div P) <= a
         /\ a < P * (a \div P) + P
         /\ a % P = 0 => a = P * (a \div P)
OBVIOUS

LEMMA DivUnique ==
  ASSUME NEW P \in Nat \ {0}, NEW a \in Nat, NEW k \in Nat,
         P * k <= a, a < P * k + P
  PROVE  a \div P = k
<1> DEFINE x == a \div P
<1>1. x \in Nat /\ P * x <= a /\ a < P * x + P
  BY DivFacts
<1> HIDE DEF x
<1>2. P * k \in Nat /\ P * x \in Nat
  BY <1>1
<1>3. ASSUME x > k PROVE FALSE
  <2>1. PICK d \in Nat : x = k + 1 + d
    BY <1>1, <1>3
  <2>2. P * x = P * k + P + P * d /\ P * d \in Nat
    BY <2>1
  <2> QED
    BY <1>1, <1>2, <2>2
<1>4. ASSUME x < k PROVE FALSE
  <2>1. PICK d \in Nat : k = x + 1 + d
    BY <1>1, <1>4
  <2>2. P * k = P * x + P + P * d /\ P * d \in Nat
    BY <1>1, <2>1
  <2> QED
    BY <1>1, <1>2, <2>2
<1> QED
  BY <1>1, <1>3, <1>4 DEF x

LEMMA DivMonotone ==
  ASSUME NEW P \in Nat \ {0}, NEW a \in Nat, NEW b \in Nat, a <= b
  PROVE  a \div P <= b \div P
OBVIOUS

LEMMA MultipleMod ==
  ASSUME NEW P \in Nat \ {0}, NEW k \in Nat
  PROVE  (P * k) % P = 0
OBVIOUS

\* Going on by k pages.
LEMMA DivAdd ==
  ASSUME NEW P \in Nat \ {0}, NEW a \in Nat, NEW k \in Nat
  PROVE  /\ a + k * P \in Nat
         /\ (a + k * P) \div P = a \div P + k
         /\ a % P = 0 => (a + k * P) % P = 0
<1> DEFINE x == a \div P
<1>1. /\ x \in Nat /\ P * x \in Nat /\ P * x <= a /\ a < P * x + P
      /\ a % P = 0 => a = P * x
  BY DivFacts
<1> HIDE DEF x
<1>2. k * P \in Nat /\ P * (x + k) = P * x + k * P /\ x + k \in Nat
  BY <1>1
<1>3. a + k * P \in Nat /\ P * (x + k) <= a + k * P /\ a + k * P < P * (x + k) + P
  BY <1>1, <1>2
<1>4. (a + k * P) \div P = x + k
  BY <1>2, <1>3, DivUnique
<1>5. ASSUME a % P = 0 PROVE (a + k * P) % P = 0
  <2>1. a + k * P = P * (x + k)
    BY <1>1, <1>2, <1>5
  <2> QED
    BY <1>2, <2>1, MultipleMod
<1> QED
  BY <1>3, <1>4, <1>5 DEF x

\* Rounding two lengths down loses at most a page more than rounding their sum,
\* and none if one of them is a whole number of pages.
LEMMA DivSum ==
  ASSUME NEW P \in Nat \ {0}, NEW a \in Nat, NEW b \in Nat
  PROVE  /\ (a + b) \div P <= a \div P + b \div P + 1
         /\ a % P = 0 => (a + b) \div P = a \div P + b \div P
<1> DEFINE x == a \div P
           y == b \div P
<1>1. /\ x \in Nat /\ P * x \in Nat /\ P * x <= a /\ a < P * x + P
      /\ y \in Nat /\ P * y \in Nat /\ P * y <= b /\ b < P * y + P
      /\ a % P = 0 => a = P * x
  BY DivFacts
<1> HIDE DEF x, y
<1>2. P * (x + y) = P * x + P * y /\ P * (x + y + 1) = P * x + P * y + P
  BY <1>1
<1>3. CASE a + b < P * (x + y) + P
  <2>1. P * (x + y) <= a + b /\ a + b \in Nat /\ x + y \in Nat
    BY <1>1, <1>2
  <2>2. (a + b) \div P = x + y
    BY <1>3, <2>1, DivUnique
  <2> QED
    BY <1>1, <2>2 DEF x, y
<1>4. CASE a + b >= P * (x + y) + P
  <2>1. /\ a + b \in Nat /\ x + y + 1 \in Nat
        /\ P * (x + y + 1) <= a + b /\ a + b < P * (x + y + 1) + P
    BY <1>1, <1>2, <1>4
  <2>2. (a + b) \div P = x + y + 1
    BY <2>1, DivUnique
  <2>3. a % P # 0
    BY <1>1, <1>2, <1>4
  <2> QED
    BY <1>1, <2>2, <2>3 DEF x, y
<1> QED
  BY <1>1, <1>3, <1>4

\* The last page of a range that ends at a page.
LEMMA LastPageAligned ==
  ASSUME NEW P \in Nat \ {0}, NEW e \in Nat \ {0}, e % P = 0
  PROVE  (e - 1) \div P = (e \div P) - 1
<1> DEFINE q == e \div P
<1>1. q \in Nat /\ e = P * q
  BY DivFacts
<1> HIDE DEF q
<1>2. q # 0
  BY <1>1
<1>3. P * q = P * (q - 1) + P /\ q - 1 \in Nat
  BY <1>1, <1>2
<1>4. /\ e - 1 \in Nat /\ P * (q - 1) \in Nat
      /\ P * (q - 1) <= e - 1 /\ e - 1 < P * (q - 1) + P
  BY <1>1, <1>3
<1> QED
  BY <1>3, <1>4, DivUnique DEF q

\* A page of a range that ends at e and is not its last.
LEMMA NotLastPage ==
  ASSUME NEW P \in Nat \ {0}, NEW e \in Nat, NEW page \in Nat,
         page <= (e \div P) - 1, page # (e - 1) \div P, e % P = 0
  PROVE  page + 2 <= e \div P
<1>1. e # 0
  <2>1. 0 \div P = 0
    BY DivUnique
  <2> QED
    BY <2>1
<1>2. (e - 1) \div P = (e \div P) - 1
  BY <1>1, LastPageAligned
<1>3. e \div P \in Nat
  BY DivFacts
<1> QED
  BY <1>2, <1>3

\* A range is skipped when the address to resume at is at most one page before
\* its end: all its pages but the last are behind that address.
LEMMA SkippedPage ==
  ASSUME NEW P \in Nat \ {0}, NEW e \in Nat, NEW l \in Nat, NEW page \in Nat,
         l >= e - P, e % P = 0 \/ l % P = 0,
         page <= (e \div P) - 1, page # (e - 1) \div P
  PROVE  page < l \div P
<1>1. l \div P \in Nat /\ e \div P \in Nat
  BY DivFacts
<1>2. (l + 1 * P) \div P = l \div P + 1 /\ l + 1 * P \in Nat
  BY DivAdd
<1>3. e <= l + 1 * P
  OBVIOUS
<1>4. e \div P <= l \div P + 1
  BY <1>2, <1>3, DivMonotone
<1>5. CASE e % P = 0
  BY <1>1, <1>4, <1>5, NotLastPage
<1>6. CASE l % P = 0
  <2> SUFFICES ASSUME page >= l \div P PROVE FALSE
    BY <1>1
  <2> DEFINE q == e \div P
             k == l \div P
  <2>1. q = k + 1
    BY <1>1, <1>4
  <2>2. q \in Nat /\ k \in Nat /\ P * q <= e /\ l = P * k
    BY <1>6, DivFacts
  <2> HIDE DEF q, k
  <2>3. P * q = P * k + P
    BY <2>1, <2>2
  <2>4. e = P * q
    BY <1>3, <2>2, <2>3
  <2>5. e % P = 0
    BY <2>2, <2>4, MultipleMod
  <2> QED
    BY <1>5, <2>5
<1> QED
  BY <1>5, <1>6

\* A chunk of b pages is read from c on, but no further than e.
ReadPages(P, c, b, e) == IF c + b * P > e THEN (e - c) \div P ELSE b

LEMMA ReadWithinRange ==
  ASSUME NEW P \in Nat \ {0}, NEW e \in Nat, NEW c \in Nat, NEW b \in Nat, c < e
  PROVE  /\ ReadPages(P, c, b, e) \in Nat
         /\ ReadPages(P, c, b, e) <= b
         /\ ReadPages(P, c, b, e) * P \in Nat
         /\ c + ReadPages(P, c, b, e) * P <= e
<1> DEFINE n == (e - c) \div P
<1>1. n \in Nat /\ P * n \in Nat /\ P * n <= e - c
  BY DivFacts
<1>2. b * P \in Nat
  OBVIOUS
<1> HIDE DEF n
<1>3. n * P = P * n
  BY <1>1
<1>4. CASE c + b * P > e
  <2>1. ~ (n > b)
    <3> SUFFICES ASSUME n > b PROVE FALSE
      OBVIOUS
    <3>1. PICK d \in Nat : n = b + 1 + d
      BY <1>1
    <3>2. P * n = b * P + P + P * d /\ P * d \in Nat
      BY <3>1
    <3> QED
      BY <1>1, <1>2, <1>4, <3>2
  <2>2. ReadPages(P, c, b, e) = n
    BY <1>4 DEF ReadPages, n
  <2> QED
    BY <1>1, <1>3, <2>1, <2>2
<1>5. CASE ~ (c + b * P > e)
  BY <1>2, <1>5 DEF ReadPages
<1> QED
  BY <1>4, <1>5

\* What lies before the start of the next chunk was read, but for the last page
\* of a range that is not read from the start of a page.
LEMMA ReadPage ==
  ASSUME NEW P \in Nat \ {0}, NEW e \in Nat, NEW c \in Nat, NEW b \in Nat, c < e,
         NEW page \in Nat, page <= (e \div P) - 1, page < (c + b * P) \div P,
         c % P = 0 \/ (e % P = 0 /\ page # (e - 1) \div P)
  PROVE  page < c \div P + ReadPages(P, c, b, e)
<1> DEFINE n == (e - c) \div P
<1>1. /\ e - c \in Nat /\ c + (e - c) = e
      /\ n \in Nat /\ c \div P \in Nat /\ e \div P \in Nat
  BY DivFacts
<1>2. CASE c + b * P > e
  <2>1. ReadPages(P, c, b, e) = n
    BY <1>2 DEF ReadPages
  <2>2. /\ e \div P <= c \div P + n + 1
        /\ c % P = 0 => e \div P = c \div P + n
    <3>1. PICK d \in Nat : d = e - c
      BY <1>1
    <3>2. c + d = e /\ n = d \div P
      BY <3>1
    <3> HIDE DEF n
    <3> QED
      BY <3>2, DivSum
  <2>3. c % P = 0 \/ page + 2 <= e \div P
    BY NotLastPage
  <2> HIDE DEF n
  <2> QED
    BY <1>1, <2>1, <2>2, <2>3
<1>3. CASE ~ (c + b * P > e)
  BY <1>3, DivAdd DEF ReadPages
<1> QED
  BY <1>2, <1>3

(***************************************************************************)
(* The steps of both builds                                                *)
(***************************************************************************)

\* A VMA is entered at the page to resume at.
Enters ==
  \E from \in Nat, n \in 1 .. Chunk :
    /\ EnterVma(from, n)
    /\ from \div PageSize = ScanStart(Vma) \div PageSize
    /\ IF huge THEN from % PageSize = 0 ELSE from = ScanStart(Vma)

\* A chunk is read, and the scan may resume behind it but not beyond it.
Reads ==
  \E cold \in 0 .. Chunk, reached \in Nat :
    /\ ReadChunk(cold, reached)
    /\ reached <= curr + ChunkPages * PageSize
    /\ huge => reached % PageSize = 0

LEMMA SeqElement ==
  ASSUME NEW S, NEW s \in Seq(S), NEW i \in DOMAIN s
  PROVE  s[i] \in S
OBVIOUS

LEMMA VmaType ==
  ASSUME ScanInv, InProcess, NEW i \in DOMAIN maps
  PROVE  maps[i].start \in Nat /\ maps[i].end \in Nat /\ maps[i].start <= maps[i].end
<1>1. Ordered(maps)
  BY DEF ScanInv, DueInv
<1>2. maps[i] \in [start : Nat, end : Nat]
  <2>1. maps \in Seq([start : Nat, end : Nat])
    BY DEF ScanInv, TypeOK
  <2> QED
    BY <2>1, SeqElement, Zenon
<1> QED
  BY <1>1, <1>2 DEF Ordered

LEMMA VmaAt ==
  ASSUME ScanInv, pc = "range" \/ (pc = "vma" /\ line <= Len(maps))
  PROVE  /\ line \in DOMAIN maps
         /\ Vma.start \in Nat /\ Vma.end \in Nat /\ Vma.start <= Vma.end
         /\ last[pid] \in Nat /\ ScanStart(Vma) \in Nat
<1>1. line \in DOMAIN maps
  <2>1. line \in Nat /\ line >= 1 /\ maps \in Seq([start : Nat, end : Nat])
    BY DEF ScanInv, TypeOK, CountInv
  <2> QED
    BY <2>1 DEF ScanInv, CountInv
<1>2. Vma.start \in Nat /\ Vma.end \in Nat /\ Vma.start <= Vma.end
  BY <1>1, VmaType DEF InProcess, Vma
<1>3. last[pid] \in Nat
  BY DEF ScanInv, TypeOK
<1> QED
  BY <1>1, <1>2, <1>3 DEF ScanStart, AtLeast

LEMMA EntersOfBuild ==
  ASSUME ScanInv, \/ ~huge /\ EnterVma(ScanStart(Vma), Chunk)
                  \/ huge /\ EnterVma(HugeStart(Vma), 1)
  PROVE  Enters
<1> DEFINE at == ScanStart(Vma)
<1>1. at \in Nat
  BY VmaAt DEF EnterVma, AtVma
<1>2. PageSize \in Nat \ {0} /\ Chunk \in 1 .. Chunk /\ 1 \in 1 .. Chunk
  BY ScanAssumption
<1>3. CASE ~huge /\ EnterVma(ScanStart(Vma), Chunk)
  BY <1>1, <1>2, <1>3 DEF Enters
<1>4. CASE huge /\ EnterVma(HugeStart(Vma), 1)
  <2> DEFINE k == at \div PageSize
  <2>1. k \in Nat /\ HugeStart(Vma) = k * PageSize
    BY <1>1, <1>2 DEF HugeStart
  <2> HIDE DEF k
  <2>2. PageSize * k \in Nat /\ k * PageSize = PageSize * k
    BY <1>2, <2>1
  <2>3. (PageSize * k) \div PageSize = k /\ (PageSize * k) % PageSize = 0
    BY <1>2, <2>1, <2>2, DivUnique, MultipleMod
  <2>4. /\ HugeStart(Vma) \in Nat
        /\ HugeStart(Vma) \div PageSize = k
        /\ HugeStart(Vma) % PageSize = 0
    BY <2>1, <2>2, <2>3
  <2> QED
    BY <1>2, <1>4, <2>4 DEF Enters, k
<1> QED
  BY <1>3, <1>4

LEMMA ChunkFacts ==
  ASSUME ScanInv, pc = "range", curr < Vma.end
  PROVE  /\ ChunkPages = ReadPages(PageSize, curr, batch, Vma.end)
         /\ ChunkPages \in Nat
         /\ ChunkPages <= Chunk
         /\ curr + ChunkPages * PageSize \in Nat
         /\ curr + ChunkPages * PageSize <= Vma.end
<1>1. curr \in Nat /\ batch \in 0 .. Chunk /\ Vma.end \in Nat
  BY VmaAt DEF ScanInv, TypeOK
<1>2. PageSize \in Nat \ {0} /\ Chunk \in Nat
  BY ScanAssumption
<1>3. ChunkPages = ReadPages(PageSize, curr, batch, Vma.end)
  BY DEF ChunkPages, ReadPages
<1> DEFINE n == ReadPages(PageSize, curr, batch, Vma.end)
<1>4. /\ n \in Nat /\ n <= batch
      /\ n * PageSize \in Nat /\ curr + n * PageSize <= Vma.end
  <2>1. batch \in Nat
    BY <1>1, <1>2
  <2> QED
    BY <1>1, <1>2, <2>1, ReadWithinRange
<1> HIDE DEF n
<1>5. n <= Chunk /\ curr + n * PageSize \in Nat
  BY <1>1, <1>2, <1>4
<1> QED
  BY <1>3, <1>4, <1>5 DEF n

LEMMA ReadsOfBuild ==
  ASSUME ScanInv, \/ ~huge /\ \E cold \in 0 .. Chunk : ReadChunk(cold, Reached)
                  \/ huge /\ \E cold \in 0 .. 1 : ReadChunk(cold, HugeReached)
  PROVE  Reads
<1>1. pc = "range" /\ curr < Vma.end
  BY DEF ReadChunk
<1>2. /\ ChunkPages \in Nat /\ curr + ChunkPages * PageSize \in Nat
      /\ curr \in Nat /\ PageSize \in Nat \ {0}
  BY <1>1, ChunkFacts, ScanAssumption DEF ScanInv, TypeOK
<1>3. CASE ~huge /\ \E cold \in 0 .. Chunk : ReadChunk(cold, Reached)
  <2>1. Reached \in Nat /\ Reached <= curr + ChunkPages * PageSize
    BY <1>2 DEF Reached
  <2> QED
    BY <1>3, <2>1 DEF Reads
<1>4. CASE huge /\ \E cold \in 0 .. 1 : ReadChunk(cold, HugeReached)
  <2>1. HugeReached \in Nat /\ HugeReached <= curr + ChunkPages * PageSize
    BY <1>2 DEF HugeReached
  <2>2. curr % PageSize = 0
    BY <1>4 DEF ScanInv, GridInv
  <2>3. HugeReached % PageSize = 0
    BY <1>2, <2>2, DivAdd DEF HugeReached
  <2>4. 0 .. 1 \subseteq 0 .. Chunk
    BY ScanAssumption
  <2> QED
    BY <1>4, <2>1, <2>3, <2>4 DEF Reads
<1> QED
  BY <1>3, <1>4

Remaps == \E p \in Pids : \E s \in SpacesOfBuild[p] : Remap(p, s)

LEMMA StepCases ==
  ASSUME ScanInv, [HugeNext]_hugeVars
  PROVE  /\ huge' = huge
         /\ \/ StartScan
            \/ \E p \in Pids : OpenMaps(p)
            \/ SkipVma
            \/ Enters
            \/ \E same \in BOOLEAN : EndOfMaps(same)
            \/ Reads
            \/ LeaveVma
            \/ ReadFails
            \/ PagemapFails
            \/ \E moved \in BOOLEAN : Move(moved)
            \/ Remaps
            \/ UNCHANGED vars
<1>1. CASE UNCHANGED hugeVars
  BY <1>1 DEF hugeVars
<1>2. CASE HugeNext /\ huge
  BY <1>2, EntersOfBuild, ReadsOfBuild
  DEF HugeNext, NextWith, WalkOfBuild, HugeWalk, WalkAnywhere, Remaps
<1>3. CASE HugeNext /\ ~huge
  BY <1>3, EntersOfBuild, ReadsOfBuild
  DEF HugeNext, NextWith, WalkOfBuild, Walk, WalkAnywhere, Remaps
<1> QED
  BY <1>1, <1>2, <1>3

(***************************************************************************)
(* Type correctness, in four parts                                         *)
(***************************************************************************)

CountType ==
  /\ request \in 1 .. MaxRequest
  /\ demoted \in Nat
  /\ found \in Nat /\ here \in Nat /\ listed \in Nat
  /\ pc # "idle" => demoted < request
  /\ pc \in {"vma", "range"} => found < Wanted

FlagType ==
  everywhere \in BOOLEAN /\ full \in BOOLEAN /\ pidFull \in BOOLEAN /\ readFails \in BOOLEAN

PlaceType ==
  /\ pc \in {"idle", "pid", "vma", "range", "move"}
  /\ left \subseteq managed /\ managed \subseteq Pids
  /\ last \in [Pids -> Nat]
  /\ pid \in Pids
  /\ space \in [Pids -> Seq([start : Nat, end : Nat])]
  /\ maps \in Seq([start : Nat, end : Nat])
  /\ line \in Nat /\ curr \in Nat /\ batch \in 0 .. Chunk

HistoryType ==
  /\ round \in [Pids -> SUBSET Nat] /\ due \in [Pids -> SUBSET Nat]
  /\ missed \in [Pids -> SUBSET Nat]
  /\ unread \subseteq Pids

LEMMA TypeParts == TypeOK <=> CountType /\ FlagType /\ PlaceType /\ HistoryType
BY DEF TypeOK, CountType, FlagType, PlaceType, HistoryType

LEMMA TypePartsNext ==
  (TypeOK)' <=> CountType' /\ FlagType' /\ PlaceType' /\ HistoryType'
BY DEF TypeOK, CountType, FlagType, PlaceType, HistoryType, Wanted

LEMMA TypeOfInv ==
  ASSUME ScanInv
  PROVE  CountType /\ FlagType /\ PlaceType /\ HistoryType
BY TypeParts DEF ScanInv

LEMMA FlagTypeStep ==
  ASSUME ScanInv, [HugeNext]_hugeVars
  PROVE  FlagType'
<1>1. FlagType
  BY TypeOfInv
<1>2. CASE \/ StartScan
           \/ \E p \in Pids : OpenMaps(p)
           \/ SkipVma \/ Enters
           \/ LeaveVma \/ ReadFails \/ Remaps \/ UNCHANGED vars
  BY <1>1, <1>2
  DEF FlagType, StartScan, OpenMaps, SkipVma, Enters, AtVma, EnterVma, LeaveVma,
      ReadFails, Remaps, Remap, resultVars, roundVars, vars
<1>3. CASE Reads
  BY <1>1, <1>3 DEF FlagType, Reads, ReadChunk, resultVars
<1>4. ASSUME NEW same \in BOOLEAN, EndOfMaps(same) PROVE FlagType'
  BY <1>1, <1>4 DEF FlagType, EndOfMaps, resultVars, roundVars
<1>5. CASE PagemapFails
  BY <1>1, <1>5, Zenon DEF FlagType, PagemapFails, NextPid, roundVars
<1>6. ASSUME NEW moved \in BOOLEAN, Move(moved) PROVE FlagType'
  BY <1>1, <1>6, Zenon DEF FlagType, Move, NextPid
<1> QED
  BY <1>2, <1>3, <1>4, <1>5, <1>6, StepCases

LEMMA BatchType ==
  ASSUME ScanInv, NEW from, NEW n \in 1 .. Chunk, EnterVma(from, n)
  PROVE  batch' \in 0 .. Chunk
<1>1. /\ Vma.start \in Nat /\ Vma.end \in Nat /\ Vma.start <= Vma.end
      /\ last[pid] \in Nat /\ ScanStart(Vma) \in Nat
  BY VmaAt DEF EnterVma, AtVma
<1>2. Chunk \in Nat /\ PageSize \in Nat \ {0}
  BY ScanAssumption
<1>3. Vma.end - ScanStart(Vma) \in Nat
  BY <1>1, <1>2 DEF EnterVma, AlreadyScanned, ScanStart, AtLeast
<1>4. (Vma.end - ScanStart(Vma)) \div PageSize \in Nat
  BY <1>2, <1>3, DivFacts
<1> QED
  BY <1>2, <1>4 DEF EnterVma, AtMost

LEMMA PlaceTypeStep ==
  ASSUME ScanInv, [HugeNext]_hugeVars
  PROVE  PlaceType'
<1>1. PlaceType
  BY TypeOfInv
<1>2. CASE StartScan
  BY <1>1, <1>2 DEF PlaceType, StartScan, walkVars, rangeVars
<1>3. ASSUME NEW p \in Pids, OpenMaps(p) PROVE PlaceType'
  BY <1>1, <1>3 DEF PlaceType, OpenMaps, resultVars, rangeVars
<1>4. CASE SkipVma
  BY <1>1, <1>4 DEF PlaceType, SkipVma, AtVma, resultVars, rangeVars
<1>5. ASSUME NEW from \in Nat, NEW n \in 1 .. Chunk, EnterVma(from, n) PROVE PlaceType'
  <2>1. batch' \in 0 .. Chunk
    BY <1>5, BatchType
  <2> QED
    BY <1>1, <1>5, <2>1 DEF PlaceType, EnterVma, AtVma, resultVars
<1>6. ASSUME NEW same \in BOOLEAN, EndOfMaps(same) PROVE PlaceType'
  BY <1>1, <1>6 DEF PlaceType, EndOfMaps, resultVars, walkVars, rangeVars
<1>7. ASSUME NEW cold \in 0 .. Chunk, NEW reached \in Nat, ReadChunk(cold, reached)
      PROVE  PlaceType'
  <2>1. /\ pc' \in {"range", "move"} /\ left' = left /\ managed' = managed
        /\ pid' = pid /\ space' = space /\ maps' = maps /\ line' = line
    BY <1>7 DEF ReadChunk, resultVars
  <2>2. last' \in [Pids -> Nat]
    <3>1. AtLeast(last[pid], reached) \in Nat
      BY <1>1 DEF PlaceType, AtLeast
    <3> QED
      BY <1>1, <1>7, <3>1 DEF PlaceType, ReadChunk
  <2>3. curr' \in Nat /\ batch' \in 0 .. Chunk
    <3>1. PageSize \in Nat /\ Chunk \in Nat
      BY ScanAssumption
    <3>2. curr \in Nat /\ batch \in Nat
      BY <1>1, <3>1 DEF PlaceType
    <3>3. curr + batch * PageSize \in Nat
      BY <3>1, <3>2
    <3> QED
      BY <1>1, <1>7, <3>1, <3>3 DEF PlaceType, ReadChunk, NoRange
  <2> QED
    BY <1>1, <2>1, <2>2, <2>3 DEF PlaceType
<1>8. CASE LeaveVma \/ ReadFails
  <2>1. Chunk \in Nat
    BY ScanAssumption
  <2> QED
    BY <1>1, <1>8, <2>1 DEF PlaceType, LeaveVma, ReadFails, NoRange, resultVars
<1>9. CASE NoWalk /\ pc' \in {"idle", "pid"} /\ left' = left /\ managed' = managed
           /\ pid' = pid /\ space' = space /\ last' \in [Pids -> Nat]
  <2>1. Chunk \in Nat
    BY ScanAssumption
  <2> QED
    BY <1>1, <1>9, <2>1 DEF PlaceType, NoWalk, NoRange
<1>10. CASE PagemapFails
  BY <1>1, <1>9, <1>10 DEF PlaceType, PagemapFails, NextPid
<1>11. ASSUME NEW moved \in BOOLEAN, Move(moved) PROVE PlaceType'
  <2>1. last' \in [Pids -> Nat]
    <3>1. [last EXCEPT ![pid] = 0] \in [Pids -> Nat] /\ last \in [Pids -> Nat]
      BY <1>1 DEF PlaceType
    <3>2. last' = [last EXCEPT ![pid] = 0] \/ last' = last
      BY <1>11, Zenon DEF Move, LastIfFull
    <3> QED
      BY <3>1, <3>2
  <2> QED
    BY <1>9, <1>11, <2>1 DEF Move, NextPid
<1>12. ASSUME NEW p \in Pids, NEW s \in SpacesOfBuild[p], Remap(p, s) PROVE PlaceType'
  <2>1. s \in Seq([start : Nat, end : Nat])
    BY ScanAssumption, HugeScanAssumption DEF SpacesOfBuild, Ordered
  <2> QED
    BY <1>1, <1>12, <2>1 DEF PlaceType, Remap, resultVars, walkVars, rangeVars
<1>13. CASE UNCHANGED vars
  BY <1>1, <1>13 DEF PlaceType, vars, resultVars, walkVars, rangeVars
<1> QED
  BY <1>2, <1>3, <1>4, <1>5, <1>6, <1>7, <1>8, <1>10, <1>11, <1>12, <1>13, StepCases
  DEF Enters, Reads, Remaps

LEMMA SpaceType ==
  ASSUME NEW p \in Pids, NEW s \in SpacesOfBuild[p]
  PROVE  Ordered(s) /\ (~huge => Aligned(s))
BY ScanAssumption, HugeScanAssumption DEF SpacesOfBuild

\* Pages are natural numbers.
LEMMA PagesInType ==
  ASSUME NEW v, v.start \in Nat, v.end \in Nat
  PROVE  PagesIn(v) \subseteq Nat
<1>1. PageSize \in Nat \ {0}
  BY ScanAssumption
<1>2. v.start \div PageSize \in Nat /\ v.end \div PageSize \in Nat
  BY <1>1, DivFacts
<1> QED
  BY <1>2 DEF PagesIn

LEMMA PagesOfType ==
  ASSUME NEW s, Ordered(s)
  PROVE  PagesOf(s) \subseteq Nat
<1>1. ASSUME NEW i \in DOMAIN s PROVE PagesIn(s[i]) \subseteq Nat
  <2>1. s[i] \in [start : Nat, end : Nat]
    BY SeqElement, Zenon DEF Ordered
  <2> QED
    BY <2>1, PagesInType
<1> QED
  BY <1>1 DEF PagesOf

\* At a VMA only pages are added to those that are missed.
LEMMA MissedGrows ==
  ASSUME ScanInv, AtVma
  PROVE  /\ missed' \in [Pids -> SUBSET Nat]
         /\ \A p \in Pids : missed[p] \subseteq missed'[p]
         /\ missed'[pid] = missed[pid] \cup Missed(Vma)
<1>1. missed \in [Pids -> SUBSET Nat] /\ pid \in Pids
  BY TypeOfInv DEF HistoryType, PlaceType
<1>2. Missed(Vma) \subseteq Nat
  <2>1. Vma.start \in Nat /\ Vma.end \in Nat
    BY VmaAt DEF AtVma
  <2>2. PagesIn(Vma) \subseteq Nat
    BY <2>1, PagesInType
  <2> QED
    BY <2>2 DEF Missed
<1>3. missed' = [missed EXCEPT ![pid] = @ \cup Missed(Vma)]
  BY DEF AtVma
<1> QED
  BY <1>1, <1>2, <1>3

LEMMA HistoryTypeStep ==
  ASSUME ScanInv, [HugeNext]_hugeVars
  PROVE  HistoryType'
<1>1. HistoryType /\ pid \in Pids
  BY TypeOfInv DEF PlaceType
<1>2. CASE \/ StartScan
           \/ \E p \in Pids : OpenMaps(p)
           \/ LeaveVma \/ PagemapFails \/ UNCHANGED vars
  BY <1>1, <1>2
  DEF HistoryType, StartScan, OpenMaps, LeaveVma, PagemapFails, roundVars, vars
<1>8. CASE SkipVma \/ Enters
  <2>1. AtVma
    BY <1>8 DEF SkipVma, Enters, EnterVma
  <2>2. missed' \in [Pids -> SUBSET Nat]
    BY <2>1, MissedGrows
  <2> QED
    BY <1>1, <2>1, <2>2 DEF HistoryType, AtVma
<1>3. ASSUME NEW same \in BOOLEAN, EndOfMaps(same) PROVE HistoryType'
  BY <1>1, <1>3 DEF HistoryType, EndOfMaps, roundVars
<1>4. ASSUME NEW cold \in 0 .. Chunk, NEW reached \in Nat, ReadChunk(cold, reached)
      PROVE  HistoryType'
  <2> DEFINE pages == curr \div PageSize .. curr \div PageSize + ChunkPages - 1
  <2>1. /\ round' = [round EXCEPT ![pid] = @ \cup pages]
        /\ due' = due /\ missed' = missed /\ unread' = unread
    BY <1>4 DEF ReadChunk
  <2>2. pages \subseteq Nat
    <3>1. curr \in Nat /\ PageSize \in Nat \ {0}
      BY TypeOfInv, ScanAssumption DEF PlaceType
    <3>2. curr \div PageSize \in Nat /\ ChunkPages \in Nat
      BY <1>4, <3>1, DivFacts, ChunkFacts DEF ReadChunk
    <3> QED
      BY <3>2
  <2> HIDE DEF pages
  <2> QED
    BY <1>1, <2>1, <2>2 DEF HistoryType
<1>5. CASE ReadFails
  BY <1>1, <1>5 DEF HistoryType, ReadFails
<1>6. ASSUME NEW moved \in BOOLEAN, Move(moved) PROVE HistoryType'
  <2>1. CASE pidFull
    <3>1. /\ round' = [round EXCEPT ![pid] = {}]
          /\ due' = [due EXCEPT ![pid] = PagesOf(space[pid])]
          /\ missed' = [missed EXCEPT ![pid] = {}]
          /\ unread' = unread \ {pid}
      BY <1>6, <2>1 DEF Move
    <3>2. PagesOf(space[pid]) \subseteq Nat
      BY <1>1, PagesOfType, SpaceType DEF ScanInv, GridInv
    <3> QED
      BY <1>1, <3>1, <3>2 DEF HistoryType
  <2>2. CASE ~pidFull
    BY <1>1, <1>6, <2>2 DEF HistoryType, Move
  <2> QED
    BY <2>1, <2>2
<1>7. ASSUME NEW p \in Pids, NEW s \in SpacesOfBuild[p], Remap(p, s) PROVE HistoryType'
  BY <1>1, <1>7 DEF HistoryType, Remap
<1> QED
  BY <1>2, <1>3, <1>4, <1>5, <1>6, <1>7, <1>8, StepCases DEF Reads, Remaps

(***************************************************************************)
(* What is found and what is wanted                                        *)
(***************************************************************************)

Counts == CountType /\ CountInv /\ NoOvershoot

\* At the end of a process nothing is left of its counts.
LEMMA CountsNextPid ==
  ASSUME ScanInv, NextPid, request' = request, readFails' = readFails,
         demoted' \in Nat, ~readFails => demoted' < request + Chunk
  PROVE  Counts'
<1>1. request \in 1 .. MaxRequest /\ MaxRequest \in Nat
  BY TypeOfInv, ScanAssumption DEF CountType
<1>2. /\ found' = 0 /\ here' = 0 /\ listed' = 0 /\ line' = 1
      /\ pc' = "idle" \/ (pc' = "pid" /\ demoted' < request)
  BY <1>1 DEF NextPid, NoWalk, NoRange
<1>3. CountType'
  BY <1>1, <1>2 DEF CountType
<1>4. CountInv'
  BY <1>2 DEF CountInv, InProcess
<1> QED
  BY <1>3, <1>4 DEF Counts, NoOvershoot

LEMMA SumPositive ==
  ASSUME NEW m \in Nat \ {0}, NEW n \in Nat
  PROVE  0 < m /\ 0 < m + n
OBVIOUS

LEMMA CountsStep ==
  ASSUME ScanInv, [HugeNext]_hugeVars
  PROVE  Counts'
<1>1. CountType /\ CountInv /\ NoOvershoot
  BY TypeOfInv DEF ScanInv
<1>2. /\ Chunk \in Nat /\ Chunk >= 1 /\ MaxRequest \in Nat /\ PageSize \in Nat
      /\ line \in Nat /\ request \in Nat
  BY ScanAssumption, TypeOfInv DEF PlaceType, CountType
<1>3. CASE StartScan
  <2>1. /\ pc' = "pid" /\ request' \in 1 .. MaxRequest /\ demoted' = 0
        /\ found' = found /\ here' = here /\ listed' = listed /\ line' = line /\ pc = "idle"
    BY <1>3 DEF StartScan, walkVars, rangeVars
  <2>2. demoted' < request' /\ demoted' < request' + Chunk
    <3>1. request' \in Nat \ {0} /\ Chunk \in Nat
      BY <1>2, <2>1
    <3> QED
      BY <2>1, <3>1, SumPositive
  <2>3. CountType' /\ NoOvershoot'
    BY <1>1, <2>1, <2>2 DEF CountType, NoOvershoot
  <2>4. CountInv'
    BY <1>1, <2>1 DEF CountInv, InProcess
  <2> QED
    BY <2>3, <2>4 DEF Counts
<1>4. ASSUME NEW p \in Pids, OpenMaps(p) PROVE Counts'
  BY <1>1, <1>2, <1>4
  DEF Counts, CountType, CountInv, NoOvershoot, InProcess, OpenMaps, Wanted, resultVars,
      rangeVars, roundVars
<1>5. CASE SkipVma
  BY <1>1, <1>2, <1>5
  DEF Counts, CountType, CountInv, NoOvershoot, InProcess, SkipVma, AtVma, Wanted,
      resultVars, rangeVars, roundVars
<1>6. CASE Enters
  <2>1. line \in DOMAIN maps
    BY <1>6, VmaAt DEF Enters, EnterVma, AtVma
  <2>2. /\ pc = "vma" /\ pc' = "range" /\ request' = request /\ demoted' = demoted
        /\ found' = found /\ here' = here /\ listed' = listed /\ line' = line
        /\ maps' = maps /\ readFails' = readFails /\ pidFull' = pidFull
    BY <1>6 DEF Enters, EnterVma, AtVma, resultVars, roundVars
  <2> QED
    BY <1>1, <1>2, <2>1, <2>2
    DEF Counts, CountType, CountInv, NoOvershoot, InProcess, Wanted
<1>7. ASSUME NEW same \in BOOLEAN, EndOfMaps(same) PROVE Counts'
  BY <1>1, <1>2, <1>7
  DEF Counts, CountType, CountInv, NoOvershoot, InProcess, EndOfMaps, Wanted, resultVars,
      walkVars, rangeVars, roundVars
<1>8. ASSUME NEW cold \in 0 .. Chunk, NEW reached \in Nat, ReadChunk(cold, reached)
      PROVE  Counts'
  <2>1. /\ pc = "range" /\ request' = request /\ demoted' = demoted /\ line' = line
        /\ maps' = maps /\ readFails' = readFails /\ pidFull' = pidFull
        /\ listed' = listed + cold
    BY <1>8 DEF ReadChunk, resultVars
  <2>2. CASE here + cold >= RangeRequest
    <3>1. found' = found + here + cold /\ here' = 0 /\ pc' = "move"
      BY <1>8, <2>2 DEF ReadChunk, NoRange
    <3> QED
      BY <1>1, <1>2, <2>1, <3>1
      DEF Counts, CountType, CountInv, NoOvershoot, InProcess, Wanted
  <2>3. CASE ~ (here + cold >= RangeRequest)
    <3>1. found' = found /\ here' = here + cold /\ pc' = "range"
      BY <1>8, <2>1, <2>3 DEF ReadChunk
    <3> QED
      BY <1>1, <1>2, <2>1, <2>3, <3>1
      DEF Counts, CountType, CountInv, NoOvershoot, InProcess, Wanted, RangeRequest
  <2> QED
    BY <2>2, <2>3
<1>9. CASE LeaveVma
  BY <1>1, <1>2, <1>9
  DEF Counts, CountType, CountInv, NoOvershoot, InProcess, LeaveVma, NoRange, Wanted,
      resultVars, roundVars
<1>10. CASE ReadFails
  <2>1. /\ request' = request /\ demoted' = demoted /\ line' = line + 1 /\ pc = "range"
        /\ readFails' = TRUE /\ pidFull' = pidFull
        /\ listed' = listed /\ found' = found + 1 /\ here' = 0
        /\ \/ pc' = "move"
           \/ pc' = "vma" /\ ~ (found' >= Wanted)
    BY <1>10 DEF ReadFails, NoRange, resultVars
  <2> QED
    BY <1>1, <1>2, <2>1 DEF Counts, CountType, CountInv, NoOvershoot, InProcess, Wanted
<1>11. CASE PagemapFails
  <2>1. /\ NextPid /\ request' = request /\ readFails' = readFails /\ demoted' = demoted
    BY <1>11 DEF PagemapFails, roundVars
  <2> QED
    BY <1>1, <2>1, CountsNextPid DEF CountType, NoOvershoot
<1>12. ASSUME NEW moved \in BOOLEAN, Move(moved) PROVE Counts'
  <2>1. /\ NextPid /\ request' = request /\ readFails' = readFails /\ pc = "move"
        /\ demoted' = demoted + listed \/ demoted' = demoted
    BY <1>12, Zenon DEF Move
  <2>2. demoted' \in Nat /\ (~readFails => demoted' < request + Chunk)
    BY <1>1, <1>2, <2>1 DEF CountType, CountInv, NoOvershoot, InProcess, Wanted
  <2> QED
    BY <2>1, <2>2, CountsNextPid
<1>13. CASE Remaps \/ UNCHANGED vars
  BY <1>1, <1>2, <1>13
  DEF Counts, CountType, CountInv, NoOvershoot, InProcess, Remaps, Remap, Wanted,
      resultVars, walkVars, rangeVars, vars, roundVars
<1> QED
  BY <1>3, <1>4, <1>5, <1>6, <1>7, <1>8, <1>9, <1>10, <1>11, <1>12, <1>13, StepCases
  DEF Reads

(***************************************************************************)
(* The maps that were read, and the pages that are due                     *)
(***************************************************************************)

\* Steps that leave the maps of the process alone.
LEMMA DueUnchanged ==
  ASSUME ScanInv, due' = due, space' = space,
         ~InProcess' \/ (InProcess /\ maps' = maps /\ pid' = pid)
  PROVE  DueInv'
BY DEF ScanInv, DueInv, Ordered, PagesOf, PagesIn

LEMMA DueStep ==
  ASSUME ScanInv, [HugeNext]_hugeVars
  PROVE  DueInv'
<1>1. /\ \A p \in Pids : due[p] \subseteq PagesOf(space[p])
      /\ \A p \in Pids : space[p] \in SpacesOfBuild[p]
      /\ InProcess => Ordered(maps) /\ due[pid] \subseteq PagesOf(maps)
  BY DEF ScanInv, DueInv, GridInv
<1>2. /\ due \in [Pids -> SUBSET Nat] /\ pid \in Pids
      /\ space \in [Pids -> Seq([start : Nat, end : Nat])]
  BY TypeOfInv DEF HistoryType, PlaceType
<1>3. CASE StartScan
  BY <1>3, DueUnchanged DEF StartScan, InProcess
<1>4. ASSUME NEW p \in Pids, OpenMaps(p) PROVE DueInv'
  <2>1. maps' = space[p] /\ pid' = p /\ due' = due /\ space' = space
    BY <1>4 DEF OpenMaps, roundVars
  <2>2. Ordered(maps') /\ due'[pid'] \subseteq PagesOf(maps')
    BY <1>1, <2>1, SpaceType
  <2> QED
    BY <1>1, <2>1, <2>2 DEF DueInv
<1>5. CASE SkipVma \/ Enters \/ LeaveVma
  BY <1>5, DueUnchanged
  DEF SkipVma, Enters, AtVma, EnterVma, LeaveVma, InProcess, roundVars
<1>6. ASSUME NEW same \in BOOLEAN, EndOfMaps(same) PROVE DueInv'
  BY <1>6, DueUnchanged DEF EndOfMaps, InProcess, roundVars, walkVars
<1>7. CASE Reads \/ ReadFails
  BY <1>7, DueUnchanged DEF Reads, ReadChunk, ReadFails, InProcess
<1>8. CASE PagemapFails
  BY <1>8, DueUnchanged DEF PagemapFails, NextPid, InProcess, roundVars
<1>9. ASSUME NEW moved \in BOOLEAN, Move(moved) PROVE DueInv'
  <2>1. ~InProcess' /\ space' = space
    BY <1>9, Zenon DEF Move, NextPid, InProcess
  <2>2. due' = [due EXCEPT ![pid] = PagesOf(space[pid])] \/ due' = due
    BY <1>9, Zenon DEF Move
  <2>3. \A p \in Pids : due'[p] \subseteq PagesOf(space[p])
    BY <1>1, <1>2, <2>2
  <2> QED
    BY <2>1, <2>3 DEF DueInv
<1>10. ASSUME NEW p \in Pids, NEW s \in SpacesOfBuild[p], Remap(p, s) PROVE DueInv'
  <2>1. /\ space' = [space EXCEPT ![p] = s]
        /\ due' = [due EXCEPT ![p] = @ \cap PagesOf(s)]
        /\ pc' = pc /\ pid' = pid /\ maps' = maps
    BY <1>10 DEF Remap, walkVars
  <2>2. \A q \in Pids : due'[q] \subseteq due[q] /\ due'[q] \subseteq PagesOf(space'[q])
    BY <1>1, <1>2, <2>1
  <2>3. InProcess' => Ordered(maps') /\ due'[pid'] \subseteq PagesOf(maps')
    BY <1>1, <1>2, <2>1, <2>2 DEF InProcess
  <2> QED
    BY <2>2, <2>3 DEF DueInv
<1>11. CASE UNCHANGED vars
  BY <1>11, DueUnchanged DEF vars, walkVars, roundVars, InProcess
<1> QED
  BY <1>3, <1>4, <1>5, <1>6, <1>7, <1>8, <1>9, <1>10, <1>11, StepCases DEF Remaps

LEMMA GridUnchanged ==
  ASSUME ScanInv, huge' = huge, space' = space, last' = last, curr' = curr \/ curr' = 0,
         ~InProcess' \/ (InProcess /\ maps' = maps)
  PROVE  GridInv'
<1>1. 0 % PageSize = 0
  BY ScanAssumption, MultipleMod
<1> QED
  BY <1>1 DEF ScanInv, GridInv, SpacesOfBuild, Aligned

LEMMA GridStep ==
  ASSUME ScanInv, [HugeNext]_hugeVars
  PROVE  GridInv'
<1>1. /\ huge \in BOOLEAN
      /\ \A p \in Pids : space[p] \in SpacesOfBuild[p]
      /\ huge => curr % PageSize = 0 /\ \A p \in Pids : last[p] % PageSize = 0
      /\ ~huge /\ InProcess => Aligned(maps)
  BY DEF ScanInv, GridInv
<1>2. /\ pid \in Pids /\ last \in [Pids -> Nat]
      /\ space \in [Pids -> Seq([start : Nat, end : Nat])]
      /\ curr \in Nat /\ batch \in Nat /\ PageSize \in Nat \ {0}
      /\ huge' = huge /\ SpacesOfBuild' = SpacesOfBuild
  BY TypeOfInv, ScanAssumption, StepCases DEF PlaceType, SpacesOfBuild
<1>3. 0 % PageSize = 0
  BY ScanAssumption, MultipleMod
<1>4. CASE StartScan
  BY <1>2, <1>4, GridUnchanged DEF StartScan, InProcess, walkVars, rangeVars
<1>5. ASSUME NEW p \in Pids, OpenMaps(p) PROVE GridInv'
  <2>1. maps' = space[p] /\ last' = last /\ space' = space /\ curr' = curr
    BY <1>5 DEF OpenMaps, rangeVars
  <2>2. ~huge => Aligned(maps')
    BY <1>1, <2>1, SpaceType
  <2> QED
    BY <1>1, <1>2, <2>1, <2>2 DEF GridInv, Aligned
<1>6. CASE SkipVma \/ LeaveVma \/ ReadFails
  BY <1>2, <1>6, GridUnchanged
  DEF SkipVma, AtVma, LeaveVma, ReadFails, InProcess, NoRange, rangeVars
<1>7. ASSUME NEW from \in Nat, NEW n \in 1 .. Chunk, EnterVma(from, n),
             huge => from % PageSize = 0
      PROVE  GridInv'
  <2>1. /\ curr' = from /\ pc = "vma" /\ pc' = "range"
        /\ last' = last /\ space' = space /\ maps' = maps
    BY <1>7 DEF EnterVma, AtVma
  <2> QED
    BY <1>1, <1>2, <1>7, <2>1 DEF GridInv, InProcess, Aligned
<1>8. ASSUME NEW same \in BOOLEAN, EndOfMaps(same) PROVE GridInv'
  BY <1>2, <1>8, GridUnchanged DEF EndOfMaps, InProcess, walkVars, rangeVars
<1>9. ASSUME NEW cold \in 0 .. Chunk, NEW reached \in Nat, ReadChunk(cold, reached),
             huge => reached % PageSize = 0
      PROVE  GridInv'
  <2>1. pc = "range" /\ space' = space /\ maps' = maps
    BY <1>9 DEF ReadChunk
  <2>2. huge => \A p \in Pids : last'[p] % PageSize = 0
    <3>1. \/ last' = [last EXCEPT ![pid] = AtLeast(@, reached)]
          \/ last' = last
      BY <1>9, Zenon DEF ReadChunk
    <3>2. AtLeast(last[pid], reached) \in {last[pid], reached}
      BY DEF AtLeast
    <3> QED
      BY <1>1, <1>2, <1>9, <3>1, <3>2
  <2>3. huge => curr' % PageSize = 0
    <3>1. curr' = 0 \/ curr' = curr + batch * PageSize
      BY <1>9, Zenon DEF ReadChunk, NoRange
    <3>2. huge => (curr + batch * PageSize) % PageSize = 0
      BY <1>1, <1>2, DivAdd
    <3> QED
      BY <1>3, <3>1, <3>2
  <2> QED
    BY <1>1, <1>2, <2>1, <2>2, <2>3 DEF GridInv, InProcess, Aligned
<1>10. CASE PagemapFails
  BY <1>2, <1>10, GridUnchanged DEF PagemapFails, NextPid, NoWalk, NoRange, InProcess
<1>11. ASSUME NEW moved \in BOOLEAN, Move(moved) PROVE GridInv'
  <2>1. ~InProcess' /\ space' = space /\ curr' = 0
    BY <1>11, Zenon DEF Move, NextPid, NoWalk, NoRange, InProcess
  <2>2. last' = [last EXCEPT ![pid] = 0] \/ last' = last
    BY <1>11, Zenon DEF Move, LastIfFull
  <2>3. huge => \A p \in Pids : last'[p] % PageSize = 0
    BY <1>1, <1>2, <1>3, <2>2
  <2> QED
    BY <1>1, <1>2, <1>3, <2>1, <2>3 DEF GridInv
<1>12. ASSUME NEW p \in Pids, NEW s \in SpacesOfBuild[p], Remap(p, s) PROVE GridInv'
  <2>1. /\ space' = [space EXCEPT ![p] = s]
        /\ pc' = pc /\ last' = last /\ maps' = maps /\ curr' = curr
    BY <1>12 DEF Remap, walkVars, rangeVars
  <2>2. \A q \in Pids : space'[q] \in SpacesOfBuild[q]
    BY <1>1, <1>2, <2>1
  <2> QED
    BY <1>1, <1>2, <2>1, <2>2 DEF GridInv, InProcess, Aligned
<1>13. CASE UNCHANGED vars
  BY <1>2, <1>13, GridUnchanged DEF vars, walkVars, rangeVars, InProcess
<1> QED
  BY <1>4, <1>5, <1>6, <1>7, <1>8, <1>9, <1>10, <1>11, <1>12, <1>13, StepCases
  DEF Enters, Reads, Remaps

(***************************************************************************)
(* No page is passed over                                                  *)
(***************************************************************************)

\* A page that is due lies in a VMA of the maps.
LEMMA DuePage ==
  ASSUME ScanInv, InProcess, NEW page \in due[pid]
  PROVE  page \in Nat /\ \E i \in DOMAIN maps : page \in PagesIn(maps[i])
<1>1. due[pid] \subseteq PagesOf(maps)
  BY DEF ScanInv, DueInv
<1>2. page \in Nat
  BY TypeOfInv DEF HistoryType, PlaceType
<1> QED
  BY <1>1, <1>2 DEF PagesOf

\* In a range that is not read from the start of a page the last page is missed.
LEMMA MissedUnchanged ==
  ASSUME ScanInv, pc' # "range" \/ (pc = "range" /\ (curr' % PageSize # 0 => curr % PageSize # 0)),
         pid' = pid, maps' = maps, line' = line, missed' = missed
  PROVE  MissedInv'
BY DEF ScanInv, MissedInv, LastPage, PagesIn, Vma

LEMMA MissedEnter ==
  ASSUME ScanInv, NEW from \in Nat, NEW n \in 1 .. Chunk, EnterVma(from, n),
         IF huge THEN from % PageSize = 0 ELSE from = ScanStart(Vma)
  PROVE  MissedInv'
<1>1. /\ AtVma /\ ~AlreadyScanned(Vma) /\ pc = "vma" /\ line <= Len(maps)
      /\ curr' = from /\ pid' = pid /\ maps' = maps /\ line' = line
  BY DEF EnterVma, AtVma
<1>2. /\ line \in DOMAIN maps /\ Vma.start \in Nat /\ Vma.end \in Nat
      /\ last[pid] \in Nat /\ PageSize \in Nat \ {0}
  BY <1>1, VmaAt, ScanAssumption
<1>3. ASSUME from % PageSize # 0
      PROVE  {LastPage(Vma)} \cap PagesIn(Vma) \subseteq missed'[pid]
  <2>1. ~huge /\ from = ScanStart(Vma)
    BY <1>3
  <2>2. Vma.start % PageSize = 0
    BY <1>1, <1>2, <2>1 DEF ScanInv, GridInv, InProcess, Aligned, Vma
  <2>3. from = last[pid] /\ Vma.start < last[pid]
    BY <1>2, <1>3, <2>1, <2>2 DEF ScanStart, AtLeast
  <2>4. last[pid] < Vma.end
    BY <1>1, <1>2, <2>3 DEF AlreadyScanned
  <2>5. Missed(Vma) = {LastPage(Vma)} \cap PagesIn(Vma)
    BY <1>3, <2>3, <2>4 DEF Missed
  <2> QED
    BY <1>1, <2>5, MissedGrows
<1> QED
  BY <1>1, <1>3 DEF MissedInv, LastPage, PagesIn, Vma

LEMMA MissedStep ==
  ASSUME ScanInv, [HugeNext]_hugeVars
  PROVE  MissedInv'
<1>1. ASSUME pc' # "range" PROVE MissedInv'
  BY <1>1 DEF MissedInv
<1>2. CASE \/ StartScan
           \/ \E p \in Pids : OpenMaps(p)
           \/ SkipVma \/ LeaveVma \/ ReadFails
  BY <1>1, <1>2, Zenon DEF StartScan, OpenMaps, SkipVma, AtVma, LeaveVma, ReadFails
<1>3. CASE Enters
  BY <1>3, MissedEnter DEF Enters
<1>4. ASSUME NEW same \in BOOLEAN, EndOfMaps(same) PROVE MissedInv'
  BY <1>1, <1>4 DEF EndOfMaps
<1>5. CASE Reads
  <2>1. /\ pc = "range" /\ pid' = pid /\ maps' = maps /\ line' = line /\ missed' = missed
        /\ pc' = "move" \/ curr' = curr + batch * PageSize
    BY <1>5, Zenon DEF Reads, ReadChunk
  <2>2. curr \in Nat /\ batch \in Nat /\ PageSize \in Nat \ {0}
    BY TypeOfInv, ScanAssumption DEF PlaceType
  <2>3. curr % PageSize = 0 => (curr + batch * PageSize) % PageSize = 0
    BY <2>2, DivAdd
  <2> QED
    BY <2>1, <2>3, MissedUnchanged
<1>6. CASE PagemapFails
  BY <1>1, <1>6 DEF PagemapFails, NextPid
<1>7. ASSUME NEW moved \in BOOLEAN, Move(moved) PROVE MissedInv'
  <2>1. pc' # "range"
    BY <1>7, Zenon DEF Move, NextPid
  <2> QED
    BY <1>1, <2>1
<1>8. CASE Remaps \/ UNCHANGED vars
  BY <1>8, MissedUnchanged
  DEF Remaps, Remap, vars, walkVars, rangeVars, roundVars, ScanInv, MissedInv
<1> QED
  BY <1>2, <1>3, <1>4, <1>5, <1>6, <1>7, <1>8, StepCases

LEMMA BehindVma ==
  ASSUME ScanInv, pc \in {"vma", "range"}, pid \notin unread, NEW page \in due[pid] \ missed[pid],
         NEW i \in DOMAIN maps, page \in PagesIn(maps[i]),
         \/ i < line
         \/ i = line /\ pc = "range" /\ page < curr \div PageSize
  PROVE  page \in round[pid]
BY DEF ScanInv, BehindInv, Vma

LEMMA BehindLast ==
  ASSUME ScanInv, pid \notin unread, NEW page \in due[pid] \ missed[pid], page < last[pid] \div PageSize
  PROVE  page \in round[pid]
<1>1. pid \in Pids /\ NothingSkipped
  BY TypeOfInv DEF PlaceType, ScanInv
<1> QED
  BY <1>1 DEF NothingSkipped

LEMMA BehindUnchanged ==
  ASSUME ScanInv, pc' = pc, pid' = pid, maps' = maps, line' = line, curr' = curr,
         unread' = unread, round' = round, missed' = missed, due'[pid] \subseteq due[pid]
  PROVE  BehindInv'
BY DEF ScanInv, BehindInv, Vma, PagesIn

\* The walk goes on to the next VMA.
LEMMA BehindNext ==
  ASSUME ScanInv, pc \in {"vma", "range"}, line \in DOMAIN maps,
         pc' # "range", pid' = pid, maps' = maps, line' = line + 1,
         unread' = unread, round' = round, due' = due, missed[pid] \subseteq missed'[pid],
         pid \notin unread =>
           \A page \in due[pid] \ missed'[pid] : page \in PagesIn(Vma) => page \in round[pid]
  PROVE  BehindInv'
<1>1. \A i \in DOMAIN maps : i < line + 1 => i < line \/ i = line
  <2>1. maps \in Seq([start : Nat, end : Nat]) /\ line \in Nat
    BY TypeOfInv DEF PlaceType
  <2> QED
    BY <2>1
<1> SUFFICES ASSUME pid \notin unread, NEW page \in due[pid] \ missed'[pid],
                    NEW i \in DOMAIN maps, i < line + 1, page \in PagesIn(maps[i])
             PROVE  page \in round[pid]
  BY DEF BehindInv, PagesIn
<1>2. CASE i < line
  BY <1>2, BehindVma
<1>3. CASE i = line
  BY <1>3 DEF Vma
<1> QED
  BY <1>1, <1>2, <1>3

\* Of a VMA that is skipped everything is behind the address to resume at, but
\* for its last page if the address lies in front of or in it.
LEMMA BehindSkip ==
  ASSUME ScanInv, SkipVma
  PROVE  BehindInv'
<1>1. AtVma /\ pc = "vma" /\ line <= Len(maps) /\ AlreadyScanned(Vma)
  BY DEF SkipVma, AtVma
<1>2. /\ line \in DOMAIN maps /\ Vma.start \in Nat /\ Vma.end \in Nat
      /\ last[pid] \in Nat /\ pid \in Pids /\ PageSize \in Nat \ {0}
  BY <1>1, VmaAt, TypeOfInv, ScanAssumption DEF PlaceType
<1>3. Vma.end % PageSize = 0 \/ last[pid] % PageSize = 0
  BY <1>1, <1>2 DEF ScanInv, GridInv, InProcess, Aligned, Vma
<1>4. missed'[pid] = missed[pid] \cup Missed(Vma)
  BY <1>1, MissedGrows
<1>5. ASSUME pid \notin unread, NEW page \in due[pid] \ missed'[pid], page \in PagesIn(Vma)
      PROVE  page \in round[pid]
  <2>1. page \in Nat
    BY <1>1, DuePage DEF InProcess
  <2>2. page <= (Vma.end \div PageSize) - 1 /\ Vma.end \div PageSize \in Nat
    <3>1. Vma.start \div PageSize \in Nat /\ Vma.end \div PageSize \in Nat
      BY <1>2, DivFacts
    <3> QED
      BY <1>5, <3>1 DEF PagesIn
  <2>3. CASE last[pid] < Vma.end
    <3>1. last[pid] > Vma.start /\ last[pid] >= Vma.end - PageSize
      BY <1>1 DEF AlreadyScanned
    <3>2. page # LastPage(Vma)
      BY <1>2, <1>4, <1>5, <2>3, <3>1 DEF Missed
    <3>3. page < last[pid] \div PageSize
      BY <1>2, <1>3, <2>1, <2>2, <3>1, <3>2, SkippedPage DEF LastPage
    <3> QED
      BY <1>4, <1>5, <3>3, BehindLast
  <2>4. CASE ~ (last[pid] < Vma.end)
    <3>1. Vma.end \div PageSize <= last[pid] \div PageSize
      BY <1>2, <2>4, DivMonotone
    <3>2. last[pid] \div PageSize \in Nat
      BY <1>2, DivFacts
    <3>3. page < last[pid] \div PageSize
      BY <2>1, <2>2, <3>1, <3>2
    <3> QED
      BY <1>4, <1>5, <3>3, BehindLast
  <2> QED
    BY <2>3, <2>4
<1>6. /\ pc' # "range" /\ pid' = pid /\ maps' = maps /\ line' = line + 1
      /\ unread' = unread /\ round' = round /\ due' = due
  BY <1>1 DEF SkipVma, AtVma
<1> QED
  BY <1>1, <1>2, <1>4, <1>5, <1>6, BehindNext

LEMMA BehindEnter ==
  ASSUME ScanInv, NEW from \in Nat, NEW n \in 1 .. Chunk, EnterVma(from, n),
         from \div PageSize = ScanStart(Vma) \div PageSize
  PROVE  BehindInv'
<1>1. /\ pc = "vma" /\ line <= Len(maps) /\ pc' = "range" /\ curr' = from
      /\ pid' = pid /\ maps' = maps /\ line' = line
      /\ unread' = unread /\ round' = round /\ due' = due
      /\ missed[pid] \subseteq missed'[pid] /\ pid \in Pids
  BY MissedGrows, TypeOfInv DEF EnterVma, AtVma, PlaceType
<1>2. /\ line \in DOMAIN maps /\ Vma.start \in Nat /\ Vma.end \in Nat
      /\ last[pid] \in Nat /\ PageSize \in Nat \ {0}
  BY <1>1, VmaAt, ScanAssumption
<1>3. ASSUME pid \notin unread, NEW page \in due[pid] \ missed[pid], page \in PagesIn(Vma),
             page < from \div PageSize
      PROVE  page \in round[pid]
  <2>1. page \in Nat
    BY <1>1, DuePage DEF InProcess
  <2>2. page >= Vma.start \div PageSize
    <3>1. Vma.start \div PageSize \in Nat /\ Vma.end \div PageSize \in Nat
      BY <1>2, DivFacts
    <3> QED
      BY <1>3, <3>1 DEF PagesIn
  <2>3. Vma.start \div PageSize \in Nat /\ last[pid] \div PageSize \in Nat
    BY <1>2, DivFacts
  <2>4. ScanStart(Vma) \in {last[pid], Vma.start}
    BY DEF ScanStart, AtLeast
  <2>5. page < last[pid] \div PageSize
    BY <1>3, <2>1, <2>2, <2>3, <2>4
  <2> QED
    BY <1>3, <2>5, BehindLast
<1>4. ASSUME pid \notin unread, NEW page \in due[pid] \ missed[pid], NEW i \in DOMAIN maps,
             i < line, page \in PagesIn(maps[i])
      PROVE  page \in round[pid]
  BY <1>1, <1>4, BehindVma
<1> QED
  BY <1>1, <1>3, <1>4 DEF BehindInv, Vma, PagesIn

\* A page of the VMA that lies before the chunk just read, or in it.
LEMMA ReadCovers ==
  ASSUME ScanInv, NEW cold, NEW reached, ReadChunk(cold, reached),
         pid \notin unread, NEW page \in due[pid] \ missed[pid], page \in PagesIn(Vma),
         page < (curr \div PageSize) + ChunkPages
  PROVE  page \in round'[pid]
<1>1. /\ pc = "range" /\ curr < Vma.end
      /\ round' = [round EXCEPT ![pid] =
           @ \cup (curr \div PageSize .. (curr \div PageSize) + ChunkPages - 1)]
  BY DEF ReadChunk
<1>2. /\ line \in DOMAIN maps /\ pid \in Pids /\ round \in [Pids -> SUBSET Nat]
      /\ curr \in Nat /\ PageSize \in Nat \ {0}
  BY <1>1, VmaAt, TypeOfInv, ScanAssumption DEF PlaceType, HistoryType
<1>3. page \in Nat /\ curr \div PageSize \in Nat /\ ChunkPages \in Nat
  BY <1>1, <1>2, DuePage, DivFacts, ChunkFacts DEF InProcess
<1>4. CASE page < curr \div PageSize
  <2>1. page \in round[pid]
    BY <1>1, <1>2, <1>4, BehindVma DEF Vma
  <2> QED
    BY <1>1, <1>2, <2>1
<1>5. CASE ~ (page < curr \div PageSize)
  <2>1. page \in curr \div PageSize .. (curr \div PageSize) + ChunkPages - 1
    BY <1>3, <1>5
  <2> QED
    BY <1>1, <1>2, <2>1
<1> QED
  BY <1>4, <1>5

LEMMA RoundGrows ==
  ASSUME ScanInv, NEW cold, NEW reached, ReadChunk(cold, reached)
  PROVE  \A p \in Pids : round[p] \subseteq round'[p]
<1>1. round \in [Pids -> SUBSET Nat]
  BY TypeOfInv DEF HistoryType
<1> QED
  BY <1>1 DEF ReadChunk

LEMMA BehindRead ==
  ASSUME ScanInv, NEW cold \in 0 .. Chunk, NEW reached \in Nat, ReadChunk(cold, reached)
  PROVE  BehindInv'
<1>1. /\ pc = "range" /\ curr < Vma.end
      /\ pid' = pid /\ maps' = maps /\ line' = line /\ unread' = unread /\ due' = due
      /\ missed' = missed
      /\ \/ pc' = "move"
         \/ pc' = "range" /\ curr' = curr + batch * PageSize
  BY Zenon DEF ReadChunk
<1>2. /\ line \in DOMAIN maps /\ Vma.start \in Nat /\ Vma.end \in Nat
      /\ curr \in Nat /\ batch \in Nat /\ PageSize \in Nat \ {0} /\ pid \in Pids
  BY <1>1, VmaAt, TypeOfInv, ScanAssumption DEF PlaceType
<1>3. CASE pc' = "move"
  BY <1>3 DEF BehindInv
<1>4. CASE pc' = "range" /\ curr' = curr + batch * PageSize
  <2>1. ASSUME pid \notin unread, NEW page \in due[pid] \ missed[pid], page \in PagesIn(Vma),
               page < curr' \div PageSize
        PROVE  page \in round'[pid]
    <3>1. page \in Nat
      BY <1>1, DuePage DEF InProcess
    <3>2. page <= (Vma.end \div PageSize) - 1
      <4>1. Vma.start \div PageSize \in Nat /\ Vma.end \div PageSize \in Nat
        BY <1>2, DivFacts
      <4> QED
        BY <2>1, <4>1 DEF PagesIn
    <3>3. \/ curr % PageSize = 0
          \/ Vma.end % PageSize = 0 /\ page # (Vma.end - 1) \div PageSize
      <4>1. Vma.end % PageSize = 0 \/ curr % PageSize = 0
        BY <1>1, <1>2 DEF ScanInv, GridInv, InProcess, Aligned, Vma
      <4>2. curr % PageSize # 0 => page # LastPage(Vma)
        BY <1>1, <2>1 DEF ScanInv, MissedInv
      <4> QED
        BY <4>1, <4>2 DEF LastPage
    <3>4. page < (curr + batch * PageSize) \div PageSize
      BY <1>4, <2>1
    <3>5. page < (curr \div PageSize) + ReadPages(PageSize, curr, batch, Vma.end)
      BY <1>1, <1>2, <3>1, <3>2, <3>3, <3>4, ReadPage
    <3>6. page < (curr \div PageSize) + ChunkPages
      BY <1>1, <3>5, ChunkFacts
    <3> QED
      BY <2>1, <3>6, ReadCovers
  <2>2. ASSUME pid \notin unread, NEW page \in due[pid] \ missed[pid], NEW i \in DOMAIN maps,
               i < line, page \in PagesIn(maps[i])
        PROVE  page \in round'[pid]
    BY <1>1, <1>2, <2>2, BehindVma, RoundGrows
  <2> QED
    BY <1>1, <1>4, <2>1, <2>2 DEF BehindInv, Vma, PagesIn
<1> QED
  BY <1>1, <1>3, <1>4

LEMMA BehindLeave ==
  ASSUME ScanInv, LeaveVma
  PROVE  BehindInv'
<1>1. /\ pc = "range" /\ curr >= Vma.end
      /\ pc' # "range" /\ pid' = pid /\ maps' = maps /\ line' = line + 1
      /\ unread' = unread /\ round' = round /\ due' = due /\ missed' = missed
  BY DEF LeaveVma, roundVars
<1>2. /\ line \in DOMAIN maps /\ Vma.start \in Nat /\ Vma.end \in Nat
      /\ curr \in Nat /\ PageSize \in Nat \ {0}
  BY <1>1, VmaAt, TypeOfInv, ScanAssumption DEF PlaceType
<1>3. Vma.end \div PageSize <= curr \div PageSize
  BY <1>1, <1>2, DivMonotone
<1>4. ASSUME pid \notin unread, NEW page \in due[pid] \ missed[pid], page \in PagesIn(Vma)
      PROVE  page \in round[pid]
  <2>1. /\ Vma.start \div PageSize \in Nat /\ Vma.end \div PageSize \in Nat
        /\ curr \div PageSize \in Nat /\ page \in Nat
    BY <1>1, <1>2, DivFacts, DuePage DEF InProcess
  <2>2. page < curr \div PageSize
    BY <1>3, <1>4, <2>1 DEF PagesIn
  <2> QED
    BY <1>1, <1>2, <1>4, <2>2, BehindVma DEF Vma
<1> QED
  BY <1>1, <1>2, <1>4, BehindNext

LEMMA BehindStep ==
  ASSUME ScanInv, [HugeNext]_hugeVars
  PROVE  BehindInv'
<1>1. ASSUME pc' \notin {"vma", "range"} PROVE BehindInv'
  BY <1>1 DEF BehindInv
<1>2. CASE StartScan
  BY <1>1, <1>2 DEF StartScan
<1>3. ASSUME NEW p \in Pids, OpenMaps(p) PROVE BehindInv'
  <2>1. pc' = "vma" /\ line' = 1 /\ maps' \in Seq([start : Nat, end : Nat])
    BY <1>3, PlaceTypeStep DEF OpenMaps, ScanInv, CountInv, PlaceType
  <2>2. \A i \in DOMAIN maps' : ~ (i < line')
    BY <2>1
  <2> QED
    BY <2>1, <2>2 DEF BehindInv
<1>4. CASE SkipVma
  BY <1>4, BehindSkip
<1>5. CASE Enters
  BY <1>5, BehindEnter DEF Enters
<1>6. ASSUME NEW same \in BOOLEAN, EndOfMaps(same) PROVE BehindInv'
  BY <1>1, <1>6 DEF EndOfMaps
<1>7. CASE Reads
  BY <1>7, BehindRead DEF Reads
<1>8. CASE LeaveVma
  BY <1>8, BehindLeave
<1>9. CASE ReadFails
  BY <1>9 DEF ReadFails, BehindInv
<1>10. CASE PagemapFails
  BY <1>1, <1>10 DEF PagemapFails, NextPid
<1>11. ASSUME NEW moved \in BOOLEAN, Move(moved) PROVE BehindInv'
  <2>1. pc' \notin {"vma", "range"}
    BY <1>11, Zenon DEF Move, NextPid
  <2> QED
    BY <1>1, <2>1
<1>12. ASSUME NEW p \in Pids, NEW s \in SpacesOfBuild[p], Remap(p, s) PROVE BehindInv'
  <2>1. due' = [due EXCEPT ![p] = @ \cap PagesOf(s)] /\ due \in [Pids -> SUBSET Nat] /\ pid \in Pids
    BY <1>12, TypeOfInv DEF Remap, HistoryType, PlaceType
  <2>2. due'[pid] \subseteq due[pid]
    BY <2>1
  <2> QED
    BY <1>12, <2>2, BehindUnchanged DEF Remap, walkVars, rangeVars
<1>13. CASE UNCHANGED vars
  BY <1>13, BehindUnchanged DEF vars, walkVars, rangeVars, roundVars
<1> QED
  BY <1>2, <1>3, <1>4, <1>5, <1>6, <1>7, <1>8, <1>9, <1>10, <1>11, <1>12, <1>13, StepCases
  DEF Remaps

LEMMA SkippedUnchanged ==
  ASSUME ScanInv, last' = last, round' = round, unread \subseteq unread',
         \A p \in Pids : due'[p] \ missed'[p] \subseteq due[p] \ missed[p]
  PROVE  NothingSkipped'
BY DEF ScanInv, NothingSkipped

\* The address to resume at moves to the end of a chunk: every page before it
\* that is due lies in a VMA behind, in this one or in the chunk itself, and none
\* in a VMA to come.
LEMMA SkippedRead ==
  ASSUME ScanInv, NEW cold \in 0 .. Chunk, NEW reached \in Nat, ReadChunk(cold, reached),
         reached <= curr + ChunkPages * PageSize
  PROVE  NothingSkipped'
<1>1. /\ pc = "range" /\ curr < Vma.end
      /\ unread' = unread /\ due' = due /\ missed' = missed
      /\ \/ last' = [last EXCEPT ![pid] = AtLeast(@, reached)]
         \/ last' = last
  BY Zenon DEF ReadChunk
<1>2. /\ line \in DOMAIN maps /\ Vma.start \in Nat /\ Vma.end \in Nat
      /\ curr \in Nat /\ PageSize \in Nat \ {0} /\ pid \in Pids
      /\ last \in [Pids -> Nat] /\ maps \in Seq([start : Nat, end : Nat]) /\ line \in Nat
  BY <1>1, VmaAt, TypeOfInv, ScanAssumption DEF PlaceType
<1>3. /\ ChunkPages \in Nat /\ curr + ChunkPages * PageSize \in Nat
      /\ curr + ChunkPages * PageSize <= Vma.end
  BY <1>1, ChunkFacts
<1>4. /\ reached \div PageSize \in Nat /\ Vma.end \div PageSize \in Nat
      /\ reached \div PageSize <= (curr \div PageSize) + ChunkPages
      /\ reached \div PageSize <= Vma.end \div PageSize
  <2>1. /\ reached \div PageSize <= (curr + ChunkPages * PageSize) \div PageSize
        /\ (curr + ChunkPages * PageSize) \div PageSize <= Vma.end \div PageSize
    BY <1>2, <1>3, DivMonotone
  <2>2. (curr + ChunkPages * PageSize) \div PageSize = (curr \div PageSize) + ChunkPages
    BY <1>2, <1>3, DivAdd
  <2>3. /\ reached \div PageSize \in Nat /\ curr \div PageSize \in Nat
        /\ Vma.end \div PageSize \in Nat
    BY <1>2, DivFacts
  <2> QED
    BY <1>3, <2>1, <2>2, <2>3
<1>5. ASSUME pid \notin unread, NEW page \in due[pid] \ missed[pid], page < reached \div PageSize
      PROVE  page \in round'[pid]
  <2>1. PICK i \in DOMAIN maps : page \in PagesIn(maps[i])
    BY <1>1, DuePage DEF InProcess
  <2>2. page \in Nat /\ curr \div PageSize \in Nat
    BY <1>1, <1>2, DuePage, DivFacts DEF InProcess
  <2>3. CASE i < line
    BY <1>1, <1>2, <1>5, <2>1, <2>3, BehindVma, RoundGrows
  <2>4. CASE i = line
    <3>1. page < (curr \div PageSize) + ChunkPages
      BY <1>3, <1>4, <1>5, <2>2
    <3> QED
      BY <1>5, <2>1, <2>4, <3>1, ReadCovers DEF Vma
  <2>5. CASE line < i
    <3>1. Vma.end <= maps[i].start
      BY <1>1, <1>2, <2>5 DEF ScanInv, DueInv, InProcess, Ordered, Vma
    <3>2. maps[i].start \in Nat /\ maps[i].end \in Nat
      BY <1>1, VmaType DEF InProcess
    <3>3. /\ maps[i].start \div PageSize \in Nat /\ maps[i].end \div PageSize \in Nat
          /\ Vma.end \div PageSize <= maps[i].start \div PageSize
      BY <1>2, <3>1, <3>2, DivMonotone, DivFacts
    <3>4. page >= maps[i].start \div PageSize
      BY <2>1, <3>3 DEF PagesIn
    <3> QED
      BY <1>4, <1>5, <2>2, <3>3, <3>4
  <2>6. i < line \/ i = line \/ line < i
    BY <1>2
  <2> QED
    BY <2>3, <2>4, <2>5, <2>6
<1> SUFFICES ASSUME NEW p \in Pids, p \notin unread, NEW page \in due[p] \ missed[p],
                    page < last'[p] \div PageSize
             PROVE  page \in round'[p]
  BY <1>1 DEF NothingSkipped
<1>6. CASE last'[p] = last[p]
  BY <1>6, RoundGrows DEF ScanInv, NothingSkipped
<1>7. CASE last'[p] # last[p]
  <2>1. p = pid /\ last'[p] = AtLeast(last[pid], reached)
    BY <1>1, <1>2, <1>7
  <2>2. last'[p] = reached
    BY <1>7, <2>1 DEF AtLeast
  <2> QED
    BY <1>5, <2>1, <2>2
<1> QED
  BY <1>6, <1>7

LEMMA SkippedStep ==
  ASSUME ScanInv, [HugeNext]_hugeVars
  PROVE  NothingSkipped'
<1>1. /\ due \in [Pids -> SUBSET Nat] /\ last \in [Pids -> Nat] /\ pid \in Pids
      /\ round \in [Pids -> SUBSET Nat] /\ missed \in [Pids -> SUBSET Nat]
  BY TypeOfInv DEF HistoryType, PlaceType
<1>2. CASE \/ StartScan
           \/ \E p \in Pids : OpenMaps(p)
           \/ LeaveVma \/ PagemapFails \/ UNCHANGED vars
  BY <1>2, SkippedUnchanged
  DEF StartScan, OpenMaps, LeaveVma, PagemapFails, roundVars, vars
<1>8. CASE SkipVma \/ Enters
  <2>1. AtVma
    BY <1>8 DEF SkipVma, Enters, EnterVma
  <2>2. \A p \in Pids : missed[p] \subseteq missed'[p]
    BY <2>1, MissedGrows
  <2> QED
    BY <2>1, <2>2, SkippedUnchanged DEF AtVma
<1>3. ASSUME NEW same \in BOOLEAN, EndOfMaps(same) PROVE NothingSkipped'
  BY <1>3, SkippedUnchanged DEF EndOfMaps, roundVars
<1>4. CASE Reads
  BY <1>4, SkippedRead DEF Reads
<1>5. CASE ReadFails
  BY <1>5, SkippedUnchanged DEF ReadFails
<1>6. ASSUME NEW moved \in BOOLEAN, Move(moved) PROVE NothingSkipped'
  <2>1. CASE pidFull
    <3>1. /\ last' = [last EXCEPT ![pid] = 0]
          /\ round' = [round EXCEPT ![pid] = {}]
          /\ due' = [due EXCEPT ![pid] = PagesOf(space[pid])]
          /\ missed' = [missed EXCEPT ![pid] = {}]
          /\ unread' = unread \ {pid}
      BY <1>6, <2>1 DEF Move, LastIfFull
    <3>2. 0 \div PageSize = 0
      BY ScanAssumption, DivUnique
    <3>3. PagesOf(space[pid]) \subseteq Nat
      BY <1>1, PagesOfType, SpaceType DEF ScanInv, GridInv
    <3>4. \A page \in due'[pid] : ~ (page < last'[pid] \div PageSize)
      BY <1>1, <3>1, <3>2, <3>3
    <3>5. \A p \in Pids \ {pid} : /\ last'[p] = last[p] /\ round'[p] = round[p]
                                  /\ due'[p] = due[p] /\ missed'[p] = missed[p]
                                  /\ (p \in unread' <=> p \in unread)
      BY <1>1, <3>1
    <3> QED
      BY <3>4, <3>5 DEF ScanInv, NothingSkipped
  <2>2. CASE ~pidFull
    BY <1>6, <2>2, SkippedUnchanged DEF Move
  <2> QED
    BY <2>1, <2>2
<1>7. ASSUME NEW p \in Pids, NEW s \in SpacesOfBuild[p], Remap(p, s) PROVE NothingSkipped'
  <2>1. \A q \in Pids : due'[q] \subseteq due[q]
    BY <1>1, <1>7 DEF Remap
  <2> QED
    BY <1>7, <2>1, SkippedUnchanged DEF Remap
<1> QED
  BY <1>2, <1>3, <1>4, <1>5, <1>6, <1>7, <1>8, StepCases DEF Remaps

(***************************************************************************)
(* Full sweeps                                                             *)
(***************************************************************************)

LEMMA RestartUnchanged ==
  ASSUME ScanInv, pc # "idle", full' = full, everywhere' = everywhere,
         managed' = managed, left' = left, InProcess, InProcess', pid' = pid,
         \A p \in Pids \ {pid} : last'[p] = last[p]
  PROVE  RestartInv'
<1>1. managed \subseteq Pids
  BY TypeOfInv DEF PlaceType
<1> QED
  BY <1>1 DEF ScanInv, RestartInv

\* A process is done with, and a process that was not fully swept ends the
\* chance of a full sweep everywhere.
LEMMA RestartNextPid ==
  ASSUME ScanInv, NextPid, InProcess, left' = left, managed' = managed,
         everywhere' => /\ everywhere
                        /\ last'[pid] = 0
                        /\ \A p \in Pids \ {pid} : last'[p] = last[p]
  PROVE  RestartInv'
<1>1. managed \subseteq Pids
  BY TypeOfInv DEF PlaceType
<1>2. pc # "idle"
  BY DEF InProcess
<1>3. pc' # "idle" => full' = full
  BY Zenon DEF NextPid
<1>4. everywhere' => \A p \in managed \ left : last'[p] = 0
  BY <1>1, <1>2 DEF ScanInv, RestartInv
<1> QED
  BY <1>2, <1>3, <1>4 DEF ScanInv, RestartInv

LEMMA RestartStep ==
  ASSUME ScanInv, [HugeNext]_hugeVars
  PROVE  RestartInv'
<1>1. managed \subseteq Pids /\ last \in [Pids -> Nat] /\ pid \in Pids
  BY TypeOfInv DEF PlaceType
<1>2. CASE StartScan
  BY <1>2 DEF StartScan, RestartInv
<1>3. ASSUME NEW p \in Pids, OpenMaps(p) PROVE RestartInv'
  <2>1. /\ pc = "pid" /\ pc' = "vma" /\ left' = left \ {p} /\ pid' = p
        /\ full' = full /\ everywhere' = everywhere /\ managed' = managed /\ last' = last
    BY <1>3 DEF OpenMaps, resultVars
  <2>2. everywhere => \A q \in managed \ left : last[q] = 0
    BY <2>1 DEF ScanInv, RestartInv, InProcess
  <2>3. everywhere => \A q \in managed \ (left \ {p}) : last[q] = 0 \/ q = p
    BY <2>2
  <2> QED
    BY <2>1, <2>3 DEF ScanInv, RestartInv, InProcess
<1>4. CASE SkipVma \/ Enters \/ LeaveVma \/ ReadFails
  BY <1>4, RestartUnchanged
  DEF SkipVma, Enters, AtVma, EnterVma, LeaveVma, ReadFails, InProcess, resultVars
<1>5. ASSUME NEW same \in BOOLEAN, EndOfMaps(same) PROVE RestartInv'
  BY <1>5, RestartUnchanged DEF EndOfMaps, InProcess, resultVars
<1>6. ASSUME NEW cold \in 0 .. Chunk, NEW reached \in Nat, ReadChunk(cold, reached)
      PROVE  RestartInv'
  <2>1. /\ full' = full /\ everywhere' = everywhere /\ managed' = managed /\ left' = left
        /\ pid' = pid /\ pc = "range" /\ pc' \in {"move", "range"}
    BY <1>6, Zenon DEF ReadChunk, resultVars
  <2>2. \A p \in Pids \ {pid} : last'[p] = last[p]
    BY <1>1, <1>6 DEF ReadChunk
  <2> QED
    BY <2>1, <2>2, RestartUnchanged DEF InProcess
<1>7. CASE PagemapFails
  BY <1>7, RestartNextPid DEF PagemapFails, InProcess
<1>8. ASSUME NEW moved \in BOOLEAN, Move(moved) PROVE RestartInv'
  <2>1. /\ NextPid /\ pc = "move" /\ left' = left /\ managed' = managed
        /\ everywhere' = (everywhere /\ pidFull)
    BY <1>8, Zenon DEF Move
  <2>2. pidFull => last' = [last EXCEPT ![pid] = 0]
    BY <1>8 DEF Move, LastIfFull
  <2>3. pidFull => last'[pid] = 0 /\ \A p \in Pids \ {pid} : last'[p] = last[p]
    BY <1>1, <2>2
  <2> QED
    BY <2>1, <2>3, RestartNextPid DEF InProcess
<1>9. CASE Remaps \/ UNCHANGED vars
  BY <1>9 DEF Remaps, Remap, vars, resultVars, ScanInv, RestartInv, InProcess
<1> QED
  BY <1>2, <1>3, <1>4, <1>5, <1>6, <1>7, <1>8, <1>9, StepCases DEF Reads

\* The result of a scan: full means that no process is left and that all were
\* swept to their end.
LEMMA FullResult ==
  ASSUME ScanInv, NextPid, demoted' \in Nat, request' = request, pc' = "idle", full'
  PROVE  everywhere' /\ left = {}
<1>1. (demoted' >= request \/ left = {}) /\ full' = (demoted' < request /\ everywhere')
  BY Zenon DEF NextPid
<1>2. demoted' < request /\ everywhere'
  BY <1>1, Zenon
<1>3. request \in Nat
  BY TypeOfInv, ScanAssumption DEF CountType
<1>4. ~ (demoted' >= request)
  BY <1>2, <1>3
<1> QED
  BY <1>1, <1>2, <1>4, Zenon

LEMMA SweepsNextPid ==
  ASSUME ScanInv, [HugeNext]_hugeVars, NextPid, InProcess, left' = left,
         managed' = managed, request' = request, demoted' \in Nat,
         everywhere' => /\ everywhere
                        /\ last'[pid] = 0
                        /\ \A p \in Pids \ {pid} : last'[p] = last[p]
  PROVE  SweepsCover'
<1>1. managed \subseteq Pids /\ pc # "idle" /\ pc' # "move"
  BY TypeOfInv, Zenon DEF PlaceType, InProcess, NextPid
<1>2. ASSUME pc' = "idle", full', NEW p \in managed PROVE last'[p] = 0
  <2>1. everywhere' /\ left = {}
    BY <1>2, FullResult
  <2> QED
    BY <1>1, <1>2, <2>1 DEF ScanInv, RestartInv
<1> QED
  BY <1>1, <1>2 DEF SweepsCover

LEMMA SweepsStep ==
  ASSUME ScanInv, [HugeNext]_hugeVars
  PROVE  SweepsCover'
<1>1. /\ due \in [Pids -> SUBSET Nat] /\ last \in [Pids -> Nat] /\ pid \in Pids
      /\ maps \in Seq([start : Nat, end : Nat]) /\ line \in Nat
  BY TypeOfInv DEF HistoryType, PlaceType
<1>2. ASSUME pc' # "idle", pc' = "move" => ~pidFull' PROVE SweepsCover'
  BY <1>2 DEF SweepsCover
<1>3. CASE StartScan
  BY <1>2, <1>3 DEF StartScan
<1>4. ASSUME NEW p \in Pids, OpenMaps(p) PROVE SweepsCover'
  BY <1>2, <1>4 DEF OpenMaps
<1>5. CASE SkipVma \/ Enters \/ LeaveVma
  BY <1>2, <1>5 DEF SkipVma, Enters, AtVma, EnterVma, LeaveVma
<1>6. ASSUME NEW same \in BOOLEAN, EndOfMaps(same) PROVE SweepsCover'
  <2>1. /\ pc = "vma" /\ line > Len(maps) /\ pc' = "move" /\ pid' = pid
        /\ due' = due /\ round' = round /\ missed' = missed /\ unread' = unread
    BY <1>6 DEF EndOfMaps, roundVars
  <2>2. \A i \in DOMAIN maps : i < line
    BY <1>1, <2>1
  <2>3. pid \notin unread => \A page \in due[pid] \ missed[pid] : page \in round[pid]
    BY <2>1, <2>2, DuePage, BehindVma DEF InProcess
  <2> QED
    BY <2>1, <2>3 DEF SweepsCover
<1>7. CASE Reads \/ ReadFails
  <2>1. pc = "range" /\ pidFull' = pidFull /\ pc' # "idle"
    BY <1>7, Zenon DEF Reads, ReadChunk, ReadFails
  <2>2. ~pidFull
    BY <2>1 DEF ScanInv, CountInv
  <2> QED
    BY <1>2, <2>1, <2>2
<1>8. CASE PagemapFails
  <2>1. demoted' \in Nat /\ request' = request
    BY <1>8, TypeOfInv DEF PagemapFails, CountType
  <2> QED
    BY <1>8, <2>1, SweepsNextPid DEF PagemapFails, InProcess
<1>9. ASSUME NEW moved \in BOOLEAN, Move(moved) PROVE SweepsCover'
  <2>1. /\ NextPid /\ pc = "move" /\ left' = left /\ managed' = managed
        /\ request' = request /\ everywhere' = (everywhere /\ pidFull)
    BY <1>9, Zenon DEF Move
  <2>2. pidFull => last' = [last EXCEPT ![pid] = 0]
    BY <1>9 DEF Move, LastIfFull
  <2>3. pidFull => last'[pid] = 0 /\ \A p \in Pids \ {pid} : last'[p] = last[p]
    BY <1>1, <2>2
  <2>4. demoted' \in Nat
    BY CountsStep DEF Counts, CountType
  <2> QED
    BY <2>1, <2>3, <2>4, SweepsNextPid DEF InProcess
<1>10. ASSUME NEW p \in Pids, NEW s \in SpacesOfBuild[p], Remap(p, s) PROVE SweepsCover'
  <2>1. \A q \in Pids : due'[q] \subseteq due[q]
    BY <1>1, <1>10 DEF Remap
  <2> QED
    BY <1>1, <1>10, <2>1 DEF Remap, resultVars, ScanInv, SweepsCover
<1>11. CASE UNCHANGED vars
  BY <1>11 DEF vars, resultVars, roundVars, ScanInv, SweepsCover
<1> QED
  BY <1>3, <1>4, <1>5, <1>6, <1>7, <1>8, <1>9, <1>10, <1>11, StepCases DEF Remaps

(***************************************************************************)
(* The theorems                                                            *)
(***************************************************************************)

LEMMA ScanInit == HugeInit => ScanInv
<1> SUFFICES ASSUME HugeInit PROVE ScanInv
  OBVIOUS
<1>1. /\ Chunk \in Nat /\ MaxRequest \in Nat \ {0} /\ PageSize \in Nat \ {0} /\ Chunk >= 1
      /\ Pids # {} /\ 0 % PageSize = 0
  BY ScanAssumption, MultipleMod
<1>2. (CHOOSE p \in Pids : TRUE) \in Pids
  BY <1>1
<1>3. /\ huge \in BOOLEAN /\ \A p \in Pids : space[p] \in SpacesOfBuild[p]
      /\ due = [p \in Pids |-> PagesOf(space[p])] /\ last = [p \in Pids |-> 0]
      /\ round = [p \in Pids |-> {}] /\ missed = [p \in Pids |-> {}]
      /\ pc = "idle" /\ pid \in Pids /\ curr = 0 /\ maps = << >>
  BY <1>2 DEF HugeInit, InitWith
<1>4. \A p \in Pids : Ordered(space[p])
  BY <1>3, SpaceType
<1>5. space \in [Pids -> Seq([start : Nat, end : Nat])]
  <2>1. space \in [Pids -> UNION {SpacesOfBuild[p] : p \in Pids}]
    BY DEF HugeInit, InitWith
  <2> QED
    BY <1>4, <2>1 DEF Ordered
<1>6. HistoryType
  BY <1>3, <1>4, PagesOfType DEF HugeInit, InitWith, HistoryType
<1>7. PlaceType
  BY <1>1, <1>2, <1>5 DEF HugeInit, InitWith, PlaceType
<1>8. FlagType
  BY DEF HugeInit, InitWith, FlagType
<1>9. CountType /\ NoOvershoot
  BY <1>1 DEF HugeInit, InitWith, CountType, NoOvershoot
<1>10. CountInv
  BY DEF HugeInit, InitWith, CountInv, InProcess
<1>11. DueInv /\ GridInv /\ MissedInv /\ BehindInv /\ RestartInv
  BY <1>1, <1>3 DEF DueInv, GridInv, MissedInv, BehindInv, RestartInv, InProcess
<1>12. NothingSkipped
  <2>1. 0 \div PageSize = 0
    BY <1>1, DivUnique
  <2>2. \A p \in Pids : last[p] = 0 /\ due[p] \subseteq Nat
    BY <1>3, <1>4, PagesOfType
  <2> QED
    BY <2>1, <2>2 DEF NothingSkipped
<1>13. SweepsCover
  BY DEF HugeInit, InitWith, SweepsCover
<1> QED
  BY <1>6, <1>7, <1>8, <1>9, <1>10, <1>11, <1>12, <1>13, TypeParts DEF ScanInv

LEMMA ScanStep == ScanInv /\ [HugeNext]_hugeVars => ScanInv'
<1> SUFFICES ASSUME ScanInv, [HugeNext]_hugeVars PROVE ScanInv'
  OBVIOUS
<1>1. CountType' /\ CountInv' /\ NoOvershoot'
  BY CountsStep DEF Counts
<1>2. (TypeOK)'
  BY <1>1, FlagTypeStep, PlaceTypeStep, HistoryTypeStep, TypePartsNext
<1> QED
  BY <1>1, <1>2, DueStep, GridStep, MissedStep, BehindStep, RestartStep, SkippedStep, SweepsStep
  DEF ScanInv

\* The unsigned differences of the scan never wrap around: what is found in a
\* process stays below what is wanted of it as long as the walk goes on.
THEOREM ScanTypeCorrect == HugeSpec => []TypeOK
<1>1. ScanInv => TypeOK
  BY DEF ScanInv
<1> QED
  BY <1>1, ScanInit, ScanStep, PTL DEF HugeSpec

\* Whatever the processes map and unmap, and wherever a scan stops and the next
\* one resumes, no page that stays mapped is passed over unless a read fails or
\* it is the last page of a VMA that a scan resumed in, in that page or away from
\* the start of a page.
THEOREM SkippedCorrect == HugeSpec => []NothingSkipped
<1>1. ScanInv => NothingSkipped
  BY DEF ScanInv
<1> QED
  BY <1>1, ScanInit, ScanStep, PTL DEF HugeSpec

\* Of a process reported fully swept no page was left out but the last ones of
\* the VMAs its scans resumed in, and a scan that reports a full sweep is followed
\* by one from the start of every process, which leaves out none.
THEOREM SweepsCoverCorrect == HugeSpec => []SweepsCover
<1>1. ScanInv => SweepsCover
  BY DEF ScanInv
<1> QED
  BY <1>1, ScanInit, ScanStep, PTL DEF HugeSpec

\* As long as no read fails, a scan demotes less than a chunk more than was
\* requested, over all its processes together.
THEOREM OvershootCorrect == HugeSpec => []NoOvershoot
<1>1. ScanInv => NoOvershoot
  BY DEF ScanInv
<1> QED
  BY <1>1, ScanInit, ScanStep, PTL DEF HugeSpec
=============================================================================
