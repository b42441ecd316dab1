---------------------------- MODULE ControlProofs ----------------------------
(***************************************************************************)
(* Proofs about the control state of both builds, for any thresholds,      *)
(* limits and windows: the counts that outlive a mode keep their bounds,   *)
(* and monitor mode is entered and left for what was seen just before.     *)
(***************************************************************************)
EXTENDS HugeControl, DataLemmas

(***************************************************************************)
(* The inductive invariant                                                 *)
(***************************************************************************)

\* The exit is recorded as long as the events are closed, and nothing moves the
\* threshold then.
ExitInv ==
  /\ exit = "none" <=> pc \in {"batch", "scan", "plateau"}
  /\ exit = "minimum" => hot = HotMin

\* 100001 halved, as often as the floor of the build allows.
FreqInv == localFreq \in {100001, 50000, 25000} \cup (IF huge THEN {12500} ELSE {})

\* The flag of a full sweep stands for the last scan.
SweepInv == sweptOnce => Len(scans) > 0 /\ scans[Len(scans)] = TRUE

\* The window holds ratios that were read in this monitor mode.
WindowInv == window <= readings

\* The last p values of s are v.
RunAtEnd(s, p, v) == \A k \in DOMAIN s : k > Len(s) - p => s[k] = v

\* The counter of a monitor mode counts the looks it ends with.
PlentyInv ==
  pc \in {"monitor", "memory"} =>
    /\ plenty <= FreeLimit
    /\ plenty <= Len(looks)
    /\ RunAtEnd(looks, plenty, TRUE)

IInv ==
  /\ HugeTypeOK
  /\ ExitInv
  /\ FreqInv
  /\ SweepInv
  /\ TwoSweepsInARow
  /\ WindowInv
  /\ PlentyInv

-----------------------------------------------------------------------------
(***************************************************************************)
(* The window of a history                                                 *)
(***************************************************************************)

\* One more value in a history of at most n: it stays at most n long, its last
\* value is the new one and the others have moved towards the front.
LEMMA LastNAppend ==
  ASSUME NEW S, NEW s \in Seq(S), NEW e \in S, NEW n \in Nat \ {0}, Len(s) <= n
  PROVE  /\ LastN(Append(s, e), n) \in Seq(S)
         /\ Len(LastN(Append(s, e), n)) = IF Len(s) < n THEN Len(s) + 1 ELSE n
         /\ LastN(Append(s, e), n)[Len(LastN(Append(s, e), n))] = e
         /\ \A k \in 1 .. Len(LastN(Append(s, e), n)) - 1 :
              LastN(Append(s, e), n)[k] = s[IF Len(s) < n THEN k ELSE k + 1]
<1> DEFINE a == Append(s, e)
<1>1. /\ a \in Seq(S) /\ Len(a) = Len(s) + 1 /\ a[Len(a)] = e
      /\ \A k \in 1 .. Len(s) : a[k] = s[k]
  OBVIOUS
<1>2. CASE Len(s) < n
  BY <1>1, <1>2 DEF LastN
<1>3. CASE Len(s) = n
  <2>1. LastN(a, n) = Tail(a)
    BY <1>1, <1>3 DEF LastN
  <2>2. /\ Tail(a) \in Seq(S) /\ Len(Tail(a)) = n
        /\ \A k \in 1 .. n : Tail(a)[k] = a[k + 1]
    BY <1>1, <1>3
  <2> QED
    BY <1>1, <1>3, <2>1, <2>2
<1> QED
  BY <1>2, <1>3

LEMMA LastTwoAppend ==
  ASSUME NEW S, NEW s \in Seq(S), NEW e \in S, Len(s) <= 2
  PROVE  /\ LastN(Append(s, e), 2) \in Seq(S)
         /\ Len(LastN(Append(s, e), 2)) \in 1 .. 2
         /\ LastN(Append(s, e), 2)[Len(LastN(Append(s, e), 2))] = e
         /\ Len(s) > 0 => /\ Len(LastN(Append(s, e), 2)) = 2
                          /\ LastN(Append(s, e), 2)[1] = s[Len(s)]
<1> DEFINE a == Append(s, e)
<1>1. /\ a \in Seq(S) /\ Len(a) = Len(s) + 1 /\ a[Len(a)] = e
      /\ \A k \in 1 .. Len(s) : a[k] = s[k]
  OBVIOUS
<1>2. CASE Len(s) < 2
  <2>1. LastN(a, 2) = a
    BY <1>1, <1>2 DEF LastN
  <2> HIDE DEF a
  <2>2. Len(a) \in 1 .. 2 /\ (Len(s) > 0 => Len(a) = 2 /\ a[1] = s[Len(s)])
    BY <1>1, <1>2
  <2> QED
    BY <1>1, <2>1, <2>2 DEF a
<1>3. CASE Len(s) = 2
  <2>1. LastN(a, 2) = Tail(a)
    BY <1>1, <1>3 DEF LastN
  <2>2. /\ Tail(a) \in Seq(S) /\ Len(Tail(a)) = 2
        /\ Tail(a)[1] = a[2] /\ Tail(a)[2] = a[3]
    BY <1>1, <1>3
  <2> QED
    BY <1>1, <1>3, <2>1, <2>2
<1>4. Len(s) \in Nat
  OBVIOUS
<1>5. Len(s) < 2 \/ Len(s) = 2
  BY <1>4
<1> QED
  BY <1>2, <1>3, <1>5, Zenon

LEMMA LastNBounded ==
  ASSUME NEW S, NEW s \in Seq(S), NEW e \in S, NEW n \in Nat \ {0}, Len(s) <= n
  PROVE  LastN(Append(s, e), n) \in Seq(S) /\ Len(LastN(Append(s, e), n)) <= n
<1>1. Len(LastN(Append(s, e), n)) = IF Len(s) < n THEN Len(s) + 1 ELSE n
  BY LastNAppend
<1>2. LastN(Append(s, e), n) \in Seq(S)
  BY LastNAppend
<1> QED
  BY <1>1, <1>2

\* A run of p values at the end of a history grows by one more of them.
LEMMA RunCounted ==
  ASSUME NEW S, NEW s \in Seq(S), NEW e \in S, NEW n \in Nat \ {0}, Len(s) <= n,
         NEW p \in Nat, p <= Len(s), p < n, RunAtEnd(s, p, e)
  PROVE  /\ p + 1 <= Len(LastN(Append(s, e), n))
         /\ RunAtEnd(LastN(Append(s, e), n), p + 1, e)
<1>1. CASE Len(s) < n
  <2>1. LastN(Append(s, e), n) = Append(s, e)
    BY <1>1 DEF LastN
  <2>2. RunAtEnd(Append(s, e), p + 1, e)
    BY <1>1 DEF RunAtEnd
  <2> QED
    BY <2>1, <2>2
<1>2. CASE Len(s) = n
  <2> DEFINE r == Tail(Append(s, e))
  <2>1. LastN(Append(s, e), n) = r
    BY <1>2 DEF LastN
  <2>2. Len(r) = n /\ \A k \in 1 .. n : r[k] = Append(s, e)[k + 1]
    BY <1>2
  <2>3. Len(r) = n /\ DOMAIN r = 1 .. n /\ r[n] = e
        /\ \A k \in 1 .. n : k # n => r[k] = s[k + 1]
    BY <1>2, <2>2
  <2> HIDE DEF r
  <2>4. RunAtEnd(r, p + 1, e)
    BY <1>2, <2>3 DEF RunAtEnd
  <2> QED
    BY <2>1, <2>3, <2>4
<1>3. Len(s) \in Nat
  OBVIOUS
<1>4. Len(s) < n \/ Len(s) = n
  BY <1>3
<1> QED
  BY <1>1, <1>2, <1>4, Zenon

LEMMA PairOf ==
  ASSUME NEW S, NEW s \in Seq(S), Len(s) = 2
  PROVE  s = <<s[1], s[2]>>
OBVIOUS

-----------------------------------------------------------------------------
(***************************************************************************)
(* The sum of a history                                                    *)
(*                                                                         *)
(* What the last values add up to, as the history grows and loses its      *)
(* oldest one.                                                             *)
(***************************************************************************)

\* The last q values of s add up to m at most.
LastAtMost(s, q, m) ==
  \E f : PartialSums(f, s) /\ f[Len(s)] <= f[Len(s) - q] + m

LEMMA NoneAtMost ==
  ASSUME NEW s \in Seq(Nat), NEW m \in Nat
  PROVE  LastAtMost(s, 0, m)
<1>1. PICK f : PartialSums(f, s)
  BY FoldPartial
<1>2. Len(s) \in 0 .. Len(s) /\ Len(s) - 0 = Len(s)
  OBVIOUS
<1>3. f[Len(s)] \in Nat
  BY <1>1, <1>2 DEF PartialSums
<1>4. f[Len(s)] <= f[Len(s) - 0] + m
  BY <1>2, <1>3
<1> QED
  BY <1>1, <1>4 DEF LastAtMost

\* Fewer of the last values add up to less.
LEMMA FewerAtMost ==
  ASSUME NEW s \in Seq(Nat), NEW q \in Nat, NEW m \in Nat, q + 1 <= Len(s),
         LastAtMost(s, q + 1, m)
  PROVE  LastAtMost(s, q, m)
<1>1. PICK f : PartialSums(f, s) /\ f[Len(s)] <= f[Len(s) - (q + 1)] + m
  BY DEF LastAtMost
<1> DEFINE k == Len(s) - q
<1>2. /\ k \in 1 .. Len(s) /\ k - 1 \in 0 .. Len(s) /\ k - 1 = Len(s) - (q + 1)
      /\ k \in 0 .. Len(s) /\ Len(s) \in 0 .. Len(s) /\ s[k] \in Nat
  OBVIOUS
<1>3. k = Len(s) - q
  OBVIOUS
<1> HIDE DEF k
<1>4. f[k] = f[k - 1] + s[k] /\ f[k] \in Nat /\ f[k - 1] \in Nat /\ f[Len(s)] \in Nat
  BY <1>1, <1>2 DEF PartialSums
<1>5. f[Len(s)] <= f[k] + m
  <2>1. f[k - 1] = f[Len(s) - (q + 1)]
    BY <1>2, Zenon
  <2>2. f[Len(s)] <= f[k - 1] + m
    BY <1>1, <2>1, Zenon
  <2>3. f[k - 1] <= f[k]
    BY <1>2, <1>4
  <2>4. \A x, y, z \in Nat : x <= y + m /\ y <= z => x <= z + m
    OBVIOUS
  <2> QED
    BY <1>4, <2>2, <2>3, <2>4, Zenon
<1> QED
  BY <1>1, <1>3, <1>5 DEF LastAtMost

\* One more value at the end, and all of them counted.
LEMMA AppendAtMost ==
  ASSUME NEW s \in Seq(Nat), NEW e \in Nat, NEW q \in Nat, NEW m \in Nat, q <= Len(s),
         LastAtMost(s, q, m)
  PROVE  LastAtMost(Append(s, e), q + 1, m + e)
<1> DEFINE a == Append(s, e)
<1>1. PICK f : PartialSums(f, s) /\ f[Len(s)] <= f[Len(s) - q] + m
  BY DEF LastAtMost
<1>2. /\ a \in Seq(Nat) /\ Len(a) = Len(s) + 1 /\ a[Len(a)] = e
      /\ \A k \in 1 .. Len(s) : s[k] = a[k + 0]
  OBVIOUS
<1> HIDE DEF a
<1>3. PICK h : PartialSums(h, a)
  BY <1>2, FoldPartial
<1>4. /\ Len(s) \in Nat /\ Len(s) - q \in Nat /\ Len(s) \in 0 .. Len(s)
      /\ Len(s) - q \in 0 .. Len(s) /\ Len(a) - (q + 1) = Len(s) - q
      /\ Len(a) \in 1 .. Len(a) /\ Len(a) - 1 = Len(s) /\ 0 \in 0 .. Len(a)
      /\ Len(s) \in 0 .. Len(a)
  BY <1>2
<1>5. Shifted(a, s, 0, Len(s)) /\ Shifted(a, s, 0, Len(s) - q)
  BY <1>2, <1>4 DEF Shifted
<1>6. h[Len(s) + 0] = f[Len(s)] + h[0] /\ h[(Len(s) - q) + 0] = f[Len(s) - q] + h[0]
  BY <1>1, <1>2, <1>3, <1>4, <1>5, PartialShift
<1>7. h[0] = 0 /\ f[Len(s)] \in Nat /\ f[Len(s) - q] \in Nat
      /\ h[Len(a)] = h[Len(a) - 1] + a[Len(a)]
  BY <1>1, <1>3, <1>4 DEF PartialSums
<1>8. h[Len(s)] = f[Len(s)] /\ h[Len(s) - q] = f[Len(s) - q]
  BY <1>4, <1>6, <1>7
<1>9. h[Len(a)] = f[Len(s)] + e
  BY <1>2, <1>4, <1>7, <1>8
<1>10. h[Len(a)] <= h[Len(a) - (q + 1)] + (m + e)
  <2>1. h[Len(a) - (q + 1)] = f[Len(s) - q]
    BY <1>4, <1>8, Zenon
  <2>2. f[Len(s)] + e <= f[Len(s) - q] + (m + e)
    BY <1>1, <1>7
  <2> QED
    BY <1>9, <2>1, <2>2, Zenon
<1>11. LastAtMost(a, q + 1, m + e)
  BY <1>3, <1>10 DEF LastAtMost
<1> QED
  BY <1>11 DEF a

\* The first value is not among the counted ones.
LEMMA TailAtMost ==
  ASSUME NEW s \in Seq(Nat), NEW q \in Nat, NEW m \in Nat, q < Len(s),
         LastAtMost(s, q, m)
  PROVE  LastAtMost(Tail(s), q, m)
<1> DEFINE t == Tail(s)
<1>1. PICK f : PartialSums(f, s) /\ f[Len(s)] <= f[Len(s) - q] + m
  BY DEF LastAtMost
<1>2. /\ t \in Seq(Nat) /\ Len(t) = Len(s) - 1
      /\ \A k \in 1 .. Len(t) : t[k] = s[k + 1]
  OBVIOUS
<1> HIDE DEF t
<1>3. PICK h : PartialSums(h, t)
  BY <1>2, FoldPartial
<1>4. /\ Len(s) \in Nat /\ Len(t) \in Nat /\ Len(t) - q \in Nat /\ 1 \in Nat
      /\ Len(t) + 1 = Len(s) /\ (Len(t) - q) + 1 = Len(s) - q
      /\ 1 \in 0 .. Len(s) /\ Len(t) \in 0 .. Len(t) /\ Len(t) - q \in 0 .. Len(t)
  BY <1>2
<1>5. Shifted(s, t, 1, Len(t)) /\ Shifted(s, t, 1, Len(t) - q)
  BY <1>2, <1>4 DEF Shifted
<1>6. f[Len(t) + 1] = h[Len(t)] + f[1] /\ f[(Len(t) - q) + 1] = h[Len(t) - q] + f[1]
  <2>1. f[Len(t) + 1] = h[Len(t)] + f[1]
    BY <1>1, <1>2, <1>3, <1>4, <1>5, PartialShift
  <2> DEFINE n == Len(t) - q
  <2>2. n \in Nat /\ Shifted(s, t, 1, n)
    BY <1>4, <1>5
  <2> HIDE DEF n
  <2>3. f[n + 1] = h[n] + f[1]
    BY <1>1, <1>2, <1>3, <1>4, <2>2, PartialShift
  <2> QED
    BY <2>1, <2>3 DEF n
<1>7. f[1] \in Nat /\ h[Len(t)] \in Nat /\ h[Len(t) - q] \in Nat
  BY <1>1, <1>3, <1>4 DEF PartialSums
<1>8. h[Len(t)] <= h[Len(t) - q] + m
  <2>1. f[Len(s)] = h[Len(t)] + f[1] /\ f[Len(s) - q] = h[Len(t) - q] + f[1]
    BY <1>4, <1>6, Zenon
  <2>2. h[Len(t)] + f[1] <= (h[Len(t) - q] + f[1]) + m
    BY <1>1, <2>1, Zenon
  <2> QED
    BY <1>7, <2>2
<1>9. LastAtMost(t, q, m)
  BY <1>3, <1>8 DEF LastAtMost
<1> QED
  BY <1>9 DEF t

\* All the values: their sum.
LEMMA WholeAtMost ==
  ASSUME NEW s \in Seq(Nat), NEW m \in Nat, LastAtMost(s, Len(s), m)
  PROVE  FoldLeft(+, 0, s) <= m
<1>1. PICK f : PartialSums(f, s) /\ f[Len(s)] <= f[Len(s) - Len(s)] + m
  BY DEF LastAtMost
<1>2. PICK h : PartialSums(h, s) /\ FoldLeft(+, 0, s) = h[Len(s)]
  BY FoldPartial
<1>3. Len(s) - Len(s) = 0
  OBVIOUS
<1>4. f[0] = 0
  BY <1>1 DEF PartialSums
<1>5. f[Len(s)] = h[Len(s)]
  BY <1>1, <1>2, PartialSame
<1>6. f[Len(s)] <= 0 + m
  BY <1>1, <1>3, <1>4, Zenon
<1>7. 0 + m = m
  OBVIOUS
<1> QED
  BY <1>2, <1>5, <1>6, <1>7, Zenon

\* The window of a history takes one more value, all of the last ones counted.
LEMMA WindowAtMost ==
  ASSUME NEW s \in Seq(Nat), NEW e \in Nat, NEW n \in Nat \ {0}, Len(s) <= n,
         NEW q \in Nat, q < n, q <= Len(s), NEW m \in Nat, LastAtMost(s, q, m)
  PROVE  LastAtMost(LastN(Append(s, e), n), q + 1, m + e)
<1> DEFINE a == Append(s, e)
<1>1. LastAtMost(a, q + 1, m + e)
  BY AppendAtMost
<1>2. a \in Seq(Nat) /\ Len(a) = Len(s) + 1 /\ Len(s) \in Nat
  OBVIOUS
<1> HIDE DEF a
<1>3. CASE Len(s) < n
  <2>1. LastN(a, n) = a
    BY <1>2, <1>3 DEF LastN
  <2> QED
    BY <1>1, <2>1 DEF a
<1>4. CASE Len(s) = n
  <2>1. LastN(a, n) = Tail(a)
    BY <1>2, <1>4 DEF LastN
  <2>2. q + 1 \in Nat /\ m + e \in Nat /\ q + 1 < Len(a)
    BY <1>2, <1>4
  <2>3. LastAtMost(Tail(a), q + 1, m + e)
    BY <1>1, <1>2, <2>2, TailAtMost
  <2> QED
    BY <2>1, <2>3 DEF a
<1>5. Len(s) < n \/ Len(s) = n
  BY <1>2
<1> QED
  BY <1>3, <1>4, <1>5, Zenon

-----------------------------------------------------------------------------
(***************************************************************************)
(* What the parameters of NextWith are                                     *)
(***************************************************************************)

\* The threshold a monitor mode ends with is within its bounds.
LEMMA HotOnWakeRange ==
  ASSUME IInv
  PROVE  HotOnWake \in HotMin .. HotInit
<1> USE ControlAssumption, HugeControlAssumption
<1>1. hot \in HotMin .. HotInit /\ (exit = "minimum" => hot = HotMin)
  BY DEF IInv, HugeTypeOK, TypeOK, ExitInv
<1> QED
  BY <1>1 DEF HotOnWake, HugeHotOnWake

\* The looks and their count survive only inside a monitor mode.
LEMMA PlentyOfCallInv ==
  ASSUME IInv, PlentyOfCall
  PROVE  /\ PlentyInv'
         /\ plenty' \in 0 .. FreeLimit + 1
         /\ looks' \in Seq(BOOLEAN) /\ Len(looks') <= FreeLimit + 1
<1> USE ControlAssumption, HugeControlAssumption
<1>1. /\ plenty \in 0 .. FreeLimit + 1
      /\ looks \in Seq(BOOLEAN) /\ Len(looks) <= FreeLimit + 1
      /\ PlentyInv
  BY DEF IInv, HugeTypeOK
<1>2. CASE (pc = "monitor") = (pc' \in {"monitor", "memory"})
  BY <1>1, <1>2 DEF PlentyOfCall, PlentyInv
<1>3. CASE (pc = "monitor") # (pc' \in {"monitor", "memory"})
  <2>1. plenty' = 0 /\ looks' = << >>
    BY <1>3 DEF PlentyOfCall
  <2>2. RunAtEnd(looks', plenty', TRUE)
    BY <2>1 DEF RunAtEnd
  <2>3. /\ plenty' <= FreeLimit /\ plenty' <= Len(looks')
        /\ plenty' \in 0 .. FreeLimit + 1
        /\ looks' \in Seq(BOOLEAN) /\ Len(looks') <= FreeLimit + 1
    BY <2>1
  <2> QED
    BY <2>2, <2>3, Zenon DEF PlentyInv
<1> QED
  BY <1>2, <1>3

-----------------------------------------------------------------------------
(***************************************************************************)
(* The invariant is inductive                                              *)
(***************************************************************************)

\* TypeOK in five parts, which the steps disturb one at a time.
FlagOK == inCgroup \in BOOLEAN /\ sweptOnce \in BOOLEAN /\ drop \in BOOLEAN

ModeOK ==
  /\ pc \in {"batch", "scan", "plateau", "monitor", "memory"}
  /\ window \in 0 .. WindowSize
  /\ exit \in Exits
  /\ readings \in 0 .. WindowSize + 1

CountOK ==
  /\ hot \in HotMin .. HotInit
  /\ resets \in 0 .. ResetLimit
  /\ resets = ResetLimit => exit = "resets"
  /\ batches \in 0 .. Warmup + Period
  /\ promoted \in 0 .. PlateauMax + 1

RateOK ==
  /\ localFreq \in 1 .. HighFreq
  /\ opened \in {Effective(localFreq), Effective(HighFreq)}

HistoryOK ==
  /\ recent \in Seq(0 .. PlateauMax + 1) /\ Len(recent) <= Period
  /\ scans \in Seq(BOOLEAN) /\ Len(scans) <= 2

\* Everything of the invariant that is not about the looks.
CoreInv ==
  /\ FlagOK /\ ModeOK /\ CountOK /\ RateOK /\ HistoryOK
  /\ pc = "memory" => huge /\ ~inCgroup
  /\ ExitInv
  /\ FreqInv
  /\ SweepInv
  /\ TwoSweepsInARow
  /\ WindowInv

LEMMA TypeParts == TypeOK <=> FlagOK /\ ModeOK /\ CountOK /\ RateOK /\ HistoryOK
BY DEF TypeOK, FlagOK, ModeOK, CountOK, RateOK, HistoryOK

LEMMA TypePartsNext ==
  TypeOK' <=> FlagOK' /\ ModeOK' /\ CountOK' /\ RateOK' /\ HistoryOK'
BY DEF TypeOK, FlagOK, ModeOK, CountOK, RateOK, HistoryOK

LEMMA InitInv ==
  ASSUME HugeInit
  PROVE  IInv
<1> USE ControlAssumption, HugeControlAssumption
<1>1. FlagOK
  BY Zenon DEF HugeInit, Init, FlagOK
<1>2. ModeOK
  BY DEF HugeInit, Init, ModeOK, Exits
<1>3. CountOK
  BY DEF HugeInit, Init, CountOK
<1>4. RateOK
  BY DEF HugeInit, Init, RateOK, HighFreq
<1>5. HistoryOK
  BY DEF HugeInit, Init, HistoryOK
<1>6. huge \in BOOLEAN /\ (pc = "memory" => huge /\ ~inCgroup)
  BY DEF HugeInit, Init
<1>7. /\ localFreq >= (IF huge THEN 12500 ELSE 20000)
      /\ plenty \in 0 .. FreeLimit + 1
      /\ looks \in Seq(BOOLEAN) /\ Len(looks) <= FreeLimit + 1
  BY DEF HugeInit, Init, HighFreq
<1>8. ExitInv /\ FreqInv /\ SweepInv
  BY DEF HugeInit, Init, ExitInv, FreqInv, SweepInv, HighFreq
<1>9. TwoSweepsInARow /\ WindowInv /\ PlentyInv
  BY DEF HugeInit, Init, TwoSweepsInARow, WindowInv, PlentyInv
<1> QED
  BY <1>1, <1>2, <1>3, <1>4, <1>5, <1>6, <1>7, <1>8, <1>9, TypeParts DEF IInv, HugeTypeOK

LEMMA CoreOfInv ==
  ASSUME IInv
  PROVE  /\ FlagOK /\ ModeOK /\ CountOK /\ RateOK /\ HistoryOK
         /\ ExitInv /\ FreqInv /\ SweepInv /\ TwoSweepsInARow /\ WindowInv
BY TypeParts DEF IInv, HugeTypeOK

\* Promotion, demotion and the plateaus.
LEMMA BatchInv ==
  ASSUME IInv, Batch, UNCHANGED <<inCgroup, huge>>
  PROVE  CoreInv'
<1> USE ControlAssumption
<1>1. PICK n \in 0 .. PlateauMax + 1 :
        /\ promoted' = AtMost(promoted + n, PlateauMax + 1)
        /\ recent' = LastN(Append(recent, n), Period)
  BY DEF Batch
<1>2. /\ pc = "batch" /\ pc' = "scan" /\ drop' \in {drop, TRUE}
      /\ UNCHANGED <<hot, sweptOnce, resets, scans, batches, localFreq, opened, window,
                     exit, readings>>
  BY DEF Batch, sweepVars
<1>3. FlagOK'
  BY <1>2, CoreOfInv DEF FlagOK
<1>4. HistoryOK'
  <2>1. recent \in Seq(0 .. PlateauMax + 1) /\ Len(recent) <= Period
    BY CoreOfInv DEF HistoryOK
  <2>2. recent' \in Seq(0 .. PlateauMax + 1) /\ Len(recent') <= Period
    BY <1>1, <2>1, LastNBounded
  <2> QED
    BY <1>2, <2>2, CoreOfInv DEF HistoryOK
<1>5. CountOK'
  BY <1>1, <1>2, CoreOfInv DEF AtMost, CountOK
<1>6. ModeOK' /\ RateOK'
  BY <1>2, CoreOfInv DEF ModeOK, RateOK, Effective
<1>7. ExitInv' /\ FreqInv' /\ WindowInv'
  BY <1>2, CoreOfInv DEF ExitInv, FreqInv, WindowInv
<1>8. SweepInv' /\ TwoSweepsInARow'
  BY <1>2, CoreOfInv DEF SweepInv, TwoSweepsInARow
<1> QED
  BY <1>2, <1>3, <1>4, <1>5, <1>6, <1>7, <1>8 DEF CoreInv

\* A scan is the last of the scans.
LEMMA ScanAppended ==
  ASSUME IInv, NEW full \in BOOLEAN, Scan(full)
  PROVE  /\ scans' \in Seq(BOOLEAN)
         /\ Len(scans') \in 1 .. 2
         /\ scans'[Len(scans')] = full
         /\ Len(scans) > 0 => Len(scans') = 2 /\ scans'[1] = scans[Len(scans)]
<1>1. scans \in Seq(BOOLEAN) /\ Len(scans) <= 2
  BY CoreOfInv DEF HistoryOK
<1>2. scans' = LastN(Append(scans, full), 2)
  BY DEF Scan
<1>3. /\ LastN(Append(scans, full), 2) \in Seq(BOOLEAN)
      /\ Len(LastN(Append(scans, full), 2)) \in 1 .. 2
      /\ LastN(Append(scans, full), 2)[Len(LastN(Append(scans, full), 2))] = full
      /\ Len(scans) > 0 =>
           /\ Len(LastN(Append(scans, full), 2)) = 2
           /\ LastN(Append(scans, full), 2)[1] = scans[Len(scans)]
  BY <1>1, LastTwoAppend
<1> QED
  BY <1>2, <1>3, Zenon

\* What a scan leaves alone, and what it appends.
LEMMA ScanKeeps ==
  ASSUME IInv, NEW full \in BOOLEAN, Scan(full), UNCHANGED <<inCgroup, huge>>,
         sweptOnce' \in BOOLEAN, sweptOnce' => full = TRUE,
         ModeOK', CountOK', ExitInv', WindowInv', TwoSweepsInARow',
         pc' # "memory"
  PROVE  CoreInv'
<1>1. UNCHANGED <<hot, batches, promoted, localFreq, opened, drop, recent>>
  BY DEF Scan, rateVars
<1>2. FlagOK'
  BY <1>1, CoreOfInv DEF FlagOK
<1>3. RateOK' /\ FreqInv'
  BY <1>1, CoreOfInv DEF RateOK, Effective, FreqInv
<1>4. HistoryOK'
  <2>1. Len(scans') <= 2
    BY ScanAppended
  <2> QED
    BY <1>1, <2>1, ScanAppended, CoreOfInv, Zenon DEF HistoryOK
<1>5. SweepInv'
  <2>1. Len(scans') > 0
    BY ScanAppended
  <2> QED
    BY <2>1, ScanAppended, Zenon DEF SweepInv
<1> QED
  BY <1>2, <1>3, <1>4, <1>5 DEF CoreInv

LEMMA SecondFullSweepInv ==
  ASSUME IInv, SecondFullSweep, UNCHANGED <<inCgroup, huge>>
  PROVE  CoreInv'
<1> USE ControlAssumption
<1>1. Scan(TRUE) /\ UNCHANGED sweptOnce
  BY DEF SecondFullSweep
<1>2. scans' = <<TRUE, TRUE>>
  <2>1. Len(scans) > 0 /\ scans[Len(scans)] = TRUE
    BY CoreOfInv, Zenon DEF SecondFullSweep, SweepInv
  <2>2. /\ scans' \in Seq(BOOLEAN)
        /\ Len(scans') = 2 /\ scans'[1] = TRUE /\ scans'[Len(scans')] = TRUE
    BY <1>1, <2>1, ScanAppended, Zenon
  <2>3. scans' = <<scans'[1], scans'[2]>>
    BY <2>2, PairOf, Zenon
  <2> QED
    BY <2>2, <2>3, Zenon
<1>3. /\ pc' = "monitor" /\ exit' = "sweeps" /\ window' = 0 /\ readings' = 0
      /\ resets' = 0 /\ UNCHANGED <<hot, batches, promoted>>
  BY <1>1 DEF SecondFullSweep, EnterMonitor, Scan
<1>4. ModeOK' /\ CountOK' /\ ExitInv' /\ WindowInv'
  BY <1>3, CoreOfInv DEF ModeOK, CountOK, ExitInv, WindowInv, Exits
<1>5. TwoSweepsInARow'
  BY <1>2 DEF TwoSweepsInARow
<1>6. sweptOnce' \in BOOLEAN
  BY <1>1, CoreOfInv DEF FlagOK
<1> QED
  BY <1>1, <1>3, <1>4, <1>5, <1>6, ScanKeeps, Zenon

LEMMA FirstFullSweepInv ==
  ASSUME IInv, FirstFullSweep, UNCHANGED <<inCgroup, huge>>
  PROVE  CoreInv'
<1> USE ControlAssumption
<1>1. /\ pc = "scan" /\ Scan(TRUE) /\ sweptOnce' = TRUE /\ pc' = "plateau"
      /\ UNCHANGED <<hot, batches, promoted, resets, window, exit, readings>>
  BY DEF FirstFullSweep, GoOn, Scan
<1>2. exit = "none"
  BY <1>1, CoreOfInv DEF ExitInv
<1>3. ModeOK' /\ CountOK' /\ ExitInv' /\ WindowInv'
  BY <1>1, <1>2, CoreOfInv DEF ModeOK, CountOK, ExitInv, WindowInv
<1>4. TwoSweepsInARow'
  BY <1>1, <1>2 DEF TwoSweepsInARow
<1> QED
  BY <1>1, <1>3, <1>4, ScanKeeps, Zenon

LEMMA ProductiveScanInv ==
  ASSUME IInv, ProductiveScan, UNCHANGED <<inCgroup, huge>>
  PROVE  CoreInv'
<1> USE ControlAssumption
<1>1. /\ pc = "scan" /\ Scan(FALSE) /\ sweptOnce' = FALSE
      /\ UNCHANGED <<hot, batches, promoted>>
  BY DEF ProductiveScan, SweptAfterProductive, Scan
<1>2. exit = "none"
  BY <1>1, CoreOfInv DEF ExitInv
\* The count is below its limit before the scan: it meets it only in monitor mode.
<1>3. resets \in 0 .. ResetLimit - 1
  BY <1>2, CoreOfInv DEF CountOK
<1>4. resets' \in 0 .. ResetLimit
  BY <1>3 DEF ProductiveScan
<1>5. CASE resets' = ResetLimit /\ sweptOnce
  <2>1. pc' = "monitor" /\ exit' = "resets" /\ window' = 0 /\ readings' = 0
    BY <1>5 DEF ProductiveScan, EnterMonitor
  <2>2. ModeOK' /\ CountOK' /\ ExitInv' /\ WindowInv' /\ TwoSweepsInARow'
    BY <1>1, <1>4, <2>1, CoreOfInv
       DEF ModeOK, CountOK, ExitInv, WindowInv, TwoSweepsInARow, Exits
  <2> QED
    BY <1>1, <2>1, <2>2, ScanKeeps, Zenon
<1>6. CASE ~(resets' = ResetLimit /\ sweptOnce)
  <2>1. pc' = "plateau" /\ UNCHANGED <<window, exit, readings>>
    BY <1>6 DEF ProductiveScan, GoOn
  <2>2. resets' # ResetLimit
    BY <1>3, <1>6 DEF ProductiveScan
  <2>3. ModeOK' /\ CountOK' /\ ExitInv' /\ WindowInv' /\ TwoSweepsInARow'
    BY <1>1, <1>2, <1>4, <2>1, <2>2, CoreOfInv
       DEF ModeOK, CountOK, ExitInv, WindowInv, TwoSweepsInARow
  <2> QED
    BY <1>1, <2>1, <2>3, ScanKeeps, Zenon
<1> QED
  BY <1>5, <1>6

LEMMA NoScanInv ==
  ASSUME IInv, NoScan, UNCHANGED <<inCgroup, huge>>
  PROVE  CoreInv'
<1>1. /\ pc = "scan" /\ pc' = "plateau"
      /\ UNCHANGED <<hot, sweptOnce, resets, scans, batches, promoted, localFreq, opened,
                     drop, window, exit, recent, readings>>
  BY DEF NoScan, GoOn, rateVars, sweepVars
<1>2. FlagOK' /\ HistoryOK' /\ SweepInv' /\ TwoSweepsInARow'
  BY <1>1, CoreOfInv, Zenon DEF FlagOK, HistoryOK, SweepInv, TwoSweepsInARow
<1>3. ModeOK' /\ CountOK' /\ RateOK'
  BY <1>1, CoreOfInv DEF ModeOK, CountOK, RateOK, Effective
<1>4. ExitInv' /\ FreqInv' /\ WindowInv'
  BY <1>1, CoreOfInv DEF ExitInv, FreqInv, WindowInv
<1> QED
  BY <1>1, <1>2, <1>3, <1>4 DEF CoreInv

LEMMA PlateauInv ==
  ASSUME IInv, NoPlateau \/ LowerHotThresh \/ EndAtMinimum \/ EndOnPlateau,
         UNCHANGED <<inCgroup, huge>>
  PROVE  CoreInv'
<1> USE ControlAssumption
<1>1. CountBatch
  BY DEF NoPlateau, LowerHotThresh, EndAtMinimum, EndOnPlateau
<1>2. /\ pc = "plateau"
      /\ UNCHANGED <<sweptOnce, resets, scans, localFreq, opened, drop, recent>>
  BY <1>1 DEF CountBatch, sweepVars, rateVars
<1>3. exit = "none"
  BY <1>2, CoreOfInv DEF ExitInv
<1>4. batches' \in 0 .. Warmup + Period
  BY <1>1, CoreOfInv DEF CountBatch, NextCount, CountOK
<1>5. promoted' \in {0, promoted}
  BY <1>1, Zenon DEF CountBatch, PromotedAfterCount
<1>6. /\ hot' \in HotMin .. HotInit
      /\ exit' = "minimum" => hot' = HotMin
  BY <1>3, CoreOfInv DEF NoPlateau, LowerHotThresh, EndAtMinimum, EndOnPlateau, CountOK,
     GoOn, EnterMonitor
<1>7. \/ pc' = "batch" /\ UNCHANGED <<window, exit, readings>>
      \/ /\ pc' = "monitor" /\ exit' \in {"minimum", "plateau"}
         /\ window' = 0 /\ readings' = 0
  BY DEF NoPlateau, LowerHotThresh, EndAtMinimum, EndOnPlateau, GoOn, EnterMonitor
<1>8. ModeOK' /\ WindowInv'
  BY <1>2, <1>7, CoreOfInv DEF ModeOK, Exits, WindowInv
<1>9. CountOK'
  BY <1>2, <1>3, <1>4, <1>5, <1>6, CoreOfInv DEF CountOK
<1>10. RateOK' /\ FreqInv'
  BY <1>2, CoreOfInv DEF RateOK, Effective, FreqInv
<1>11. FlagOK' /\ HistoryOK' /\ SweepInv'
  BY <1>2, CoreOfInv, Zenon DEF FlagOK, HistoryOK, SweepInv
<1>12. ExitInv' /\ TwoSweepsInARow'
  BY <1>3, <1>6, <1>7 DEF ExitInv, TwoSweepsInARow
<1> QED
  BY <1>7, <1>8, <1>9, <1>10, <1>11, <1>12 DEF CoreInv

(***************************************************************************)
(* Monitor mode                                                            *)
(***************************************************************************)

\* Waking up leaves no exit, and no flag that a plateau did not find.
LEMMA WakeInv ==
  ASSUME IInv, NEW threshold, threshold \in HotMin .. HotInit, Wake(threshold),
         window' \in 0 .. WindowSize, readings' \in 0 .. WindowSize + 1,
         window' <= readings', UNCHANGED <<inCgroup, huge>>
  PROVE  CoreInv'
<1> USE ControlAssumption
<1>1. /\ pc' = "batch" /\ hot' = threshold /\ exit' = "none"
      /\ opened' = Effective(HighFreq)
      /\ UNCHANGED <<batches, promoted, localFreq, drop, recent, scans>>
  BY DEF Wake, OpenedOnWake
<1>2. resets' \in 0 .. ResetLimit - 1
  <2>1. resets' = IF exit = "resets" THEN 0 ELSE resets
    BY DEF Wake, ResetsOnWake
  <2>2. resets \in 0 .. ResetLimit /\ (resets = ResetLimit => exit = "resets")
    BY CoreOfInv DEF CountOK
  <2>3. resets' \in {0, resets} /\ resets' # ResetLimit
    BY <2>1, <2>2
  <2> QED
    BY <2>2, <2>3
<1>3. sweptOnce' \in {FALSE, sweptOnce}
  BY DEF Wake
<1>4. FlagOK'
  BY <1>1, <1>3, CoreOfInv, Zenon DEF FlagOK
<1>5. ModeOK' /\ CountOK' /\ ExitInv' /\ WindowInv'
  BY <1>1, <1>2, CoreOfInv DEF ModeOK, CountOK, ExitInv, WindowInv, Exits
<1>6. RateOK' /\ FreqInv'
  BY <1>1, CoreOfInv DEF RateOK, Effective, FreqInv
<1>7. HistoryOK' /\ SweepInv'
  <2>1. HistoryOK'
    BY <1>1, CoreOfInv, Zenon DEF HistoryOK
  <2>2. CASE sweptOnce' = FALSE
    BY <2>1, <2>2, Zenon DEF SweepInv
  <2>3. CASE sweptOnce' = sweptOnce
    BY <1>1, <2>1, <2>3, CoreOfInv, Zenon DEF SweepInv
  <2> QED
    BY <1>3, <2>2, <2>3
<1>8. TwoSweepsInARow'
  BY <1>1 DEF TwoSweepsInARow
<1> QED
  BY <1>1, <1>4, <1>5, <1>6, <1>7, <1>8 DEF CoreInv

\* The mode goes on, and only the hit ratios may have changed.
LEMMA MonitorGoesOn ==
  ASSUME IInv, pc \in {"monitor", "memory"}, pc' \in {"monitor", "memory"},
         pc' = "memory" => huge /\ ~inCgroup,
         window' \in 0 .. WindowSize, readings' \in 0 .. WindowSize + 1,
         window' <= readings',
         UNCHANGED <<inCgroup, huge, hot, sweptOnce, resets, scans, batches, promoted,
                     localFreq, opened, drop, exit, recent>>
  PROVE  CoreInv'
<1>1. FlagOK' /\ HistoryOK' /\ SweepInv' /\ TwoSweepsInARow'
  BY CoreOfInv, Zenon DEF FlagOK, HistoryOK, SweepInv, TwoSweepsInARow
<1>2. ModeOK' /\ CountOK' /\ RateOK'
  BY CoreOfInv DEF ModeOK, CountOK, RateOK, Effective
<1>3. ExitInv' /\ FreqInv' /\ WindowInv'
  BY CoreOfInv DEF ExitInv, FreqInv, WindowInv
<1> QED
  BY <1>1, <1>2, <1>3 DEF CoreInv

LEMMA WakeInCgroupInv ==
  ASSUME IInv, WakeInCgroup(HotOnWake), UNCHANGED <<inCgroup, huge>>
  PROVE  CoreInv'
<1>1. Wake(HotOnWake) /\ UNCHANGED <<window, readings>>
  BY DEF WakeInCgroup
<1>2. /\ window' \in 0 .. WindowSize /\ readings' \in 0 .. WindowSize + 1
      /\ window' <= readings'
  BY <1>1, CoreOfInv DEF ModeOK, WindowInv
<1> QED
  BY <1>1, <1>2, HotOnWakeRange, WakeInv

\* One more hit ratio was read than the window holds, or it is full.
LEMMA RatioInv ==
  ASSUME IInv, Watch, NEW next \in {"monitor", "memory"}, next = "memory" => huge,
         ReadRatio(next) \/ ReadStableRatio(next), UNCHANGED <<inCgroup, huge>>
  PROVE  CoreInv'
<1> USE ControlAssumption
<1>1. /\ pc = "monitor" /\ ~inCgroup /\ pc' = next
      /\ readings' = AtMost(readings + 1, WindowSize + 1)
      /\ \/ window < WindowSize /\ window' = window + 1
         \/ window = WindowSize /\ window' = window
  BY DEF Watch, ReadRatio, ReadStableRatio
<1>2. UNCHANGED <<hot, sweptOnce, resets, scans, batches, promoted, localFreq, opened,
                  drop, exit, recent>>
  BY DEF ReadRatio, ReadStableRatio, sweepVars, rateVars
<1>3. /\ window' \in 0 .. WindowSize /\ readings' \in 0 .. WindowSize + 1
      /\ window' <= readings'
  BY <1>1, CoreOfInv DEF ModeOK, WindowInv, AtMost
<1> QED
  BY <1>1, <1>2, <1>3, MonitorGoesOn

LEMMA FallingRatioInv ==
  ASSUME IInv, WakeOnFallingRatio(HotOnWake), UNCHANGED <<inCgroup, huge>>
  PROVE  CoreInv' /\ readings' = WindowSize + 1
<1> USE ControlAssumption
<1>1. /\ Wake(HotOnWake) /\ window = WindowSize /\ UNCHANGED window
      /\ readings' = AtMost(readings + 1, WindowSize + 1)
  BY DEF WakeOnFallingRatio, Watch
<1>2. /\ window' \in 0 .. WindowSize /\ readings' \in 0 .. WindowSize + 1
      /\ window' <= readings' /\ readings' = WindowSize + 1
  BY <1>1, CoreOfInv DEF ModeOK, WindowInv, AtMost
<1> QED
  BY <1>1, <1>2, HotOnWakeRange, WakeInv

\* (Kept from the other facts: the provers count to a number in a range.)
LEMMA FreqRange ==
  ASSUME NEW f \in {100001, 50000, 25000, 12500}
  PROVE  f \in 1 .. HighFreq
<1>1. f \in Nat /\ f >= 1 /\ f <= 100001
  OBVIOUS
<1>2. f <= HighFreq /\ HighFreq \in Nat
  BY <1>1 DEF HighFreq
<1> QED
  BY <1>1, <1>2

\* From 100001 the floor of the build allows two halvings or three.
LEMMA DropLocalFreqInv ==
  ASSUME IInv, UNCHANGED <<inCgroup, huge>>,
         DropLocalFreq(IF huge THEN HugeFloorFreq ELSE FloorFreq)
  PROVE  CoreInv'
<1>1. /\ localFreq > (IF huge THEN HugeFloorFreq ELSE FloorFreq)
      /\ localFreq' = localFreq \div 2 /\ opened' = Effective(localFreq')
      /\ drop' = FALSE
      /\ UNCHANGED <<pc, hot, sweptOnce, resets, scans, batches, promoted, window, exit,
                     recent, readings>>
  BY DEF DropLocalFreq, sweepVars
<1>2. FreqInv'
  BY <1>1, CoreOfInv DEF FreqInv, HugeFloorFreq, FloorFreq
<1>3. localFreq' \in 1 .. HighFreq
  <2>1. localFreq' \in {100001, 50000, 25000, 12500}
    BY <1>2 DEF FreqInv
  <2> QED
    BY <2>1, FreqRange
<1>4. RateOK'
  BY <1>1, <1>3 DEF RateOK, Effective
<1>5. FlagOK' /\ HistoryOK' /\ SweepInv' /\ TwoSweepsInARow'
  BY <1>1, CoreOfInv, Zenon DEF FlagOK, HistoryOK, SweepInv, TwoSweepsInARow
<1>6. ModeOK' /\ CountOK' /\ ExitInv' /\ WindowInv'
  BY <1>1, CoreOfInv DEF ModeOK, CountOK, ExitInv, WindowInv
<1>7. pc' = "memory" => huge' /\ ~inCgroup'
  BY <1>1 DEF IInv, HugeTypeOK
<1> QED
  BY <1>2, <1>4, <1>5, <1>6, <1>7 DEF CoreInv

(***************************************************************************)
(* The looks at the free memory                                            *)
(***************************************************************************)

\* Every look the counter counts found plenty.
LEMMA LooksCounted ==
  ASSUME IInv, NEW free \in BOOLEAN, pc = "memory",
         plenty' = PlentyAfter(free),
         looks' = LastN(Append(looks, free), FreeLimit + 1)
  PROVE  /\ looks' \in Seq(BOOLEAN) /\ Len(looks') <= FreeLimit + 1
         /\ plenty' \in 0 .. FreeLimit + 1 /\ plenty' <= Len(looks')
         /\ RunAtEnd(looks', plenty', TRUE)
<1> USE HugeControlAssumption
<1>1. /\ looks \in Seq(BOOLEAN) /\ Len(looks) <= FreeLimit + 1
      /\ plenty \in 0 .. FreeLimit /\ plenty <= Len(looks)
      /\ RunAtEnd(looks, plenty, TRUE)
  <2>1. /\ looks \in Seq(BOOLEAN) /\ Len(looks) <= FreeLimit + 1
        /\ plenty \in 0 .. FreeLimit + 1
    BY DEF IInv, HugeTypeOK
  <2>2. /\ plenty <= FreeLimit /\ plenty <= Len(looks)
        /\ RunAtEnd(looks, plenty, TRUE)
    BY DEF IInv, PlentyInv
  <2>3. plenty \in 0 .. FreeLimit
    BY <2>1, <2>2
  <2> QED
    BY <2>1, <2>2, <2>3, Zenon
<1>2. FreeLimit + 1 \in Nat \ {0} /\ plenty \in Nat /\ plenty < FreeLimit + 1
  BY <1>1
<1>3. looks' \in Seq(BOOLEAN) /\ Len(looks') <= FreeLimit + 1
  BY <1>1, <1>2, LastNBounded
<1>4. CASE free = FALSE
  <2>1. plenty' = 0
    BY <1>4 DEF PlentyAfter
  <2>2. plenty' \in 0 .. FreeLimit + 1 /\ plenty' <= Len(looks')
    BY <1>3, <2>1
  <2>3. RunAtEnd(looks', plenty', TRUE)
    BY <1>3, <2>1 DEF RunAtEnd
  <2> QED
    BY <1>3, <2>2, <2>3
<1>5. CASE free = TRUE
  <2>1. plenty' = plenty + 1
    BY <1>5 DEF PlentyAfter
  <2>2. plenty' \in 0 .. FreeLimit + 1
    BY <1>2, <2>1
  <2>3. plenty + 1 <= Len(looks') /\ RunAtEnd(looks', plenty + 1, TRUE)
    BY <1>1, <1>2, <1>5, RunCounted
  <2> QED
    BY <1>3, <2>1, <2>2, <2>3
<1> QED
  BY <1>4, <1>5

-----------------------------------------------------------------------------
(***************************************************************************)
(* The steps together                                                      *)
(***************************************************************************)

LEMMA WholeInv ==
  ASSUME CoreInv', PlentyInv', huge' \in BOOLEAN, plenty' \in 0 .. FreeLimit + 1,
         looks' \in Seq(BOOLEAN), Len(looks') <= FreeLimit + 1
  PROVE  IInv'
<1>1. TypeOK'
  BY TypePartsNext DEF CoreInv
<1>2. localFreq' >= (IF huge' THEN 12500 ELSE 20000)
  BY DEF CoreInv, FreqInv
<1>3. HugeTypeOK'
  BY <1>1, <1>2 DEF HugeTypeOK, CoreInv
<1> QED
  BY <1>3 DEF IInv, CoreInv

\* What a step may do to the monitor mode: WakesOnFreshReadings of one step.
FreshStep ==
  /\ pc = "monitor" /\ pc' = "batch" /\ ~inCgroup => readings' = WindowSize + 1
  /\ pc = "memory" /\ pc' = "batch" => looks' = [k \in 1 .. FreeLimit + 1 |-> TRUE]

LEMMA NextWithInv ==
  ASSUME IInv, NEW next \in {"monitor", "memory"}, next = "memory" => huge,
         NextWith(HotOnWake, next, IF huge THEN HugeFloorFreq ELSE FloorFreq),
         UNCHANGED huge
  PROVE  CoreInv' /\ FreshStep
<1>1. UNCHANGED <<inCgroup, huge>>
  BY DEF NextWith
<1>2. CASE Batch
  BY <1>1, <1>2, BatchInv DEF FreshStep, Batch
<1>3. CASE NoScan
  BY <1>1, <1>3, NoScanInv DEF FreshStep, NoScan
<1>4. CASE SecondFullSweep
  BY <1>1, <1>4, SecondFullSweepInv DEF FreshStep, SecondFullSweep, Scan
<1>5. CASE FirstFullSweep
  BY <1>1, <1>5, FirstFullSweepInv DEF FreshStep, FirstFullSweep, Scan
<1>6. CASE ProductiveScan
  BY <1>1, <1>6, ProductiveScanInv DEF FreshStep, ProductiveScan, Scan
<1>7. CASE NoPlateau \/ LowerHotThresh \/ EndAtMinimum \/ EndOnPlateau
  <2>1. pc = "plateau"
    BY <1>7 DEF NoPlateau, LowerHotThresh, EndAtMinimum, EndOnPlateau, CountBatch
  <2> QED
    BY <1>1, <1>7, <2>1, PlateauInv DEF FreshStep
<1>8. CASE WakeInCgroup(HotOnWake)
  BY <1>1, <1>8, WakeInCgroupInv DEF FreshStep, WakeInCgroup
<1>9. CASE ReadRatio(next) \/ ReadStableRatio(next)
  <2>1. Watch /\ pc = "monitor" /\ pc' = next
    BY <1>9 DEF ReadRatio, ReadStableRatio, Watch
  <2> QED
    BY <1>1, <1>9, <2>1, RatioInv DEF FreshStep
<1>10. CASE WakeOnFallingRatio(HotOnWake)
  <2>1. pc = "monitor"
    BY <1>10 DEF WakeOnFallingRatio, Watch
  <2> QED
    BY <1>1, <1>10, <2>1, FallingRatioInv DEF FreshStep
<1>11. CASE DropLocalFreq(IF huge THEN HugeFloorFreq ELSE FloorFreq)
  BY <1>1, <1>11, DropLocalFreqInv DEF FreshStep, DropLocalFreq
<1> QED
  BY <1>2, <1>3, <1>4, <1>5, <1>6, <1>7, <1>8, <1>9, <1>10, <1>11 DEF NextWith

LEMMA NoRatioInv ==
  ASSUME IInv, HugeNoRatio, huge, UNCHANGED <<huge, plenty, looks>>
  PROVE  IInv' /\ FreshStep
<1>1. /\ ~inCgroup /\ pc = "monitor" /\ pc' = "memory"
      /\ UNCHANGED <<inCgroup, hot, sweptOnce, resets, scans, batches, promoted, localFreq,
                     opened, drop, window, exit, recent, readings>>
  BY DEF HugeNoRatio, sweepVars, rateVars
<1>2. /\ window' \in 0 .. WindowSize /\ readings' \in 0 .. WindowSize + 1
      /\ window' <= readings'
  BY <1>1, CoreOfInv DEF ModeOK, WindowInv
<1>3. CoreInv'
  BY <1>1, <1>2, MonitorGoesOn
<1>4. /\ huge' \in BOOLEAN /\ plenty' \in 0 .. FreeLimit + 1
      /\ looks' \in Seq(BOOLEAN) /\ Len(looks') <= FreeLimit + 1
  BY DEF IInv, HugeTypeOK
<1>5. PlentyInv'
  BY <1>1 DEF IInv, PlentyInv
<1> QED
  BY <1>1, <1>3, <1>4, <1>5, WholeInv DEF FreshStep

LEMMA LookInv ==
  ASSUME IInv, LookAtFreeMemory, UNCHANGED huge
  PROVE  IInv' /\ FreshStep
<1> USE HugeControlAssumption
<1>1. PICK free \in BOOLEAN :
        plenty' = PlentyAfter(free) /\ looks' = LastN(Append(looks, free), FreeLimit + 1)
  BY DEF LookAtFreeMemory
<1>2. pc = "memory" /\ UNCHANGED <<inCgroup, window, readings>>
  BY DEF LookAtFreeMemory
<1>3. /\ looks' \in Seq(BOOLEAN) /\ Len(looks') <= FreeLimit + 1
      /\ plenty' \in 0 .. FreeLimit + 1 /\ plenty' <= Len(looks')
      /\ RunAtEnd(looks', plenty', TRUE)
  BY <1>1, <1>2, LooksCounted
<1>4. /\ window' \in 0 .. WindowSize /\ readings' \in 0 .. WindowSize + 1
      /\ window' <= readings'
  BY <1>2, CoreOfInv DEF ModeOK, WindowInv
<1>5. huge' \in BOOLEAN
  BY DEF IInv, HugeTypeOK
<1>6. CASE plenty' > FreeLimit
  <2>1. Wake(HotOnWake)
    BY <1>6 DEF LookAtFreeMemory
  <2>2. CoreInv'
    BY <1>2, <1>4, <2>1, HotOnWakeRange, WakeInv
  <2>3. PlentyInv'
    BY <2>1 DEF Wake, PlentyInv
  <2>4. Len(looks') = FreeLimit + 1 /\ plenty' = FreeLimit + 1
    BY <1>3, <1>6
  <2>5. \A k \in 1 .. FreeLimit + 1 : looks'[k] = TRUE
    BY <1>3, <2>4 DEF RunAtEnd
  <2>6. looks' = [k \in 1 .. FreeLimit + 1 |-> TRUE]
    BY <1>3, <2>4, <2>5
  <2>7. FreshStep
    BY <1>2, <2>6 DEF FreshStep
  <2> QED
    BY <1>3, <1>5, <2>2, <2>3, <2>7, WholeInv
<1>7. CASE ~(plenty' > FreeLimit)
  <2>1. /\ pc' = "monitor"
        /\ UNCHANGED <<hot, sweptOnce, resets, scans, batches, promoted, localFreq, opened,
                       drop, exit, recent>>
    BY <1>7 DEF LookAtFreeMemory, sweepVars, rateVars
  <2>2. CoreInv'
    BY <1>2, <1>4, <2>1, MonitorGoesOn
  <2>3. PlentyInv'
    <3>1. plenty' <= FreeLimit
      BY <1>3, <1>7
    <3> QED
      BY <1>3, <3>1, Zenon DEF PlentyInv
  <2> QED
    BY <1>2, <1>3, <1>5, <2>1, <2>2, <2>3, WholeInv DEF FreshStep
<1> QED
  BY <1>6, <1>7

LEMMA StepInv ==
  ASSUME IInv, [HugeNext]_hugeVars
  PROVE  IInv' /\ [FreshStep]_hugeVars
<1>1. CASE HugeNext
  <2>1. UNCHANGED huge
    BY <1>1 DEF HugeNext
  <2>2. CASE /\ NextWith(HotOnWake, IF huge THEN "memory" ELSE "monitor",
                         IF huge THEN HugeFloorFreq ELSE FloorFreq)
             /\ PlentyOfCall
    <3>1. CoreInv' /\ FreshStep
      BY <2>1, <2>2, NextWithInv
    <3>2. huge' \in BOOLEAN
      BY <2>1 DEF IInv, HugeTypeOK
    <3> QED
      BY <2>2, <3>1, <3>2, PlentyOfCallInv, WholeInv
  <2>3. CASE huge /\ HugeNoRatio /\ UNCHANGED <<plenty, looks>>
    BY <2>1, <2>3, NoRatioInv
  <2>4. CASE LookAtFreeMemory
    BY <2>1, <2>4, LookInv
  <2> QED
    BY <1>1, <2>2, <2>3, <2>4 DEF HugeNext
<1>2. CASE UNCHANGED hugeVars
  <2>1. UNCHANGED <<inCgroup, pc, hot, sweptOnce, resets, scans, batches, promoted,
                    localFreq, opened, drop, window, exit, recent, readings, huge, plenty,
                    looks>>
    BY <1>2 DEF hugeVars, vars, sweepVars, rateVars
  <2>2. FlagOK' /\ ModeOK' /\ CountOK' /\ RateOK' /\ HistoryOK'
    <3>1. FlagOK' /\ HistoryOK'
      BY <2>1, CoreOfInv, Zenon DEF FlagOK, HistoryOK
    <3>2. ModeOK' /\ CountOK' /\ RateOK'
      BY <2>1, CoreOfInv DEF ModeOK, CountOK, RateOK, Effective
    <3> QED
      BY <3>1, <3>2
  <2>3. ExitInv' /\ FreqInv' /\ SweepInv' /\ TwoSweepsInARow' /\ WindowInv'
    <3>1. ExitInv' /\ FreqInv' /\ WindowInv'
      BY <2>1, CoreOfInv DEF ExitInv, FreqInv, WindowInv
    <3>2. SweepInv' /\ TwoSweepsInARow'
      BY <2>1, CoreOfInv, Zenon DEF SweepInv, TwoSweepsInARow
    <3> QED
      BY <3>1, <3>2
  <2>4. /\ PlentyInv' /\ huge' \in BOOLEAN /\ (pc' = "memory" => huge' /\ ~inCgroup')
        /\ plenty' \in 0 .. FreeLimit + 1
        /\ looks' \in Seq(BOOLEAN) /\ Len(looks') <= FreeLimit + 1
    <3>1. PlentyInv'
      <4>1. PlentyInv
        BY DEF IInv
      <4>2. pc' = pc /\ plenty' = plenty /\ looks' = looks
        BY <2>1
      <4> QED
        BY <4>1, <4>2, Zenon DEF PlentyInv
    <3>2. /\ huge \in BOOLEAN /\ (pc = "memory" => huge /\ ~inCgroup)
          /\ plenty \in 0 .. FreeLimit + 1
          /\ looks \in Seq(BOOLEAN) /\ Len(looks) <= FreeLimit + 1
      BY DEF IInv, HugeTypeOK
    <3> QED
      BY <2>1, <3>1, <3>2, Zenon
  <2>5. CoreInv'
    BY <2>2, <2>3, <2>4 DEF CoreInv
  <2> QED
    BY <1>2, <2>4, <2>5, WholeInv
<1> QED
  BY <1>1, <1>2

-----------------------------------------------------------------------------
(***************************************************************************)
(* What a plateau has seen                                                 *)
(*                                                                         *)
(* A second invariant, on top of the first: num_pages_promoted_history     *)
(* covers the batches counted in this period at least.  A batch after      *)
(* which a demotion went to monitor mode is not counted, but what it       *)
(* promoted is, so the promotions may cover more batches, never fewer.     *)
(***************************************************************************)

\* The batches counted since the promotions were last reset: in the first period
\* the count starts at 0, the later ones follow a count of Period - 1.
CountedAt(b) == IF b < Period - 1 THEN b ELSE (b + 1) % Period

\* With the batch that was promoted and is not counted yet.
Batched == CountedAt(batches) + (IF pc \in {"scan", "plateau"} THEN 1 ELSE 0)

DryInv ==
  /\ Batched <= Len(recent)
  /\ promoted <= PlateauMax => LastAtMost(recent, Batched, promoted)

\* PlateauIsDry of one step.
PlateauStep ==
  (exit = "none" /\ exit' \in {"minimum", "plateau"}) \/ hot' < hot =>
    Len(recent) = Period /\ FoldLeft(+, 0, recent) <= PlateauMax

LEMMA CountedRange ==
  ASSUME IInv
  PROVE  CountedAt(batches) \in 0 .. Period - 1
<1> USE ControlAssumption
<1>1. batches \in Nat
  BY CoreOfInv DEF CountOK
<1>2. batches + 1 \in Nat
  BY <1>1
<1>3. ((batches + 1) % Period) \in 0 .. Period - 1
  BY <1>2, ModIs
<1> QED
  BY <1>1, <1>3 DEF CountedAt

\* The count of the batches of a period and num_sample_batches go together, also
\* where the latter falls back to the first batch after the warmup.
LEMMA CountedNext ==
  ASSUME IInv
  PROVE  /\ CountedAt(NextCount) = IF EndOfPeriod THEN 0 ELSE CountedAt(batches) + 1
         /\ EndOfPeriod /\ NextCount > Warmup => CountedAt(batches) = Period - 1
<1> USE ControlAssumption
<1>1. batches \in 0 .. Warmup + Period
  BY CoreOfInv DEF CountOK
<1>2. NextCount \in Nat /\ batches + 1 \in Nat
  BY <1>1 DEF NextCount
\* Falling back keeps the count modulo the period.
<1>3. NextCount % Period = (batches + 1) % Period
  <2>1. CASE batches = Warmup + Period
    <3>1. Warmup + 1 \in Nat /\ batches + 1 = (Warmup + 1) + Period
      BY <1>1, <2>1
    <3>2. ((Warmup + 1) + Period) % Period = (Warmup + 1) % Period
      BY <3>1, ModAdd
    <3>3. NextCount = Warmup + 1
      BY <2>1 DEF NextCount
    <3> QED
      BY <3>1, <3>2, <3>3, Zenon
  <2>2. CASE batches # Warmup + Period
    BY <2>2, Zenon DEF NextCount
  <2> QED
    BY <2>1, <2>2
<1> DEFINE c == NextCount % Period
<1>4. c \in 0 .. Period - 1
  BY <1>2, ModIs
<1>5. (NextCount + 1) % Period = IF c = Period - 1 THEN 0 ELSE c + 1
  BY <1>2, ModNext
<1>6. EndOfPeriod <=> c = Period - 1
  BY DEF EndOfPeriod
<1>7. NextCount < Period - 1 => c = NextCount
  <2>1. ASSUME NextCount < Period - 1
        PROVE  c = NextCount
    <3>1. NextCount \in 0 .. Period - 1 /\ 0 \in Nat
      BY <1>2, <2>1
    <3>2. ((Period * 0) + NextCount) % Period = NextCount
      BY <3>1, ModUnique
    <3>3. (Period * 0) + NextCount = NextCount
      BY <1>2
    <3> QED
      BY <3>2, <3>3
  <2> QED
    BY <2>1
<1>8. CountedAt(NextCount) = IF NextCount < Period - 1 THEN NextCount
                             ELSE IF c = Period - 1 THEN 0 ELSE c + 1
  BY <1>5 DEF CountedAt
<1>9. CountedAt(batches) = IF batches < Period - 1 THEN batches ELSE c
  BY <1>3, Zenon DEF CountedAt
<1> HIDE DEF c
<1>10. \/ NextCount = batches + 1
       \/ batches = Warmup + Period /\ NextCount = Warmup + 1
  BY DEF NextCount
<1>11. CASE batches < Period - 1
  <2>1. NextCount = batches + 1 /\ NextCount <= Period - 1 /\ ~(NextCount > Warmup)
    BY <1>1, <1>10, <1>11
  <2>2. CountedAt(batches) = batches
    BY <1>9, <1>11
  <2>3. NextCount = Period - 1 => c = NextCount
    <3>1. ASSUME NextCount = Period - 1
          PROVE  c = NextCount
      <4>1. NextCount \in 0 .. Period - 1 /\ 0 \in Nat
        BY <1>2, <3>1
      <4>2. ((Period * 0) + NextCount) % Period = NextCount
        BY <4>1, ModUnique
      <4>3. (Period * 0) + NextCount = NextCount
        BY <1>2
      <4> QED
        BY <4>2, <4>3 DEF c
    <3> QED
      BY <3>1
  <2> QED
    BY <1>2, <1>6, <1>7, <1>8, <2>1, <2>2, <2>3
<1>12. CASE ~(batches < Period - 1)
  <2>1. ~(NextCount < Period - 1)
    BY <1>1, <1>10, <1>12
  <2>2. CountedAt(batches) = c
    BY <1>9, <1>12
  <2> QED
    BY <1>4, <1>6, <1>8, <2>1, <2>2
<1> QED
  BY <1>11, <1>12

LEMMA RecentIs ==
  ASSUME IInv
  PROVE  /\ recent \in Seq(Nat) /\ Len(recent) \in 0 .. Period
         /\ promoted \in Nat /\ hot \in Nat
<1>1. /\ recent \in Seq(0 .. PlateauMax + 1) /\ Len(recent) <= Period
      /\ promoted \in 0 .. PlateauMax + 1 /\ hot \in HotMin .. HotInit
  BY CoreOfInv DEF HistoryOK, CountOK
<1>2. recent \in Seq(Nat)
  BY <1>1, ControlAssumption
<1> QED
  BY <1>1, <1>2, ControlAssumption

\* A step that counts and promotes nothing keeps the batches or forgets one.
LEMMA DryKept ==
  ASSUME IInv, DryInv, UNCHANGED <<batches, promoted, recent>>,
         pc' \in {"scan", "plateau"} => pc \in {"scan", "plateau"}
  PROVE  DryInv'
<1> DEFINE q == Batched'
<1>1. q \in Nat /\ (Batched = q \/ Batched = q + 1)
  <2>1. CountedAt(batches) \in Nat /\ CountedAt(batches)' = CountedAt(batches)
    BY CountedRange DEF CountedAt
  <2> QED
    BY <2>1 DEF Batched
<1>2. q = Batched'
  OBVIOUS
<1> HIDE DEF q
<1>3. q <= Len(recent)
  BY <1>1, RecentIs DEF DryInv
<1>4. ASSUME promoted <= PlateauMax
      PROVE  LastAtMost(recent, q, promoted)
  <2>1. LastAtMost(recent, Batched, promoted) /\ Batched <= Len(recent)
    BY <1>4 DEF DryInv
  <2>2. CASE Batched = q
    BY <2>1, <2>2, Zenon
  <2>3. CASE Batched = q + 1
    <3>1. q + 1 <= Len(recent) /\ LastAtMost(recent, q + 1, promoted)
      BY <2>1, <2>3, Zenon
    <3> QED
      BY <1>1, <3>1, RecentIs, FewerAtMost
  <2> QED
    BY <1>1, <2>2, <2>3
<1> QED
  BY <1>2, <1>3, <1>4, Zenon DEF DryInv

\* What a batch promotes is added to the sum, and the batch to the batches.
LEMMA BatchDry ==
  ASSUME IInv, DryInv, Batch
  PROVE  DryInv'
<1> USE ControlAssumption
<1> DEFINE q == CountedAt(batches)
<1>1. PICK n \in 0 .. PlateauMax + 1 :
        /\ promoted' = AtMost(promoted + n, PlateauMax + 1)
        /\ recent' = LastN(Append(recent, n), Period)
  BY DEF Batch
<1>2. /\ q \in 0 .. Period - 1 /\ Batched = q /\ Batched' = q + 1
  BY CountedRange DEF Batch, Batched, CountedAt
<1>3. /\ recent \in Seq(Nat) /\ Len(recent) \in 0 .. Period /\ promoted \in Nat
      /\ n \in Nat
  BY RecentIs
<1> HIDE DEF q
<1>4. q <= Len(recent)
  BY <1>2 DEF DryInv
<1>5. Len(recent') = IF Len(recent) < Period THEN Len(recent) + 1 ELSE Period
  BY <1>1, <1>3, LastNAppend
<1>6. q + 1 <= Len(recent')
  BY <1>2, <1>3, <1>4, <1>5
<1>7. ASSUME promoted' <= PlateauMax
      PROVE  LastAtMost(recent', q + 1, promoted')
  <2>1. promoted <= PlateauMax /\ promoted' = promoted + n
    BY <1>1, <1>3, <1>7 DEF AtMost
  <2>2. LastAtMost(recent, q, promoted)
    BY <1>2, <2>1, Zenon DEF DryInv
  <2>3. q \in Nat /\ q < Period /\ Len(recent) <= Period
    BY <1>2, <1>3
  <2>4. LastAtMost(LastN(Append(recent, n), Period), q + 1, promoted + n)
    BY <1>3, <1>4, <2>2, <2>3, WindowAtMost
  <2> QED
    BY <1>1, <2>1, <2>4, Zenon
<1> QED
  BY <1>2, <1>6, <1>7, Zenon DEF DryInv

\* At the end of a period both start anew, and a plateau has counted all batches.
LEMMA CountDry ==
  ASSUME IInv, DryInv, CountBatch, pc' \in {"batch", "monitor"}
  PROVE  /\ DryInv'
         /\ Plateau => Len(recent) = Period /\ FoldLeft(+, 0, recent) <= PlateauMax
<1> USE ControlAssumption
<1> DEFINE q == CountedAt(batches)
           r == CountedAt(NextCount)
<1>1. /\ pc = "plateau" /\ batches' = NextCount /\ promoted' = PromotedAfterCount
      /\ recent' = recent
  BY DEF CountBatch
<1>2. q \in 0 .. Period - 1 /\ Batched = q + 1
  BY <1>1, CountedRange DEF Batched
<1>3. Batched' = CountedAt(batches)'
  <2>1. CountedAt(batches)' = CountedAt(NextCount)
    BY <1>1, Zenon DEF CountedAt
  <2>2. CountedAt(NextCount) \in Nat
    BY <1>2, CountedNext
  <2> QED
    BY <2>1, <2>2 DEF Batched
<1>4. /\ Batched' = r
      /\ r = IF EndOfPeriod THEN 0 ELSE q + 1
      /\ EndOfPeriod /\ NextCount > Warmup => q = Period - 1
  <2>1. CountedAt(batches)' = CountedAt(NextCount)
    BY <1>1, Zenon DEF CountedAt
  <2> QED
    BY <1>3, <2>1, CountedNext, Zenon
<1> HIDE DEF q, r
<1>5. /\ q + 1 <= Len(recent)
      /\ promoted <= PlateauMax => LastAtMost(recent, q + 1, promoted)
  BY <1>2, Zenon DEF DryInv
<1>6. recent \in Seq(Nat) /\ Len(recent) \in 0 .. Period /\ promoted \in Nat
  BY RecentIs
<1>7. DryInv'
  <2>1. CASE EndOfPeriod
    <3>1. promoted' = 0 /\ Batched' = 0
      BY <1>1, <1>4, <2>1, Zenon DEF PromotedAfterCount
    <3>2. LastAtMost(recent, 0, 0) /\ 0 <= Len(recent)
      BY <1>6, NoneAtMost
    <3> QED
      BY <1>1, <3>1, <3>2, Zenon DEF DryInv
  <2>2. CASE ~EndOfPeriod
    <3>1. promoted' = promoted /\ Batched' = q + 1
      BY <1>1, <1>4, <2>2, Zenon DEF PromotedAfterCount
    <3> QED
      BY <1>1, <1>5, <3>1, Zenon DEF DryInv
  <2> QED
    BY <2>1, <2>2, Zenon
<1>8. ASSUME Plateau
      PROVE  Len(recent) = Period /\ FoldLeft(+, 0, recent) <= PlateauMax
  <2>1. EndOfPeriod /\ NextCount > Warmup /\ promoted <= PlateauMax
    BY <1>8 DEF Plateau
  <2>2. q = Period - 1
    BY <1>4, <2>1, Zenon
  <2>3. Len(recent) = Period /\ q + 1 = Len(recent)
    BY <1>5, <1>6, <2>2
  <2>4. LastAtMost(recent, Len(recent), promoted)
    BY <1>5, <2>1, <2>3, Zenon
  <2>5. FoldLeft(+, 0, recent) <= promoted
    BY <1>6, <2>4, WholeAtMost
  <2>6. FoldLeft(+, 0, recent) \in Nat
    <3>1. PICK f : PartialSums(f, recent) /\ FoldLeft(+, 0, recent) = f[Len(recent)]
      BY <1>6, FoldPartial
    <3>2. Len(recent) \in 0 .. Len(recent)
      BY <1>6
    <3> QED
      BY <3>1, <3>2 DEF PartialSums
  <2>7. \A x \in Nat : x <= promoted => x <= PlateauMax
    BY <1>6, <2>1
  <2> QED
    BY <2>3, <2>5, <2>6, <2>7, Zenon
<1> QED
  BY <1>7, <1>8

\* Waking up never lowers the threshold.
LEMMA WakeNotLower ==
  ASSUME IInv
  PROVE  ~(HotOnWake < hot)
<1> USE ControlAssumption, HugeControlAssumption
<1>1. hot \in HotMin .. HotInit
  BY CoreOfInv DEF CountOK
<1>2. hot \in Nat /\ HotInit \in Nat /\ hot <= HotInit
  BY <1>1
<1> QED
  BY <1>2 DEF HotOnWake, HugeHotOnWake

\* The steps that are no look for a plateau: nothing to show but that they are.
LEMMA OtherDry ==
  ASSUME IInv, DryInv, UNCHANGED <<batches, promoted, recent>>,
         pc' \in {"scan", "plateau"} => pc \in {"scan", "plateau"},
         exit' \in {exit, "none", "sweeps", "resets"},
         hot' = hot \/ hot' = HotOnWake
  PROVE  DryInv' /\ PlateauStep
<1>1. DryInv'
  BY DryKept
<1>2. ~(hot' < hot)
  <2>1. hot \in Nat
    BY RecentIs
  <2>2. ~(hot < hot)
    BY <2>1
  <2> QED
    BY <2>2, WakeNotLower, Zenon
<1>3. ~(exit = "none" /\ exit' \in {"minimum", "plateau"})
  OBVIOUS
<1> QED
  BY <1>1, <1>2, <1>3, Zenon DEF PlateauStep

LEMMA NextWithDry ==
  ASSUME IInv, DryInv, NEW next \in {"monitor", "memory"},
         NextWith(HotOnWake, next, IF huge THEN HugeFloorFreq ELSE FloorFreq)
  PROVE  DryInv' /\ PlateauStep
<1>1. CASE Batch
  <2>1. hot' = hot /\ exit' = exit /\ pc = "batch"
    BY <1>1 DEF Batch
  <2>2. hot \in Nat
    BY RecentIs
  <2>3. exit = "none"
    BY <2>1, CoreOfInv DEF ExitInv
  <2>4. PlateauStep
    <3>1. ~(hot < hot)
      BY <2>2
    <3>2. exit' \notin {"minimum", "plateau"}
      BY <2>1, <2>3
    <3> QED
      BY <2>1, <3>1, <3>2, Zenon DEF PlateauStep
  <2> QED
    BY <1>1, <2>4, BatchDry
<1>2. CASE NoScan \/ SecondFullSweep \/ FirstFullSweep \/ ProductiveScan
  <2>1. /\ pc = "scan" /\ UNCHANGED <<batches, promoted, recent, hot>>
        /\ exit' \in {exit, "sweeps", "resets"}
    BY <1>2 DEF NoScan, SecondFullSweep, FirstFullSweep, ProductiveScan, Scan, GoOn,
       EnterMonitor
  <2> QED
    BY <2>1, OtherDry
<1>3. CASE NoPlateau \/ LowerHotThresh \/ EndAtMinimum \/ EndOnPlateau
  <2>1. /\ CountBatch /\ pc' \in {"batch", "monitor"}
        /\ Plateau \/ UNCHANGED <<hot, exit>>
    BY <1>3 DEF NoPlateau, LowerHotThresh, EndAtMinimum, EndOnPlateau, GoOn, EnterMonitor
  <2>2. /\ DryInv'
        /\ Plateau => Len(recent) = Period /\ FoldLeft(+, 0, recent) <= PlateauMax
    BY <2>1, CountDry
  <2>3. CASE Plateau
    BY <2>2, <2>3, Zenon DEF PlateauStep
  <2>4. CASE UNCHANGED <<hot, exit>>
    <3>1. ~(hot' < hot)
      BY <2>4, RecentIs
    <3>2. ~(exit = "none" /\ exit' \in {"minimum", "plateau"})
      BY <2>4
    <3> QED
      BY <2>2, <3>1, <3>2, Zenon DEF PlateauStep
  <2> QED
    BY <2>1, <2>3, <2>2, <2>4, Zenon
<1>4. CASE \/ WakeInCgroup(HotOnWake) \/ WakeOnFallingRatio(HotOnWake)
           \/ ReadRatio(next) \/ ReadStableRatio(next)
  <2>1. /\ pc' \notin {"scan", "plateau"} /\ UNCHANGED <<batches, promoted, recent>>
        /\ exit' \in {exit, "none"}
        /\ hot' = hot \/ hot' = HotOnWake
    BY <1>4 DEF WakeInCgroup, WakeOnFallingRatio, ReadRatio, ReadStableRatio, Wake
  <2> QED
    BY <2>1, OtherDry
<1>5. CASE DropLocalFreq(IF huge THEN HugeFloorFreq ELSE FloorFreq)
  <2>1. UNCHANGED <<pc, batches, promoted, recent, hot, exit>>
    BY <1>5 DEF DropLocalFreq
  <2> QED
    BY <2>1, OtherDry
<1> QED
  BY <1>1, <1>2, <1>3, <1>4, <1>5 DEF NextWith

LEMMA DryStep ==
  ASSUME IInv, DryInv, [HugeNext]_hugeVars
  PROVE  DryInv' /\ [PlateauStep]_vars
<1>1. CASE NextWith(HotOnWake, IF huge THEN "memory" ELSE "monitor",
                    IF huge THEN HugeFloorFreq ELSE FloorFreq)
  BY <1>1, NextWithDry
<1>2. CASE HugeNoRatio
  <2>1. pc' = "memory" /\ UNCHANGED <<batches, promoted, recent, hot, exit>>
    BY <1>2 DEF HugeNoRatio
  <2> QED
    BY <2>1, OtherDry
<1>3. CASE LookAtFreeMemory
  <2>1. /\ pc' \in {"batch", "monitor"} /\ UNCHANGED <<batches, promoted, recent>>
        /\ exit' \in {exit, "none"} /\ (hot' = hot \/ hot' = HotOnWake)
    BY <1>3 DEF LookAtFreeMemory, Wake
  <2> QED
    BY <2>1, OtherDry
<1>4. CASE UNCHANGED hugeVars
  <2>1. UNCHANGED <<pc, batches, promoted, recent, hot, exit>> /\ UNCHANGED vars
    BY <1>4 DEF hugeVars, vars
  <2> QED
    BY <2>1, OtherDry
<1> QED
  BY <1>1, <1>2, <1>3, <1>4 DEF HugeNext

LEMMA InitDry ==
  ASSUME HugeInit
  PROVE  DryInv
<1> USE ControlAssumption
<1>1. batches = 0 /\ pc = "batch" /\ recent = << >> /\ promoted = 0
  BY DEF HugeInit, Init
\* With a period of one batch the count starts at its end.
<1>2. CountedAt(0) = 0
  <2>1. CASE 0 < Period - 1
    BY <2>1 DEF CountedAt
  <2>2. CASE ~(0 < Period - 1)
    <3>1. (0 + 1) % Period \in 0 .. Period - 1
      BY ModIs
    <3>2. (0 + 1) % Period = 0
      BY <2>2, <3>1
    <3> QED
      BY <2>2, <3>2, Zenon DEF CountedAt
  <2> QED
    BY <2>1, <2>2
<1>3. Batched = 0
  BY <1>1, <1>2 DEF Batched
<1>4. << >> \in Seq(Nat) /\ Len(<< >>) = 0 /\ 0 <= 0
  OBVIOUS
<1>5. LastAtMost(<< >>, 0, 0)
  BY <1>4, NoneAtMost
<1> QED
  BY <1>1, <1>3, <1>4, <1>5, Zenon DEF DryInv

-----------------------------------------------------------------------------
(***************************************************************************)
(* The theorems                                                            *)
(***************************************************************************)

LEMMA Invariance == HugeSpec => []IInv
<1>1. HugeInit => IInv
  BY InitInv
<1>2. IInv /\ [HugeNext]_hugeVars => IInv'
  BY StepInv
<1> QED
  BY <1>1, <1>2, PTL DEF HugeSpec

\* The threshold, the counts and the frequencies of both builds keep within their
\* bounds: the tests for equality with a bound are never jumped over.
THEOREM ControlTypeCorrect == HugeSpec => []HugeTypeOK
<1>1. IInv => HugeTypeOK
  BY DEF IInv
<1> QED
  BY <1>1, Invariance, PTL

\* The demotion ends in monitor mode only after two full sweeps in a row.
THEOREM SweepsCorrect == HugeSpec => []TwoSweepsInARow
<1>1. IInv => TwoSweepsInARow
  BY DEF IInv
<1> QED
  BY <1>1, Invariance, PTL

\* Sampling is turned on again only by a full window of ratios that were read in
\* this monitor mode, or by plenty of free memory at each of the last looks.
THEOREM WakesCorrect == HugeSpec => WakesOnFreshReadings
<1>1. IInv /\ [HugeNext]_hugeVars => [FreshStep]_hugeVars
  BY StepInv
<1>2. HugeSpec => [][FreshStep]_hugeVars
  BY <1>1, Invariance, PTL DEF HugeSpec
<1> QED
  BY <1>2, Zenon DEF WakesOnFreshReadings, FreshStep

\* A plateau, and with it a lower threshold, is seen only when the last Period
\* batches promoted no more than PlateauMax pages.
THEOREM PlateausCorrect == HugeSpec => PlateauIsDry
<1>1. HugeInit => DryInv
  BY InitDry
<1>2. IInv /\ DryInv /\ [HugeNext]_hugeVars => DryInv' /\ [PlateauStep]_vars
  BY DryStep
<1>3. HugeSpec => [][PlateauStep]_vars
  BY <1>1, <1>2, Invariance, PTL DEF HugeSpec
<1> QED
  BY <1>3, Zenon DEF PlateauIsDry, PlateauStep
=============================================================================
