----------------------------- MODULE HugeControl -----------------------------
(***************************************************************************)
(* The control state of the tiering thread of both builds: hybridtier.cpp  *)
(* and, where huge, hybridtier_huge.cpp.  The huge page build looks at the *)
(* free memory of the fast tier after each hit ratio and also wakes up     *)
(* when there was plenty of it often enough in a row.  It raises the       *)
(* threshold by one step only after a plateau at its minimum, and halves   *)
(* the local frequency further.                                            *)
(*                                                                         *)
(* hot counts steps of the threshold: 1 there, 100 in the huge page build. *)
(***************************************************************************)
EXTENDS SamplingControl

CONSTANT
  FreeLimit  \* looks in a row that found plenty of free memory: 20

ASSUME HugeControlAssumption ==
  /\ FreeLimit \in Nat
  /\ HotMin < HotInit

HugeFloorFreq == 20000

VARIABLES
  huge,    \* which of the two programs runs, settled at the start
  plenty,  \* num_times_too_much_free_memory
  looks    \* history: the last looks of this monitor mode, was there plenty

hugeVars == <<vars, huge, plenty, looks>>

-----------------------------------------------------------------------------
HugeHotRaised == hot + 1

\* A plateau at the minimum raises the threshold by one step.
HugeHotOnWake == IF exit = "minimum" THEN hot + 1 ELSE HotInit

HotOnWake == IF huge THEN HugeHotOnWake ELSE HotInit

\* perf stat has not written a ratio yet.  The free memory is looked at anyway.
HugeNoRatio ==
  /\ ~inCgroup
  /\ pc = "monitor"
  /\ pc' = "memory"
  /\ UNCHANGED <<inCgroup, hot, sweepVars, batches, promoted, rateVars, window, exit,
                 recent, readings>>

PlentyKept(free) == IF free THEN plenty + 1 ELSE plenty

\* Looks in a row: the counter starts anew after one that did not find plenty.
PlentyAfter(free) == IF free THEN plenty + 1 ELSE 0

LookAtFreeMemory ==
  /\ pc = "memory"
  /\ \E free \in BOOLEAN :
       /\ plenty' = PlentyAfter(free)
       /\ looks' = LastN(Append(looks, free), FreeLimit + 1)
  /\ IF plenty' > FreeLimit
       THEN Wake(HotOnWake)
       ELSE /\ pc' = "monitor"
            /\ UNCHANGED <<hot, sweepVars, batches, promoted, rateVars, exit, recent>>
  /\ UNCHANGED <<inCgroup, window, readings>>

\* The counter is local to low_overhead_monitor: where that is entered or left
\* for a hit ratio, it and the looks are cleared.
PlentyOfCall ==
  IF (pc = "monitor") = (pc' \in {"monitor", "memory"})
    THEN UNCHANGED <<plenty, looks>>
    ELSE plenty' = 0 /\ looks' = << >>

-----------------------------------------------------------------------------
HugeInit ==
  /\ Init
  /\ huge \in BOOLEAN
  /\ plenty = 0
  /\ looks = << >>

HugeNext ==
  /\ \/ /\ NextWith(HotOnWake, IF huge THEN "memory" ELSE "monitor",
                    IF huge THEN HugeFloorFreq ELSE FloorFreq)
        /\ PlentyOfCall
     \/ /\ huge
        /\ HugeNoRatio
        /\ UNCHANGED <<plenty, looks>>
     \/ LookAtFreeMemory
  /\ UNCHANGED huge

\* As in SamplingControl.
HugeSpec == HugeInit /\ [][HugeNext]_hugeVars /\ WF_hugeVars(HugeNext)

-----------------------------------------------------------------------------
(* Properties                                                              *)

\* TypeOK for both programs.  hybridtier.cpp keeps the local frequency at 20 kHz
\* or more; hybridtier_huge.cpp, whose floor is 20 kHz, goes down to 12.5.
HugeTypeOK ==
  /\ TypeOK
  /\ huge \in BOOLEAN
  /\ localFreq >= (IF huge THEN 12500 ELSE 20000)
  /\ pc = "memory" => huge /\ ~inCgroup
  /\ plenty \in 0 .. FreeLimit + 1
  /\ looks \in Seq(BOOLEAN) /\ Len(looks) <= FreeLimit + 1

\* Sampling is turned on again by what the thread saw in this monitor mode, not
\* in an earlier one and not by single readings: a window of its own hit ratios
\* and one more, or plenty of free memory at each of the last FreeLimit + 1 looks.
WakesOnFreshReadings ==
  [][/\ pc = "monitor" /\ pc' = "batch" /\ ~inCgroup => readings' = WindowSize + 1
     /\ pc = "memory" /\ pc' = "batch" =>
          looks' = [k \in 1 .. FreeLimit + 1 |-> TRUE]]_hugeVars
=============================================================================
