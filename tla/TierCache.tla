------------------------------ MODULE TierCache ------------------------------
(***************************************************************************)
(* What the page caches of the ARC and 2Q runtimes promise: the pages kept *)
(* on the fast tier form a demand-filled cache.  A requested page is in    *)
(* the cache afterwards; a page leaves only to make room for another one,  *)
(* and only when the cache is full.                                        *)
(***************************************************************************)
EXTENDS Naturals, FiniteSets

CONSTANTS
  Pages,      \* the pages that can be requested
  Capacity    \* the size of the fast tier in pages

VARIABLE cached   \* the pages the policy keeps on the fast tier

Hit(x) ==
  /\ x \in cached
  /\ UNCHANGED cached

Admit(x) ==
  /\ x \notin cached
  /\ Cardinality(cached) < Capacity
  /\ cached' = cached \cup {x}

Exchange(x) ==
  /\ x \notin cached
  /\ Cardinality(cached) = Capacity
  /\ \E victim \in cached : cached' = (cached \ {victim}) \cup {x}

Init == cached = {}

Next == \E x \in Pages : Hit(x) \/ Admit(x) \/ Exchange(x)

Spec == Init /\ [][Next]_cached

\* The fast tier is never asked to hold more pages than it has.
Bounded == cached \subseteq Pages /\ Cardinality(cached) <= Capacity
=============================================================================
