----------------------------- MODULE PageLists -----------------------------
(***************************************************************************)
(* The std::list operations the ARC and 2Q caches are built from, on       *)
(* sequences whose head is the front of the list.                          *)
(***************************************************************************)
EXTENDS Naturals, Sequences

Elems(s) == {s[k] : k \in DOMAIN s}

\* push_front, back and pop_back.
PushFront(x, s) == <<x>> \o s

Back(s) == s[Len(s)]

PopBack(s) == [k \in 1 .. Len(s) - 1 |-> s[k]]

\* erase, through the iterator kept for x.
Erase(s, x) ==
  LET i == CHOOSE k \in DOMAIN s : s[k] = x
  IN  [k \in 1 .. Len(s) - 1 |-> IF k < i THEN s[k] ELSE s[k + 1]]

NoRepeats(s) == \A i, j \in DOMAIN s : s[i] = s[j] => i = j

Disjoint(s, t) == Elems(s) \cap Elems(t) = {}
=============================================================================
