------------------------------ MODULE HeapAbs -------------------------------
(***************************************************************************)
(* What a heap promises: regions of memory handed out one at a time, none  *)
(* of which overlaps another or reaches past the heap, until given back.   *)
(***************************************************************************)
EXTENDS Naturals

CONSTANTS HeapSize, MaxRequest

VARIABLE regions     \* the regions in use: where each begins, and its length

Region == [from : 0 .. HeapSize, len : 0 .. MaxRequest]

Overlap(r, s) == r.from < s.from + s.len /\ s.from < r.from + r.len

Init == regions = {}

Get(r) == /\ r.from + r.len <= HeapSize
          /\ \A s \in regions : ~Overlap(r, s) /\ r.from # s.from
          /\ regions' = regions \cup {r}

Put(r) == /\ r \in regions
          /\ regions' = regions \ {r}

Next == \E r \in Region : Get(r) \/ Put(r)

Spec == Init /\ [][Next]_regions
=============================================================================
