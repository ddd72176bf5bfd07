-------------------------------- MODULE Pmm ---------------------------------
(***************************************************************************)
(* The heap of kernel/src/pmm.c: a linked list of free nodes in the order  *)
(* of their addresses, first fit, split at the front on alloc, merged with *)
(* both neighbours on free.  Every call runs under pmm_lock and is one     *)
(* step; what tasks do to the memory they own lies between the calls.      *)
(*                                                                         *)
(* Memory is an array of cells.  A header, of a node or of a block, is     *)
(* Header cells whose first holds its magic; its size is kept beside it.   *)
(***************************************************************************)
EXTENDS Naturals, SequencesExt

CONSTANTS HeapSize,   \* cells between pm_start and pm_end
          Header,     \* sizeof(node) = sizeof(block)
          MaxRequest  \* bound on the size of a request

ASSUME SizeAssumption == /\ Header \in Nat \ {0}
                         /\ HeapSize \in Nat /\ HeapSize >= Header
                         /\ MaxRequest \in Nat

Addr == 0 .. HeapSize - 1
Node == [addr : Addr, size : 0 .. HeapSize]
Cell == {"zero", "node", "block", "data"}

VARIABLES list,    \* the free list from head on
          mem,     \* mem[a]: what the cell at a holds
          live,    \* the blocks handed out: their addr, and size as in bk->size
          halted   \* an assertion failed

vars == <<list, mem, live, halted>>

Cells(from, n)  == {a \in Addr : from <= a /\ a < from + n}
Payload(b)      == Cells(b.addr + Header, b.size)
Extent(b)       == Cells(b.addr, Header + b.size)
Fill(m, A, v)   == [a \in Addr |-> IF a \in A THEN v ELSE m[a]]

Init == /\ list   = << [addr |-> 0, size |-> HeapSize - Header] >>
        /\ mem    = [a \in Addr |-> IF a = 0 THEN "node" ELSE "data"]
        /\ live   = {}
        /\ halted = FALSE

----------------------------------------------------------------------------
(* The list *)

\* The place in the list of the first node with at least n cells, 0 for none.
node_find_size(n) == SelectInSeq(list, LAMBDA nd : nd.size >= n)

\* The place of the last node at or below an address, 0 for none.
node_find_position(a) == SelectLastInSeq(list, LAMBDA nd : nd.addr <= a)

\* The node that node_split cuts off behind the first n cells.
Rest(nd, n) == [addr |-> nd.addr + Header + n, size |-> nd.size - n - Header]

\* Mutant: neighbours in the list are taken for neighbours in memory.
node_combine_Any(l, i) ==
  IF i < Len(l)
    THEN RemoveAt(ReplaceAt(l, i, [l[i] EXCEPT !.size = @ + Header + l[i + 1].size]), i + 1)
    ELSE l

\* The list after node i takes in its successor, if that begins where it ends.
node_combine(l, i) ==
  IF i < Len(l) /\ l[i].addr + Header + l[i].size = l[i + 1].addr
    THEN RemoveAt(ReplaceAt(l, i, [l[i] EXCEPT !.size = @ + Header + l[i + 1].size]), i + 1)
    ELSE l

----------------------------------------------------------------------------
(* alloc and free *)

\* Mutant: the new block's cells are cleared from its header's end one too far.
block_clear_Far(b) == Cells(b.addr + Header, b.size + 1)

\* What block_clear sets to zero.
block_clear(b) == Payload(b)

\* alloc(n) of a node with room for n cells and for the header of the rest;
\* the rest, empty or not, stays in the list in the node's place.
Allocate(n) ==
  LET i   == node_find_size(n + Header)
      nd  == list[i]
      new == Rest(nd, n)
      bk  == [addr |-> nd.addr, size |-> n]
  IN /\ i # 0
     /\ IF mem[nd.addr] # "node" \/ nd.size < n + Header
          THEN halted' = TRUE /\ UNCHANGED <<list, mem, live>>
          ELSE /\ list' = ReplaceAt(list, i, new)
               /\ mem'  = Fill(Fill(Fill(mem, Cells(new.addr, Header), "node"),
                                    Cells(nd.addr, Header), "block"),
                               block_clear(bk), "zero")
               /\ live' = live \cup {bk}
               /\ UNCHANGED halted

\* alloc(n) with no such node warns and returns NULL.
AllocFails(n) == node_find_size(n + Header) = 0 /\ UNCHANGED vars

alloc == \E n \in 0 .. MaxRequest : Allocate(n) \/ AllocFails(n)

\* The list with node nd linked in behind the last node at or below it.
Linked(nd) == InsertAt(list, node_find_position(nd.addr) + 1, nd)

\* Mutant: after the node before took it in, the node behind is left alone.
Merged_Once(l, i) ==
  IF i = 0 THEN node_combine(l, 1)
  ELSE LET m == node_combine(l, i) IN IF m = l THEN node_combine(l, i + 1) ELSE m

\* Merged with the node before, at place i, and the node behind, or either.
Merged(l, i) ==
  IF i = 0 THEN node_combine(l, 1)
  ELSE LET m == node_combine(l, i)
       IN IF m = l THEN node_combine(l, i + 1) ELSE node_combine(m, i)

free(b) ==
  /\ b \in live
  /\ IF mem[b.addr] # "block"
       THEN halted' = TRUE /\ UNCHANGED <<list, mem, live>>
       ELSE LET nd == [addr |-> b.addr, size |-> b.size]
            IN /\ mem'  = Fill(mem, Cells(b.addr, Header), "node")
               /\ list' = Merged(Linked(nd), node_find_position(b.addr))
               /\ live' = live \ {b}
               /\ UNCHANGED halted

\* The owner of a block writes its cells.
Write(b) == /\ b \in live
            /\ mem' = Fill(mem, Payload(b), "data")
            /\ UNCHANGED <<list, live, halted>>

Next == /\ ~halted
        /\ \/ alloc
           \/ \E b \in live : free(b) \/ Write(b)

Spec == Init /\ [][Next]_vars

----------------------------------------------------------------------------
(* Properties *)

TypeOK == /\ list \in Seq(Node)
          /\ mem  \in [Addr -> Cell]
          /\ live \subseteq Node
          /\ halted \in BOOLEAN

Nodes == ToSet(list)

\* Every variable keeps its type, and the free nodes and the blocks tile the
\* heap: every cell belongs to exactly one of them, and none reaches past the
\* end.  The list is in the order of the addresses and free has merged what it
\* could: of any two nodes the first ends before the other begins, and between
\* them is at least a cell.
Tiling ==
  /\ TypeOK
  /\ \A i, j \in 1 .. Len(list) :
       i < j => list[i].addr + Header + list[i].size < list[j].addr
  /\ \A b \in live : \A c \in Nodes \cup (live \ {b}) : Extent(b) \cap Extent(c) = {}
  /\ UNION {Extent(x) : x \in Nodes \cup live} = Addr
  /\ \A x \in Nodes \cup live : x.addr + Header + x.size <= HeapSize

\* Magic tells the truth: every node of the list and every block, and no
\* other cell, is marked as one, so that the assertions of alloc and free
\* pass on legal calls and a second free of a block is always caught.
HeadersIntact ==
  /\ \A nd \in Nodes : mem[nd.addr] = "node"
  /\ \A a \in Addr : mem[a] = "block" <=> \E b \in live : a \in Cells(b.addr, Header)
  /\ ~halted

\* alloc gives up only when the heap has no gap for the request: nowhere are
\* n cells and two headers, the block's and the rest's, free in a row.
NoFalseFailure ==
  \A n \in 0 .. MaxRequest : node_find_size(n + Header) = 0 =>
    \A a \in Addr : a + n + 2 * Header <= HeapSize =>
      \E b \in live : Cells(a, n + 2 * Header) \cap Extent(b) # {}

----------------------------------------------------------------------------
(* Refinement *)

Abs == INSTANCE HeapAbs WITH regions <- {[from |-> b.addr + Header, len |-> b.size] : b \in live}

\* The list allocator is a heap: alloc returns a region of the size asked for
\* that no live region overlaps, free gives exactly one back.
ImplementsHeap == Abs!Spec
=============================================================================
