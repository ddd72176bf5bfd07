----------------------------- MODULE VfsProofs -----------------------------
(***************************************************************************)
(* Proofs about Vfs, for any tasks, files, names and lengths of paths, and *)
(* any sizes of the file system: the entries of directories, the counts of *)
(* inodes, the blocks in use and the data of files are sound, and files do *)
(* not get shorter by themselves.                                          *)
(*                                                                         *)
(* The operators of Blkfs come first: from a sound image each leaves one.  *)
(* The theorems are about tasks that neither make nor remove a name of a   *)
(* file while it is open.                                                  *)
(***************************************************************************)
EXTENDS Vfs, FiniteSetTheorems, SequenceTheorems, WellFoundedInduction, TLAPS

\* What a block holds, and an image of the file system.
Entry  == {Free} \cup [name : Name \cup {NoName}, inode_id : Id]
Folder == [Entries -> Entry]
Page   == [1 .. MaxSize -> [data : Id \cup {NoData}]]
Inode  == [type : {"FILE", "DIR"}, block_id : Block \cup {none}, refcnt : Nat, size : 0 .. MaxSize]
Disk   == [inode : [Id -> {EMPTY} \cup Inode], using : [Block -> BOOLEAN],
           content : [Block -> Folder \cup Page]]

blk(d, i) == d.inode[i].block_id

\* The blocks in use are those of inodes, each of one.
Owned(d) ==
  /\ \A i \in Live(d) : blk(d, i) # none => d.using[blk(d, i)]
  /\ \A b \in Block : d.using[b] => \E i \in Live(d) : blk(d, i) = b
  /\ \A i, j \in Live(d) : blk(d, i) # none /\ blk(d, i) = blk(d, j) => i = j

\* Different names, for inodes of ids.
Tidy(items, ids) ==
  /\ items \in Folder
  /\ \A e \in Entries : items[e] # Free => items[e].inode_id \in ids
  /\ \A e, f \in Entries : items[e] # Free /\ items[f] # Free /\ items[e].name = items[f].name => e = f

\* The root is a directory, and directories are in order.
Tree(d) == /\ IsDir(d, 0)
           /\ \A i \in Dirs(d) : blk(d, i) # none => Tidy(d.content[blk(d, i)], Live(d))

\* The data of block b is inode i's own up to that size.
Holds(d, i, b, size) ==
  size > 0 => /\ b \in Block /\ d.content[b] \in Page
              /\ \A n \in 1 .. size : d.content[b][n] = Unit(i)

\* The data of files is their own, and directories have none.
Written(d) == \A i \in Live(d) : /\ Holds(d, i, blk(d, i), d.inode[i].size)
                                 /\ IsDir(d, i) => d.inode[i].size = 0

\* What every call expects of an image, and leaves.
Sound(d) == d \in Disk /\ Owned(d) /\ Tree(d) /\ Written(d)

\* The counts of inodes are right, where l names went with a directory.
Counts(d, l) ==
  /\ l \in [Id -> Nat]
  /\ \A i \in Id \ Live(d) : l[i] = 0
  /\ \A i \in Live(d) : d.inode[i].refcnt = Names(d, i, Dirs(d)) + l[i] + (IF i = 0 THEN 1 ELSE 0)

\* What stays true of an open file's copy of its inode; its size may be old.
Kept(d, f) ==
  /\ f \in File /\ f.offset <= f.node.size
  /\ f.node.id \in Live(d) /\ d.inode[f.node.id].type = "FILE" /\ f.node.type = "FILE"
  /\ f.node.block_id = blk(d, f.node.id) /\ f.node.refcnt = d.inode[f.node.id].refcnt
  /\ Holds(d, f.node.id, f.node.block_id, f.node.size)

\* The places for files have files of that image, or none.
Table(d, files) ==
  /\ files \in [Task -> [Fd -> File \cup {noFile}]]
  /\ \A t \in Task, fd \in Fd : files[t][fd] = noFile \/ Kept(d, files[t][fd])

\* The inductive invariant.
IInv ==
  /\ Sound(disk) /\ Counts(disk, lost) /\ Table(disk, fildes)
  /\ DOMAIN op = Task /\ \A t \in Task : op[t].path \in Path
  /\ leaked \in BOOLEAN
  /\ halted \in {"not a directory", "no block", "no inode"} \cup {Fine}

----------------------------------------------------------------------------
(* The least number of a set. *)

LEMMA LeastExists ==
  ASSUME NEW S \in SUBSET Nat, S # {}
  PROVE  \E x \in S : \A y \in S : x <= y
<1> DEFINE T == {0 .. x : x \in S}
<1>1. IsWellFoundedOn(StrictSubsetOrdering(Nat), FiniteSubsetsOf(Nat))
  BY FS_StrictSubsetOrderingWellFounded
<1>2. T \subseteq FiniteSubsetsOf(Nat) /\ T # {}
  <2>1. \A x \in S : IsFiniteSet(0 .. x) /\ 0 .. x \in SUBSET Nat
    BY FS_Interval
  <2> QED
    BY <2>1 DEF FiniteSubsetsOf
<1>3. PICK t \in T : \A u \in T : <<u, t>> \notin StrictSubsetOrdering(Nat)
  BY <1>1, <1>2, WFMin
<1>4. PICK x \in S : t = 0 .. x
  OBVIOUS
<1>5. ASSUME NEW y \in S PROVE x <= y
  <2>1. SUFFICES ASSUME y < x PROVE FALSE
    OBVIOUS
  <2>2. 0 .. y \subseteq 0 .. x /\ x \notin 0 .. y /\ x \in 0 .. x
    BY <2>1
  <2>3. <<0 .. y, t>> \in StrictSubsetOrdering(Nat)
    BY <1>4, <2>2 DEF StrictSubsetOrdering
  <2> QED
    BY <1>3, <2>3
<1> QED
  BY <1>5

LEMMA LowestIs ==
  ASSUME NEW S \in SUBSET Nat
  PROVE  /\ S = {} => Lowest(S) = none
         /\ S # {} => Lowest(S) \in S /\ (\A y \in S : Lowest(S) <= y) /\ Lowest(S) # none
<1>1. CASE S = {}
  BY <1>1 DEF Lowest
<1>2. CASE S # {}
  <2>1. PICK x \in S : \A y \in S : x <= y
    BY <1>2, LeastExists
  <2>2. Lowest(S) \in S /\ \A y \in S : Lowest(S) <= y
    BY <1>2, <2>1 DEF Lowest
  <2> QED
    BY <1>2, <2>2 DEF none
<1> QED
  BY <1>1, <1>2

\* What the constants are.
LEMMA Sizes ==
  /\ NInode \in Nat \ {0} /\ NBlock \in Nat \ {0} /\ NEntry \in Nat \ {0} /\ MaxSize \in Nat \ {0}
  /\ 0 \in Id /\ none \notin Id /\ none \notin Block /\ none \notin Entries
  /\ Id \subseteq Nat /\ Block \subseteq Nat /\ Entries \subseteq Nat
  /\ 1 \in Entries /\ 1 \in 1 .. MaxSize /\ 1 \in Block
BY BlkfsAssumption DEF Id, Block, Entries, none

LEMMA LiveIs ==
  ASSUME NEW d \in Disk
  PROVE  /\ Live(d) \subseteq Id /\ Dirs(d) \subseteq Live(d)
         /\ \A i \in Id : \/ i \in Live(d) /\ d.inode[i] \in Inode
                          \/ i \notin Live(d) /\ d.inode[i] = EMPTY
         /\ \A i \in Id : i \in Dirs(d) <=> d.inode[i].type = "DIR"
<1>1. \A i \in Id : d.inode[i] \in {EMPTY} \cup Inode
  BY DEF Disk
<1>2. EMPTY.type = "EMPTY" /\ \A n \in Inode : n.type \in {"FILE", "DIR"}
  BY DEF EMPTY, Inode
<1> QED
  BY <1>1, <1>2 DEF Live, Dirs, IsDir

----------------------------------------------------------------------------
(* What inode_alloc does. *)

\* e is d with a new inode i, and block b for it if there was one.
Allocated(d, e, i, b, type) ==
  /\ i \in Id \ Live(d) /\ (b # none => b \in Block /\ ~d.using[b])
  /\ e.inode[i] = NewInode(type, b)
  /\ \A j \in Id \ {i} : e.inode[j] = d.inode[j]
  /\ \A c \in Block : e.using[c] <=> d.using[c] \/ c = b
  /\ \A c \in Block : c # b => e.content[c] = d.content[c]
  /\ type = "DIR" /\ b # none => e.content[b] = EmptyDir

LEMMA AllocIs ==
  ASSUME NEW d \in Disk, NEW type \in {"FILE", "DIR"}
  PROVE  /\ inode_alloc(d, type).bad = Fine
         /\ \/ inode_alloc(d, type).res = none /\ inode_alloc(d, type).disk = d
            \/ /\ inode_alloc(d, type).disk \in Disk
               /\ inode_alloc(d, type).res # none
               /\ \E b \in Block \cup {none} :
                   Allocated(d, inode_alloc(d, type).disk, inode_alloc(d, type).res, b, type)
<1> DEFINE I == {j \in Id : d.inode[j].type = "EMPTY"}
           B == {b \in Block : ~d.using[b]}
           i == Lowest(I)
           b == Lowest(B)
           e == [d EXCEPT !.inode[i] = NewInode(type, b)]
           u == Take(e, b)
           w == [u EXCEPT !.content[b] = IF type = "DIR" THEN EmptyDir ELSE @]
<1>1. i = none \/ (i \in I /\ i # none)
  BY Sizes, LowestIs
<1>2. b = none \/ (b \in B /\ b # none)
  BY Sizes, LowestIs
<1>3. inode_alloc(d, type) = IF i = none THEN Done(d, none)
                             ELSE IF b = none THEN Done(e, i) ELSE Done(w, i)
  BY DEF inode_alloc, block_alloc
<1> HIDE DEF i, b
<1>4. CASE i = none
  BY <1>3, <1>4 DEF Done
<1>5. CASE i # none
  <2>1. i \in Id \ Live(d)
    BY <1>1, <1>5 DEF Live
  <2>2. NewInode(type, b) \in Inode
    BY <1>2, Sizes DEF NewInode, Inode
  <2>3. e \in Disk /\ e.inode = [d.inode EXCEPT ![i] = NewInode(type, b)]
          /\ e.using = d.using /\ e.content = d.content
    BY <2>1, <2>2 DEF Disk
  <2>4. e.inode[i] = NewInode(type, b) /\ \A j \in Id \ {i} : e.inode[j] = d.inode[j]
    BY <2>1, <2>3 DEF Disk
  <2> HIDE DEF e
  <2>5. CASE b = none
    <3>1. Allocated(d, e, i, b, type)
      BY <2>1, <2>3, <2>4, <2>5, Sizes DEF Allocated
    <3>2. inode_alloc(d, type) = Done(e, i)
      BY <1>3, <1>5, <2>5
    <3> QED
      BY <1>5, <2>3, <2>5, <3>1, <3>2 DEF Done
  <2>6. CASE b # none
    <3>1. b \in Block /\ ~d.using[b]
      BY <1>2, <2>6
    <3>2. u \in Disk /\ u.inode = e.inode /\ u.content = d.content
            /\ u.using = [d.using EXCEPT ![b] = TRUE]
      BY <2>3, <3>1 DEF Take, Disk
    <3>3. EmptyDir \in Folder
      BY DEF EmptyDir, Folder, Entry
    <3> HIDE DEF u
    <3>4. w \in Disk /\ w.inode = e.inode /\ w.using = [d.using EXCEPT ![b] = TRUE]
            /\ w.content = [d.content EXCEPT ![b] = IF type = "DIR" THEN EmptyDir ELSE @]
      BY <3>1, <3>2, <3>3 DEF Disk
    <3> HIDE DEF w
    <3>5. Allocated(d, w, i, b, type)
      BY <2>1, <2>4, <3>1, <3>4 DEF Allocated, Disk
    <3>6. inode_alloc(d, type) = Done(w, i)
      BY <1>3, <1>5, <2>6
    <3> QED
      BY <1>5, <3>1, <3>4, <3>5, <3>6 DEF Done
  <2> QED
    BY <2>5, <2>6
<1> QED
  BY <1>4, <1>5

\* Inode j and its block are as they were.
Same(d, e, j) == /\ e.inode[j] = d.inode[j]
                 /\ blk(d, j) # none => e.content[blk(d, j)] = d.content[blk(d, j)]

LEMMA AllocatedSame ==
  ASSUME NEW d, Sound(d), NEW e, NEW i, NEW b, NEW type, Allocated(d, e, i, b, type)
  PROVE  \A j \in Live(d) : Same(d, e, j)
<1> SUFFICES ASSUME NEW j \in Live(d) PROVE Same(d, e, j)
  OBVIOUS
<1>1. j \in Id /\ j # i /\ e.inode[j] = d.inode[j]
  BY DEF Allocated, Live
<1>2. ASSUME blk(d, j) # none PROVE e.content[blk(d, j)] = d.content[blk(d, j)]
  <2>1. d.using[blk(d, j)] /\ blk(d, j) \in Block
    <3>1. d \in Disk
      BY DEF Sound
    <3>2. d.inode[j] \in Inode
      BY <3>1, LiveIs, <1>1
    <3> QED
      BY <1>2, <3>2 DEF Sound, Owned, blk, Inode
  <2> QED
    BY <1>2, <2>1 DEF Allocated
<1> QED
  BY <1>1, <1>2 DEF Same

LEMMA AllocatedIds ==
  ASSUME NEW d \in Disk, NEW e \in Disk, NEW i, NEW b, NEW type \in {"FILE", "DIR"},
         Allocated(d, e, i, b, type)
  PROVE  /\ Live(e) = Live(d) \cup {i}
         /\ Dirs(e) = Dirs(d) \cup (IF type = "DIR" THEN {i} ELSE {})
         /\ blk(e, i) = b /\ e.inode[i].type = type /\ e.inode[i].size = 0 /\ e.inode[i].refcnt = 0
<1>1. e.inode[i] = NewInode(type, b) /\ \A j \in Id \ {i} : e.inode[j] = d.inode[j]
  BY DEF Allocated
<1>2. i \in Id /\ i \notin Live(d)
  BY DEF Allocated
<1>3. NewInode(type, b).type = type /\ NewInode(type, b).block_id = b
        /\ NewInode(type, b).size = 0 /\ NewInode(type, b).refcnt = 0
  BY DEF NewInode
<1>4. \A j \in Id : e.inode[j].type = IF j = i THEN type ELSE d.inode[j].type
  BY <1>1, <1>3
<1>5. d.inode[i].type = "EMPTY"
  BY <1>2 DEF Live
<1> QED
  BY <1>1, <1>2, <1>3, <1>4, <1>5 DEF Live, Dirs, IsDir, blk

LEMMA EmptyTidy ==
  ASSUME NEW ids PROVE Tidy(EmptyDir, ids)
<1>1. EmptyDir \in Folder
  BY DEF EmptyDir, Folder, Entry
<1>2. \A e \in Entries : EmptyDir[e] = Free
  BY DEF EmptyDir
<1> QED
  BY <1>1, <1>2 DEF Tidy

LEMMA AllocatedSound ==
  ASSUME NEW d, Sound(d), NEW e \in Disk, NEW i, NEW b, NEW type \in {"FILE", "DIR"},
         Allocated(d, e, i, b, type)
  PROVE  Sound(e)
<1>1. d \in Disk
  BY DEF Sound
<1>2. /\ Live(e) = Live(d) \cup {i}
      /\ Dirs(e) = Dirs(d) \cup (IF type = "DIR" THEN {i} ELSE {})
      /\ blk(e, i) = b /\ e.inode[i].type = type /\ e.inode[i].size = 0
  BY <1>1, AllocatedIds
<1>3. \A j \in Live(d) : Same(d, e, j)
  BY AllocatedSame
<1>4. i \in Id /\ i \notin Live(d) /\ (b # none => b \in Block /\ ~d.using[b])
        /\ \A c \in Block : e.using[c] <=> d.using[c] \/ c = b
  BY DEF Allocated
<1>5. \A j \in Live(d) : blk(e, j) = blk(d, j) /\ (blk(d, j) # none => d.using[blk(d, j)] /\ blk(d, j) \in Block)
  <2> SUFFICES ASSUME NEW j \in Live(d)
               PROVE blk(e, j) = blk(d, j) /\ (blk(d, j) # none => d.using[blk(d, j)] /\ blk(d, j) \in Block)
    OBVIOUS
  <2>1. d.inode[j] \in Inode
    BY <1>1, LiveIs
  <2> QED
    BY <1>3, <2>1 DEF Same, blk, Sound, Owned, Inode
<1>6. Owned(e)
  <2>1. \A j \in Live(e) : blk(e, j) # none => e.using[blk(e, j)]
    BY <1>2, <1>4, <1>5
  <2>2. ASSUME NEW c \in Block, e.using[c] PROVE \E j \in Live(e) : blk(e, j) = c
    <3>1. CASE c = b
      BY <1>2, <3>1
    <3>2. CASE c # b
      BY <1>2, <1>4, <1>5, <2>2, <3>2 DEF Sound, Owned
    <3> QED
      BY <3>1, <3>2
  <2>3. ASSUME NEW j \in Live(e), NEW k \in Live(e), blk(e, j) # none, blk(e, j) = blk(e, k) PROVE j = k
    <3>1. CASE j \in Live(d) /\ k \in Live(d)
      BY <1>5, <2>3, <3>1 DEF Sound, Owned
    <3>2. CASE j = i \/ k = i
      BY <1>2, <1>4, <1>5, <2>3, <3>2
    <3> QED
      BY <1>2, <3>1, <3>2
  <2> QED
    BY <2>1, <2>2, <2>3 DEF Owned
<1>7. Tree(e)
  <2>1. IsDir(e, 0)
    <3>1. 0 \in Live(d)
      BY <1>1, LiveIs, Sizes DEF Sound, Tree, Dirs
    <3> QED
      BY <1>3, <3>1 DEF Same, Sound, Tree, IsDir
  <2>2. ASSUME NEW j \in Dirs(e), blk(e, j) # none PROVE Tidy(e.content[blk(e, j)], Live(e))
    <3>1. CASE j \in Dirs(d)
      <4>1. j \in Live(d) /\ Tidy(d.content[blk(d, j)], Live(d))
        BY <1>1, <1>5, <2>2, <3>1, LiveIs DEF Sound, Tree
      <4>2. e.content[blk(e, j)] = d.content[blk(d, j)]
        BY <1>3, <1>5, <2>2, <4>1 DEF Same
      <4> QED
        BY <1>2, <4>1, <4>2 DEF Tidy
    <3>2. CASE j = i /\ type = "DIR"
      <4>1. e.content[blk(e, j)] = EmptyDir
        BY <1>2, <2>2, <3>2 DEF Allocated
      <4> QED
        BY <4>1, EmptyTidy
    <3> QED
      BY <1>2, <3>1, <3>2
  <2> QED
    BY <2>1, <2>2 DEF Tree
<1>8. Written(e)
  <2>1. ASSUME NEW j \in Live(e) PROVE /\ Holds(e, j, blk(e, j), e.inode[j].size)
                                       /\ IsDir(e, j) => e.inode[j].size = 0
    <3>1. CASE j = i
      BY <1>2, <3>1 DEF Holds
    <3>2. CASE j \in Live(d)
      <4>1. Holds(d, j, blk(d, j), d.inode[j].size) /\ (IsDir(d, j) => d.inode[j].size = 0)
        BY <3>2 DEF Sound, Written
      <4>2. e.inode[j] = d.inode[j] /\ blk(e, j) = blk(d, j)
        BY <1>3, <1>5, <3>2 DEF Same
      <4>3. Holds(e, j, blk(e, j), e.inode[j].size)
        BY <1>3, <3>2, <4>1, <4>2, Sizes DEF Holds, Same
      <4> QED
        BY <4>1, <4>2, <4>3 DEF IsDir
    <3> QED
      BY <1>2, <3>1, <3>2
  <2> QED
    BY <2>1 DEF Written
<1> QED
  BY <1>6, <1>7, <1>8 DEF Sound

----------------------------------------------------------------------------
(* Names, counted. *)

\* The entries of the directories in S that name inode i.
NameSet(d, i, S) == {x \in S \X Entries : /\ d.inode[x[1]].block_id # none
                                          /\ Items(d, x[1])[x[2]].inode_id = i}

LEMMA NamesIs ==
  ASSUME NEW d, NEW i, NEW S \in SUBSET Id
  PROVE  /\ IsFiniteSet(NameSet(d, i, S)) /\ Names(d, i, S) = Cardinality(NameSet(d, i, S))
         /\ Names(d, i, S) \in Nat
<1>1. IsFiniteSet(S \X Entries)
  <2>1. IsFiniteSet(Id) /\ IsFiniteSet(Entries)
    BY BlkfsAssumption, FS_Interval DEF Id, Entries
  <2>2. IsFiniteSet(S)
    BY <2>1, FS_Subset
  <2> QED
    BY <2>1, <2>2, FS_Product
<1>2. NameSet(d, i, S) \subseteq S \X Entries
  BY DEF NameSet
<1>3. IsFiniteSet(NameSet(d, i, S))
  BY <1>1, <1>2, FS_Subset
<1>4. Names(d, i, S) = Cardinality(NameSet(d, i, S))
  BY DEF Names, NameSet
<1> QED
  BY <1>3, <1>4, FS_CardinalityType

LEMMA NoNames ==
  ASSUME NEW d, NEW i PROVE Names(d, i, {}) = 0
<1>1. NameSet(d, i, {}) = {}
  BY DEF NameSet
<1>2. Names(d, i, {}) = Cardinality(NameSet(d, i, {}))
  BY NamesIs
<1> QED
  BY <1>1, <1>2, FS_EmptySet

\* A directory's entry that names inode i.
Naming(d, i, j, k) == /\ j \in Dirs(d) /\ k \in Entries /\ blk(d, j) # none
                      /\ d.content[blk(d, j)][k].inode_id = i

LEMMA NameSetIs ==
  ASSUME NEW d, NEW i
  PROVE  \A j, k : <<j, k>> \in NameSet(d, i, Dirs(d)) <=> Naming(d, i, j, k)
BY DEF NameSet, Naming, blk, Items

\* Where the same entries name inodes, they have the same number of names.
LEMMA SameNames ==
  ASSUME NEW d, NEW e, NEW i, \A j, k : Naming(d, i, j, k) <=> Naming(e, i, j, k)
  PROVE  Names(d, i, Dirs(d)) = Names(e, i, Dirs(e))
<1>1. NameSet(d, i, Dirs(d)) = NameSet(e, i, Dirs(e))
  <2>1. \A x \in NameSet(d, i, Dirs(d)) : x \in NameSet(e, i, Dirs(e))
    <3> SUFFICES ASSUME NEW x \in NameSet(d, i, Dirs(d)) PROVE x \in NameSet(e, i, Dirs(e))
      OBVIOUS
    <3>1. x = <<x[1], x[2]>>
      BY DEF NameSet
    <3> QED
      BY <3>1, NameSetIs
  <2>2. \A x \in NameSet(e, i, Dirs(e)) : x \in NameSet(d, i, Dirs(d))
    <3> SUFFICES ASSUME NEW x \in NameSet(e, i, Dirs(e)) PROVE x \in NameSet(d, i, Dirs(d))
      OBVIOUS
    <3>1. x = <<x[1], x[2]>>
      BY DEF NameSet
    <3> QED
      BY <3>1, NameSetIs
  <2> QED
    BY <2>1, <2>2
<1>2. Dirs(d) \in SUBSET Id /\ Dirs(e) \in SUBSET Id
  BY DEF Dirs
<1> QED
  BY <1>1, <1>2, NamesIs

\* In a sound image, what names an inode is not Free, and the inode is live.
LEMMA NamingIs ==
  ASSUME NEW d, Sound(d), NEW i \in Id, NEW j, NEW k, Naming(d, i, j, k)
  PROVE  /\ i \in Live(d) /\ d.content[blk(d, j)][k] # Free /\ j \in Live(d) /\ j \in Dirs(d)
         /\ k \in Entries /\ blk(d, j) # none /\ blk(d, j) \in Block
<1>1. d \in Disk /\ j \in Dirs(d) /\ k \in Entries /\ blk(d, j) # none
        /\ d.content[blk(d, j)][k].inode_id = i
  BY DEF Sound, Naming
<1>2. j \in Live(d) /\ j \in Id
  BY <1>1, LiveIs
<1>3. Tidy(d.content[blk(d, j)], Live(d))
  BY <1>1 DEF Sound, Tree
<1>4. d.content[blk(d, j)][k] # Free
  BY <1>1, Sizes DEF Free
<1>5. i \in Live(d)
  BY <1>1, <1>3, <1>4 DEF Tidy
<1>6. d.inode[j] \in Inode
  BY <1>1, <1>2, LiveIs
<1> QED
  BY <1>1, <1>2, <1>4, <1>5, <1>6 DEF blk, Inode

LEMMA AllocatedNames ==
  ASSUME NEW d, Sound(d), NEW e \in Disk, NEW i, NEW b, NEW type \in {"FILE", "DIR"},
         Allocated(d, e, i, b, type), NEW m \in Id
  PROVE  \A j, k : Naming(d, m, j, k) <=> Naming(e, m, j, k)
<1> SUFFICES ASSUME NEW j, NEW k PROVE Naming(d, m, j, k) <=> Naming(e, m, j, k)
  OBVIOUS
<1>1. d \in Disk
  BY DEF Sound
<1>2. /\ Live(e) = Live(d) \cup {i}
      /\ Dirs(e) = Dirs(d) \cup (IF type = "DIR" THEN {i} ELSE {})
      /\ blk(e, i) = b
  BY <1>1, AllocatedIds
<1>3. CASE j \in Dirs(d)
  <2>1. j \in Live(d) /\ j \in Dirs(e)
    BY <1>1, <1>2, <1>3, LiveIs
  <2>2. Same(d, e, j)
    BY <2>1, AllocatedSame
  <2>3. blk(e, j) = blk(d, j) /\ (blk(d, j) # none => e.content[blk(e, j)] = d.content[blk(d, j)])
    BY <2>2 DEF Same, blk
  <2> QED
    BY <1>3, <2>1, <2>3 DEF Naming
<1>4. CASE j \notin Dirs(d)
  <2>1. ~Naming(d, m, j, k)
    BY <1>4 DEF Naming
  <2>2. SUFFICES ASSUME Naming(e, m, j, k) PROVE FALSE
    BY <2>1
  <2>3. j = i /\ type = "DIR" /\ b # none /\ k \in Entries /\ e.content[b][k].inode_id = m
    BY <1>2, <1>4, <2>2 DEF Naming
  <2>4. e.content[b] = EmptyDir
    BY <2>3 DEF Allocated
  <2>5. e.content[b][k].inode_id = none
    BY <2>3, <2>4 DEF EmptyDir, Free
  <2> QED
    BY <2>3, <2>5, Sizes
<1> QED
  BY <1>3, <1>4

LEMMA AllocatedCounts ==
  ASSUME NEW d, Sound(d), NEW e \in Disk, NEW i, NEW b, NEW type \in {"FILE", "DIR"},
         Allocated(d, e, i, b, type), NEW l, Counts(d, l)
  PROVE  Counts(e, l)
<1>1. d \in Disk /\ i \in Id /\ i \notin Live(d) /\ Live(d) \subseteq Id
  BY LiveIs DEF Sound, Allocated
<1>2. Live(e) = Live(d) \cup {i} /\ e.inode[i].refcnt = 0
  BY <1>1, AllocatedIds
<1>3. \A m \in Id : Names(d, m, Dirs(d)) = Names(e, m, Dirs(e))
  BY AllocatedNames, SameNames
<1>4. \A m \in Live(d) : e.inode[m].refcnt = Names(e, m, Dirs(e)) + l[m] + (IF m = 0 THEN 1 ELSE 0)
  <2>1. \A m \in Live(d) : e.inode[m] = d.inode[m]
    BY AllocatedSame DEF Same
  <2> QED
    BY <1>1, <1>3, <2>1 DEF Counts
<1>5. e.inode[i].refcnt = Names(e, i, Dirs(e)) + l[i] + (IF i = 0 THEN 1 ELSE 0)
  <2>1. NameSet(d, i, Dirs(d)) = {}
    <3> SUFFICES ASSUME NEW x \in NameSet(d, i, Dirs(d)) PROVE FALSE
      OBVIOUS
    <3>1. x = <<x[1], x[2]>>
      BY DEF NameSet
    <3>2. Naming(d, i, x[1], x[2])
      BY <3>1, NameSetIs
    <3> QED
      BY <1>1, <3>2, NamingIs
  <2>2. Names(d, i, Dirs(d)) = 0
    <3>1. Dirs(d) \in SUBSET Id
      BY DEF Dirs
    <3> QED
      BY <2>1, <3>1, NamesIs, FS_EmptySet
  <2>3. i # 0
    <3>1. 0 \in Live(d)
      BY <1>1, LiveIs, Sizes DEF Sound, Tree, Dirs
    <3> QED
      BY <1>1, <3>1
  <2> QED
    BY <1>1, <1>2, <1>3, <2>2, <2>3 DEF Counts
<1> QED
  BY <1>1, <1>2, <1>4, <1>5 DEF Counts

----------------------------------------------------------------------------
(* An inode gets a name. *)

\* Entry k of directory dir is free for that name.
Fits(d, dir, k, name) ==
  /\ dir \in Dirs(d) /\ blk(d, dir) # none /\ k \in Entries /\ name \in Name \cup {NoName}
  /\ d.content[blk(d, dir)][k] = Free
  /\ \A m \in Entries : d.content[blk(d, dir)][m] # Free => d.content[blk(d, dir)][m].name # name

\* Inode i counts n names, and is otherwise as it was.
Counted(d, e, i, n) ==
  /\ e.inode[i].type = d.inode[i].type /\ e.inode[i].block_id = d.inode[i].block_id
  /\ e.inode[i].size = d.inode[i].size /\ e.inode[i].refcnt = n

\* Entry k of the block b becomes x, and nothing else of what blocks hold.
Rewritten(d, e, b, k, x) ==
  /\ \A c \in Block : c # b => e.content[c] = d.content[c]
  /\ \A m \in Entries : e.content[b][m] = IF m = k THEN x ELSE d.content[b][m]
  /\ e.content[b] \in Folder

\* e is d with a new entry k of directory dir.
Entered(d, e, dir, k, name, i) ==
  /\ Counted(d, e, i, d.inode[i].refcnt + 1)
  /\ \A j \in Id : j # i => e.inode[j] = d.inode[j]
  /\ e.using = d.using
  /\ Rewritten(d, e, blk(d, dir), k, [name |-> name, inode_id |-> i])

\* What a directory's block is in a sound image.
LEMMA FolderIs ==
  ASSUME NEW d, Sound(d), NEW dir \in Dirs(d), blk(d, dir) # none
  PROVE  /\ blk(d, dir) \in Block /\ dir \in Live(d) /\ Tidy(d.content[blk(d, dir)], Live(d))
         /\ d.content[blk(d, dir)] \in Folder
<1>1. d \in Disk
  BY DEF Sound
<1>2. dir \in Live(d) /\ d.inode[dir] \in Inode
  BY <1>1, LiveIs
<1>3. Tidy(d.content[blk(d, dir)], Live(d))
  BY DEF Sound, Tree
<1> QED
  BY <1>2, <1>3 DEF blk, Inode, Tidy

LEMMA EnterIs ==
  ASSUME NEW d, Sound(d), NEW dir, NEW k, NEW name, Fits(d, dir, k, name), NEW i \in Live(d)
  PROVE  /\ Enter(d, dir, k, name, i) \in Disk
         /\ Entered(d, Enter(d, dir, k, name, i), dir, k, name, i)
<1> DEFINE x == [name |-> name, inode_id |-> i]
           b == blk(d, dir)
           y == [d.content[b] EXCEPT ![k] = x]
           n == [d.inode[i] EXCEPT !.refcnt = @ + 1]
           e == Enter(d, dir, k, name, i)
<1>1. d \in Disk /\ i \in Id /\ d.inode[i] \in Inode
  BY LiveIs DEF Sound
<1>2. b \in Block /\ d.content[b] \in Folder /\ k \in Entries
  BY FolderIs DEF Fits
<1>3. x \in Entry
  BY <1>1 DEF Fits, Entry
<1>4. y \in Folder /\ \A m \in Entries : y[m] = IF m = k THEN x ELSE d.content[b][m]
  BY <1>2, <1>3 DEF Folder
<1>5. n \in Inode /\ n.type = d.inode[i].type /\ n.block_id = d.inode[i].block_id
        /\ n.size = d.inode[i].size /\ n.refcnt = d.inode[i].refcnt + 1
  BY <1>1 DEF Inode
<1>6. e = [d EXCEPT !.inode = [d.inode EXCEPT ![i] = n], !.content = [d.content EXCEPT ![b] = y]]
  BY <1>1, <1>2 DEF Enter, blk, Disk
<1> HIDE DEF x, b, y, n, e
<1>7. e \in Disk /\ e.inode = [d.inode EXCEPT ![i] = n] /\ e.using = d.using
        /\ e.content = [d.content EXCEPT ![b] = y]
  BY <1>1, <1>2, <1>4, <1>5, <1>6 DEF Disk
<1>8. e.inode[i] = n /\ \A j \in Id : j # i => e.inode[j] = d.inode[j]
  BY <1>1, <1>7 DEF Disk
<1>9. e.content[b] = y /\ \A c \in Block : c # b => e.content[c] = d.content[c]
  BY <1>1, <1>2, <1>7 DEF Disk
<1>10. Entered(d, e, dir, k, name, i)
  BY <1>4, <1>5, <1>7, <1>8, <1>9 DEF Entered, Counted, Rewritten, x, b
<1> QED
  BY <1>7, <1>10 DEF e

LEMMA EnteredIds ==
  ASSUME NEW d, Sound(d), NEW e \in Disk, NEW dir, NEW k, NEW name, NEW i \in Live(d),
         Entered(d, e, dir, k, name, i)
  PROVE  /\ Live(e) = Live(d) /\ Dirs(e) = Dirs(d)
         /\ \A j \in Id : /\ blk(e, j) = blk(d, j) /\ e.inode[j].size = d.inode[j].size
                          /\ e.inode[j].type = d.inode[j].type
<1>1. \A j \in Id : /\ e.inode[j].type = d.inode[j].type
                    /\ e.inode[j].block_id = d.inode[j].block_id
                    /\ e.inode[j].size = d.inode[j].size
  BY DEF Entered, Counted
<1> QED
  BY <1>1 DEF Live, Dirs, IsDir, blk

\* Blocks other than the directory's are as they were.
LEMMA RewrittenOthers ==
  ASSUME NEW d, Sound(d), NEW e, NEW dir \in Dirs(d), blk(d, dir) # none, NEW k, NEW x,
         Rewritten(d, e, blk(d, dir), k, x)
  PROVE  \A j \in Live(d) : j # dir /\ blk(d, j) # none => e.content[blk(d, j)] = d.content[blk(d, j)]
<1> SUFFICES ASSUME NEW j \in Live(d), j # dir, blk(d, j) # none
             PROVE  e.content[blk(d, j)] = d.content[blk(d, j)]
  OBVIOUS
<1>1. d \in Disk /\ d.inode[j] \in Inode
  BY LiveIs DEF Sound
<1>2. blk(d, j) \in Block
  BY <1>1 DEF Inode, blk
<1>3. dir \in Live(d)
  BY <1>1, LiveIs
<1>4. blk(d, j) # blk(d, dir)
  BY <1>3 DEF Sound, Owned
<1> QED
  BY <1>2, <1>4 DEF Rewritten

LEMMA EnteredSound ==
  ASSUME NEW d, Sound(d), NEW e \in Disk, NEW dir, NEW k, NEW name, NEW i \in Live(d),
         Fits(d, dir, k, name), Entered(d, e, dir, k, name, i)
  PROVE  Sound(e)
<1>1. d \in Disk /\ Live(d) \subseteq Id /\ Dirs(d) \subseteq Live(d) /\ i \in Id
  BY LiveIs DEF Sound
<1>2. /\ Live(e) = Live(d) /\ Dirs(e) = Dirs(d) /\ e.using = d.using
      /\ \A j \in Id : /\ blk(e, j) = blk(d, j) /\ e.inode[j].size = d.inode[j].size
                       /\ e.inode[j].type = d.inode[j].type
  BY EnteredIds DEF Entered
<1>3. \A j \in Live(d) : j # dir /\ blk(d, j) # none => e.content[blk(d, j)] = d.content[blk(d, j)]
  BY RewrittenOthers DEF Fits, Entered
<1>4. Owned(e)
  BY <1>1, <1>2 DEF Sound, Owned
<1>5. Tree(e)
  <2>1. IsDir(e, 0)
    BY <1>2, Sizes DEF Sound, Tree, IsDir
  <2>2. ASSUME NEW j \in Dirs(e), blk(e, j) # none PROVE Tidy(e.content[blk(e, j)], Live(e))
    <3>1. blk(d, j) # none /\ j \in Dirs(d) /\ blk(e, j) = blk(d, j)
      BY <1>1, <1>2, <2>2
    <3>2. Tidy(d.content[blk(d, j)], Live(d))
      BY <3>1, FolderIs
    <3>3. CASE j # dir
      BY <1>1, <1>2, <1>3, <3>1, <3>2, <3>3
    <3>4. CASE j = dir
      <4> DEFINE old == d.content[blk(d, j)]
                 new == e.content[blk(d, j)]
                 x   == [name |-> name, inode_id |-> i]
      <4>1. new \in Folder /\ \A m \in Entries : new[m] = IF m = k THEN x ELSE old[m]
        BY <3>4 DEF Entered, Rewritten
      <4>2. x.name = name /\ x.inode_id = i
        OBVIOUS
      <4>3. \A m \in Entries : old[m] # Free => old[m].name # name
        BY <3>4 DEF Fits
      <4> HIDE DEF old, new, x
      <4>4. \A m \in Entries : new[m] # Free => new[m].inode_id \in Live(d)
        BY <3>2, <4>1, <4>2 DEF Tidy, old
      <4>5. \A m, n \in Entries : new[m] # Free /\ new[n] # Free /\ new[m].name = new[n].name => m = n
        BY <3>2, <4>1, <4>2, <4>3 DEF Tidy, old
      <4> QED
        BY <1>2, <3>1, <4>1, <4>4, <4>5 DEF Tidy, new
    <3> QED
      BY <3>3, <3>4
  <2> QED
    BY <2>1, <2>2 DEF Tree
<1>6. Written(e)
  <2>1. ASSUME NEW j \in Live(e) PROVE /\ Holds(e, j, blk(e, j), e.inode[j].size)
                                       /\ IsDir(e, j) => e.inode[j].size = 0
    <3>1. Holds(d, j, blk(d, j), d.inode[j].size) /\ (IsDir(d, j) => d.inode[j].size = 0)
      BY <1>2 DEF Sound, Written
    <3>2. j \in Id /\ j \in Live(d)
      BY <1>1, <1>2
    <3>3. CASE j = dir
      BY <1>2, <3>1, <3>2, <3>3 DEF Fits, Dirs, Holds, IsDir
    <3>4. CASE j # dir
      BY <1>2, <1>3, <3>1, <3>2, <3>4, Sizes DEF Holds, IsDir
    <3> QED
      BY <3>3, <3>4
  <2> QED
    BY <2>1 DEF Written
<1> QED
  BY <1>4, <1>5, <1>6 DEF Sound

\* Where one more entry names inode i, it has one name more.
LEMMA OneMore ==
  ASSUME NEW d, NEW e, NEW i, NEW dir, NEW k, ~Naming(d, i, dir, k),
         \A j, q : Naming(e, i, j, q) <=> Naming(d, i, j, q) \/ (j = dir /\ q = k)
  PROVE  Names(e, i, Dirs(e)) = Names(d, i, Dirs(d)) + 1
<1> DEFINE old == NameSet(d, i, Dirs(d))
           new == NameSet(e, i, Dirs(e))
<1>1. Dirs(d) \in SUBSET Id /\ Dirs(e) \in SUBSET Id
  BY DEF Dirs
<1>2. IsFiniteSet(old) /\ Names(d, i, Dirs(d)) = Cardinality(old) /\ Names(e, i, Dirs(e)) = Cardinality(new)
  BY <1>1, NamesIs
<1>3. \A j, q : <<j, q>> \in old <=> Naming(d, i, j, q)
  BY NameSetIs
<1>4. \A j, q : <<j, q>> \in new <=> Naming(e, i, j, q)
  BY NameSetIs
<1>5. \A x \in old \cup new : x = <<x[1], x[2]>>
  BY DEF NameSet
<1> HIDE DEF old, new
<1>6. new = old \cup {<<dir, k>>}
  <2>1. ASSUME NEW x \in new PROVE x \in old \cup {<<dir, k>>}
    BY <1>3, <1>4, <1>5
  <2>2. ASSUME NEW x \in old \cup {<<dir, k>>} PROVE x \in new
    BY <1>3, <1>4, <1>5
  <2> QED
    BY <2>1, <2>2
<1>7. <<dir, k>> \notin old
  BY <1>3
<1> QED
  BY <1>2, <1>6, <1>7, FS_AddElement

LEMMA EnteredNaming ==
  ASSUME NEW d, Sound(d), NEW e \in Disk, NEW dir, NEW k, NEW name, NEW i \in Live(d),
         Fits(d, dir, k, name), Entered(d, e, dir, k, name, i), NEW m \in Id
  PROVE  \A j, q : Naming(e, m, j, q) <=> Naming(d, m, j, q) \/ (m = i /\ j = dir /\ q = k)
<1> SUFFICES ASSUME NEW j, NEW q
             PROVE Naming(e, m, j, q) <=> Naming(d, m, j, q) \/ (m = i /\ j = dir /\ q = k)
  OBVIOUS
<1>1. Dirs(e) = Dirs(d) /\ \A h \in Id : blk(e, h) = blk(d, h)
  BY EnteredIds
<1>2. Dirs(d) \subseteq Live(d) /\ Live(d) \subseteq Id
  BY LiveIs DEF Sound
<1>3. CASE j \in Dirs(d) /\ q \in Entries /\ blk(d, j) # none
  <2>1. blk(e, j) = blk(d, j) /\ j \in Dirs(e)
    BY <1>1, <1>2, <1>3
  <2>2. CASE j = dir
    <3> DEFINE x == [name |-> name, inode_id |-> i]
    <3>1. e.content[blk(d, j)][q] = IF q = k THEN x ELSE d.content[blk(d, j)][q]
      BY <1>3, <2>2 DEF Entered, Rewritten
    <3>2. x.inode_id = i
      OBVIOUS
    <3>3. d.content[blk(d, j)][k].inode_id # m
      BY <2>2, Sizes DEF Fits, Free
    <3> HIDE DEF x
    <3>4. CASE q = k
      <4>1. Naming(e, m, j, q) <=> m = i
        BY <1>3, <2>1, <3>1, <3>2, <3>4 DEF Naming
      <4>2. ~Naming(d, m, j, q)
        BY <3>3, <3>4 DEF Naming
      <4> QED
        BY <2>2, <3>4, <4>1, <4>2
    <3>5. CASE q # k
      BY <1>3, <2>1, <3>1, <3>5 DEF Naming
    <3> QED
      BY <3>4, <3>5
  <2>3. CASE j # dir
    <3>1. e.content[blk(d, j)] = d.content[blk(d, j)]
      BY <1>2, <1>3, <2>3, RewrittenOthers DEF Fits, Entered
    <3> QED
      BY <1>3, <2>1, <2>3, <3>1 DEF Naming
  <2> QED
    BY <2>2, <2>3
<1>4. CASE ~(j \in Dirs(d) /\ q \in Entries /\ blk(d, j) # none)
  BY <1>1, <1>2, <1>4 DEF Naming, Fits
<1> QED
  BY <1>3, <1>4

LEMMA EnteredCounts ==
  ASSUME NEW d, Sound(d), NEW e \in Disk, NEW dir, NEW k, NEW name, NEW i \in Live(d),
         Fits(d, dir, k, name), Entered(d, e, dir, k, name, i), NEW l, Counts(d, l)
  PROVE  Counts(e, l)
<1>1. Live(e) = Live(d)
  BY EnteredIds
<1>2. Live(d) \subseteq Id /\ d \in Disk
  BY LiveIs DEF Sound
<1>3. ASSUME NEW m \in Live(e)
      PROVE  e.inode[m].refcnt = Names(e, m, Dirs(e)) + l[m] + (IF m = 0 THEN 1 ELSE 0)
  <2>1. m \in Live(d) /\ m \in Id
    BY <1>1, <1>2
  <2>2. d.inode[m].refcnt = Names(d, m, Dirs(d)) + l[m] + (IF m = 0 THEN 1 ELSE 0)
    BY <2>1 DEF Counts
  <2>3. \A j, q : Naming(e, m, j, q) <=> Naming(d, m, j, q) \/ (m = i /\ j = dir /\ q = k)
    BY <2>1, EnteredNaming
  <2>4. CASE m = i
    <3>1. ~Naming(d, m, dir, k)
      BY <2>1, Sizes DEF Naming, Fits, Free
    <3>2. Names(e, m, Dirs(e)) = Names(d, m, Dirs(d)) + 1
      BY <2>3, <2>4, <3>1, OneMore
    <3>3. Names(d, m, Dirs(d)) \in Nat /\ l[m] \in Nat
      <4>1. Dirs(d) \in SUBSET Id
        BY DEF Dirs
      <4> QED
        BY <2>1, <4>1, NamesIs DEF Counts
    <3>4. e.inode[m].refcnt = d.inode[m].refcnt + 1
      BY <2>4 DEF Entered, Counted
    <3> QED
      BY <2>2, <3>2, <3>3, <3>4
  <2>5. CASE m # i
    <3>1. Names(e, m, Dirs(e)) = Names(d, m, Dirs(d))
      BY <2>3, <2>5, SameNames
    <3>2. e.inode[m] = d.inode[m]
      BY <2>1, <2>5 DEF Entered
    <3> QED
      BY <2>2, <3>1, <3>2
  <2> QED
    BY <2>4, <2>5
<1> QED
  BY <1>1, <1>3 DEF Counts

----------------------------------------------------------------------------
(* An inode loses a name, and goes with its last. *)

\* Entry k of directory dir names inode i.
Points(d, dir, k, i) ==
  /\ dir \in Dirs(d) /\ blk(d, dir) # none /\ k \in Entries
  /\ d.content[blk(d, dir)][k] # Free /\ d.content[blk(d, dir)][k].inode_id = i

\* e is d without the entry k of directory dir, where i has other names.
Struck(d, e, dir, k, i) ==
  /\ Counted(d, e, i, d.inode[i].refcnt - 1)
  /\ \A j \in Id : j # i => e.inode[j] = d.inode[j]
  /\ e.using = d.using
  /\ Rewritten(d, e, blk(d, dir), k, Free)

\* e is d without the entry k of directory dir and without the inode i.
Freed(d, e, dir, k, i) ==
  /\ e.inode[i] = EMPTY
  /\ \A j \in Id : j # i => e.inode[j] = d.inode[j]
  /\ \A c \in Block : e.using[c] <=> d.using[c] /\ c # blk(d, i)
  /\ Rewritten(d, e, blk(d, dir), k, Free)

LEMMA PointsIs ==
  ASSUME NEW d, Sound(d), NEW dir, NEW k, NEW i, Points(d, dir, k, i)
  PROVE  i \in Live(d) /\ i \in Id /\ Naming(d, i, dir, k) /\ d.inode[i] \in Inode
<1>1. Tidy(d.content[blk(d, dir)], Live(d))
  BY FolderIs DEF Points
<1>2. i \in Live(d)
  BY <1>1 DEF Points, Tidy
<1>3. d \in Disk
  BY DEF Sound
<1> QED
  BY <1>2, <1>3, LiveIs DEF Naming, Points

\* Such an inode counts a name; if it counts one only, no other entry names it.
LEMMA PointsCounts ==
  ASSUME NEW d, Sound(d), NEW dir, NEW k, NEW i, Points(d, dir, k, i), NEW l, Counts(d, l)
  PROVE  /\ d.inode[i].refcnt \in Nat \ {0}
         /\ d.inode[i].refcnt = 1 => /\ i # 0
                                     /\ \A j, q : Naming(d, i, j, q) => j = dir /\ q = k
<1> DEFINE s == NameSet(d, i, Dirs(d))
           c == Cardinality(s)
<1>1. i \in Live(d) /\ i \in Id /\ Naming(d, i, dir, k)
  BY PointsIs
<1>2. Dirs(d) \in SUBSET Id
  BY DEF Dirs
<1>3. IsFiniteSet(s) /\ Names(d, i, Dirs(d)) = c /\ c \in Nat
  BY <1>1, <1>2, NamesIs
<1>4. d.inode[i].refcnt = c + l[i] + (IF i = 0 THEN 1 ELSE 0) /\ l[i] \in Nat
  BY <1>1, <1>3 DEF Counts
<1>5. \A j, q : <<j, q>> \in s <=> Naming(d, i, j, q)
  BY NameSetIs
<1>6. c # 0
  <2>1. s # {}
    BY <1>1, <1>5
  <2> QED
    BY <1>3, <2>1, FS_EmptySet
<1>7. ASSUME d.inode[i].refcnt = 1, NEW j, NEW q, Naming(d, i, j, q) PROVE j = dir /\ q = k
  <2>1. c = 1
    BY <1>3, <1>4, <1>6, <1>7
  <2>2. \E x : s = {x}
    BY <1>3, <2>1, FS_Singleton
  <2>3. <<j, q>> \in s /\ <<dir, k>> \in s
    BY <1>1, <1>5, <1>7
  <2> QED
    BY <2>2, <2>3
<1>8. d.inode[i].refcnt = 1 => i # 0
  BY <1>3, <1>4, <1>6
<1> QED
  BY <1>3, <1>4, <1>6, <1>7, <1>8

LEMMA StruckIds ==
  ASSUME NEW d, NEW e, NEW dir, NEW k, NEW i, Struck(d, e, dir, k, i)
  PROVE  /\ Live(e) = Live(d) /\ Dirs(e) = Dirs(d)
         /\ \A j \in Id : /\ blk(e, j) = blk(d, j) /\ e.inode[j].size = d.inode[j].size
                          /\ e.inode[j].type = d.inode[j].type
<1>1. \A j \in Id : /\ e.inode[j].type = d.inode[j].type
                    /\ e.inode[j].block_id = d.inode[j].block_id
                    /\ e.inode[j].size = d.inode[j].size
  BY DEF Struck, Counted
<1> QED
  BY <1>1 DEF Live, Dirs, IsDir, blk

\* Without an entry a directory's block is as tidy as it was.
LEMMA TidyWithout ==
  ASSUME NEW d, NEW e, NEW b, NEW k, NEW ids, Tidy(d.content[b], ids), Rewritten(d, e, b, k, Free)
  PROVE  /\ Tidy(e.content[b], ids)
         /\ \A m \in Entries : e.content[b][m] # Free =>
              m # k /\ e.content[b][m] = d.content[b][m]
<1>1. e.content[b] \in Folder /\ \A m \in Entries : e.content[b][m] = IF m = k THEN Free ELSE d.content[b][m]
  BY DEF Rewritten
<1> QED
  BY <1>1 DEF Tidy

LEMMA StruckSound ==
  ASSUME NEW d, Sound(d), NEW e \in Disk, NEW dir, NEW k, NEW i, Points(d, dir, k, i),
         Struck(d, e, dir, k, i)
  PROVE  Sound(e)
<1>1. d \in Disk /\ Live(d) \subseteq Id /\ Dirs(d) \subseteq Live(d) /\ i \in Id
  BY LiveIs, PointsIs DEF Sound
<1>2. /\ Live(e) = Live(d) /\ Dirs(e) = Dirs(d) /\ e.using = d.using
      /\ \A j \in Id : /\ blk(e, j) = blk(d, j) /\ e.inode[j].size = d.inode[j].size
                       /\ e.inode[j].type = d.inode[j].type
  BY StruckIds DEF Struck
<1>3. \A j \in Live(d) : j # dir /\ blk(d, j) # none => e.content[blk(d, j)] = d.content[blk(d, j)]
  BY RewrittenOthers DEF Points, Struck
<1>4. Owned(e)
  BY <1>1, <1>2 DEF Sound, Owned
<1>5. Tree(e)
  <2>1. IsDir(e, 0)
    BY <1>2, Sizes DEF Sound, Tree, IsDir
  <2>2. ASSUME NEW j \in Dirs(e), blk(e, j) # none PROVE Tidy(e.content[blk(e, j)], Live(e))
    <3>1. blk(d, j) # none /\ j \in Dirs(d) /\ blk(e, j) = blk(d, j)
      BY <1>1, <1>2, <2>2
    <3>2. Tidy(d.content[blk(d, j)], Live(d))
      BY <3>1, FolderIs
    <3>3. CASE j # dir
      BY <1>1, <1>2, <1>3, <3>1, <3>2, <3>3
    <3>4. CASE j = dir
      BY <1>2, <3>1, <3>2, <3>4, TidyWithout DEF Struck
    <3> QED
      BY <3>3, <3>4
  <2> QED
    BY <2>1, <2>2 DEF Tree
<1>6. Written(e)
  <2>1. ASSUME NEW j \in Live(e) PROVE /\ Holds(e, j, blk(e, j), e.inode[j].size)
                                       /\ IsDir(e, j) => e.inode[j].size = 0
    <3>1. Holds(d, j, blk(d, j), d.inode[j].size) /\ (IsDir(d, j) => d.inode[j].size = 0)
      BY <1>2 DEF Sound, Written
    <3>2. j \in Id /\ j \in Live(d)
      BY <1>1, <1>2
    <3>3. CASE j = dir
      BY <1>2, <3>1, <3>2, <3>3 DEF Points, Dirs, Holds, IsDir
    <3>4. CASE j # dir
      BY <1>2, <1>3, <3>1, <3>2, <3>4, Sizes DEF Holds, IsDir
    <3> QED
      BY <3>3, <3>4
  <2> QED
    BY <2>1 DEF Written
<1> QED
  BY <1>4, <1>5, <1>6 DEF Sound

LEMMA WithoutNaming ==
  ASSUME NEW d, Sound(d), NEW e, NEW dir \in Dirs(d), blk(d, dir) # none, NEW k,
         Rewritten(d, e, blk(d, dir), k, Free),
         NEW j \in Dirs(d), j \in Dirs(e), blk(e, j) = blk(d, j), NEW m \in Id, NEW q
  PROVE  Naming(e, m, j, q) <=> Naming(d, m, j, q) /\ ~(j = dir /\ q = k)
<1>1. j \in Live(d)
  BY LiveIs DEF Sound
<1>2. CASE q \in Entries /\ blk(d, j) # none
  <2>1. CASE j = dir
    <3>1. e.content[blk(d, j)][q] = IF q = k THEN Free ELSE d.content[blk(d, j)][q]
      BY <1>2, <2>1 DEF Rewritten
    <3>2. Free.inode_id # m
      BY Sizes DEF Free
    <3>3. CASE q = k
      <4>1. ~Naming(e, m, j, q)
        BY <3>1, <3>2, <3>3 DEF Naming
      <4> QED
        BY <2>1, <3>3, <4>1
    <3>4. CASE q # k
      BY <1>2, <2>1, <3>1, <3>4 DEF Naming
    <3> QED
      BY <3>3, <3>4
  <2>2. CASE j # dir
    <3>1. e.content[blk(d, j)] = d.content[blk(d, j)]
      BY <1>1, <1>2, <2>2, RewrittenOthers
    <3> QED
      BY <1>2, <2>2, <3>1 DEF Naming
  <2> QED
    BY <2>1, <2>2
<1>3. CASE ~(q \in Entries /\ blk(d, j) # none)
  BY <1>3 DEF Naming
<1> QED
  BY <1>2, <1>3

LEMMA StruckCounts ==
  ASSUME NEW d, Sound(d), NEW e \in Disk, NEW dir, NEW k, NEW i, Points(d, dir, k, i),
         Struck(d, e, dir, k, i), NEW l, Counts(d, l)
  PROVE  Counts(e, l)
<1>1. /\ Live(e) = Live(d) /\ Dirs(e) = Dirs(d)
      /\ \A j \in Id : blk(e, j) = blk(d, j)
  BY StruckIds
<1>2. Live(d) \subseteq Id /\ Dirs(d) \subseteq Live(d) /\ Dirs(d) \in SUBSET Id /\ Dirs(e) \in SUBSET Id
  BY LiveIs DEF Sound, Dirs
<1>3. ASSUME NEW m \in Live(e)
      PROVE  e.inode[m].refcnt = Names(e, m, Dirs(e)) + l[m] + (IF m = 0 THEN 1 ELSE 0)
  <2>1. m \in Live(d) /\ m \in Id
    BY <1>1, <1>2
  <2>2. d.inode[m].refcnt = Names(d, m, Dirs(d)) + l[m] + (IF m = 0 THEN 1 ELSE 0)
    BY <2>1 DEF Counts
  <2>3. ASSUME NEW j, NEW q
        PROVE  Naming(e, m, j, q) <=> Naming(d, m, j, q) /\ ~(j = dir /\ q = k)
    <3>1. CASE j \in Dirs(d)
      BY <1>1, <1>2, <2>1, <3>1, WithoutNaming DEF Points, Struck
    <3>2. CASE j \notin Dirs(d)
      BY <1>1, <3>2 DEF Naming
    <3> QED
      BY <3>1, <3>2
  <2>4. Names(e, m, Dirs(e)) \in Nat /\ l[m] \in Nat
    BY <1>2, <2>1, NamesIs DEF Counts
  <2>5. CASE m = i
    <3>1. ~Naming(e, m, dir, k) /\ Naming(d, m, dir, k)
      BY <2>3, <2>5, PointsIs
    <3>2. Names(d, m, Dirs(d)) = Names(e, m, Dirs(e)) + 1
      BY <2>3, <3>1, OneMore
    <3>3. e.inode[m].refcnt = d.inode[m].refcnt - 1
      BY <2>5 DEF Struck, Counted
    <3> QED
      BY <2>2, <2>4, <3>2, <3>3
  <2>6. CASE m # i
    <3>1. ~Naming(d, m, dir, k)
      BY <2>6 DEF Naming, Points
    <3>2. Names(e, m, Dirs(e)) = Names(d, m, Dirs(d))
      BY <2>3, <3>1, SameNames
    <3>3. e.inode[m] = d.inode[m]
      BY <2>1, <2>6 DEF Struck
    <3> QED
      BY <2>2, <3>2, <3>3
  <2> QED
    BY <2>5, <2>6
<1> QED
  BY <1>1, <1>3 DEF Counts

LEMMA FreedIds ==
  ASSUME NEW d \in Disk, NEW e, NEW dir, NEW k, NEW i \in Live(d), Freed(d, e, dir, k, i)
  PROVE  /\ Live(e) = Live(d) \ {i} /\ Dirs(e) = Dirs(d) \ {i}
         /\ \A j \in Live(e) : blk(e, j) = blk(d, j) /\ e.inode[j] = d.inode[j]
<1>1. e.inode[i].type = "EMPTY" /\ \A j \in Id : j # i => e.inode[j] = d.inode[j]
  BY DEF Freed, EMPTY
<1> QED
  BY <1>1 DEF Live, Dirs, IsDir, blk

LEMMA FreedSound ==
  ASSUME NEW d, Sound(d), NEW e \in Disk, NEW dir, NEW k, NEW i, Points(d, dir, k, i),
         Freed(d, e, dir, k, i), NEW l, Counts(d, l), d.inode[i].refcnt = 1
  PROVE  Sound(e)
<1>1. d \in Disk /\ Live(d) \subseteq Id /\ Dirs(d) \subseteq Live(d) /\ i \in Live(d) /\ i \in Id
  BY LiveIs, PointsIs DEF Sound
<1>2. /\ Live(e) = Live(d) \ {i} /\ Dirs(e) = Dirs(d) \ {i}
      /\ \A j \in Live(e) : blk(e, j) = blk(d, j) /\ e.inode[j] = d.inode[j]
  BY <1>1, FreedIds
<1>3. \A j \in Live(d) : j # dir /\ blk(d, j) # none => e.content[blk(d, j)] = d.content[blk(d, j)]
  BY RewrittenOthers DEF Points, Freed
<1>4. i # 0 /\ \A j, q : Naming(d, i, j, q) => j = dir /\ q = k
  BY PointsCounts
<1>5. \A j \in Live(e) : j # i /\ j \in Live(d) /\ (blk(d, j) # none => blk(d, j) # blk(d, i) /\ blk(d, j) \in Block)
  <2> SUFFICES ASSUME NEW j \in Live(e)
               PROVE  j # i /\ j \in Live(d) /\ (blk(d, j) # none => blk(d, j) # blk(d, i) /\ blk(d, j) \in Block)
    OBVIOUS
  <2>1. j # i /\ j \in Live(d) /\ d.inode[j] \in Inode
    BY <1>1, <1>2, LiveIs
  <2> QED
    BY <1>1, <2>1 DEF Sound, Owned, blk, Inode
<1>6. Owned(e)
  <2>1. \A j \in Live(e) : blk(e, j) # none => e.using[blk(e, j)]
    BY <1>2, <1>5 DEF Sound, Owned, Freed
  <2>2. ASSUME NEW c \in Block, e.using[c] PROVE \E j \in Live(e) : blk(e, j) = c
    <3>1. d.using[c] /\ c # blk(d, i)
      BY <2>2 DEF Freed
    <3>2. PICK j \in Live(d) : blk(d, j) = c
      BY <3>1 DEF Sound, Owned
    <3> QED
      BY <1>2, <3>1, <3>2
  <2>3. \A j, h \in Live(e) : blk(e, j) # none /\ blk(e, j) = blk(e, h) => j = h
    BY <1>2, <1>5 DEF Sound, Owned
  <2> QED
    BY <2>1, <2>2, <2>3 DEF Owned
<1>7. Tree(e)
  <2>1. IsDir(e, 0)
    BY <1>4, Sizes DEF Sound, Tree, IsDir, Freed
  <2>2. ASSUME NEW j \in Dirs(e), blk(e, j) # none PROVE Tidy(e.content[blk(e, j)], Live(e))
    <3>1. j \in Live(e) /\ j \in Live(d) /\ blk(e, j) = blk(d, j) /\ j \in Dirs(d) /\ blk(d, j) # none
      BY <1>1, <1>2, <2>2
    <3>2. Tidy(d.content[blk(d, j)], Live(d))
      BY <3>1, FolderIs
    <3> DEFINE new == e.content[blk(d, j)]
    <3>3. Tidy(new, Live(d))
      <4>1. CASE j # dir
        BY <1>3, <3>1, <3>2, <4>1
      <4>2. CASE j = dir
        BY <3>2, <4>2, TidyWithout DEF Freed
      <4> QED
        BY <4>1, <4>2
    <3>4. ASSUME NEW m \in Entries, new[m] # Free PROVE new[m].inode_id # i
      <4>1. SUFFICES ASSUME new[m].inode_id = i PROVE FALSE
        OBVIOUS
      <4>2. Naming(e, i, j, m)
        BY <2>2, <3>1, <4>1 DEF Naming
      <4>3. Naming(d, i, j, m) /\ ~(j = dir /\ m = k)
        BY <1>1, <2>2, <3>1, <4>2, WithoutNaming DEF Points, Freed
      <4> QED
        BY <1>4, <4>3
    <3> QED
      BY <1>2, <3>1, <3>3, <3>4 DEF Tidy
  <2> QED
    BY <2>1, <2>2 DEF Tree
<1>8. Written(e)
  <2>1. ASSUME NEW j \in Live(e) PROVE /\ Holds(e, j, blk(e, j), e.inode[j].size)
                                       /\ IsDir(e, j) => e.inode[j].size = 0
    <3>1. j \in Live(d) /\ e.inode[j] = d.inode[j] /\ blk(e, j) = blk(d, j)
      BY <1>2, <1>5
    <3>2. Holds(d, j, blk(d, j), d.inode[j].size) /\ (IsDir(d, j) => d.inode[j].size = 0)
      BY <3>1 DEF Sound, Written
    <3>3. CASE j = dir
      BY <3>1, <3>2, <3>3 DEF Points, Dirs, Holds, IsDir
    <3>4. CASE j # dir
      BY <1>3, <3>1, <3>2, <3>4, Sizes DEF Holds, IsDir
    <3> QED
      BY <3>3, <3>4
  <2> QED
    BY <2>1 DEF Written
<1> QED
  BY <1>6, <1>7, <1>8 DEF Sound

\* What Leave makes of the names lost.
Lost(d, e, l) == [m \in Id |-> IF e.inode[m] = EMPTY THEN 0 ELSE l[m] + Names(d, m, Dirs(d) \ Dirs(e))]

LEMMA NothingLost ==
  ASSUME NEW d, NEW e \in Disk, Dirs(d) \subseteq Dirs(e), NEW l, Counts(e, l)
  PROVE  Lost(d, e, l) = l
<1>1. Dirs(d) \ Dirs(e) = {}
  OBVIOUS
<1>2. ASSUME NEW m \in Id
      PROVE  (IF e.inode[m] = EMPTY THEN 0 ELSE l[m] + Names(d, m, Dirs(d) \ Dirs(e))) = l[m]
  <2>1. Names(d, m, Dirs(d) \ Dirs(e)) = 0
    BY <1>1, NoNames
  <2>2. l[m] \in Nat /\ (m \notin Live(e) => l[m] = 0)
    BY DEF Counts
  <2>3. e.inode[m] = EMPTY => m \notin Live(e)
    BY LiveIs DEF EMPTY, Live
  <2> QED
    BY <2>1, <2>2, <2>3
<1>3. l = [m \in Id |-> l[m]]
  BY DEF Counts
<1>4. Lost(d, e, l) = [m \in Id |-> l[m]]
  BY <1>2, Zenon DEF Lost
<1> QED
  BY <1>3, <1>4

LEMMA FreedCounts ==
  ASSUME NEW d, Sound(d), NEW e \in Disk, NEW dir, NEW k, NEW i, Points(d, dir, k, i),
         Freed(d, e, dir, k, i), NEW l, Counts(d, l), d.inode[i].refcnt = 1
  PROVE  Counts(e, Lost(d, e, l))
<1> DEFINE n == Lost(d, e, l)
           gone == Dirs(d) \ Dirs(e)
<1>1. d \in Disk /\ Live(d) \subseteq Id /\ Dirs(d) \subseteq Live(d) /\ i \in Live(d) /\ i \in Id
  BY LiveIs, PointsIs DEF Sound
<1>2. /\ Live(e) = Live(d) \ {i} /\ Dirs(e) = Dirs(d) \ {i}
      /\ \A j \in Live(e) : blk(e, j) = blk(d, j) /\ e.inode[j] = d.inode[j]
  BY <1>1, FreedIds
<1>3. Dirs(d) \in SUBSET Id /\ Dirs(e) \in SUBSET Id /\ gone \in SUBSET Id
  BY DEF Dirs
<1>4. \A m \in Id : n[m] = IF e.inode[m] = EMPTY THEN 0 ELSE l[m] + Names(d, m, gone)
  BY DEF Lost
<1>5. \A m \in Id : e.inode[m] = EMPTY <=> m \notin Live(e)
  BY LiveIs DEF EMPTY, Live
<1>6. \A m \in Id : Names(d, m, gone) \in Nat /\ l[m] \in Nat
  BY <1>3, NamesIs DEF Counts
<1>7. n \in [Id -> Nat]
  BY <1>6 DEF Lost
<1>8. ASSUME NEW m \in Live(e)
      PROVE  e.inode[m].refcnt = Names(e, m, Dirs(e)) + n[m] + (IF m = 0 THEN 1 ELSE 0)
  <2> DEFINE all == NameSet(d, m, Dirs(d))
             new == NameSet(e, m, Dirs(e))
             off == NameSet(d, m, gone)
  <2>1. m \in Live(d) /\ m \in Id /\ m # i
    BY <1>1, <1>2
  <2>2. d.inode[m].refcnt = Names(d, m, Dirs(d)) + l[m] + (IF m = 0 THEN 1 ELSE 0)
    BY <2>1 DEF Counts
  <2>3. /\ IsFiniteSet(new) /\ IsFiniteSet(off)
        /\ Names(d, m, Dirs(d)) = Cardinality(all)
        /\ Names(e, m, Dirs(e)) = Cardinality(new) /\ Cardinality(new) \in Nat
        /\ Names(d, m, gone) = Cardinality(off) /\ Cardinality(off) \in Nat
    BY <1>3, NamesIs, FS_CardinalityType
  <2>4. \A j, q : <<j, q>> \in all <=> Naming(d, m, j, q)
    BY NameSetIs
  <2>5. \A j, q : <<j, q>> \in new <=> Naming(e, m, j, q)
    BY NameSetIs
  <2>6. \A j, q : <<j, q>> \in off <=> Naming(d, m, j, q) /\ j \notin Dirs(e)
    BY DEF NameSet, Naming, Items, blk
  <2>7. ASSUME NEW j \in Dirs(e), NEW q PROVE Naming(e, m, j, q) <=> Naming(d, m, j, q)
    <3>1. j \in Dirs(d) /\ blk(e, j) = blk(d, j)
      <4>1. j \in Live(e)
        BY <1>1, <1>2
      <4> QED
        BY <1>2, <4>1
    <3>2. ~Naming(d, m, dir, k)
      BY <2>1 DEF Naming, Points
    <3>3. Naming(e, m, j, q) <=> Naming(d, m, j, q) /\ ~(j = dir /\ q = k)
      BY <2>1, <3>1, WithoutNaming DEF Points, Freed
    <3> QED
      BY <3>2, <3>3
  <2>8. \A x \in all \cup new \cup off : x = <<x[1], x[2]>>
    BY DEF NameSet
  <2> HIDE DEF all, new, off
  <2>9. all = new \cup off /\ new \cap off = {}
    <3>1. \A j, q : Naming(e, m, j, q) => j \in Dirs(e)
      BY DEF Naming
    <3>2. ASSUME NEW x \in all PROVE x \in new \cup off
      BY <2>4, <2>5, <2>6, <2>7, <2>8
    <3>3. ASSUME NEW x \in new \cup off PROVE x \in all
      BY <2>4, <2>5, <2>6, <2>7, <2>8, <3>1
    <3>4. ASSUME NEW x \in new, x \in off PROVE FALSE
      BY <2>5, <2>6, <2>8, <3>1, <3>4
    <3> QED
      BY <3>2, <3>3, <3>4
  <2>10. Cardinality(all) = Cardinality(new) + Cardinality(off)
    <3>1. Cardinality(all) = Cardinality(new) + Cardinality(off) - Cardinality(new \cap off)
      BY <2>3, <2>9, FS_Union
    <3>2. Cardinality(new \cap off) = 0
      BY <2>9, FS_EmptySet
    <3> QED
      BY <2>3, <3>1, <3>2
  <2>11. n[m] = l[m] + Names(d, m, gone)
    BY <1>4, <1>5, <2>1
  <2>12. e.inode[m].refcnt = d.inode[m].refcnt
    BY <1>2
  <2>13. l[m] \in Nat
    BY <1>6, <2>1
  <2> HIDE DEF n, gone
  <2> QED
    BY <2>2, <2>3, <2>10, <2>11, <2>12, <2>13
<1>9. \A m \in Id \ Live(e) : n[m] = 0
  BY <1>4, <1>5
<1> QED
  BY <1>7, <1>8, <1>9 DEF Counts

----------------------------------------------------------------------------
(* The operations on directories. *)

\* The assertions that a sound image does not rule out.
Failures == {"not a directory", "no block", "no inode"}

\* Files but those of X are as they were.
Keeps(d, e, X) == \A j \in Live(d) \ X : ~IsDir(d, j) => Same(d, e, j)

\* No file gets shorter.
NoShorter(d, e) == \A j \in Id : e.inode[j].type = "FILE" => e.inode[j].size >= d.inode[j].size

\* What a call that makes or removes names does to a sound image.
Good(d, r, l, X) ==
  /\ Sound(r.disk) /\ Counts(r.disk, Lost(d, r.disk, l))
  /\ Keeps(d, r.disk, X) /\ NoShorter(d, r.disk)
  /\ r.bad \in Failures \cup {Fine}

LEMMA SameGood ==
  ASSUME NEW d, Sound(d), NEW l, Counts(d, l), NEW r, r.disk = d, r.bad \in Failures \cup {Fine}, NEW X
  PROVE  Good(d, r, l, X)
<1>1. d \in Disk
  BY DEF Sound
<1>2. Lost(d, d, l) = l
  BY <1>1, NothingLost
<1>3. Keeps(d, d, X)
  BY DEF Keeps, Same
<1>4. NoShorter(d, d)
  <2>1. ASSUME NEW j \in Id, d.inode[j].type = "FILE" PROVE d.inode[j].size >= d.inode[j].size
    <3>1. d.inode[j] \in Inode
      BY <1>1, <2>1, LiveIs DEF EMPTY
    <3> QED
      BY <3>1 DEF Inode
  <2> QED
    BY <2>1 DEF NoShorter
<1> QED
  BY <1>2, <1>3, <1>4 DEF Good

LEMMA FindIs ==
  ASSUME NEW items, NEW name
  PROVE  LET e == direntry_find_name(items, name)
         IN /\ e = none => \A m \in Entries : items[m] # Free => items[m].name # name
            /\ e # none => e \in Entries /\ items[e] # Free /\ items[e].name = name
<1> DEFINE S == {e \in Entries : items[e] # Free /\ items[e].name = name}
<1>1. S \in SUBSET Nat
  BY Sizes
<1>2. direntry_find_name(items, name) = Lowest(S)
  BY DEF direntry_find_name
<1> QED
  BY <1>1, <1>2, LowestIs

LEMMA BadIs ==
  ASSUME NEW d, NEW i \in Id
  PROVE  \/ Bad(d, i) \in Failures /\ Bad(d, i) # Fine
         \/ Bad(d, i) = Fine /\ i \in Dirs(d) /\ blk(d, i) # none
BY DEF Bad, Failures, Fine, Dirs, blk

\* Entry k of a directory is the one with that name.
Found(d, dir, name, k) == /\ k = direntry_find_name(d.content[blk(d, dir)], name) /\ k # none
                          /\ Bad(d, dir) = Fine

LEMMA FoundIs ==
  ASSUME NEW d, Sound(d), NEW dir \in Live(d), NEW name, NEW k, Found(d, dir, name, k)
  PROVE  Points(d, dir, k, d.content[blk(d, dir)][k].inode_id)
<1>1. dir \in Id
  BY LiveIs DEF Sound
<1>2. dir \in Dirs(d) /\ blk(d, dir) # none
  BY <1>1, BadIs DEF Found, Failures, Fine
<1> QED
  BY <1>2, FindIs DEF Found, Points

LEMMA GetIs ==
  ASSUME NEW d, Sound(d), NEW dir \in Live(d), NEW name
  PROVE  LET r == get_filedir(d, dir, name)
         IN /\ r.disk = d /\ r.bad \in Failures \cup {Fine} /\ r.res \in Live(d) \cup {none}
            /\ \A k : Found(d, dir, name, k) => r.res = d.content[blk(d, dir)][k].inode_id
<1> DEFINE items == d.content[blk(d, dir)]
           k == direntry_find_name(items, name)
           c == items[k].inode_id
           r == get_filedir(d, dir, name)
<1>1. r = IF Bad(d, dir) # Fine THEN Fail(d, Bad(d, dir))
          ELSE IF k = none THEN Done(d, none)
          ELSE IF c \notin Live(d) THEN Fail(d, "dangling") ELSE Done(d, c)
  BY DEF get_filedir, Items, blk
<1>2. dir \in Id
  BY LiveIs DEF Sound
<1>3. CASE Bad(d, dir) # Fine
  <2>1. r = Fail(d, Bad(d, dir)) /\ Bad(d, dir) \in Failures
    BY <1>1, <1>2, <1>3, BadIs
  <2> HIDE DEF r
  <2> QED
    BY <1>3, <2>1 DEF Fail, Found, r
<1>4. CASE Bad(d, dir) = Fine /\ k = none
  <2>1. r = Done(d, none)
    BY <1>1, <1>4
  <2> HIDE DEF r
  <2> QED
    BY <1>4, <2>1 DEF Done, Found, r
<1>5. CASE Bad(d, dir) = Fine /\ k # none
  <2>1. Found(d, dir, name, k)
    BY <1>5 DEF Found
  <2>2. c \in Live(d)
    BY <2>1, FoundIs, PointsIs
  <2>3. r = Done(d, c)
    BY <1>1, <1>5, <2>2
  <2>4. \A m : Found(d, dir, name, m) => m = k
    BY DEF Found
  <2> HIDE DEF r, k, c
  <2>5. r.disk = d /\ r.bad = Fine /\ r.res = c
    BY <2>3 DEF Done
  <2> QED
    BY <2>2, <2>4, <2>5 DEF r, c
<1> QED
  BY <1>3, <1>4, <1>5

LEMMA InodeUsed ==
  ASSUME NEW d, Sound(d), NEW i \in Live(d) PROVE ~Unused(d, i)
BY DEF Unused, Sound, Owned, blk

LEMMA FreedKeeps ==
  ASSUME NEW d, Sound(d), NEW e \in Disk, NEW dir, NEW k, NEW i, Points(d, dir, k, i),
         Freed(d, e, dir, k, i) \/ Struck(d, e, dir, k, i), NEW X, i \in X
  PROVE  Keeps(d, e, X) /\ NoShorter(d, e)
<1>1. d \in Disk /\ Live(d) \subseteq Id /\ dir \in Dirs(d) /\ blk(d, dir) # none
  BY LiveIs DEF Sound, Points
<1>2. Rewritten(d, e, blk(d, dir), k, Free) /\ \A j \in Id : j # i => e.inode[j] = d.inode[j]
  BY DEF Freed, Struck
<1>3. Keeps(d, e, X)
  <2>1. ASSUME NEW j \in Live(d) \ X, ~IsDir(d, j) PROVE Same(d, e, j)
    <3>1. j # dir /\ j # i /\ j \in Id
      BY <1>1, <2>1 DEF Dirs
    <3> QED
      BY <1>1, <1>2, <3>1, RewrittenOthers DEF Same
  <2> QED
    BY <2>1 DEF Keeps
<1>4. NoShorter(d, e)
  <2>1. ASSUME NEW j \in Id, e.inode[j].type = "FILE" PROVE e.inode[j].size >= d.inode[j].size
    <3>1. e.inode[j].size = d.inode[j].size
      BY <1>2, <2>1 DEF Freed, Struck, Counted, EMPTY
    <3>2. e.inode[j] \in Inode
      BY <2>1, LiveIs DEF EMPTY
    <3> QED
      BY <3>1, <3>2 DEF Inode
  <2> QED
    BY <2>1 DEF NoShorter
<1> QED
  BY <1>3, <1>4

LEMMA FreeIs ==
  ASSUME NEW d \in Disk, NEW i \in Id
  PROVE  LET e == inode_bfree(d, i)
         IN /\ e \in Disk /\ e.content = d.content /\ e.inode = [d.inode EXCEPT ![i] = EMPTY]
            /\ \A c \in Block : e.using[c] <=> d.using[c] /\ c # blk(d, i)
<1> DEFINE g == [c \in Block |-> d.using[c] /\ c # blk(d, i)]
           n == [d.inode EXCEPT ![i] = EMPTY]
<1>1. inode_bfree(d, i) = [d EXCEPT !.inode = n, !.using = g]
  BY DEF inode_bfree, blk, Disk
<1>2. g \in [Block -> BOOLEAN] /\ \A c \in Block : g[c] <=> d.using[c] /\ c # blk(d, i)
  OBVIOUS
<1>3. n \in [Id -> {EMPTY} \cup Inode]
  BY DEF Disk
<1> DEFINE e == [d EXCEPT !.inode = n, !.using = g]
<1> HIDE DEF g
<1>4. e.inode = n /\ e.using = g /\ e.content = d.content /\ e \in Disk
  BY <1>2, <1>3 DEF Disk
<1> QED
  BY <1>1, <1>2, <1>4

LEMMA LessIs ==
  ASSUME NEW d \in Disk, NEW i \in Id, d.inode[i] \in Inode, d.inode[i].refcnt \in Nat \ {0}
  PROVE  LET e == [d EXCEPT !.inode[i].refcnt = @ - 1]
         IN /\ e \in Disk /\ e.using = d.using /\ e.content = d.content
            /\ Counted(d, e, i, d.inode[i].refcnt - 1)
            /\ \A j \in Id : j # i => e.inode[j] = d.inode[j]
<1> DEFINE n == [d.inode[i] EXCEPT !.refcnt = @ - 1]
           e == [d EXCEPT !.inode = [d.inode EXCEPT ![i] = n]]
<1>1. n \in Inode /\ n.type = d.inode[i].type /\ n.block_id = d.inode[i].block_id
        /\ n.size = d.inode[i].size /\ n.refcnt = d.inode[i].refcnt - 1
  BY DEF Inode
<1>2. [d EXCEPT !.inode[i].refcnt = @ - 1] = e
  BY DEF Disk
<1> HIDE DEF n
<1>3. e \in Disk /\ e.inode = [d.inode EXCEPT ![i] = n] /\ e.using = d.using /\ e.content = d.content
  BY <1>1 DEF Disk
<1>4. e.inode[i] = n /\ \A j \in Id : j # i => e.inode[j] = d.inode[j]
  BY <1>3 DEF Disk
<1> HIDE DEF e
<1>5. Counted(d, e, i, d.inode[i].refcnt - 1)
  BY <1>1, <1>4 DEF Counted
<1> QED
  BY <1>2, <1>3, <1>4, <1>5

LEMMA BlankIs ==
  ASSUME NEW d \in Disk, NEW b \in Block, d.content[b] \in Folder, NEW k \in Entries
  PROVE  LET e == [d EXCEPT !.content[b][k] = Free]
         IN e \in Disk /\ e.inode = d.inode /\ e.using = d.using /\ Rewritten(d, e, b, k, Free)
<1> DEFINE y == [d.content[b] EXCEPT ![k] = Free]
           e == [d EXCEPT !.content = [d.content EXCEPT ![b] = y]]
<1>1. y \in Folder /\ \A m \in Entries : y[m] = IF m = k THEN Free ELSE d.content[b][m]
  BY DEF Folder, Entry
<1>2. [d EXCEPT !.content[b][k] = Free] = e
  BY DEF Disk
<1> HIDE DEF y
<1>3. e \in Disk /\ e.inode = d.inode /\ e.using = d.using /\ e.content = [d.content EXCEPT ![b] = y]
  BY <1>1 DEF Disk
<1>4. e.content[b] = y /\ \A c \in Block : c # b => e.content[c] = d.content[c]
  BY <1>3 DEF Disk
<1> HIDE DEF e
<1>5. Rewritten(d, e, b, k, Free)
  BY <1>1, <1>4 DEF Rewritten
<1> QED
  BY <1>2, <1>3, <1>5

LEMMA StrikeIs ==
  ASSUME NEW d, Sound(d), NEW dir, NEW k, NEW i, Points(d, dir, k, i), NEW l, Counts(d, l)
  PROVE  LET less == [d EXCEPT !.inode[i].refcnt = @ - 1]
             kept == IF less.inode[i].refcnt = 0 THEN inode_bfree(d, i) ELSE less
             e    == [kept EXCEPT !.content[d.inode[dir].block_id][k] = Free]
         IN /\ e \in Disk
            /\ \/ d.inode[i].refcnt = 1 /\ Freed(d, e, dir, k, i)
               \/ Struck(d, e, dir, k, i)
<1> DEFINE less == [d EXCEPT !.inode[i].refcnt = @ - 1]
           gone == inode_bfree(d, i)
           kept == IF less.inode[i].refcnt = 0 THEN gone ELSE less
           e    == [kept EXCEPT !.content[d.inode[dir].block_id][k] = Free]
           b    == blk(d, dir)
<1>1. d \in Disk /\ i \in Id /\ d.inode[i] \in Inode /\ d.inode[i].refcnt \in Nat \ {0}
  BY PointsIs, PointsCounts DEF Sound
<1>2. b \in Block /\ d.content[b] \in Folder /\ k \in Entries /\ d.inode[dir].block_id = b
  BY FolderIs DEF Points, blk
<1>3. /\ less \in Disk /\ less.using = d.using /\ less.content = d.content
      /\ Counted(d, less, i, d.inode[i].refcnt - 1)
      /\ \A j \in Id : j # i => less.inode[j] = d.inode[j]
  BY <1>1, LessIs
<1>4. /\ gone \in Disk /\ gone.content = d.content /\ gone.inode = [d.inode EXCEPT ![i] = EMPTY]
      /\ \A c \in Block : gone.using[c] <=> d.using[c] /\ c # blk(d, i)
  BY <1>1, FreeIs
<1> HIDE DEF less, gone, b
<1>5. kept \in Disk /\ kept.content = d.content
  BY <1>3, <1>4
<1>6. e = [kept EXCEPT !.content[b][k] = Free]
  BY <1>2
<1> HIDE DEF kept, e
<1>7. e \in Disk /\ e.inode = kept.inode /\ e.using = kept.using /\ Rewritten(kept, e, b, k, Free)
  BY <1>2, <1>5, <1>6, BlankIs
<1>8. Rewritten(d, e, blk(d, dir), k, Free)
  BY <1>5, <1>7 DEF Rewritten, b
<1>9. CASE less.inode[i].refcnt = 0
  <2>1. d.inode[i].refcnt = 1
    BY <1>1, <1>3, <1>9 DEF Counted
  <2>2. kept = gone
    BY <1>9 DEF kept
  <2>3. e.inode[i] = EMPTY /\ \A j \in Id : j # i => e.inode[j] = d.inode[j]
    BY <1>1, <1>4, <1>7, <2>2 DEF Disk
  <2>4. \A c \in Block : e.using[c] <=> d.using[c] /\ c # blk(d, i)
    BY <1>4, <1>7, <2>2
  <2>5. Freed(d, e, dir, k, i)
    BY <1>8, <2>3, <2>4 DEF Freed
  <2> QED
    BY <1>7, <2>1, <2>5 DEF less, kept, gone, e
<1>10. CASE less.inode[i].refcnt # 0
  <2>1. kept = less
    BY <1>10 DEF kept
  <2>2. Struck(d, e, dir, k, i)
    BY <1>3, <1>7, <1>8, <2>1 DEF Struck, Counted
  <2> QED
    BY <1>7, <2>2 DEF less, kept, gone, e
<1> QED
  BY <1>9, <1>10

LEMMA DeleteIs ==
  ASSUME NEW d, Sound(d), NEW l, Counts(d, l), NEW dir \in Live(d), NEW name,
         NEW X, get_filedir(d, dir, name).res \in X \cup {none}
  PROVE  Good(d, delete_filedir(d, dir, name), l, X)
<1> DEFINE items == Items(d, dir)
           k == direntry_find_name(items, name)
           i == items[k].inode_id
           less == [d EXCEPT !.inode[i].refcnt = @ - 1]
           kept == IF less.inode[i].refcnt = 0 THEN inode_bfree(d, i) ELSE less
           e == [kept EXCEPT !.content[d.inode[dir].block_id][k] = Free]
           r == delete_filedir(d, dir, name)
<1>1. r = IF Bad(d, dir) # Fine THEN Fail(d, Bad(d, dir))
          ELSE IF k = none THEN Done(d, 0)
          ELSE IF i \notin Live(d) THEN Fail(d, "null inode")
          ELSE IF kept.inode[i] = EMPTY /\ Unused(d, i) THEN Fail(d, "not using")
          ELSE Done(e, 0)
  BY DEF delete_filedir
<1>2. dir \in Id
  BY LiveIs DEF Sound
<1> HIDE DEF r
<1>3. CASE Bad(d, dir) # Fine
  <2>1. r = Fail(d, Bad(d, dir)) /\ Bad(d, dir) \in Failures
    BY <1>1, <1>2, <1>3, BadIs
  <2>2. r.disk = d /\ r.bad \in Failures \cup {Fine}
    BY <2>1 DEF Fail
  <2> QED
    BY <2>2, SameGood DEF r
<1>4. CASE Bad(d, dir) = Fine /\ k = none
  <2>1. r = Done(d, 0)
    BY <1>1, <1>4
  <2>2. r.disk = d /\ r.bad \in Failures \cup {Fine}
    BY <2>1 DEF Done
  <2> QED
    BY <2>2, SameGood DEF r
<1>5. CASE Bad(d, dir) = Fine /\ k # none
  <2>1. Found(d, dir, name, k) /\ i = d.content[blk(d, dir)][k].inode_id
    BY <1>5 DEF Found, Items, blk
  <2>2. Points(d, dir, k, i)
    BY <2>1, FoundIs
  <2>3. i \in Live(d) /\ i \in Id
    BY <2>2, PointsIs
  <2>4. i \in X
    <3>1. get_filedir(d, dir, name).res = i
      BY <2>1, GetIs
    <3> QED
      BY <2>3, <3>1, Sizes
  <2>5. r = Done(e, 0)
    BY <1>1, <1>5, <2>3, InodeUsed
  <2> HIDE DEF k, i
  <2>6. /\ e \in Disk
        /\ \/ d.inode[i].refcnt = 1 /\ Freed(d, e, dir, k, i)
           \/ Struck(d, e, dir, k, i)
    BY <2>2, StrikeIs
  <2> HIDE DEF e
  <2>7. Keeps(d, e, X) /\ NoShorter(d, e)
    BY <2>2, <2>4, <2>6, FreedKeeps
  <2>8. Sound(e) /\ Counts(e, Lost(d, e, l))
    <3>1. CASE d.inode[i].refcnt = 1 /\ Freed(d, e, dir, k, i)
      BY <2>2, <2>6, <3>1, FreedSound, FreedCounts
    <3>2. CASE Struck(d, e, dir, k, i)
      <4>1. Sound(e) /\ Counts(e, l)
        BY <2>2, <2>6, <3>2, StruckSound, StruckCounts
      <4>2. Dirs(d) \subseteq Dirs(e)
        BY <3>2, StruckIds
      <4>3. Lost(d, e, l) = l
        BY <2>6, <4>1, <4>2, NothingLost
      <4> QED
        BY <4>1, <4>3
    <3> QED
      BY <2>6, <3>1, <3>2
  <2>9. r.disk = e /\ r.bad = Fine
    BY <2>5 DEF Done
  <2> QED
    BY <2>7, <2>8, <2>9 DEF Good, r
<1> QED
  BY <1>3, <1>4, <1>5

LEMMA EnteredKeeps ==
  ASSUME NEW d, Sound(d), NEW e \in Disk, NEW dir, NEW k, NEW name, NEW i \in Live(d),
         Fits(d, dir, k, name), Entered(d, e, dir, k, name, i)
  PROVE  Keeps(d, e, {i}) /\ NoShorter(d, e)
<1>1. d \in Disk /\ Live(d) \subseteq Id /\ dir \in Dirs(d) /\ blk(d, dir) # none
  BY LiveIs DEF Sound, Fits
<1>2. Rewritten(d, e, blk(d, dir), k, [name |-> name, inode_id |-> i])
        /\ \A j \in Id : j # i => e.inode[j] = d.inode[j]
  BY DEF Entered
<1>3. Keeps(d, e, {i})
  <2>1. ASSUME NEW j \in Live(d) \ {i}, ~IsDir(d, j) PROVE Same(d, e, j)
    <3>1. j # dir /\ j \in Id
      BY <1>1, <2>1 DEF Dirs
    <3> QED
      BY <1>1, <1>2, <3>1, RewrittenOthers DEF Same
  <2> QED
    BY <2>1 DEF Keeps
<1>4. NoShorter(d, e)
  <2>1. ASSUME NEW j \in Id, e.inode[j].type = "FILE" PROVE e.inode[j].size >= d.inode[j].size
    <3>1. e.inode[j].size = d.inode[j].size
      BY <1>2 DEF Entered, Counted
    <3>2. e.inode[j] \in Inode
      BY <2>1, LiveIs DEF EMPTY
    <3> QED
      BY <3>1, <3>2 DEF Inode
  <2> QED
    BY <2>1 DEF NoShorter
<1> QED
  BY <1>3, <1>4

LEMMA AllocatedKeeps ==
  ASSUME NEW d, Sound(d), NEW e \in Disk, NEW i, NEW b, NEW type \in {"FILE", "DIR"},
         Allocated(d, e, i, b, type)
  PROVE  Keeps(d, e, {}) /\ NoShorter(d, e)
<1>1. Keeps(d, e, {})
  BY AllocatedSame DEF Keeps
<1>2. NoShorter(d, e)
  <2>1. ASSUME NEW j \in Id, e.inode[j].type = "FILE" PROVE e.inode[j].size >= d.inode[j].size
    <3>1. e.inode[j] \in Inode
      BY <2>1, LiveIs DEF EMPTY
    <3>2. CASE j # i
      BY <3>1, <3>2 DEF Allocated, Inode
    <3>3. CASE j = i
      <4>1. d.inode[j] = EMPTY
        BY <3>3, LiveIs DEF Allocated, Sound
      <4> QED
        BY <3>1, <4>1 DEF EMPTY, Inode
    <3> QED
      BY <3>2, <3>3
  <2> QED
    BY <2>1 DEF NoShorter
<1> QED
  BY <1>1, <1>2

LEMMA NoShorterTrans ==
  ASSUME NEW d \in Disk, NEW a \in Disk, NEW e \in Disk, NoShorter(d, a), NoShorter(a, e),
         \A j \in Id : e.inode[j].type = "FILE" => a.inode[j].type = "FILE"
  PROVE  NoShorter(d, e)
<1> SUFFICES ASSUME NEW j \in Id, e.inode[j].type = "FILE" PROVE e.inode[j].size >= d.inode[j].size
  BY DEF NoShorter
<1>1. e.inode[j].size >= a.inode[j].size /\ a.inode[j].size >= d.inode[j].size
  BY DEF NoShorter
<1>2. e.inode[j].size \in Nat /\ a.inode[j].size \in Nat /\ d.inode[j].size \in Nat
  BY DEF Disk, Inode, EMPTY
<1> QED
  BY <1>1, <1>2

\* What an operation that gives an inode a name does.
LEMMA LinkIs ==
  ASSUME NEW d, Sound(d), NEW l, Counts(d, l), NEW dir, NEW k, NEW name, NEW i \in Live(d),
         Fits(d, dir, k, name), NEW X, i \in X
  PROVE  /\ Good(d, Done(Enter(d, dir, k, name, i), i), l, X)
         /\ i \in Live(Enter(d, dir, k, name, i))
<1> DEFINE e == Enter(d, dir, k, name, i)
           r == Done(e, i)
<1>1. e \in Disk /\ Entered(d, e, dir, k, name, i)
  BY EnterIs
<1> HIDE DEF e
<1>2. Sound(e) /\ Counts(e, l)
  BY <1>1, EnteredSound, EnteredCounts
<1>3. Live(e) = Live(d) /\ Dirs(e) = Dirs(d)
  BY <1>1, EnteredIds
<1>4. Lost(d, e, l) = l
  BY <1>1, <1>2, <1>3, NothingLost
<1>5. Keeps(d, e, {i}) /\ NoShorter(d, e)
  BY <1>1, EnteredKeeps
<1>6. Keeps(d, e, X)
  BY <1>5 DEF Keeps
<1>7. r.disk = e /\ r.bad = Fine
  BY DEF Done
<1>8. Good(d, r, l, X)
  BY <1>2, <1>4, <1>5, <1>6, <1>7 DEF Good
<1> QED
  BY <1>3, <1>8 DEF e

LEMMA MakeIs ==
  ASSUME NEW d, Sound(d), NEW l, Counts(d, l), NEW dir, NEW k, NEW name,
         NEW type \in {"FILE", "DIR"}, NEW a \in Disk, NEW i, NEW b, Allocated(d, a, i, b, type),
         Fits(d, dir, k, name), NEW X
  PROVE  /\ Good(d, Done(Enter(a, dir, k, name, i), i), l, X)
         /\ i \in Live(Enter(a, dir, k, name, i))
<1> DEFINE e == Enter(a, dir, k, name, i)
           r == Done(e, i)
<1>1. Sound(a) /\ Counts(a, l)
  BY AllocatedSound, AllocatedCounts
<1>2. d \in Disk /\ Dirs(d) \subseteq Live(d) /\ Live(d) \subseteq Id /\ i \notin Live(d)
  BY LiveIs DEF Sound, Allocated
<1>3. Live(a) = Live(d) \cup {i} /\ Dirs(d) \subseteq Dirs(a)
  BY <1>2, AllocatedIds
<1>4. Fits(a, dir, k, name)
  <2>1. Same(d, a, dir) /\ dir \in Live(d)
    BY <1>2, AllocatedSame DEF Fits
  <2>2. blk(a, dir) = blk(d, dir) /\ a.content[blk(d, dir)] = d.content[blk(d, dir)]
    BY <2>1 DEF Same, blk, Fits
  <2> QED
    BY <1>3, <2>2 DEF Fits
<1>5. e \in Disk /\ Entered(a, e, dir, k, name, i)
  BY <1>1, <1>3, <1>4, EnterIs
<1> HIDE DEF e
<1>6. Sound(e) /\ Counts(e, l)
  BY <1>1, <1>3, <1>4, <1>5, EnteredSound, EnteredCounts
<1>7. /\ Live(e) = Live(a) /\ Dirs(e) = Dirs(a)
      /\ \A j \in Id : e.inode[j].type = a.inode[j].type
  BY <1>1, <1>3, <1>5, EnteredIds
<1>8. Lost(d, e, l) = l
  BY <1>3, <1>5, <1>6, <1>7, NothingLost
<1>9. Keeps(d, e, X)
  <2>1. ASSUME NEW j \in Live(d), ~IsDir(d, j) PROVE Same(d, e, j)
    <3>1. Same(d, a, j)
      BY AllocatedSame
    <3>2. j # i /\ j \in Live(a)
      BY <1>2, <1>3
    <3>3. ~IsDir(a, j)
      BY <2>1, <3>1 DEF Same, IsDir
    <3>4. Keeps(a, e, {i})
      BY <1>1, <1>3, <1>4, <1>5, EnteredKeeps
    <3>5. Same(a, e, j)
      BY <3>2, <3>3, <3>4 DEF Keeps
    <3> QED
      BY <3>1, <3>5 DEF Same, blk
  <2> QED
    BY <2>1 DEF Keeps
<1>10. NoShorter(d, e)
  <2>1. NoShorter(a, e)
    BY <1>1, <1>3, <1>4, <1>5, EnteredKeeps
  <2>2. NoShorter(d, a)
    BY AllocatedKeeps
  <2> QED
    BY <1>2, <1>5, <1>7, <2>1, <2>2, NoShorterTrans
<1>11. r.disk = e /\ r.bad = Fine
  BY DEF Done
<1>12. Good(d, r, l, X)
  BY <1>6, <1>8, <1>9, <1>10, <1>11 DEF Good
<1> QED
  BY <1>3, <1>7, <1>12 DEF e

LEMMA CreateIs ==
  ASSUME NEW d, Sound(d), NEW l, Counts(d, l), NEW dir \in Live(d), NEW name \in Name \cup {NoName},
         NEW type \in {"FILE", "DIR", "LINK"}, NEW link_id, NEW X,
         type = "LINK" => link_id \in Live(d) /\ link_id \in X
  PROVE  LET r == create_filedir(d, dir, type, link_id, name)
         IN Good(d, r, l, X) /\ r.res \in Live(r.disk) \cup {none}
<1> DEFINE items == Items(d, dir)
           k     == direntry_find_free(items)
           same  == direntry_find_name(items, name)
           new   == IF type = "LINK" THEN Done(d, link_id) ELSE inode_alloc(d, type)
           r     == create_filedir(d, dir, type, link_id, name)
<1>1. r = IF Bad(d, dir) # Fine THEN Fail(d, Bad(d, dir))
          ELSE IF same # none \/ k = none THEN Done(d, none)
          ELSE IF new.res = none THEN Fail(d, "no inode")
          ELSE Done(Enter(new.disk, dir, k, name, new.res), new.res)
  BY DEF create_filedir
<1>2. dir \in Id /\ d \in Disk /\ Live(d) \subseteq Id
  BY LiveIs DEF Sound
<1> HIDE DEF r
<1>3. ASSUME r.disk = d, r.bad \in Failures \cup {Fine}, r.res = none
      PROVE  Good(d, r, l, X) /\ r.res \in Live(r.disk) \cup {none}
  BY <1>3, SameGood
<1>4. CASE Bad(d, dir) # Fine
  <2>1. r = Fail(d, Bad(d, dir)) /\ Bad(d, dir) \in Failures
    BY <1>1, <1>2, <1>4, BadIs
  <2>2. r.disk = d /\ r.bad \in Failures \cup {Fine} /\ r.res = none
    BY <2>1 DEF Fail
  <2> QED
    BY <1>3, <2>2 DEF r
<1>5. CASE Bad(d, dir) = Fine /\ (same # none \/ k = none)
  <2>1. r = Done(d, none)
    BY <1>1, <1>5
  <2>2. r.disk = d /\ r.bad \in Failures \cup {Fine} /\ r.res = none
    BY <2>1 DEF Done
  <2> QED
    BY <1>3, <2>2 DEF r
<1>6. CASE Bad(d, dir) = Fine /\ same = none /\ k # none /\ new.res = none
  <2>1. r = Fail(d, "no inode")
    BY <1>1, <1>6
  <2>2. r.disk = d /\ r.bad \in Failures \cup {Fine} /\ r.res = none
    BY <2>1 DEF Fail, Failures
  <2> QED
    BY <1>3, <2>2 DEF r
<1>7. CASE Bad(d, dir) = Fine /\ same = none /\ k # none /\ new.res # none
  <2>1. r = Done(Enter(new.disk, dir, k, name, new.res), new.res)
    BY <1>1, <1>7
  <2>2. dir \in Dirs(d) /\ blk(d, dir) # none /\ items = d.content[blk(d, dir)]
    BY <1>2, <1>7, BadIs DEF Items, blk, Failures, Fine
  <2>3. k \in Entries /\ items[k] = Free
    <3> DEFINE S == {e \in Entries : items[e] = Free}
    <3>1. S \in SUBSET Nat /\ k = Lowest(S)
      BY Sizes DEF direntry_find_free
    <3> QED
      BY <1>7, <3>1, LowestIs
  <2>4. Fits(d, dir, k, name)
    BY <1>7, <2>2, <2>3, FindIs DEF Fits
  <2> HIDE DEF k
  <2>5. CASE type = "LINK"
    <3>1. new.disk = d /\ new.res = link_id /\ link_id \in Live(d) /\ link_id \in X
      BY <2>5 DEF Done
    <3>2. r = Done(Enter(d, dir, k, name, link_id), link_id)
      BY <2>1, <3>1
    <3>3. Good(d, r, l, X) /\ link_id \in Live(Enter(d, dir, k, name, link_id))
      BY <2>4, <3>1, <3>2, LinkIs
    <3>4. r.disk = Enter(d, dir, k, name, link_id) /\ r.res = link_id
      BY <3>2 DEF Done
    <3> QED
      BY <3>3, <3>4 DEF r
  <2>6. CASE type # "LINK"
    <3>1. type \in {"FILE", "DIR"} /\ new = inode_alloc(d, type)
      BY <2>6
    <3>2. /\ new.disk \in Disk
          /\ \E b \in Block \cup {none} : Allocated(d, new.disk, new.res, b, type)
      BY <1>2, <1>7, <3>1, AllocIs
    <3>3. PICK b : Allocated(d, new.disk, new.res, b, type)
      BY <3>2
    <3> HIDE DEF new
    <3>4. Good(d, r, l, X) /\ new.res \in Live(Enter(new.disk, dir, k, name, new.res))
      BY <2>1, <2>4, <3>1, <3>2, <3>3, MakeIs
    <3>5. r.disk = Enter(new.disk, dir, k, name, new.res) /\ r.res = new.res
      BY <2>1 DEF Done, new
    <3> QED
      BY <3>4, <3>5 DEF r
  <2> QED
    BY <2>5, <2>6
<1> QED
  BY <1>4, <1>5, <1>6, <1>7

----------------------------------------------------------------------------
(* Paths, name by name. *)

\* F goes through the n steps of st from x.
Goes(F, n, x, st) == F[0] = x /\ \A i \in 1 .. n : F[i] = st[i][F[i - 1]]

\* There is a function that does: for the least number of steps without one,
\* a function of one step less would have one more step.
LEMMA Iterates ==
  ASSUME NEW S, NEW x \in S, NEW n \in Nat, NEW st \in [1 .. n -> [S -> S]]
  PROVE  \E F \in [0 .. n -> S] : Goes(F, n, x, st)
<1> DEFINE P(m) == \E F \in [0 .. m -> S] : Goes(F, m, x, st)
           Short == {m \in 0 .. n : ~P(m)}
<1>1. SUFFICES ASSUME ~P(n) PROVE FALSE
  OBVIOUS
<1>2. Short \in SUBSET Nat /\ Short # {}
  BY <1>1
<1>3. PICK m \in Short : \A k \in Short : m <= k
  BY <1>2, LeastExists
<1>4. m \in 0 .. n /\ ~P(m)
  BY <1>3
<1>5. P(0)
  <2> DEFINE Z == [i \in 0 .. 0 |-> x]
  <2>1. Z \in [0 .. 0 -> S] /\ Z[0] = x /\ 1 .. 0 = {}
    OBVIOUS
  <2> HIDE DEF Z
  <2>2. Goes(Z, 0, x, st)
    BY <2>1 DEF Goes
  <2> QED
    BY <2>1, <2>2
<1>6. m - 1 \in 0 .. n /\ m - 1 \notin Short /\ m \in 1 .. n /\ m \in Nat
  <2>1. m # 0
    BY <1>4, <1>5
  <2>2. m - 1 \in 0 .. n /\ m \in 1 .. n /\ m \in Nat /\ ~(m <= m - 1)
    BY <1>4, <2>1
  <2> QED
    BY <1>3, <2>2
<1>7. P(m - 1)
  BY <1>6
<1>8. PICK F \in [0 .. m - 1 -> S] : Goes(F, m - 1, x, st)
  BY <1>7
<1> HIDE DEF P, Short
<1> DEFINE G == [i \in 0 .. m |-> IF i = m THEN st[m][F[m - 1]] ELSE F[i]]
<1>9. \A i \in 0 .. m : (i = m => G[i] = st[m][F[m - 1]]) /\ (i # m => i \in 0 .. m - 1 /\ G[i] = F[i])
  BY <1>6
<1>10. F[m - 1] \in S /\ st[m][F[m - 1]] \in S
  BY <1>6, <1>8
<1>11. G \in [0 .. m -> S]
  <2>1. \A i \in 0 .. m : (IF i = m THEN st[m][F[m - 1]] ELSE F[i]) \in S
    <3> SUFFICES ASSUME NEW i \in 0 .. m PROVE (IF i = m THEN st[m][F[m - 1]] ELSE F[i]) \in S
      OBVIOUS
    <3>1. i # m => i \in 0 .. m - 1
      BY <1>6
    <3> QED
      BY <1>8, <1>10, <3>1
  <2> QED
    BY <2>1
<1> HIDE DEF G
<1>12. Goes(G, m, x, st)
  <2>1. G[0] = x
    BY <1>6, <1>8, <1>9 DEF Goes
  <2>2. ASSUME NEW i \in 1 .. m PROVE G[i] = st[i][G[i - 1]]
    <3>1. i - 1 \in 0 .. m /\ i - 1 # m /\ i \in 0 .. m
      BY <1>6
    <3>2. G[i - 1] = F[i - 1]
      BY <1>9, <3>1
    <3>3. CASE i = m
      BY <1>9, <3>1, <3>2, <3>3
    <3>4. CASE i # m
      <4>1. i \in 1 .. m - 1
        BY <1>6, <3>4
      <4>2. F[i] = st[i][F[i - 1]]
        BY <1>8, <4>1 DEF Goes
      <4> QED
        BY <1>9, <3>1, <3>2, <3>4, <4>2
    <3> QED
      BY <3>3, <3>4
  <2> QED
    BY <2>1, <2>2 DEF Goes
<1>13. P(m)
  BY <1>11, <1>12 DEF P
<1> QED
  BY <1>4, <1>13

\* What get_path_inode does with one name.
Onward(d, r, name) == IF r.res = none THEN r ELSE get_filedir(d, r.res, name)

\* F is where the names of the path lead, one after another.
Walks(F, d, path) == /\ F[0] = Done(d, 0)
                     /\ \A n \in 1 .. Len(path) : F[n] = Onward(d, F[n - 1], path[n])

\* What a path can lead to in a sound image.
Ends(d) == [disk : {d}, res : Live(d) \cup {none}, bad : Failures \cup {Fine}]

LEMMA OnwardIs ==
  ASSUME NEW d, Sound(d), NEW r \in Ends(d), NEW name PROVE Onward(d, r, name) \in Ends(d)
<1>1. CASE r.res = none
  BY <1>1 DEF Onward
<1>2. CASE r.res # none
  <2>1. r.res \in Live(d)
    BY <1>2 DEF Ends
  <2> DEFINE s == get_filedir(d, r.res, name)
  <2>2. s.disk = d /\ s.bad \in Failures \cup {Fine} /\ s.res \in Live(d) \cup {none}
    BY <2>1, GetIs
  <2>3. s = [disk |-> s.disk, res |-> s.res, bad |-> s.bad]
    BY DEF get_filedir, Fail, Done
  <2> HIDE DEF s
  <2>4. s \in Ends(d)
    BY <2>2, <2>3 DEF Ends
  <2> QED
    BY <1>2, <2>4 DEF Onward, s
<1> QED
  BY <1>1, <1>2

LEMMA PathIs ==
  ASSUME NEW d, Sound(d), NEW path \in Seq(Name)
  PROVE  \E F \in [0 .. Len(path) -> Ends(d)] :
           Walks(F, d, path) /\ get_path_inode(d, path) = F[Len(path)]
<1> DEFINE n == Len(path)
           S == Ends(d)
           x == Done(d, 0)
           st == [i \in 1 .. n |-> [r \in S |-> Onward(d, r, path[i])]]
           Walk(F) == F = [i \in 0 .. n |->
                             IF i = 0 THEN x
                             ELSE LET r == F[i - 1]
                                  IN IF r.res = none THEN r ELSE get_filedir(d, r.res, path[i])]
<1>1. n \in Nat
  BY LenProperties
<1>2. x \in S
  <2>1. 0 \in Live(d)
    BY LiveIs, Sizes DEF Sound, Tree, Dirs
  <2> QED
    BY <2>1 DEF Ends, Done
<1>3. st \in [1 .. n -> [S -> S]] /\ \A i \in 1 .. n : \A r \in S : st[i][r] = Onward(d, r, path[i])
  BY OnwardIs
<1> HIDE DEF n, st, S, x
<1>4. PICK F \in [0 .. n -> S] : Goes(F, n, x, st)
  BY <1>1, <1>2, <1>3, Iterates
<1>5. F[0] = x /\ \A i \in 1 .. n : F[i] = Onward(d, F[i - 1], path[i])
  <2>1. F[0] = x
    BY <1>4 DEF Goes
  <2>2. ASSUME NEW i \in 1 .. n PROVE F[i] = Onward(d, F[i - 1], path[i])
    <3>1. i - 1 \in 0 .. n
      BY <1>1
    <3>2. F[i] = st[i][F[i - 1]] /\ F[i - 1] \in S
      BY <1>4, <3>1 DEF Goes
    <3> QED
      BY <1>3, <3>2
  <2> QED
    BY <2>1, <2>2
<1>6. Walk(F)
  <2>1. ASSUME NEW i \in 0 .. n
        PROVE F[i] = IF i = 0 THEN x
                     ELSE LET r == F[i - 1]
                          IN IF r.res = none THEN r ELSE get_filedir(d, r.res, path[i])
    BY <1>1, <1>5 DEF Onward
  <2> QED
    BY <1>4, <2>1
<1>7. PICK G : G = CHOOSE H : Walk(H)
  OBVIOUS
<1>8. Walk(G)
  BY <1>6, <1>7
<1>9. get_path_inode(d, path) = G[n]
  BY <1>7, Zenon DEF get_path_inode, n, x
<1>10. G[0] = x /\ \A i \in 1 .. n : G[i] = Onward(d, G[i - 1], path[i])
  <2>1. G[0] = x
    BY <1>1, <1>8
  <2>2. ASSUME NEW i \in 1 .. n PROVE G[i] = Onward(d, G[i - 1], path[i])
    <3>1. i \in 0 .. n /\ i # 0
      BY <1>1
    <3> QED
      BY <1>8, <3>1 DEF Onward
  <2> QED
    BY <2>1, <2>2
<1> HIDE DEF Walk
<1>11. \A i \in 0 .. n : G[i] = F[i]
  <2> DEFINE B == {i \in 0 .. n : G[i] # F[i]}
  <2>1. SUFFICES ASSUME B # {} PROVE FALSE
    OBVIOUS
  <2>2. PICK i \in B : \A j \in B : i <= j
    <3>1. B \in SUBSET Nat
      BY <1>1
    <3> QED
      BY <2>1, <3>1, LeastExists
  <2>3. i # 0 /\ i \in 1 .. n /\ i - 1 \in 0 .. n /\ i - 1 \notin B
    BY <1>1, <1>5, <1>10, <2>2
  <2>4. G[i - 1] = F[i - 1]
    BY <2>3
  <2> QED
    BY <1>5, <1>10, <2>2, <2>3, <2>4
<1>12. Walks(F, d, path) /\ get_path_inode(d, path) = F[Len(path)]
  <2>1. Walks(F, d, path)
    BY <1>5 DEF Walks, n, x
  <2>2. n \in 0 .. n
    BY <1>1
  <2> QED
    BY <1>9, <1>11, <2>1, <2>2 DEF n
<1> QED
  BY <1>4, <1>12 DEF n, S

\* The inode of a path is what its last name is in the directory before it.
LEMMA PathEnd ==
  ASSUME NEW d, Sound(d), NEW path \in Seq(Name), path # <<>>
  PROVE  /\ Front(path) \in Seq(Name) /\ Last(path) \in Name
         /\ get_path_inode(d, path) = Onward(d, get_path_inode(d, Front(path)), Last(path))
<1> DEFINE n == Len(path)
           s == Front(path)
<1>1. n \in Nat \ {0} /\ \A i \in 1 .. n : path[i] \in Name
  BY EmptySeq, ElementOfSeq
<1>2. s \in Seq(Name) /\ Len(s) = n - 1 /\ \A i \in 1 .. n - 1 : s[i] = path[i]
  <2>1. \A i \in 1 .. n - 1 : path[i] \in Name
    BY <1>1
  <2> DEFINE u == SubSeq(path, 1, n - 1)
  <2>2. u \in Seq(Name) /\ Len(u) = IF 1 <= n - 1 THEN n - 1 - 1 + 1 ELSE 0
    BY <1>1, <2>1, SubSeqProperties
  <2>3. \A i \in 1 .. n - 1 - 1 + 1 : u[i] = path[1 + i - 1]
    BY <1>1, <2>1, SubSeqProperties
  <2>4. s = u
    BY DEF Front
  <2> HIDE DEF u, n, s
  <2>5. \A i \in 1 .. n - 1 : u[i] = path[i]
    <3> SUFFICES ASSUME NEW i \in 1 .. n - 1 PROVE u[i] = path[i]
      OBVIOUS
    <3>1. i \in 1 .. n - 1 - 1 + 1 /\ 1 + i - 1 = i
      BY <1>1
    <3> QED
      BY <2>3, <3>1
  <2> QED
    BY <1>1, <2>2, <2>4, <2>5
<1>3. PICK F : Walks(F, d, path) /\ get_path_inode(d, path) = F[n]
  BY PathIs
<1>4. PICK G : Walks(G, d, s) /\ get_path_inode(d, s) = G[n - 1]
  BY <1>2, PathIs
<1> HIDE DEF n, s
<1>5. F[0] = G[0] /\ (\A i \in 1 .. n : F[i] = Onward(d, F[i - 1], path[i]))
        /\ (\A i \in 1 .. n - 1 : G[i] = Onward(d, G[i - 1], path[i]))
  BY <1>2, <1>3, <1>4 DEF Walks, n
<1>6. \A i \in 0 .. n - 1 : F[i] = G[i]
  <2> DEFINE B == {i \in 0 .. n - 1 : G[i] # F[i]}
  <2>1. SUFFICES ASSUME B # {} PROVE FALSE
    OBVIOUS
  <2>2. PICK i \in B : \A j \in B : i <= j
    <3>1. B \in SUBSET Nat
      BY <1>1
    <3> QED
      BY <2>1, <3>1, LeastExists
  <2>3. i # 0 /\ i \in 1 .. n - 1 /\ i \in 1 .. n /\ i - 1 \in 0 .. n - 1 /\ i - 1 \notin B
    BY <1>1, <1>5, <2>2
  <2>4. G[i - 1] = F[i - 1]
    BY <2>3
  <2> QED
    BY <1>5, <2>2, <2>3, <2>4
<1>7. F[n] = Onward(d, G[n - 1], path[n])
  <2>1. n \in 1 .. n /\ n - 1 \in 0 .. n - 1
    BY <1>1
  <2> QED
    BY <1>5, <1>6, <2>1
<1>8. Last(path) = path[n] /\ path[n] \in Name
  BY <1>1 DEF Last, n
<1> QED
  BY <1>2, <1>3, <1>4, <1>7, <1>8 DEF s

LEMMA PathsAre ==
  ASSUME NEW path \in Path
  PROVE  /\ path \in Seq(Name) /\ DirOf(path) \in Seq(Name) /\ NameOf(path) \in Name \cup {NoName}
         /\ path # <<>> <=> NameOf(path) # NoName
<1>1. path \in Seq(Name)
  BY VfsAssumption DEF Path, BoundedSeq, SeqOf
<1>2. CASE path = <<>>
  BY <1>2, EmptySeq DEF DirOf, NameOf
<1>3. CASE path # <<>>
  <2> DEFINE n == Len(path)
  <2>1. n \in Nat \ {0} /\ \A i \in 1 .. n : path[i] \in Name
    BY <1>1, <1>3, EmptySeq, ElementOfSeq
  <2>2. Last(path) \in Name
    BY <2>1 DEF Last
  <2>3. Front(path) \in Seq(Name)
    <3>1. \A i \in 1 .. n - 1 : path[i] \in Name
      BY <2>1
    <3> QED
      BY <2>1, <3>1, SubSeqProperties DEF Front
  <2> QED
    BY <1>1, <1>3, <2>2, <2>3, VfsAssumption DEF DirOf, NameOf
<1> QED
  BY <1>2, <1>3

----------------------------------------------------------------------------
(* The calls. *)

LEMMA PathEnds ==
  ASSUME NEW d, Sound(d), NEW path \in Seq(Name)
  PROVE  LET r == get_path_inode(d, path)
         IN r \in Ends(d) /\ r.disk = d /\ r.res \in Live(d) \cup {none} /\ r.bad \in Failures \cup {Fine}
<1>1. PICK F \in [0 .. Len(path) -> Ends(d)] : get_path_inode(d, path) = F[Len(path)]
  BY PathIs
<1>2. Len(path) \in 0 .. Len(path)
  BY LenProperties
<1> QED
  BY <1>1, <1>2 DEF Ends

LEMMA MkdirIs ==
  ASSUME NEW d, Sound(d), NEW l, Counts(d, l), NEW path \in Seq(Name), NEW name \in Name \cup {NoName}
  PROVE  Good(d, fs_mkdir(d, path, name), l, {})
<1> DEFINE par == get_path_inode(d, path)
           c   == create_filedir(d, par.res, "DIR", none, name)
           r   == fs_mkdir(d, path, name)
<1>1. r = IF par.res = none THEN par
          ELSE IF name = NoName \/ ~IsDir(d, par.res) THEN Done(d, none) ELSE c
  BY DEF fs_mkdir
<1>2. par.disk = d /\ par.res \in Live(d) \cup {none} /\ par.bad \in Failures \cup {Fine}
  BY PathEnds
<1>3. par.res # none => Good(d, c, l, {})
  BY <1>2, CreateIs
<1> HIDE DEF r, c, par
<1>4. r = c \/ (r.disk = d /\ r.bad \in Failures \cup {Fine})
  BY <1>1, <1>2 DEF Done
<1>5. CASE par.res # none /\ r = c
  BY <1>3, <1>5 DEF r
<1>6. CASE r.disk = d /\ r.bad \in Failures \cup {Fine}
  BY <1>6, SameGood DEF r
<1>7. par.res = none => r.disk = d /\ r.bad \in Failures \cup {Fine}
  BY <1>1, <1>2
<1> QED
  BY <1>4, <1>5, <1>6, <1>7

LEMMA CreateFileIs ==
  ASSUME NEW d, Sound(d), NEW l, Counts(d, l), NEW path \in Seq(Name), NEW name \in Name \cup {NoName}
  PROVE  LET r == create_file(d, path, name)
         IN Good(d, r, l, {}) /\ r.res \in Live(r.disk) \cup {none}
<1> DEFINE par == get_path_inode(d, path)
           c   == create_filedir(d, par.res, "FILE", none, name)
           r   == create_file(d, path, name)
<1>1. r = IF name = NoName THEN Done(d, none) ELSE IF par.res = none THEN par ELSE c
  BY DEF create_file
<1>2. par.disk = d /\ par.res \in Live(d) \cup {none} /\ par.bad \in Failures \cup {Fine}
  BY PathEnds
<1>3. par.res # none => Good(d, c, l, {}) /\ c.res \in Live(c.disk) \cup {none}
  BY <1>2, CreateIs
<1> HIDE DEF r, c, par
<1>4. (par.res # none /\ r = c) \/ (r.disk = d /\ r.bad \in Failures \cup {Fine} /\ r.res = none)
  BY <1>1, <1>2 DEF Done
<1>5. CASE par.res # none /\ r = c
  BY <1>3, <1>5 DEF r
<1>6. CASE r.disk = d /\ r.bad \in Failures \cup {Fine} /\ r.res = none
  BY <1>6, SameGood DEF r
<1> QED
  BY <1>4, <1>5, <1>6

LEMMA FsLinkIs ==
  ASSUME NEW d, Sound(d), NEW l, Counts(d, l), NEW old \in Seq(Name), NEW path \in Seq(Name),
         NEW name \in Name \cup {NoName}
  PROVE  Good(d, fs_link(d, old, path, name), l, {get_path_inode(d, old).res})
<1> DEFINE node == get_path_inode(d, old)
           par == get_path_inode(d, path)
           c   == create_filedir(d, par.res, "LINK", node.res, name)
           r   == fs_link(d, old, path, name)
<1>1. r = IF node.res = none THEN node ELSE IF par.res = none THEN par ELSE c
  BY DEF fs_link
<1>2. par.disk = d /\ par.res \in Live(d) \cup {none} /\ par.bad \in Failures \cup {Fine}
  BY PathEnds
<1>3. node.disk = d /\ node.res \in Live(d) \cup {none} /\ node.bad \in Failures \cup {Fine}
  BY PathEnds
<1>4. node.res # none /\ par.res # none => Good(d, c, l, {node.res})
  BY <1>2, <1>3, CreateIs
<1> HIDE DEF r, c, par, node
<1>5. (node.res # none /\ par.res # none /\ r = c) \/ (r.disk = d /\ r.bad \in Failures \cup {Fine})
  BY <1>1, <1>2, <1>3
<1>6. CASE node.res # none /\ par.res # none /\ r = c
  BY <1>4, <1>6 DEF r, node
<1>7. CASE r.disk = d /\ r.bad \in Failures \cup {Fine}
  BY <1>7, SameGood DEF r
<1> QED
  BY <1>5, <1>6, <1>7

\* What rm removes is a name of the inode that the path leads to.
LEMMA RmIs ==
  ASSUME NEW d, Sound(d), NEW l, Counts(d, l), NEW path \in Path
  PROVE  Good(d, fs_rm(d, DirOf(path), NameOf(path)), l, {get_path_inode(d, path).res})
<1> DEFINE dir == DirOf(path)
           name == NameOf(path)
           par == get_path_inode(d, dir)
           c   == delete_filedir(d, par.res, name)
           r   == fs_rm(d, dir, name)
           X   == {get_path_inode(d, path).res}
<1>1. r = IF par.res = none THEN par
          ELSE IF name = NoName \/ ~IsDir(d, par.res) THEN Done(d, none) ELSE c
  BY DEF fs_rm
<1>2. par.disk = d /\ par.res \in Live(d) \cup {none} /\ par.bad \in Failures \cup {Fine}
  BY PathsAre, PathEnds
<1>3. ASSUME par.res # none, name # NoName PROVE Good(d, c, l, X)
  <2>1. path \in Seq(Name) /\ path # <<>>
    BY <1>3, PathsAre
  <2>2. get_path_inode(d, path) = Onward(d, par, name)
    BY <2>1, PathEnd DEF DirOf, NameOf
  <2>3. get_filedir(d, par.res, name) = get_path_inode(d, path)
    BY <1>3, <2>2 DEF Onward
  <2>4. get_filedir(d, par.res, name).res \in X
    BY <2>3
  <2> HIDE DEF X
  <2> QED
    BY <1>2, <1>3, <2>4, DeleteIs
<1> HIDE DEF r, c, par, X
<1>4. (par.res # none /\ name # NoName /\ r = c) \/ (r.disk = d /\ r.bad \in Failures \cup {Fine})
  BY <1>1, <1>2 DEF Done
<1>5. CASE par.res # none /\ name # NoName /\ r = c
  BY <1>3, <1>5 DEF r, X
<1>6. CASE r.disk = d /\ r.bad \in Failures \cup {Fine}
  BY <1>6, SameGood DEF r
<1> QED
  BY <1>4, <1>5, <1>6

LEMMA ReaddirIs ==
  ASSUME NEW d, Sound(d), NEW path \in Seq(Name)
  PROVE  fs_readdir(d, path).disk = d /\ fs_readdir(d, path).bad \in Failures \cup {Fine}
<1> DEFINE node == get_path_inode(d, path)
           r    == fs_readdir(d, path)
           null == \E e \in Entries : /\ Items(d, node.res)[e] # Free
                                      /\ Items(d, node.res)[e].inode_id \notin Live(d)
<1>1. r = IF node.res = none THEN node
          ELSE IF Bad(d, node.res) # Fine THEN Fail(d, Bad(d, node.res))
          ELSE IF null THEN Fail(d, "null inode") ELSE Done(d, node.res)
  BY DEF fs_readdir
<1>2. node.disk = d /\ node.res \in Live(d) \cup {none} /\ node.bad \in Failures \cup {Fine}
  BY PathEnds
<1>3. node.res # none => node.res \in Id
  BY <1>2, LiveIs DEF Sound
<1>4. node.res # none /\ Bad(d, node.res) = Fine => ~null
  <2> SUFFICES ASSUME node.res # none, Bad(d, node.res) = Fine PROVE ~null
    OBVIOUS
  <2>1. node.res \in Dirs(d) /\ blk(d, node.res) # none
    BY <1>3, BadIs DEF Failures, Fine
  <2>2. Tidy(d.content[blk(d, node.res)], Live(d))
    BY <2>1, FolderIs
  <2> QED
    BY <2>2 DEF Tidy, Items, blk
<1> HIDE DEF r, node, null
<1>5. node.res # none => Bad(d, node.res) \in Failures \cup {Fine}
  BY <1>3, BadIs
<1>6. r.disk = d /\ r.bad \in Failures \cup {Fine}
  BY <1>1, <1>2, <1>4, <1>5 DEF Fail, Done
<1> QED
  BY <1>6 DEF r

----------------------------------------------------------------------------
(* Files. *)

LEMMA KeptStill ==
  ASSUME NEW d, Sound(d), NEW e, NEW X, Keeps(d, e, X), NEW f, Kept(d, f), f.node.id \notin X
  PROVE  Kept(e, f)
<1> DEFINE i == f.node.id
<1>1. i \in Live(d) /\ i \in Id /\ d.inode[i].type = "FILE"
  BY LiveIs DEF Kept, Sound
<1>2. Same(d, e, i)
  BY <1>1 DEF Keeps, IsDir
<1>3. e.inode[i] = d.inode[i] /\ blk(e, i) = blk(d, i)
  BY <1>2 DEF Same, blk
<1>4. i \in Live(e)
  BY <1>1, <1>3 DEF Live
<1>5. Holds(e, i, f.node.block_id, f.node.size)
  BY <1>2, Sizes DEF Kept, Holds, Same
<1> QED
  BY <1>3, <1>4, <1>5 DEF Kept

LEMMA OpenIs ==
  ASSUME NEW d, Sound(d), NEW i \in Live(d), NEW flags \in Flags
  PROVE  \/ inode_open(inode_get(d, i), flags) = noFile
         \/ Kept(d, inode_open(inode_get(d, i), flags))
<1> DEFINE node == inode_get(d, i)
           g    == inode_open(node, flags)
<1>1. d \in Disk /\ i \in Id /\ d.inode[i] \in Inode
  BY LiveIs DEF Sound
<1>2. node = [id |-> i, type |-> d.inode[i].type, block_id |-> d.inode[i].block_id,
              refcnt |-> d.inode[i].refcnt, size |-> d.inode[i].size]
  BY DEF inode_get
<1>3. node \in Copy /\ node.id = i /\ node.type = d.inode[i].type /\ node.block_id = blk(d, i)
        /\ node.refcnt = d.inode[i].refcnt /\ node.size = d.inode[i].size
  BY <1>1, <1>2 DEF Copy, Inode, blk
<1> HIDE DEF node
<1>4. SUFFICES ASSUME g # noFile PROVE Kept(d, g)
  BY DEF node
<1>5. node.type = "FILE"
    /\ g = [node |-> node, flags |-> IF flags = "READ" THEN "READ" ELSE "WRITE",
            offset |-> IF flags = "APPEND" THEN node.size ELSE 0]
  BY <1>4 DEF inode_open
<1> HIDE DEF g
<1>6. node.size \in 0 .. MaxSize /\ 0 \in 0 .. MaxSize
  BY <1>3, Sizes DEF Copy
<1>7. g \in File /\ g.node = node /\ g.offset <= node.size
  BY <1>3, <1>5, <1>6 DEF File
<1>8. Holds(d, i, blk(d, i), d.inode[i].size)
  BY DEF Sound, Written
<1> QED
  BY <1>3, <1>5, <1>7, <1>8 DEF Kept

LEMMA LeastIs ==
  ASSUME NEW a \in Nat, NEW b \in Nat
  PROVE  least(a, b) \in Nat /\ least(a, b) <= a /\ least(a, b) <= b
           /\ (least(a, b) = a \/ least(a, b) = b)
BY DEF least

LEMMA SoughtIs ==
  ASSUME NEW d, NEW f, Kept(d, f), NEW n \in Nat, n <= f.node.size
  PROVE  Kept(d, [f EXCEPT !.offset = n])
<1> DEFINE g == [f EXCEPT !.offset = n]
<1>1. f \in File /\ f.node.size \in 0 .. MaxSize
  BY DEF Kept, File, Copy
<1>2. n \in 0 .. MaxSize
  BY <1>1, Sizes
<1>3. g \in File /\ g.node = f.node /\ g.offset = n
  BY <1>1, <1>2 DEF File
<1> HIDE DEF g
<1>4. Kept(d, g)
  BY <1>3 DEF Kept
<1> QED
  BY <1>4 DEF g

LEMMA KeptSizes ==
  ASSUME NEW d, NEW f, Kept(d, f)
  PROVE  f.node.size \in 0 .. MaxSize /\ f.offset \in 0 .. MaxSize /\ f.offset <= f.node.size
           /\ f.node.size \in Nat /\ f.offset \in Nat
BY Sizes DEF Kept, File, Copy

LEMMA ReadIs ==
  ASSUME NEW d, NEW f, Kept(d, f), NEW count \in Nat
  PROVE  LET r == inode_read(d, f, count)
         IN Kept(d, r.file) /\ r.bad \in Failures \cup {Fine}
<1> DEFINE end == least(f.offset + count, f.node.size)
           r   == inode_read(d, f, count)
<1>1. end \in Nat /\ end <= f.node.size
  <2>1. f.node.size \in Nat /\ f.offset + count \in Nat
    BY KeptSizes
  <2>2. PICK a, b : a = f.offset + count /\ b = f.node.size
    OBVIOUS
  <2>3. least(a, b) \in Nat /\ least(a, b) <= b
    BY <2>1, <2>2, LeastIs
  <2> QED
    BY <2>2, <2>3
<1>2. Kept(d, [f EXCEPT !.offset = end])
  BY <1>1, SoughtIs
<1>3. r.file = f \/ r.file = [f EXCEPT !.offset = end]
  BY DEF inode_read
<1>4. r.bad \in Failures \cup {Fine}
  BY DEF inode_read, Failures
<1> HIDE DEF r, end
<1>5. Kept(d, r.file)
  BY <1>2, <1>3
<1> QED
  BY <1>4, <1>5 DEF r

LEMMA DataIs ==
  ASSUME NEW d \in Disk, NEW b \in Block
  PROVE  /\ Data(d, b) \in Page
         /\ d.content[b] \in Page => Data(d, b) = d.content[b]
<1>1. d.content[b] \in Folder \cup Page
  BY DEF Disk
<1>2. CASE d.content[b] \in Page
  <2>1. d.content[b][1] \in [data : Id \cup {NoData}]
    BY <1>2, Sizes DEF Page
  <2>2. "data" \in DOMAIN d.content[b][1]
    BY <2>1
  <2> QED
    BY <1>2, <2>2 DEF Data
<1>3. CASE d.content[b] \in Folder /\ d.content[b] \notin Page
  <2>1. d.content[b][1] \in Entry
    BY <1>3, Sizes DEF Folder
  <2>2. "data" \notin DOMAIN d.content[b][1]
    BY <2>1 DEF Entry, Free
  <2>3. Data(d, b) = Blank
    BY <2>2 DEF Data
  <2>4. Blank \in Page
    BY DEF Blank, Page, Unit
  <2> QED
    BY <1>3, <2>3, <2>4
<1> QED
  BY <1>1, <1>2, <1>3

\* Block b of inode i holds its data from lo to hi, the inode has size s, and
\* all else is as it was.
Wrote(d, e, i, b, lo, hi, s) ==
  /\ e.using = d.using
  /\ \A c \in Block : c # b => e.content[c] = d.content[c]
  /\ e.content[b] \in Page
  /\ \A n \in 1 .. MaxSize : e.content[b][n] = IF lo < n /\ n <= hi THEN Unit(i) ELSE Data(d, b)[n]
  /\ \A j \in Id : j # i => e.inode[j] = d.inode[j]
  /\ e.inode[i].type = d.inode[i].type /\ e.inode[i].block_id = d.inode[i].block_id
  /\ e.inode[i].refcnt = d.inode[i].refcnt /\ e.inode[i].size = s

\* The image with the text in block b.
Put(d, b, text, lo, hi) ==
  [d EXCEPT !.content[b] = [n \in 1 .. MaxSize |->
     IF lo < n /\ n <= hi THEN Unit(text[n - lo]) ELSE Data(d, b)[n]]]

LEMMA PutIs ==
  ASSUME NEW d \in Disk, NEW b \in Block, NEW i \in Id, NEW lo \in Nat, NEW count \in Nat,
         NEW hi \in Nat, hi <= lo + count, NEW text, \A n \in 1 .. count : text[n] = i
  PROVE  LET e == Put(d, b, text, lo, hi)
         IN e \in Disk /\ e.inode = d.inode /\ Wrote(d, e, i, b, lo, hi, d.inode[i].size)
<1> DEFINE page == [n \in 1 .. MaxSize |->
                      IF lo < n /\ n <= hi THEN Unit(text[n - lo]) ELSE Data(d, b)[n]]
           e == [d EXCEPT !.content[b] = page]
<1>1. ASSUME NEW n \in 1 .. MaxSize, lo < n, n <= hi PROVE text[n - lo] = i
  <2>1. n - lo \in 1 .. count
    BY <1>1, Sizes
  <2> QED
    BY <2>1
<1>2. \A n \in 1 .. MaxSize : page[n] = IF lo < n /\ n <= hi THEN Unit(i) ELSE Data(d, b)[n]
  BY <1>1
<1>3. Unit(i) \in [data : Id \cup {NoData}] /\ Data(d, b) \in Page
  BY DataIs DEF Unit
<1>4. page \in Page
  <2> SUFFICES ASSUME NEW n \in 1 .. MaxSize PROVE page[n] \in [data : Id \cup {NoData}]
    BY DEF Page
  <2>1. Data(d, b)[n] \in [data : Id \cup {NoData}]
    BY <1>3 DEF Page
  <2> HIDE DEF page
  <2> QED
    BY <1>2, <1>3, <2>1
<1> HIDE DEF page
<1>5. e \in Disk /\ e.inode = d.inode /\ e.using = d.using /\ e.content = [d.content EXCEPT ![b] = page]
  BY <1>4 DEF Disk
<1>6. e.content[b] = page /\ \A c \in Block : c # b => e.content[c] = d.content[c]
  BY <1>5 DEF Disk
<1> HIDE DEF e
<1>7. Wrote(d, e, i, b, lo, hi, d.inode[i].size)
  BY <1>2, <1>4, <1>5, <1>6 DEF Wrote
<1> QED
  BY <1>5, <1>7 DEF e, page, Put

\* What was the inode's data is, and so is what was written.
LEMMA WroteHolds ==
  ASSUME NEW d \in Disk, NEW e, NEW i, NEW b \in Block, NEW lo \in Nat, NEW hi \in 0 .. MaxSize, NEW s,
         Wrote(d, e, i, b, lo, hi, s), NEW n \in 0 .. MaxSize,
         \/ Holds(d, i, b, n)
         \/ n = hi /\ \E m \in 0 .. MaxSize : lo <= m /\ Holds(d, i, b, m)
  PROVE  Holds(e, i, b, n)
<1>1. e.content[b] \in Page
        /\ \A q \in 1 .. MaxSize : e.content[b][q] = IF lo < q /\ q <= hi THEN Unit(i) ELSE Data(d, b)[q]
  BY DEF Wrote
<1>2. ASSUME NEW q \in 1 .. n PROVE e.content[b][q] = Unit(i)
  <2>1. q \in 1 .. MaxSize
    BY Sizes
  <2>2. CASE lo < q /\ q <= hi
    BY <1>1, <2>1, <2>2
  <2>3. CASE ~(lo < q /\ q <= hi)
    <3>1. PICK m \in 0 .. MaxSize : q <= m /\ Holds(d, i, b, m)
      <4>1. CASE Holds(d, i, b, n)
        BY <4>1
      <4>2. CASE n = hi /\ \E m \in 0 .. MaxSize : lo <= m /\ Holds(d, i, b, m)
        <5>1. PICK m \in 0 .. MaxSize : lo <= m /\ Holds(d, i, b, m)
          BY <4>2
        <5>2. q <= m
          BY <2>1, <2>3, <4>2, <5>1
        <5> QED
          BY <5>1, <5>2
      <4> QED
        BY <4>1, <4>2
    <3>2. m > 0 /\ q \in 1 .. m
      BY <2>1, <3>1
    <3>3. d.content[b] \in Page /\ d.content[b][q] = Unit(i)
      BY <3>1, <3>2 DEF Holds
    <3>4. Data(d, b) = d.content[b]
      BY <3>3, DataIs
    <3> QED
      BY <1>1, <2>1, <2>3, <3>3, <3>4
  <2> QED
    BY <2>2, <2>3
<1> QED
  BY <1>1, <1>2 DEF Holds

LEMMA WroteIds ==
  ASSUME NEW d, NEW e, NEW i, NEW b, NEW lo, NEW hi, NEW s, Wrote(d, e, i, b, lo, hi, s)
  PROVE  /\ Live(e) = Live(d) /\ Dirs(e) = Dirs(d)
         /\ \A j \in Id : /\ blk(e, j) = blk(d, j) /\ e.inode[j].type = d.inode[j].type
                          /\ e.inode[j].refcnt = d.inode[j].refcnt
                          /\ e.inode[j].size = IF j = i THEN s ELSE d.inode[j].size
<1>1. \A j \in Id : /\ e.inode[j].type = d.inode[j].type
                    /\ e.inode[j].block_id = d.inode[j].block_id
                    /\ e.inode[j].refcnt = d.inode[j].refcnt
                    /\ e.inode[j].size = IF j = i THEN s ELSE d.inode[j].size
  BY DEF Wrote
<1> QED
  BY <1>1 DEF Live, Dirs, IsDir, blk

LEMMA WroteSound ==
  ASSUME NEW d, Sound(d), NEW e \in Disk, NEW i \in Live(d), d.inode[i].type = "FILE",
         NEW b \in Block, b = blk(d, i), NEW lo, NEW hi, NEW s, Wrote(d, e, i, b, lo, hi, s),
         Holds(e, i, b, s), NEW l, Counts(d, l)
  PROVE  /\ Sound(e) /\ Counts(e, l)
         /\ \A j \in Live(d) : j # i /\ blk(d, j) # none => e.content[blk(d, j)] = d.content[blk(d, j)]
<1>1. d \in Disk /\ Live(d) \subseteq Id /\ Dirs(d) \subseteq Live(d)
  BY LiveIs DEF Sound
<1>2. /\ Live(e) = Live(d) /\ Dirs(e) = Dirs(d) /\ e.using = d.using
      /\ \A j \in Id : /\ blk(e, j) = blk(d, j) /\ e.inode[j].type = d.inode[j].type
                       /\ e.inode[j].refcnt = d.inode[j].refcnt
                       /\ e.inode[j].size = IF j = i THEN s ELSE d.inode[j].size
  <2>1. e.using = d.using
    BY DEF Wrote
  <2> QED
    BY <2>1, WroteIds
<1>3. ASSUME NEW j \in Live(d), j # i, blk(d, j) # none
      PROVE  e.content[blk(d, j)] = d.content[blk(d, j)]
  <2>1. d.inode[j] \in Inode
    BY <1>1, LiveIs
  <2>2. blk(d, j) \in Block
    BY <1>3, <2>1 DEF Inode, blk
  <2>3. blk(d, j) # b
    BY <1>3 DEF Sound, Owned
  <2> QED
    BY <2>2, <2>3 DEF Wrote
<1>4. i \notin Dirs(d)
  BY DEF Dirs, IsDir
<1>5. Owned(e)
  BY <1>1, <1>2 DEF Sound, Owned
<1>6. Tree(e)
  <2>1. IsDir(e, 0)
    BY <1>2, Sizes DEF Sound, Tree, IsDir
  <2>2. ASSUME NEW j \in Dirs(e), blk(e, j) # none PROVE Tidy(e.content[blk(e, j)], Live(e))
    <3>1. blk(d, j) # none /\ j \in Dirs(d) /\ blk(e, j) = blk(d, j) /\ j \in Live(d) /\ j # i
      BY <1>1, <1>2, <1>4, <2>2
    <3>2. Tidy(d.content[blk(d, j)], Live(d))
      BY <3>1, FolderIs
    <3> QED
      BY <1>2, <1>3, <3>1, <3>2
  <2> QED
    BY <2>1, <2>2 DEF Tree
<1>7. Written(e)
  <2>1. ASSUME NEW j \in Live(e) PROVE /\ Holds(e, j, blk(e, j), e.inode[j].size)
                                       /\ IsDir(e, j) => e.inode[j].size = 0
    <3>1. j \in Live(d) /\ j \in Id
      BY <1>1, <1>2
    <3>2. CASE j = i
      BY <1>2, <3>1, <3>2 DEF IsDir
    <3>3. CASE j # i
      <4>1. Holds(d, j, blk(d, j), d.inode[j].size) /\ (IsDir(d, j) => d.inode[j].size = 0)
        BY <3>1 DEF Sound, Written
      <4> QED
        BY <1>2, <1>3, <3>1, <3>3, <4>1, Sizes DEF Holds, IsDir
    <3> QED
      BY <3>2, <3>3
  <2> QED
    BY <2>1 DEF Written
<1>8. Counts(e, l)
  <2>1. ASSUME NEW m \in Live(e)
        PROVE  e.inode[m].refcnt = Names(e, m, Dirs(e)) + l[m] + (IF m = 0 THEN 1 ELSE 0)
    <3>1. m \in Live(d) /\ m \in Id
      BY <1>1, <1>2
    <3>2. ASSUME NEW j, NEW q PROVE Naming(d, m, j, q) <=> Naming(e, m, j, q)
      <4>1. CASE j \in Dirs(d) /\ blk(d, j) # none
        <5>1. blk(e, j) = blk(d, j) /\ e.content[blk(d, j)] = d.content[blk(d, j)]
          BY <1>1, <1>2, <1>3, <1>4, <4>1
        <5> QED
          BY <1>2, <4>1, <5>1 DEF Naming
      <4>2. CASE j \in Dirs(d) /\ blk(d, j) = none
        <5>1. blk(e, j) = none
          BY <1>1, <1>2, <4>2
        <5> QED
          BY <4>2, <5>1 DEF Naming
      <4>3. CASE j \notin Dirs(d)
        BY <1>2, <4>3 DEF Naming
      <4> QED
        BY <4>1, <4>2, <4>3
    <3>3. Names(d, m, Dirs(d)) = Names(e, m, Dirs(e))
      BY <3>2, SameNames
    <3> QED
      BY <1>2, <3>1, <3>3 DEF Counts
  <2> QED
    BY <1>2, <2>1 DEF Counts
<1> QED
  BY <1>3, <1>5, <1>6, <1>7, <1>8 DEF Sound

\* What inode_write does through a file of a sound image.
LEMMA WriteIs ==
  ASSUME NEW d, Sound(d), NEW l, Counts(d, l), NEW f, Kept(d, f), NEW count \in Nat,
         NEW text, Len(text) = count, \A n \in 1 .. count : text[n] = f.node.id
  PROVE  LET r == inode_write(d, f, text)
         IN /\ r.disk \in Disk /\ r.bad \in Failures \cup {Fine}
            /\ \/ r.disk = d /\ r.file = f
               \/ \E s \in 0 .. MaxSize, lo \in Nat, hi \in 0 .. MaxSize :
                    /\ Wrote(d, r.disk, f.node.id, f.node.block_id, lo, hi, s)
                    /\ f.node.block_id # none
                    /\ lo <= f.node.size
                    /\ r.file \in File /\ r.file.offset = hi
                    /\ r.file.node.id = f.node.id /\ r.file.node.type = f.node.type
                    /\ r.file.node.block_id = f.node.block_id /\ r.file.node.refcnt = f.node.refcnt
                    /\ \/ s = d.inode[f.node.id].size /\ r.file.node.size = f.node.size /\ hi <= f.node.size
                       \/ s = hi /\ r.file.node.size = hi /\ hi > f.node.size
<1> DEFINE i == f.node.id
           b == f.node.block_id
           lo == f.offset
           end == least(f.offset + Len(text), MaxSize)
           new  == [f EXCEPT !.offset = end]
           grow == [new EXCEPT !.node.size = end]
           put  == [d EXCEPT !.content[b] = [n \in 1 .. MaxSize |->
                     IF lo < n /\ n <= end THEN Unit(text[n - lo]) ELSE Data(d, b)[n]]]
           node == [type |-> f.node.type, block_id |-> b, refcnt |-> f.node.refcnt, size |-> end]
           more == [put EXCEPT !.inode[f.node.id] = node]
           res  == end - f.offset
           r == inode_write(d, f, text)
<1>1. r = IF f.flags # "WRITE" THEN [disk |-> d, file |-> f, res |-> none, bad |-> Fine]
          ELSE IF b = none THEN [disk |-> d, file |-> f, res |-> none, bad |-> "no block"]
          ELSE IF end > f.node.size THEN [disk |-> more, file |-> grow, res |-> res, bad |-> Fine]
          ELSE [disk |-> put, file |-> new, res |-> res, bad |-> Fine]
  BY DEF inode_write
<1> HIDE DEF r, new, grow, put, more, node, res, end
<1>2. d \in Disk /\ i \in Id /\ i \in Live(d) /\ d.inode[i] \in Inode /\ f \in File
  BY LiveIs DEF Sound, Kept
<1>3. CASE f.flags # "WRITE" \/ b = none
  <2>1. r.disk = d /\ r.file = f /\ r.bad \in {Fine, "no block"}
    BY <1>1, <1>3
  <2>2. r.disk \in Disk /\ r.bad \in Failures \cup {Fine} /\ r.disk = d /\ r.file = f
    BY <1>2, <2>1 DEF Failures
  <2> QED
    BY <2>2 DEF r
<1>4. CASE f.flags = "WRITE" /\ b # none
  <2>1. b \in Block /\ lo \in 0 .. MaxSize /\ lo \in Nat /\ lo <= f.node.size /\ f.node.size \in Nat
    BY <1>2, <1>4, KeptSizes DEF File, Copy
  <2>2. Len(text) = count /\ \A n \in 1 .. count : text[n] = i
    OBVIOUS
  <2>3. end \in 0 .. MaxSize /\ end \in Nat /\ end <= lo + count
    <3>1. lo + count \in Nat /\ MaxSize \in Nat
      BY <2>1, Sizes
    <3>2. PICK m : m = lo + count
      OBVIOUS
    <3>3. end = least(m, MaxSize)
      BY <2>2, <3>2 DEF end
    <3>4. least(m, MaxSize) \in Nat /\ least(m, MaxSize) <= m /\ least(m, MaxSize) <= MaxSize
      BY <3>1, <3>2, LeastIs
    <3> QED
      BY <3>2, <3>3, <3>4
  <2>4. put \in Disk /\ put.inode = d.inode /\ Wrote(d, put, i, b, lo, end, d.inode[i].size)
    <3>1. put = Put(d, b, text, lo, end)
      BY DEF put, Put
    <3> HIDE DEF i, b, lo
    <3> QED
      BY <1>2, <2>1, <2>2, <2>3, <3>1, PutIs
  <2>5. d.inode[i].size \in 0 .. MaxSize
    BY <1>2 DEF Inode
  <2>6. new \in File /\ new.node = f.node /\ new.offset = end
    BY <1>2, <2>3 DEF new, File
  <2>7. CASE end > f.node.size
    <3>1. r.disk = more /\ r.file = grow /\ r.bad = Fine
      BY <1>1, <1>4, <2>7
    <3>2. grow \in File /\ grow.offset = end
      BY <2>3, <2>6 DEF grow, File, Copy
    <3>3. grow.node.id = i /\ grow.node.type = f.node.type /\ grow.node.block_id = b
            /\ grow.node.refcnt = f.node.refcnt /\ grow.node.size = end
      BY <2>3, <2>6 DEF grow, File, Copy
    <3>4. node \in Inode /\ node.type = d.inode[i].type /\ node.block_id = d.inode[i].block_id
            /\ node.refcnt = d.inode[i].refcnt /\ node.size = end
      BY <1>2, <2>3 DEF node, Kept, Inode, File, Copy, blk
    <3>5. more \in Disk /\ more.inode = [d.inode EXCEPT ![i] = node] /\ more.using = put.using
            /\ more.content = put.content
      BY <1>2, <2>4, <3>4 DEF more, Disk
    <3>6. more.inode[i] = node /\ \A j \in Id : j # i => more.inode[j] = d.inode[j]
      BY <1>2, <3>5 DEF Disk
    <3>7. Wrote(d, more, i, b, lo, end, end)
      BY <2>4, <3>4, <3>5, <3>6 DEF Wrote
    <3>8. r.disk \in Disk /\ r.bad \in Failures \cup {Fine}
      BY <3>1, <3>5
    <3> QED
      BY <1>4, <2>1, <2>3, <2>7, <3>1, <3>2, <3>3, <3>7, <3>8 DEF r
  <2>8. CASE ~(end > f.node.size)
    <3>1. r.disk = put /\ r.file = new /\ r.bad = Fine
      BY <1>1, <1>4, <2>8
    <3>2. end <= f.node.size
      BY <2>1, <2>3, <2>8
    <3>3. r.disk \in Disk /\ r.bad \in Failures \cup {Fine}
      BY <2>4, <3>1
    <3> QED
      BY <1>4, <2>1, <2>3, <2>4, <2>5, <2>6, <3>1, <3>2, <3>3 DEF r
  <2> QED
    BY <2>7, <2>8
<1> QED
  BY <1>3, <1>4

----------------------------------------------------------------------------
(* The steps. *)

LEMMA TableSet ==
  ASSUME NEW d, NEW files, Table(d, files), NEW t, NEW fd, NEW f, f = noFile \/ Kept(d, f)
  PROVE  Table(d, [files EXCEPT ![t][fd] = f])
<1> DEFINE new == [files EXCEPT ![t][fd] = f]
<1>1. f \in File \cup {noFile}
  BY DEF Kept
<1>2. files \in [Task -> [Fd -> File \cup {noFile}]]
  BY DEF Table
<1>3. new \in [Task -> [Fd -> File \cup {noFile}]]
  BY <1>1, <1>2
<1>4. \A u \in Task, gd \in Fd : new[u][gd] = files[u][gd] \/ new[u][gd] = f
  BY <1>2
<1> HIDE DEF new
<1>5. Table(d, new)
  BY <1>3, <1>4 DEF Table
<1> QED
  BY <1>5 DEF new

LEMMA TableStill ==
  ASSUME NEW d, Sound(d), NEW e, NEW X, Keeps(d, e, X), NEW files, Table(d, files),
         \A t \in Task, fd \in Fd : files[t][fd] # noFile => files[t][fd].node.id \notin X
  PROVE  Table(e, files)
<1>1. ASSUME NEW t \in Task, NEW fd \in Fd, files[t][fd] # noFile PROVE Kept(e, files[t][fd])
  BY <1>1, KeptStill DEF Table
<1> QED
  BY <1>1 DEF Table

\* The body of SizeKept.
SizeStep == \A i \in Id :
    disk'.inode[i].type = "FILE" /\ disk'.inode[i].size < disk.inode[i].size =>
      \E f \in OpenFiles : f.node.id = i /\ f.node.size < disk.inode[i].size

LEMMA NoShorterStep ==
  ASSUME Sound(disk), Sound(disk'), NoShorter(disk, disk') PROVE SizeStep
<1>1. ASSUME NEW i \in Id, disk'.inode[i].type = "FILE" PROVE ~(disk'.inode[i].size < disk.inode[i].size)
  <2>1. disk'.inode[i].size >= disk.inode[i].size
    BY <1>1 DEF NoShorter
  <2>2. disk'.inode[i].size \in Nat /\ disk.inode[i].size \in Nat
    BY DEF Sound, Disk, Inode, EMPTY
  <2> QED
    BY <2>1, <2>2
<1> QED
  BY <1>1 DEF SizeStep

LEMMA GoodStep ==
  ASSUME IInv, NEW r, Leave(r), NEW X, Good(disk, r, lost, X),
         \A t \in Task, fd \in Fd : fildes[t][fd] # noFile => fildes[t][fd].node.id \notin X
  PROVE  /\ Sound(disk') /\ Counts(disk', lost') /\ Table(disk', fildes)
         /\ halted' \in Failures \cup {Fine} /\ disk' = r.disk /\ SizeStep
<1>1. disk' = r.disk /\ halted' = r.bad /\ lost' = Lost(disk, r.disk, lost)
  BY DEF Leave, Lost
<1>2. Sound(disk') /\ Counts(disk', lost') /\ halted' \in Failures \cup {Fine}
        /\ Keeps(disk, disk', X) /\ NoShorter(disk, disk')
  BY <1>1 DEF Good
<1>3. Table(disk', fildes)
  BY <1>2, TableStill DEF IInv
<1>4. SizeStep
  BY <1>2, NoShorterStep DEF IInv
<1> QED
  BY <1>1, <1>2, <1>3, <1>4

LEMMA HeldIs ==
  ASSUME IInv, NEW path, lookup(disk, path).id \notin Held
  PROVE  \A t \in Task, fd \in Fd : fildes[t][fd] # noFile =>
            fildes[t][fd].node.id \notin {get_path_inode(disk, path).res}
<1>1. lookup(disk, path).id = get_path_inode(disk, path).res
  BY DEF lookup, noNode, inode_get
<1>2. \A t \in Task, fd \in Fd : fildes[t][fd] # noFile => fildes[t][fd].node.id \in Held
  BY DEF Held, OpenFiles
<1> QED
  BY <1>1, <1>2

LEMMA MkdirStep ==
  ASSUME IInv, NEW t \in Task, NEW path \in Path, Mkdir(t, path) PROVE IInv' /\ SizeStep
<1>1. PICK r : r = fs_mkdir(disk, DirOf(path), NameOf(path))
  OBVIOUS
<1>2. Leave(r) /\ UNCHANGED <<fildes, op, leaked>>
  BY <1>1 DEF Mkdir
<1>3. Good(disk, r, lost, {})
  BY <1>1, PathsAre, MkdirIs DEF IInv
<1>4. /\ Sound(disk') /\ Counts(disk', lost') /\ Table(disk', fildes)
      /\ halted' \in Failures \cup {Fine} /\ SizeStep
  BY <1>2, <1>3, GoodStep
<1> QED
  BY <1>2, <1>4 DEF IInv, Failures

LEMMA RmStep ==
  ASSUME ~RmWhileOpen, IInv, NEW t \in Task, NEW path \in Path, Rm(t, path)
  PROVE  IInv' /\ SizeStep
<1>1. PICK r : r = fs_rm(disk, DirOf(path), NameOf(path))
  OBVIOUS
<1>2. Leave(r) /\ UNCHANGED <<fildes, op, leaked>> /\ lookup(disk, path).id \notin Held
  BY <1>1 DEF Rm
<1>3. PICK X : X = {get_path_inode(disk, path).res}
  OBVIOUS
<1>4. Good(disk, r, lost, X)
  BY <1>1, <1>3, RmIs DEF IInv
<1>5. \A u \in Task, fd \in Fd : fildes[u][fd] # noFile => fildes[u][fd].node.id \notin X
  BY <1>2, <1>3, HeldIs
<1>6. /\ Sound(disk') /\ Counts(disk', lost') /\ Table(disk', fildes)
      /\ halted' \in Failures \cup {Fine} /\ SizeStep
  BY <1>2, <1>4, <1>5, GoodStep
<1> QED
  BY <1>2, <1>6 DEF IInv, Failures

LEMMA LinkStep ==
  ASSUME ~LinkWhileOpen, IInv, NEW t \in Task, NEW oldpath \in Path, Link(t, oldpath)
  PROVE  IInv' /\ SizeStep
<1>1. PICK path \in Path : Leave(fs_link(disk, oldpath, DirOf(path), NameOf(path)))
  BY DEF Link
<1>2. PICK r : r = fs_link(disk, oldpath, DirOf(path), NameOf(path))
  OBVIOUS
<1>3. Leave(r) /\ UNCHANGED <<fildes, op, leaked>> /\ lookup(disk, oldpath).id \notin Held
  BY <1>1, <1>2 DEF Link
<1>4. PICK X : X = {get_path_inode(disk, oldpath).res}
  OBVIOUS
<1>5. Good(disk, r, lost, X)
  BY <1>2, <1>4, PathsAre, FsLinkIs DEF IInv
<1>6. \A u \in Task, fd \in Fd : fildes[u][fd] # noFile => fildes[u][fd].node.id \notin X
  BY <1>3, <1>4, HeldIs
<1>7. /\ Sound(disk') /\ Counts(disk', lost') /\ Table(disk', fildes)
      /\ halted' \in Failures \cup {Fine} /\ SizeStep
  BY <1>3, <1>5, <1>6, GoodStep
<1> QED
  BY <1>3, <1>7 DEF IInv, Failures

LEMMA ReaddirStep ==
  ASSUME IInv, NEW t \in Task, NEW path \in Path, Readdir(t, path) PROVE IInv' /\ SizeStep
<1>1. PICK r : r = fs_readdir(disk, path)
  OBVIOUS
<1>2. Leave(r) /\ UNCHANGED <<fildes, op, leaked>>
  BY <1>1 DEF Readdir
<1>3. r.disk = disk /\ r.bad \in Failures \cup {Fine}
  BY <1>1, PathsAre, ReaddirIs DEF IInv
<1>4. Good(disk, r, lost, {})
  BY <1>3, SameGood DEF IInv
<1>5. /\ Sound(disk') /\ Counts(disk', lost') /\ Table(disk', fildes)
      /\ halted' \in Failures \cup {Fine} /\ SizeStep
  BY <1>2, <1>4, GoodStep
<1> QED
  BY <1>2, <1>5 DEF IInv, Failures

LEMMA NoPath == <<>> \in Path
<1>1. <<>> \in Seq(Name) /\ Len(<<>>) = 0
  BY EmptySeq
<1> QED
  BY <1>1, VfsAssumption DEF Path, BoundedSeq, SeqOf

LEMMA StillSize ==
  ASSUME Sound(disk), disk' = disk PROVE SizeStep
<1>1. \A i \in Id : disk.inode[i].size \in Nat
  BY DEF Sound, Disk, Inode, EMPTY
<1>2. \A i \in Id : ~(disk'.inode[i].size < disk.inode[i].size)
  BY <1>1
<1> QED
  BY <1>2 DEF SizeStep

LEMMA LinkAcrossStep ==
  ASSUME IInv, NEW t \in Task, LinkAcross(t) PROVE IInv' /\ SizeStep
<1>1. leaked' = TRUE /\ UNCHANGED <<disk, fildes, op, halted, lost>>
  BY DEF LinkAcross
<1>2. SizeStep
  BY <1>1, StillSize DEF IInv
<1> QED
  BY <1>1, <1>2 DEF IInv

LEMMA OpenStep ==
  ASSUME IInv, NEW t \in Task, NEW path \in Path, NEW flags \in Flags, Open(t, path, flags)
  PROVE  IInv' /\ SizeStep
<1>1. PICK r : r = get_path_inode(disk, path)
  OBVIOUS
<1>2. PICK fd : fd = CHOOSE e \in FreeFd(t) : \A f \in FreeFd(t) : e <= f
  OBVIOUS
<1>3. PICK g : g = inode_open(lookup(disk, path), flags)
  OBVIOUS
<1>4. /\ halted' = r.bad /\ UNCHANGED <<disk, leaked, lost>>
      /\ \/ op' = [op EXCEPT ![t] = [path |-> path, fd |-> fd]] /\ UNCHANGED fildes
         \/ fildes' = [fildes EXCEPT ![t][fd] = g] /\ UNCHANGED op
  BY <1>1, <1>2, <1>3 DEF Open
<1>5. r.res \in Live(disk) \cup {none} /\ r.bad \in Failures \cup {Fine}
  BY <1>1, PathsAre, PathEnds DEF IInv
<1>6. g = noFile \/ Kept(disk, g)
  <2>1. CASE r.res = none
    BY <1>1, <1>3, <2>1 DEF lookup, inode_open
  <2>2. CASE r.res # none
    <3>1. r.res \in Live(disk) /\ g = inode_open(inode_get(disk, r.res), flags)
      BY <1>1, <1>3, <1>5, <2>2 DEF lookup
    <3> QED
      BY <3>1, OpenIs DEF IInv
  <2> QED
    BY <2>1, <2>2
<1>7. Table(disk, fildes')
  <2>1. Table(disk, fildes) /\ Table(disk, [fildes EXCEPT ![t][fd] = g])
    BY <1>6, TableSet DEF IInv
  <2> QED
    BY <1>4, <2>1
<1>8. DOMAIN op' = Task /\ \A u \in Task : op'[u].path \in Path
  <2>1. DOMAIN op = Task /\ \A u \in Task : op[u].path \in Path
    BY DEF IInv
  <2>2. PICK o : o = [path |-> path, fd |-> fd]
    OBVIOUS
  <2>3. o.path \in Path
    BY <2>2
  <2>4. op' = [op EXCEPT ![t] = o] \/ op' = op
    BY <1>4, <2>2
  <2> QED
    BY <2>1, <2>3, <2>4
<1>9. SizeStep
  BY <1>4, StillSize DEF IInv
<1> QED
  BY <1>4, <1>5, <1>7, <1>8, <1>9 DEF IInv, Failures

LEMMA CreateStep ==
  ASSUME IInv, NEW t \in Task, Create(t) PROVE IInv' /\ SizeStep
<1>1. PICK path : path = op[t].path
  OBVIOUS
<1>2. PICK r : r = create_file(disk, DirOf(path), NameOf(path))
  OBVIOUS
<1>3. PICK g : g = inode_open(IF r.res = none THEN noNode ELSE inode_get(r.disk, r.res), "WRITE")
  OBVIOUS
<1>4. PICK fd : fd = op[t].fd
  OBVIOUS
<1>5. /\ Leave(r) /\ fildes' = [fildes EXCEPT ![t][fd] = g]
      /\ op' = [op EXCEPT ![t] = idle] /\ UNCHANGED leaked
  BY <1>1, <1>2, <1>3, <1>4 DEF Create
<1>6. path \in Path
  BY <1>1 DEF IInv
<1>7. Good(disk, r, lost, {}) /\ r.res \in Live(r.disk) \cup {none}
  BY <1>2, <1>6, PathsAre, CreateFileIs DEF IInv
<1>8. /\ Sound(disk') /\ Counts(disk', lost') /\ Table(disk', fildes)
      /\ halted' \in Failures \cup {Fine} /\ disk' = r.disk /\ SizeStep
  BY <1>5, <1>7, GoodStep
<1>9. g = noFile \/ Kept(r.disk, g)
  <2>1. CASE r.res = none
    BY <1>3, <2>1 DEF inode_open
  <2>2. CASE r.res # none
    <3>1. r.res \in Live(r.disk) /\ g = inode_open(inode_get(r.disk, r.res), "WRITE")
      BY <1>3, <1>7, <2>2
    <3>2. Sound(r.disk) /\ "WRITE" \in Flags
      BY <1>8 DEF Flags
    <3> QED
      BY <3>1, <3>2, OpenIs
  <2> QED
    BY <2>1, <2>2
<1>10. Table(disk', fildes')
  BY <1>5, <1>8, <1>9, TableSet
<1>11. DOMAIN op' = Task /\ \A u \in Task : op'[u].path \in Path
  <2>1. idle.path \in Path
    BY NoPath DEF idle
  <2> QED
    BY <1>5, <2>1 DEF IInv
<1> QED
  BY <1>5, <1>8, <1>10, <1>11 DEF IInv, Failures

LEMMA CloseStep ==
  ASSUME IInv, NEW t \in Task, NEW fd \in Fd, close(t, fd) PROVE IInv' /\ SizeStep
<1>1. fildes' = [fildes EXCEPT ![t][fd] = noFile] /\ UNCHANGED <<disk, op, leaked, halted, lost>>
  BY DEF close
<1>2. Table(disk, fildes')
  BY <1>1, TableSet DEF IInv
<1>3. SizeStep
  BY <1>1, StillSize DEF IInv
<1> QED
  BY <1>1, <1>2, <1>3 DEF IInv

LEMMA ReadStep ==
  ASSUME IInv, NEW t \in Task, NEW fd \in Fd, NEW n \in 0 .. MaxSize, read(t, fd, n)
  PROVE  IInv' /\ SizeStep
<1>1. PICK f : f = fildes[t][fd]
  OBVIOUS
<1>2. PICK r : r = inode_read(disk, f, n)
  OBVIOUS
<1>3. /\ f # noFile /\ halted' = r.bad /\ fildes' = [fildes EXCEPT ![t][fd] = r.file]
      /\ UNCHANGED <<disk, op, leaked, lost>>
  BY <1>1, <1>2 DEF read
<1>4. Kept(disk, f)
  BY <1>1, <1>3 DEF IInv, Table
<1>5. Kept(disk, r.file) /\ r.bad \in Failures \cup {Fine}
  BY <1>2, <1>4, ReadIs
<1>6. Table(disk, fildes')
  BY <1>3, <1>5, TableSet DEF IInv
<1>7. SizeStep
  BY <1>3, StillSize DEF IInv
<1> QED
  BY <1>3, <1>5, <1>6, <1>7 DEF IInv, Failures

LEMMA LseekStep ==
  ASSUME IInv, NEW t \in Task, NEW fd \in Fd, NEW n \in 0 .. MaxSize, inode_lseek(t, fd, n)
  PROVE  IInv' /\ SizeStep
<1>1. PICK f : f = fildes[t][fd]
  OBVIOUS
<1>2. PICK m : m = least(n, f.node.size)
  OBVIOUS
<1>3. PICK g : g = [f EXCEPT !.offset = m]
  OBVIOUS
<1>4. fildes \in [Task -> [Fd -> File \cup {noFile}]]
  BY DEF IInv, Table
<1>5. f # noFile /\ UNCHANGED <<disk, op, leaked, halted, lost>>
  BY <1>1 DEF inode_lseek
<1>6. fildes' = [fildes EXCEPT ![t][fd] = g]
  BY <1>1, <1>2, <1>3, <1>4 DEF inode_lseek
<1>7. Kept(disk, f)
  BY <1>1, <1>5 DEF IInv, Table
<1>8. m \in Nat /\ m <= f.node.size
  BY <1>2, <1>7, KeptSizes, LeastIs
<1>9. Kept(disk, g)
  BY <1>3, <1>7, <1>8, SoughtIs
<1>10. Table(disk, fildes')
  BY <1>6, <1>9, TableSet DEF IInv
<1>11. SizeStep
  BY <1>5, StillSize DEF IInv
<1> QED
  BY <1>5, <1>10, <1>11 DEF IInv

\* The other files of an image after one was written.
LEMMA WroteKept ==
  ASSUME NEW d, Sound(d), NEW e \in Disk, NEW i \in Live(d), NEW b \in Block, b = blk(d, i),
         NEW lo \in Nat, NEW hi \in 0 .. MaxSize, NEW s, Wrote(d, e, i, b, lo, hi, s),
         \A j \in Live(d) : j # i /\ blk(d, j) # none => e.content[blk(d, j)] = d.content[blk(d, j)],
         NEW g, Kept(d, g)
  PROVE  Kept(e, g)
<1>1. d \in Disk /\ Live(d) \subseteq Id
  BY LiveIs DEF Sound
<1>2. PICK j : j = g.node.id
  OBVIOUS
<1>3. j \in Live(d) /\ j \in Id /\ g.node.block_id = blk(d, j) /\ Holds(d, j, blk(d, j), g.node.size)
  BY <1>1, <1>2 DEF Kept
<1>4. /\ Live(e) = Live(d) /\ blk(e, j) = blk(d, j) /\ e.inode[j].type = d.inode[j].type
      /\ e.inode[j].refcnt = d.inode[j].refcnt
  BY <1>3, WroteIds
<1>5. Holds(e, j, blk(d, j), g.node.size)
  <2>1. CASE j = i
    <3>1. g.node.size \in 0 .. MaxSize
      BY KeptSizes
    <3> QED
      BY <1>1, <1>3, <2>1, <3>1, WroteHolds
  <2>2. CASE j # i
    <3>1. CASE blk(d, j) = none
      BY <1>3, <3>1, Sizes DEF Holds
    <3>2. CASE blk(d, j) # none
      <4>1. e.content[blk(d, j)] = d.content[blk(d, j)]
        BY <1>3, <2>2, <3>2
      <4> QED
        BY <1>3, <4>1 DEF Holds
    <3> QED
      BY <3>1, <3>2
  <2> QED
    BY <2>1, <2>2
<1> QED
  BY <1>2, <1>3, <1>4, <1>5 DEF Kept

LEMMA WriteStep ==
  ASSUME IInv, NEW t \in Task, NEW fd \in Fd, NEW n \in 0 .. MaxSize, write(t, fd, n)
  PROVE  IInv' /\ SizeStep
<1>1. PICK f : f = fildes[t][fd]
  OBVIOUS
<1>2. PICK text : text = [m \in 1 .. n |-> f.node.id]
  OBVIOUS
<1>3. PICK r : r = inode_write(disk, f, text)
  OBVIOUS
<1>4. /\ f # noFile /\ halted' = r.bad /\ disk' = r.disk
      /\ fildes' = [fildes EXCEPT ![t][fd] = r.file] /\ UNCHANGED <<op, leaked, lost>>
  BY <1>1, <1>2, <1>3 DEF write
<1>5. Kept(disk, f) /\ Sound(disk) /\ Counts(disk, lost) /\ Table(disk, fildes)
  BY <1>1, <1>4 DEF IInv, Table
<1>6. n \in Nat /\ Len(text) = n /\ \A m \in 1 .. n : text[m] = f.node.id
  BY <1>2
<1>7. PICK i, b : i = f.node.id /\ b = f.node.block_id
  OBVIOUS
<1>8. /\ r.disk \in Disk /\ r.bad \in Failures \cup {Fine}
      /\ \/ r.disk = disk /\ r.file = f
         \/ \E s \in 0 .. MaxSize, lo \in Nat, hi \in 0 .. MaxSize :
              /\ Wrote(disk, r.disk, i, b, lo, hi, s)
              /\ b # none
              /\ lo <= f.node.size
              /\ r.file \in File /\ r.file.offset = hi
              /\ r.file.node.id = i /\ r.file.node.type = f.node.type
              /\ r.file.node.block_id = b /\ r.file.node.refcnt = f.node.refcnt
              /\ \/ s = disk.inode[i].size /\ r.file.node.size = f.node.size /\ hi <= f.node.size
                 \/ s = hi /\ r.file.node.size = hi /\ hi > f.node.size
  BY <1>3, <1>5, <1>6, <1>7, WriteIs
<1>9. SUFFICES Sound(disk') /\ Counts(disk', lost) /\ Table(disk', fildes) /\ Kept(disk', r.file) /\ SizeStep
  <2>1. Table(disk', fildes')
    BY <1>4, <1>9, TableSet
  <2> QED
    BY <1>4, <1>8, <1>9, <2>1 DEF IInv, Failures
<1>10. CASE r.disk = disk /\ r.file = f
  BY <1>4, <1>5, <1>10, StillSize
<1>11. ASSUME NEW s \in 0 .. MaxSize, NEW lo \in Nat, NEW hi \in 0 .. MaxSize,
              Wrote(disk, r.disk, i, b, lo, hi, s), b # none, lo <= f.node.size,
              r.file \in File, r.file.offset = hi,
              r.file.node.id = i, r.file.node.type = f.node.type,
              r.file.node.block_id = b, r.file.node.refcnt = f.node.refcnt,
              \/ s = disk.inode[i].size /\ r.file.node.size = f.node.size /\ hi <= f.node.size
              \/ s = hi /\ r.file.node.size = hi /\ hi > f.node.size
       PROVE  Sound(disk') /\ Counts(disk', lost) /\ Table(disk', fildes) /\ Kept(disk', r.file) /\ SizeStep
  <2>1. /\ i \in Live(disk) /\ i \in Id /\ disk \in Disk /\ disk.inode[i].type = "FILE" /\ f.node.type = "FILE"
        /\ b = blk(disk, i) /\ f.node.refcnt = disk.inode[i].refcnt
        /\ Holds(disk, i, b, f.node.size) /\ f.node.size \in 0 .. MaxSize
    BY <1>5, <1>7, LiveIs, KeptSizes DEF Kept, Sound
  <2>2. b \in Block /\ disk.inode[i].size \in 0 .. MaxSize
    <3>1. disk.inode[i] \in Inode
      BY <2>1, LiveIs
    <3> QED
      BY <1>11, <2>1, <3>1 DEF Inode, blk
  <2>3. Holds(disk, i, b, disk.inode[i].size)
    BY <1>5, <2>1 DEF Sound, Written
  <2>4. Holds(disk', i, b, s)
    <3>1. CASE s = disk.inode[i].size
      BY <1>4, <1>11, <2>1, <2>2, <2>3, <3>1, WroteHolds
    <3>2. CASE s = hi
      BY <1>4, <1>11, <2>1, <2>2, <3>2, WroteHolds
    <3> QED
      BY <1>11, <3>1, <3>2
  <2>5. /\ Sound(disk') /\ Counts(disk', lost)
        /\ \A j \in Live(disk) : j # i /\ blk(disk, j) # none =>
             disk'.content[blk(disk, j)] = disk.content[blk(disk, j)]
    BY <1>4, <1>5, <1>8, <1>11, <2>1, <2>2, <2>4, WroteSound
  <2>6. \A g : Kept(disk, g) => Kept(disk', g)
    BY <1>4, <1>5, <1>8, <1>11, <2>1, <2>2, <2>5, WroteKept
  <2>7. Table(disk', fildes)
    BY <1>5, <2>6 DEF Table
  <2>8. Kept(disk', f) /\ Wrote(disk, disk', i, b, lo, hi, s)
    BY <1>4, <1>5, <1>11, <2>6
  <2>9. /\ Live(disk') = Live(disk) /\ blk(disk', i) = blk(disk, i)
        /\ disk'.inode[i].type = disk.inode[i].type /\ disk'.inode[i].refcnt = disk.inode[i].refcnt
        /\ \A j \in Id : disk'.inode[j].size = IF j = i THEN s ELSE disk.inode[j].size
    BY <2>1, <2>8, WroteIds
  <2>10. Holds(disk', i, b, r.file.node.size) /\ hi <= r.file.node.size
    <3>1. CASE r.file.node.size = f.node.size /\ hi <= f.node.size
      BY <1>7, <2>8, <3>1 DEF Kept
    <3>2. CASE s = hi /\ r.file.node.size = hi
      BY <2>4, <3>2
    <3> QED
      BY <1>11, <3>1, <3>2
  <2>11. Kept(disk', r.file)
    BY <1>11, <2>1, <2>9, <2>10 DEF Kept
  <2>12. f \in OpenFiles
    BY <1>1, <1>4 DEF OpenFiles
  <2>13. SizeStep
    <3>1. ASSUME NEW j \in Id, disk'.inode[j].size < disk.inode[j].size
          PROVE  f.node.id = j /\ f.node.size < disk.inode[j].size
      <4>1. disk.inode[j].size \in Nat
        BY <2>1 DEF Disk, Inode, EMPTY
      <4>2. j = i /\ s < disk.inode[i].size
        BY <2>9, <3>1, <4>1
      <4> QED
        BY <1>7, <1>11, <2>1, <2>2, <4>2
    <3> QED
      BY <2>12, <3>1 DEF SizeStep
  <2> QED
    BY <2>5, <2>7, <2>11, <2>13
<1> QED
  BY <1>8, <1>10, <1>11

\* The root of a new file system.
LEMMA RootIs ==
  LET e == fs_init
  IN /\ e \in Disk
     /\ \E b \in Block \cup {none} :
          /\ e.inode[0] = [type |-> "DIR", block_id |-> b, refcnt |-> 1, size |-> 0]
          /\ \A j \in Id \ {0} : e.inode[j] = EMPTY
          /\ \A c \in Block : e.using[c] <=> c = b
          /\ b # none => e.content[b] = EmptyDir
<1> DEFINE a == inode_alloc(blank, "DIR")
           d == a.disk
           e == [d EXCEPT !.inode[0].refcnt = 1]
<1>1. blank \in Disk /\ (\A j \in Id : blank.inode[j] = EMPTY) /\ \A c \in Block : ~blank.using[c]
  <2>1. Blank \in Page
    BY DEF Blank, Page, Unit
  <2> QED
    BY <2>1 DEF blank, Disk
<1>2. a.res = 0
  <2> DEFINE I == {j \in Id : blank.inode[j].type = "EMPTY"}
  <2>1. I = Id /\ Id # {} /\ 0 \in Id /\ Id \subseteq Nat
    <3>1. EMPTY.type = "EMPTY"
      BY DEF EMPTY
    <3>2. \A j \in Id : blank.inode[j].type = "EMPTY"
      BY <1>1, <3>1
    <3>3. I = Id
      BY <3>2
    <3> QED
      BY <3>3, Sizes
  <2>2. Lowest(Id) \in Id /\ (\A j \in Id : Lowest(Id) <= j) /\ Lowest(Id) # none
    BY <2>1, LowestIs
  <2>3. Lowest(Id) = 0
    <3> HIDE DEF I
    <3>1. Lowest(Id) <= 0 /\ Lowest(Id) \in Nat
      BY <2>1, <2>2
    <3> QED
      BY <3>1
  <2>4. a.res = IF Lowest(I) = none THEN none ELSE Lowest(I)
    BY DEF inode_alloc, Done
  <2> HIDE DEF a, I
  <2> QED
    BY <2>1, <2>2, <2>3, <2>4
<1>3. d \in Disk /\ \E b \in Block \cup {none} : Allocated(blank, d, 0, b, "DIR")
  BY <1>1, <1>2, AllocIs, Sizes DEF none
<1> HIDE DEF a
<1>4. PICK b \in Block \cup {none} : Allocated(blank, d, 0, b, "DIR")
  BY <1>3
<1>5. /\ d.inode[0] = [type |-> "DIR", block_id |-> b, refcnt |-> 0, size |-> 0]
      /\ \A j \in Id \ {0} : d.inode[j] = EMPTY
      /\ \A c \in Block : d.using[c] <=> c = b
      /\ b # none => d.content[b] = EmptyDir
  BY <1>1, <1>4 DEF Allocated, NewInode
<1> DEFINE n == [type |-> "DIR", block_id |-> b, refcnt |-> 1, size |-> 0]
<1>6. n \in Inode /\ 0 \in Id /\ [d.inode[0] EXCEPT !.refcnt = 1] = n
  BY <1>5, Sizes DEF Inode
<1> HIDE DEF n, d
<1>7. e \in Disk /\ e.inode = [d.inode EXCEPT ![0] = n] /\ e.using = d.using /\ e.content = d.content
  BY <1>3, <1>6 DEF Disk
<1>8. e.inode[0] = n /\ \A j \in Id \ {0} : e.inode[j] = d.inode[j]
  BY <1>3, <1>6, <1>7 DEF Disk
<1> HIDE DEF e
<1>9. /\ e \in Disk /\ e.inode[0] = n /\ \A j \in Id \ {0} : e.inode[j] = EMPTY
      /\ \A c \in Block : e.using[c] <=> c = b
      /\ b # none => e.content[b] = EmptyDir
  BY <1>5, <1>7, <1>8
<1>10. fs_init = e
  BY DEF fs_init, e, d, a
<1> QED
  BY <1>9, <1>10 DEF n

LEMMA InitInv == Init => IInv
<1> SUFFICES ASSUME Init PROVE IInv
  OBVIOUS
<1>1. PICK b \in Block \cup {none} :
        /\ disk.inode[0] = [type |-> "DIR", block_id |-> b, refcnt |-> 1, size |-> 0]
        /\ \A j \in Id \ {0} : disk.inode[j] = EMPTY
        /\ \A c \in Block : disk.using[c] <=> c = b
        /\ b # none => disk.content[b] = EmptyDir
  BY RootIs DEF Init
<1>2. disk \in Disk /\ 0 \in Id
  BY RootIs, Sizes DEF Init
<1>3. Live(disk) = {0} /\ Dirs(disk) = {0} /\ blk(disk, 0) = b
  BY <1>1, <1>2 DEF Live, Dirs, IsDir, blk, EMPTY
<1>4. Owned(disk)
  BY <1>1, <1>3, Sizes DEF Owned
<1>5. Tree(disk)
  BY <1>1, <1>3, EmptyTidy DEF Tree, IsDir
<1>6. Written(disk)
  BY <1>1, <1>3 DEF Written, Holds
<1>7. lost \in [Id -> Nat] /\ \A i \in Id : lost[i] = 0
  BY DEF Init
<1>8. Names(disk, 0, Dirs(disk)) = 0
  <2>1. \A j, k : ~Naming(disk, 0, j, k)
    <3> SUFFICES ASSUME NEW j, NEW k, Naming(disk, 0, j, k) PROVE FALSE
      OBVIOUS
    <3>1. j = 0 /\ k \in Entries /\ b # none /\ disk.content[b][k].inode_id = 0
      BY <1>3 DEF Naming
    <3>2. disk.content[b][k] = Free
      BY <1>1, <3>1 DEF EmptyDir
    <3> QED
      BY <3>1, <3>2 DEF Free, none
  <2>2. NameSet(disk, 0, Dirs(disk)) = {}
    <3>1. \A x \in NameSet(disk, 0, Dirs(disk)) : \E j, k : x = <<j, k>>
      BY DEF NameSet
    <3> QED
      BY <2>1, <3>1, NameSetIs
  <2>3. Dirs(disk) \in SUBSET Id
    BY <1>2, <1>3
  <2> QED
    BY <2>2, <2>3, NamesIs, FS_EmptySet
<1>9. Counts(disk, lost)
  BY <1>1, <1>2, <1>3, <1>7, <1>8 DEF Counts
<1>10. Table(disk, fildes)
  BY DEF Init, Table
<1>11. DOMAIN op = Task /\ \A t \in Task : op[t].path \in Path
  BY NoPath DEF Init, idle
<1> QED
  BY <1>2, <1>4, <1>5, <1>6, <1>9, <1>10, <1>11 DEF Init, IInv, Sound

LEMMA NextInv ==
  ASSUME ~LinkWhileOpen, ~RmWhileOpen, IInv, [Next]_vars PROVE IInv' /\ SizeStep
<1>1. CASE UNCHANGED vars
  <2>1. UNCHANGED <<disk, fildes, op, leaked, halted, lost>>
    BY <1>1 DEF vars
  <2>2. SizeStep
    BY <2>1, StillSize DEF IInv
  <2> QED
    BY <2>1, <2>2 DEF IInv
<1>2. CASE Next
  <2>1. PICK t \in Task :
          \/ \E path \in Path : Mkdir(t, path) \/ Rm(t, path) \/ Link(t, path) \/ Readdir(t, path)
          \/ LinkAcross(t)
          \/ \E path \in Path, flags \in Flags : Open(t, path, flags)
          \/ Create(t)
          \/ \E fd \in Fd : \/ close(t, fd)
                            \/ \E n \in 0 .. MaxSize : read(t, fd, n) \/ write(t, fd, n) \/ inode_lseek(t, fd, n)
    BY <1>2 DEF Next
  <2>2. ASSUME NEW path \in Path, Mkdir(t, path) PROVE IInv' /\ SizeStep
    BY <2>2, MkdirStep
  <2>3. ASSUME NEW path \in Path, Rm(t, path) PROVE IInv' /\ SizeStep
    BY <2>3, RmStep
  <2>4. ASSUME NEW path \in Path, Link(t, path) PROVE IInv' /\ SizeStep
    BY <2>4, LinkStep
  <2>5. ASSUME NEW path \in Path, Readdir(t, path) PROVE IInv' /\ SizeStep
    BY <2>5, ReaddirStep
  <2>6. CASE LinkAcross(t)
    BY <2>6, LinkAcrossStep
  <2>7. ASSUME NEW path \in Path, NEW flags \in Flags, Open(t, path, flags) PROVE IInv' /\ SizeStep
    BY <2>7, OpenStep
  <2>8. CASE Create(t)
    BY <2>8, CreateStep
  <2>9. ASSUME NEW fd \in Fd, close(t, fd) PROVE IInv' /\ SizeStep
    BY <2>9, CloseStep
  <2>10. ASSUME NEW fd \in Fd, NEW n \in 0 .. MaxSize, read(t, fd, n) PROVE IInv' /\ SizeStep
    BY <2>10, ReadStep
  <2>11. ASSUME NEW fd \in Fd, NEW n \in 0 .. MaxSize, write(t, fd, n) PROVE IInv' /\ SizeStep
    BY <2>11, WriteStep
  <2>12. ASSUME NEW fd \in Fd, NEW n \in 0 .. MaxSize, inode_lseek(t, fd, n) PROVE IInv' /\ SizeStep
    BY <2>12, LseekStep
  <2> QED
    BY <2>1, <2>2, <2>3, <2>4, <2>5, <2>6, <2>7, <2>8, <2>9, <2>10, <2>11, <2>12
<1> QED
  BY <1>1, <1>2

----------------------------------------------------------------------------
(* The theorems. *)

LEMMA InvEntries ==
  ASSUME IInv PROVE EntriesSound
<1>1. disk \in Disk /\ Sound(disk)
  BY DEF IInv, Sound
<1>2. TypeOK
  <2>1. /\ disk.inode \in [Id -> {EMPTY} \cup [type : {"FILE", "DIR"}, block_id : Block \cup {none},
                                         refcnt : Nat, size : 0 .. MaxSize]]
        /\ disk.using \in [Block -> BOOLEAN] /\ DOMAIN disk.content = Block
    BY <1>1 DEF Disk, Inode
  <2> QED
    BY <2>1 DEF IInv, Counts, Table, TypeOK
<1>3. halted \notin {"dangling", "null inode", "not using"}
  BY DEF IInv, Fine
<1>4. ASSUME NEW i \in Dirs(disk), NEW e \in Entries, NEW f \in Entries,
             disk.inode[i].block_id # none, Items(disk, i)[e] # Free
      PROVE  /\ Items(disk, i)[e].inode_id \in Live(disk)
             /\ Items(disk, i)[f] # Free /\ Items(disk, i)[e].name = Items(disk, i)[f].name => e = f
  <2>1. Tidy(Items(disk, i), Live(disk))
    BY <1>1, <1>4 DEF Sound, Tree, Items, blk
  <2> QED
    BY <1>4, <2>1 DEF Tidy
<1> QED
  BY <1>2, <1>3, <1>4 DEF EntriesSound

\* Whatever is made, linked and removed, in any order and by any tasks, the
\* entries of a directory have different names, and each names an inode that
\* is in use: create_filedir looks for the name first, and delete_filedir
\* frees an inode only with its last name.
THEOREM EntriesAreSound ==
  ASSUME ~LinkWhileOpen, ~RmWhileOpen
  PROVE  Spec => []EntriesSound
<1>1. IInv /\ [Next]_vars => IInv'
  BY NextInv
<1> QED
  BY InitInv, <1>1, InvEntries, PTL DEF Spec

\* The count of an inode is the number of its names: create_filedir and
\* delete_filedir change it with the entries, and inode_write puts back the
\* count of the file's copy only while that is right.
THEOREM RefcntIsExact ==
  ASSUME ~LinkWhileOpen, ~RmWhileOpen
  PROVE  Spec => []RefcntExact
<1>1. IInv /\ [Next]_vars => IInv'
  BY NextInv
<1>2. IInv => RefcntExact
  BY DEF IInv, Counts, RefcntExact
<1> QED
  BY InitInv, <1>1, <1>2, PTL DEF Spec

LEMMA InvBlocks ==
  ASSUME IInv PROVE BlocksSound
<1> DEFINE own == {<<i, disk.inode[i].block_id>> : i \in Live(disk)} \ (Id \X {none})
<1>1. Sound(disk) /\ disk \in Disk /\ Live(disk) \subseteq Id
  BY LiveIs DEF IInv, Sound
<1>2. \A i \in Live(disk) : disk.inode[i].block_id \in Block \cup {none}
  BY <1>1, LiveIs DEF Inode
<1>3. \A x \in own : /\ x = <<x[1], x[2]>> /\ x[1] \in Live(disk) /\ x[2] = blk(disk, x[1])
                     /\ x[2] # none /\ x[2] \in Block
  BY <1>1, <1>2 DEF blk
<1>4. \A i \in Live(disk) : blk(disk, i) # none => <<i, blk(disk, i)>> \in own
  BY DEF blk
<1> HIDE DEF own
<1>5. Owned(disk)
  BY <1>1 DEF Sound
<1>6. {b \in Block : disk.using[b]} = {x[2] : x \in own}
  <2>1. ASSUME NEW b \in Block, disk.using[b] PROVE b \in {x[2] : x \in own}
    <3>1. PICK i \in Live(disk) : blk(disk, i) = b
      BY <1>5, <2>1 DEF Owned
    <3>2. <<i, b>> \in own
      BY <1>4, <3>1, Sizes
    <3> QED
      BY <3>2
  <2>2. ASSUME NEW x \in own PROVE x[2] \in Block /\ disk.using[x[2]]
    BY <1>3, <1>5 DEF Owned
  <2> QED
    BY <2>1, <2>2
<1>7. ASSUME NEW x \in own, NEW y \in own, x[2] = y[2] PROVE x = y
  <2>1. x[1] = y[1]
    BY <1>3, <1>5, <1>7 DEF Owned
  <2> QED
    BY <1>3, <1>7, <2>1
<1> QED
  BY <1>6, <1>7 DEF BlocksSound, own

\* A block is in use exactly when an inode has it, and one inode only: the
\* blocks of removed files come back, and no two files share one.
THEOREM BlocksAreSound ==
  ASSUME ~LinkWhileOpen, ~RmWhileOpen
  PROVE  Spec => []BlocksSound
<1>1. IInv /\ [Next]_vars => IInv'
  BY NextInv
<1> QED
  BY InitInv, <1>1, InvBlocks, PTL DEF Spec

LEMMA InvData ==
  ASSUME IInv PROVE OwnData
<1>1. ASSUME NEW i \in Live(disk), NEW n \in 1 .. disk.inode[i].size
      PROVE  disk.content[disk.inode[i].block_id][n] = Unit(i)
  <2>1. disk.inode[i].size \in Nat
    <3>1. disk.inode[i] \in Inode
      BY LiveIs DEF IInv, Sound
    <3> QED
      BY <3>1 DEF Inode
  <2>2. Holds(disk, i, blk(disk, i), disk.inode[i].size)
    BY DEF IInv, Sound, Written
  <2> QED
    BY <1>1, <2>1, <2>2 DEF Holds, blk
<1>2. ASSUME NEW f \in OpenFiles, NEW n \in 1 .. f.node.size
      PROVE  disk.content[f.node.block_id][n] = Unit(f.node.id)
  <2>1. Kept(disk, f)
    <3>1. PICK t \in Task, fd \in Fd : f = fildes[t][fd] /\ f # noFile
      BY DEF OpenFiles
    <3> QED
      BY <3>1 DEF IInv, Table
  <2>2. f.node.size \in Nat
    BY <2>1, KeptSizes
  <2> QED
    BY <1>2, <2>1, <2>2 DEF Kept, Holds
<1> QED
  BY <1>1, <1>2 DEF OwnData

\* No file shows what was written to another, or what its block held before:
\* neither by its size on the disk nor by an old copy of the inode.
THEOREM DataIsOwn ==
  ASSUME ~LinkWhileOpen, ~RmWhileOpen
  PROVE  Spec => []OwnData
<1>1. IInv /\ [Next]_vars => IInv'
  BY NextInv
<1> QED
  BY InitInv, <1>1, InvData, PTL DEF Spec

\* A file gets shorter only when inode_write puts back a copy of its inode
\* that another file's writes had made old.
THEOREM SizesAreKept ==
  ASSUME ~LinkWhileOpen, ~RmWhileOpen
  PROVE  Spec => SizeKept
<1>1. IInv /\ [Next]_vars => IInv'
  BY NextInv
<1>2. IInv /\ [Next]_vars => SizeStep
  BY NextInv
<1> QED
  BY InitInv, <1>1, <1>2, PTL DEF Spec, SizeKept, SizeStep
=============================================================================
