------------------------------- MODULE Blkfs -------------------------------
(***************************************************************************)
(* The block file system of kernel/src/vfs/blkfs.c, as operators on a disk *)
(* image: the inode table, the type of each data block, and what the       *)
(* blocks hold.  Vfs makes them the steps of tasks, and Io the calls that  *)
(* the shell makes.                                                        *)
(*                                                                         *)
(* A directory block holds NEntry entries, a file block MaxSize units of   *)
(* data, whatever they are to those who write them.  Here a path is the    *)
(* sequence of its names; module Paths takes them out of the text.         *)
(***************************************************************************)
EXTENDS Integers, FiniteSets, SequencesExt

CONSTANTS NInode, NBlock, \* inodes, and data blocks
          NEntry,         \* child_per_dir
          MaxSize,        \* block_data_size
          NoName,         \* the empty string
          NoData          \* what was never written

ASSUME BlkfsAssumption == /\ NInode \in Nat \ {0} /\ NBlock \in Nat \ {0}
                          /\ NEntry \in Nat \ {0} /\ MaxSize \in Nat \ {0}

Id      == 0 .. NInode - 1
Block   == 1 .. NBlock
Entries == 1 .. NEntry

none == -1    \* no inode, no block, no entry

\* Blocks are FREE or USING, and so are entries.
Free      == [name |-> NoName, inode_id |-> none]
EmptyDir  == [e \in Entries |-> Free]
Unit(x)   == [data |-> x]
Blank     == [n \in 1 .. MaxSize |-> Unit(NoData)]
EMPTY     == [type |-> "EMPTY", block_id |-> none, refcnt |-> 0, size |-> 0]

(***************************************************************************)
(* Every operation maps a disk image to what follows: the image, the       *)
(* result, and the assertion that failed, if one did.                      *)
(***************************************************************************)
Fine == "fine"
Done(d, res)  == [disk |-> d, res |-> res, bad |-> Fine]
Fail(d, why)  == [disk |-> d, res |-> none, bad |-> why]

IsDir(d, i)   == d.inode[i].type = "DIR"
Live(d)       == {i \in Id : d.inode[i].type # "EMPTY"}
Items(d, i)   == d.content[d.inode[i].block_id]   \* of a directory with a block

----------------------------------------------------------------------------
(* Blocks and inodes *)

Lowest(S) == IF S = {} THEN none ELSE CHOOSE x \in S : \A y \in S : x <= y

\* What block_alloc does to the block it returns.
Take(d, b) == [d EXCEPT !.using[b] = TRUE]

block_alloc(d) == Lowest({b \in Block : ~d.using[b]})

\* The assertion of block_free would fail.
Unused(d, i) == LET b == d.inode[i].block_id IN b # none /\ ~d.using[b]

\* Mutant: the block is not given back.
inode_bfree_Leaking(d, i) == [d EXCEPT !.inode[i] = EMPTY]

inode_bfree(d, i) ==
  [d EXCEPT !.inode[i] = EMPTY,
            !.using = [b \in Block |-> @[b] /\ b # d.inode[i].block_id]]

\* Mutant: the size is left as it was.
NewInode_Sized(type, b) == [type |-> type, block_id |-> b, refcnt |-> 0,
                            size |-> IF type = "FILE" THEN 1 ELSE 0]

NewInode(type, b) == [type |-> type, block_id |-> b, refcnt |-> 0, size |-> 0]

inode_alloc(d, type) ==
  LET i == Lowest({j \in Id : d.inode[j].type = "EMPTY"})
      b == block_alloc(d)
      e == [d EXCEPT !.inode[i] = NewInode(type, b)]
      u == Take(e, b)
  IN IF i = none THEN Done(d, none)
     ELSE IF b = none THEN Done(e, i)      \* a warning, and no block
     ELSE Done([u EXCEPT !.content[b] = IF type = "DIR" THEN EmptyDir ELSE @], i)

\* A device with no file system; what fs_init writes on it.
blank == [inode   |-> [i \in Id |-> EMPTY],
          using   |-> [b \in Block |-> FALSE],
          content |-> [b \in Block |-> Blank]]

fs_init == [inode_alloc(blank, "DIR").disk EXCEPT !.inode[0].refcnt = 1]

----------------------------------------------------------------------------
(* Directories *)

direntry_find_name(items, name) ==
  Lowest({e \in Entries : items[e] # Free /\ items[e].name = name})

direntry_find_free(items) == Lowest({e \in Entries : items[e] = Free})

\* Why a directory operation on inode i would fail.
Bad(d, i) == IF ~IsDir(d, i) THEN "not a directory"
             ELSE IF d.inode[i].block_id = none THEN "no block" ELSE Fine

\* One name of a path: get_filedir and inode_get.
get_filedir(d, i, name) ==
  LET e == direntry_find_name(Items(d, i), name)
      c == Items(d, i)[e].inode_id
  IN IF Bad(d, i) # Fine THEN Fail(d, Bad(d, i))
     ELSE IF e = none THEN Done(d, none)
     ELSE IF c \notin Live(d) THEN Fail(d, "dangling") ELSE Done(d, c)

\* The inode that the first n names of the path lead to, for each n.
get_path_inode(d, path) ==
  LET at[n \in 0 .. Len(path)] ==
        IF n = 0 THEN Done(d, 0)
        ELSE LET r == at[n - 1]
             IN IF r.res = none THEN r ELSE get_filedir(d, r.res, path[n])
  IN at[Len(path)]

\* Mutant: a name is counted as if it were the first.
Enter_First(d, dir, e, name, i) ==
  [d EXCEPT !.inode[i].refcnt = 1,
            !.content[d.inode[dir].block_id][e] = [name |-> name, inode_id |-> i]]

Enter(d, dir, e, name, i) ==
  [d EXCEPT !.inode[i].refcnt = @ + 1,
            !.content[d.inode[dir].block_id][e] = [name |-> name, inode_id |-> i]]

create_filedir(d, dir, type, link_id, name) ==
  LET items == Items(d, dir)
      e     == direntry_find_free(items)
      new   == IF type = "LINK" THEN Done(d, link_id) ELSE inode_alloc(d, type)
  IN IF Bad(d, dir) # Fine THEN Fail(d, Bad(d, dir))
     ELSE IF direntry_find_name(items, name) # none \/ e = none THEN Done(d, none)
     ELSE IF new.res = none THEN Fail(d, "no inode")
     ELSE Done(Enter(new.disk, dir, e, name, new.res), new.res)

\* Mutant: the inode goes with any of its names.
delete_filedir_Last(d, dir, name) ==
  LET e == direntry_find_name(Items(d, dir), name)
      i == Items(d, dir)[e].inode_id
  IN IF Bad(d, dir) # Fine THEN Fail(d, Bad(d, dir))
     ELSE IF e = none THEN Done(d, 0)
     ELSE IF i \notin Live(d) THEN Fail(d, "null inode")
     ELSE Done([inode_bfree(d, i) EXCEPT !.content[d.inode[dir].block_id][e] = Free], 0)

delete_filedir(d, dir, name) ==
  LET items == Items(d, dir)
      e     == direntry_find_name(items, name)
      i     == items[e].inode_id
      less  == [d EXCEPT !.inode[i].refcnt = @ - 1]
      kept  == IF less.inode[i].refcnt = 0 THEN inode_bfree(d, i) ELSE less
  IN IF Bad(d, dir) # Fine THEN Fail(d, Bad(d, dir))
     ELSE IF e = none THEN Done(d, 0)
     ELSE IF i \notin Live(d) THEN Fail(d, "null inode")
     ELSE IF kept.inode[i] = EMPTY /\ Unused(d, i) THEN Fail(d, "not using")
     ELSE Done([kept EXCEPT !.content[d.inode[dir].block_id][e] = Free], 0)

----------------------------------------------------------------------------
(* The calls; a path that ends in a name is its directory and that name *)

fs_mkdir(d, dir, name) ==
  LET par == get_path_inode(d, dir)
  IN IF par.res = none THEN par
     ELSE IF name = NoName \/ ~IsDir(d, par.res) THEN Done(d, none)
     ELSE create_filedir(d, par.res, "DIR", none, name)

fs_rm(d, dir, name) ==
  LET par == get_path_inode(d, dir)
  IN IF par.res = none THEN par
     ELSE IF name = NoName \/ ~IsDir(d, par.res) THEN Done(d, none)
     ELSE delete_filedir(d, par.res, name)

\* What inode_open does for a file that is not there.
create_file(d, dir, name) ==
  LET par == get_path_inode(d, dir)
  IN IF name = NoName THEN Done(d, none)
     ELSE IF par.res = none THEN par
     ELSE create_filedir(d, par.res, "FILE", none, name)

\* The new path "/" puts an entry without a name into the root.
fs_link(d, oldpath, dir, name) ==
  LET old == get_path_inode(d, oldpath)
      par == get_path_inode(d, dir)
  IN IF old.res = none THEN old
     ELSE IF par.res = none THEN par
     ELSE create_filedir(d, par.res, "LINK", old.res, name)

fs_readdir(d, path) ==
  LET node == get_path_inode(d, path)
  IN IF node.res = none THEN node
     ELSE IF Bad(d, node.res) # Fine THEN Fail(d, Bad(d, node.res))
     ELSE IF \E e \in Entries : /\ Items(d, node.res)[e] # Free
                                /\ Items(d, node.res)[e].inode_id \notin Live(d)
          THEN Fail(d, "null inode") ELSE Done(d, node.res)

----------------------------------------------------------------------------
(* Files: a file has a copy of its inode, as old as its fs_lookup *)

noNode == [id |-> none]
noFile == [node |-> noNode]

inode_get(d, i) == [id |-> i, type |-> d.inode[i].type, block_id |-> d.inode[i].block_id,
                    refcnt |-> d.inode[i].refcnt, size |-> d.inode[i].size]

Flags == {"READ", "WRITE", "APPEND"}

\* A file can be opened, a directory cannot.
inode_open(node, flags) ==
  IF node = noNode \/ node.type # "FILE" THEN noFile
  ELSE [node |-> node, flags |-> IF flags = "READ" THEN "READ" ELSE "WRITE",
        offset |-> IF flags = "APPEND" THEN node.size ELSE 0]

least(a, b) == IF a < b THEN a ELSE b

\* A block as data: the entries of a directory are none that was written.
Data(d, b) == IF "data" \in DOMAIN d.content[b][1] THEN d.content[b] ELSE Blank

\* The part of the file's block from its offset on, up to its size.
inode_read(d, f, count) ==
  LET end == least(f.offset + count, f.node.size)
  IN IF f.flags # "READ" THEN [file |-> f, text |-> <<>>, bad |-> Fine]
     ELSE IF f.node.block_id = none THEN [file |-> f, text |-> <<>>, bad |-> "no block"]
     ELSE [file |-> [f EXCEPT !.offset = end], bad |-> Fine,
           text |-> [n \in 1 .. end - f.offset |-> Data(d, f.node.block_id)[f.offset + n].data]]

\* Mutant: the size becomes the offset even where the file was longer.
inode_write_Truncating(d, f, text) ==
  LET b    == f.node.block_id
      end  == least(f.offset + Len(text), MaxSize)
      node == [type |-> f.node.type, block_id |-> b, refcnt |-> f.node.refcnt, size |-> end]
  IN IF f.flags # "WRITE" THEN [disk |-> d, file |-> f, res |-> none, bad |-> Fine]
     ELSE IF b = none THEN [disk |-> d, file |-> f, res |-> none, bad |-> "no block"]
     ELSE [disk |-> [d EXCEPT !.inode[f.node.id] = node], res |-> end - f.offset, bad |-> Fine,
           file |-> [f EXCEPT !.offset = end, !.node.size = end]]

\* The data goes to the block; the whole copy to the inode, where it grew.
inode_write(d, f, text) ==
  LET b    == f.node.block_id
      end  == least(f.offset + Len(text), MaxSize)
      new  == [f EXCEPT !.offset = end]
      grow == [new EXCEPT !.node.size = end]
      put  == [d EXCEPT !.content[b] = [n \in 1 .. MaxSize |->
                 IF f.offset < n /\ n <= end THEN Unit(text[n - f.offset])
                 ELSE Data(d, b)[n]]]
      node == [type |-> f.node.type, block_id |-> b, refcnt |-> f.node.refcnt, size |-> end]
      res  == end - f.offset
  IN IF f.flags # "WRITE" THEN [disk |-> d, file |-> f, res |-> none, bad |-> Fine]
     ELSE IF b = none THEN [disk |-> d, file |-> f, res |-> none, bad |-> "no block"]
     ELSE IF end > f.node.size
     THEN [disk |-> [put EXCEPT !.inode[f.node.id] = node], file |-> grow, res |-> res, bad |-> Fine]
     ELSE [disk |-> put, file |-> new, res |-> res, bad |-> Fine]
=============================================================================
