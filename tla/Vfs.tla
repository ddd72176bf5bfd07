-------------------------------- MODULE Vfs --------------------------------
(***************************************************************************)
(* Tasks that use the block file system through kernel/src/vfs/vfs.c: each *)
(* has a table of files, and a file keeps its own copy of the inode, made  *)
(* by fs_lookup.  vfs_lock is held only outside the file system's calls,   *)
(* so another task can step in between fs_lookup and the making of a file. *)
(*                                                                         *)
(* Two assumptions on the tasks.  No two calls of blkfs overlap: creating  *)
(* and writing hold no lock there.  And no name of an inode is made or     *)
(* removed while a file refers to it, although the code lets both happen:  *)
(* LinkWhileOpen and RmWhileOpen each drop one half of that.  With         *)
(* RmWhileOpen a write can put data into a block that was given to a       *)
(* directory since; what the code reads there as entries is not modelled.  *)
(***************************************************************************)
EXTENDS Blkfs

CONSTANTS Name,          \* names of entries
          Task, Fd,      \* a task's places for files: N_FILE of them
          MaxPath,       \* bound on the names in a path
          MaxRef,        \* bound on the names of an inode
          LinkWhileOpen, \* whether names are made of what is open
          RmWhileOpen    \* and whether names of it are removed

ASSUME VfsAssumption == /\ NoName \notin Name /\ MaxPath \in Nat /\ MaxRef \in Nat
                        /\ LinkWhileOpen \in BOOLEAN /\ RmWhileOpen \in BOOLEAN

VARIABLES disk,    \* of the file system at /mnt, new after start-up
          fildes,  \* [Task -> [Fd -> file]]
          op,      \* the open that a task is in
          leaked,  \* vfs_lock was left held
          halted,  \* the assertion that stopped the system
          lost     \* the names each inode lost with the directory they were in

vars == <<disk, fildes, op, leaked, halted, lost>>

Path  == BoundedSeq(Name, MaxPath)
Copy  == [id : Id, type : {"FILE", "DIR"}, block_id : Block \cup {none},
          refcnt : Nat, size : 0 .. MaxSize]
File  == [node : Copy, flags : {"READ", "WRITE"}, offset : 0 .. MaxSize]
idle   == [path |-> <<>>]

\* path_get_directory and path_get_name; "/" has no name
DirOf(path)  == IF path = <<>> THEN <<>> ELSE Front(path)
NameOf(path) == IF path = <<>> THEN NoName ELSE Last(path)

\* fs_lookup: a copy, or NULL where there is no such path
lookup(d, path) == LET r == get_path_inode(d, path)
                   IN IF r.res = none THEN noNode ELSE inode_get(d, r.res)

OpenFiles == {fildes[t][fd] : t \in Task, fd \in Fd} \ {noFile}

Held == {f.node.id : f \in OpenFiles}

Init == /\ disk = fs_init
        /\ fildes = [t \in Task |-> [fd \in Fd |-> noFile]]
        /\ op = [t \in Task |-> idle]
        /\ leaked = FALSE /\ halted = Fine
        /\ lost = [i \in Id |-> 0]

----------------------------------------------------------------------------
(* Calls that make or remove names; they let vfs_lock go before they begin *)

\* Names that go with the directories that the step frees.
Names(d, i, S) == Cardinality({x \in S \X Entries :
                     /\ d.inode[x[1]].block_id # none
                     /\ Items(d, x[1])[x[2]].inode_id = i})
Dirs(d) == {i \in Id : IsDir(d, i)}

\* What a call leaves: the next image, or a failed assertion.
Leave(r) ==
  LET freed == Dirs(disk) \ Dirs(r.disk)
  IN /\ halted' = r.bad
     /\ disk' = r.disk
     /\ lost' = [i \in Id |-> IF r.disk.inode[i] = EMPTY THEN 0
                             ELSE lost[i] + Names(disk, i, freed)]

Ready(t) == op[t] = idle /\ halted = Fine /\ ~leaked

Mkdir(t, path) == /\ Ready(t)
                  /\ Leave(fs_mkdir(disk, DirOf(path), NameOf(path)))
                  /\ UNCHANGED <<fildes, op, leaked>>

Rm(t, path) == /\ Ready(t)
               /\ lookup(disk, path).id \in Held => RmWhileOpen
               /\ Leave(fs_rm(disk, DirOf(path), NameOf(path)))
               /\ UNCHANGED <<fildes, op, leaked>>

Link(t, oldpath) ==
  LET old == lookup(disk, oldpath)
  IN /\ Ready(t)
     /\ old.id \in Held => LinkWhileOpen
     /\ old # noNode => old.refcnt < MaxRef
     /\ \E path \in Path : Leave(fs_link(disk, oldpath, DirOf(path), NameOf(path)))
     /\ UNCHANGED <<fildes, op, leaked>>

\* link, of paths below different mount points, returns with vfs_lock held.
LinkAcross(t) == /\ Ready(t)
                 /\ leaked' = TRUE
                 /\ UNCHANGED <<disk, fildes, op, halted, lost>>

Readdir(t, path) == /\ Ready(t)
                    /\ Leave(fs_readdir(disk, path))
                    /\ UNCHANGED <<fildes, op, leaked>>

----------------------------------------------------------------------------
(* Opening and closing *)

FreeFd(t) == {fd \in Fd : fildes[t][fd] = noFile}

\* Nothing of an open but fs_lookup touches what is not the task's own,
\* unless there was no such path: then the file is made in another step.
Open(t, path, flags) ==
  LET r  == get_path_inode(disk, path)
      fd == CHOOSE e \in FreeFd(t) : \A f \in FreeFd(t) : e <= f
  IN /\ Ready(t) /\ FreeFd(t) # {}
     /\ halted' = r.bad
     /\ IF r.bad = Fine /\ r.res = none /\ flags # "READ"
        THEN /\ op' = [op EXCEPT ![t] = [path |-> path, fd |-> fd]]
             /\ UNCHANGED fildes
        ELSE /\ fildes' = [fildes EXCEPT ![t][fd] = inode_open(lookup(disk, path), flags)]
             /\ UNCHANGED op
     /\ UNCHANGED <<disk, leaked, lost>>

\* The rest of an open, where inode_open makes the file; it is empty, so that
\* appending to it is writing.
Create(t) ==
  LET path == op[t].path
      r    == create_file(disk, DirOf(path), NameOf(path))
      node == IF r.res = none THEN noNode ELSE inode_get(r.disk, r.res)
  IN /\ op[t] # idle /\ halted = Fine /\ ~leaked
     /\ Leave(r)
     /\ fildes' = [fildes EXCEPT ![t][op[t].fd] = inode_open(node, "WRITE")]
     /\ op' = [op EXCEPT ![t] = idle]
     /\ UNCHANGED leaked

close(t, fd) == /\ Ready(t) /\ fildes[t][fd] # noFile
                /\ fildes' = [fildes EXCEPT ![t][fd] = noFile]
                /\ UNCHANGED <<disk, op, leaked, halted, lost>>

----------------------------------------------------------------------------
(* Files *)

\* What is read is not kept: OwnData says what it can be.
read(t, fd, count) ==
  LET r == inode_read(disk, fildes[t][fd], count)
  IN /\ Ready(t) /\ fildes[t][fd] # noFile /\ fildes[t][fd].flags = "READ"
     /\ halted' = r.bad
     /\ fildes' = [fildes EXCEPT ![t][fd] = r.file]
     /\ UNCHANGED <<disk, op, leaked, lost>>

\* A unit of data is known by the inode through which it is written.
write(t, fd, count) ==
  LET f == fildes[t][fd]
      r == inode_write(disk, f, [n \in 1 .. count |-> f.node.id])
  IN /\ Ready(t) /\ f # noFile /\ f.flags = "WRITE"
     /\ halted' = r.bad
     /\ disk' = r.disk
     /\ fildes' = [fildes EXCEPT ![t][fd] = r.file]
     /\ UNCHANGED <<op, leaked, lost>>

inode_lseek(t, fd, offset) ==
  /\ Ready(t) /\ fildes[t][fd] # noFile
  /\ fildes' = [fildes EXCEPT ![t][fd].offset = least(offset, fildes[t][fd].node.size)]
  /\ UNCHANGED <<disk, op, leaked, halted, lost>>

Next == \E t \in Task :
  \/ \E path \in Path : \/ Mkdir(t, path) \/ Rm(t, path)
                       \/ Link(t, path) \/ Readdir(t, path)
  \/ LinkAcross(t)
  \/ \E path \in Path, flags \in Flags : Open(t, path, flags)
  \/ Create(t)
  \/ \E fd \in Fd : \/ close(t, fd)
                    \/ \E n \in 0 .. MaxSize : \/ read(t, fd, n)
                                               \/ write(t, fd, n)
                                               \/ inode_lseek(t, fd, n)

Spec == Init /\ [][Next]_vars

----------------------------------------------------------------------------
(* Properties *)

TypeOK ==
  /\ disk.inode \in [Id -> {EMPTY} \cup [type : {"FILE", "DIR"}, block_id : Block \cup {none},
                                        refcnt : Nat, size : 0 .. MaxSize]]
  /\ disk.using \in [Block -> BOOLEAN] /\ DOMAIN disk.content = Block
  /\ fildes \in [Task -> [Fd -> File \cup {noFile}]]
  /\ DOMAIN op = Task /\ leaked \in BOOLEAN /\ lost \in [Id -> Nat]

\* The assertion of get_path_inode (blkfs.c:641): what a directory names is
\* an inode in use, also after files were written through old copies.
ChildFound == halted # "dangling"

\* Entries of a directory have different names, and name inodes in use,
\* whatever files and directories with several names were removed.
EntriesSound ==
  /\ TypeOK /\ halted \notin {"dangling", "null inode", "not using"}
  /\ \A i \in Dirs(disk), e, f \in Entries :
       LET items == Items(disk, i)
       IN disk.inode[i].block_id # none /\ items[e] # Free =>
            /\ items[e].inode_id \in Live(disk)
            /\ items[f] # Free /\ items[e].name = items[f].name => e = f

\* The count of an inode is the number of its names, with those that went
\* with a directory: so inode_bfree comes with the last name, not before.
RefcntExact == \A i \in Live(disk) :
  disk.inode[i].refcnt = Names(disk, i, Dirs(disk)) + lost[i] + (IF i = 0 THEN 1 ELSE 0)

\* Blocks are in use exactly when one inode has them, and only that one.
BlocksSound ==
  LET blk == {<<i, disk.inode[i].block_id>> : i \in Live(disk)} \ (Id \X {none})
  IN /\ {b \in Block : disk.using[b]} = {x[2] : x \in blk}
     /\ \A x, y \in blk : x[2] = y[2] => x = y

\* All that can be read of a file, by its size on the disk or by a copy of
\* it, was written to that file, whatever held the block before.
OwnData ==
  LET sound(i, b, size) == \A n \in 1 .. size : disk.content[b][n] = Unit(i)
  IN /\ \A i \in Live(disk) : sound(i, disk.inode[i].block_id, disk.inode[i].size)
     /\ \A f \in OpenFiles : sound(f.node.id, f.node.block_id, f.node.size)

\* A file on the disk gets shorter only when it is written through a copy
\* that another file's writes had made old.
SizeKept == [][\A i \in Id :
    disk'.inode[i].type = "FILE" /\ disk'.inode[i].size < disk.inode[i].size =>
      \E f \in OpenFiles : f.node.id = i /\ f.node.size < disk.inode[i].size]_vars
=============================================================================
