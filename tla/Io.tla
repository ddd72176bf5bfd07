---------------------------------- MODULE Io ----------------------------------
(***************************************************************************)
(* What one task sees of the VFS: the calls of kernel/src/vfs/vfs.c over   *)
(* the mounted file systems, and the streams of kernel/src/io.c with their *)
(* buffers (buffer.c).  Each operator maps the record `sys` to what        *)
(* follows a call; the result of the call is in its fields `res` and `got`.*)
(*                                                                         *)
(* The unit of text is a sequence of words, where the text was split at    *)
(* its spaces, or the end of a line.  What terminals show is not kept.     *)
(***************************************************************************)
EXTENDS Blkfs, Pseudofs

CONSTANTS NFile,  \* N_FILE, files of a task
          CAP,    \* of a stream's buffer
          LINE    \* of a buffer for a line

ASSUME IoAssumption == /\ NFile \in Nat /\ NFile >= 2
                       /\ CAP \in Nat \ {0} /\ LINE \in Nat \ {0}

Fd == 0 .. NFile - 1

nl == << <<"newline">> >>

Disks == Mounts \ Pseudo

(***************************************************************************)
(* disk: of each mounted file system; fildes: of the task; stream: what is *)
(* in the buffer of each open file, still to be read or to be written;     *)
(* typed: the line that the terminal has.  A failed assertion stays.       *)
(***************************************************************************)
\* A file that tty_read and tty_write serve.
Terminal(s, fd) == s.fildes[fd] # noFile /\ s.fildes[fd].fs = Dev

Stop(s, why) == [s EXCEPT !.bad = IF @ = Fine THEN why ELSE @, !.res = none, !.got = <<>>]
Res(s, r)    == [s EXCEPT !.res = r]

\* Goes on with the value of a call.
With(x, Rest(_)) == Rest(x)

\* A call on mount point m that answers with r.
Call(s, m, r) == IF r.bad # Fine THEN Stop(s, r.bad)
                 ELSE [s EXCEPT !.disk[m] = r.disk, !.res = IF r.res = none THEN none ELSE 0]

----------------------------------------------------------------------------
(* The VFS *)

\* The text must begin with a slash.
fs_lookup(d, path) ==
  IF path[1] # Slash THEN Fail(d, "no slash") ELSE get_path_inode(d, Walk(path))

access(s, path, type) ==
  IF ~IsMounted(path) THEN Res(s, none)
  ELSE With(get_mount_fs(path), LAMBDA at :
       IF at.fs \in Pseudo THEN
         IF at.sub[1] # Slash THEN Stop(s, "no slash")
         ELSE Res(s, IF pseudo_access(at.fs, pseudo_lookup(at.fs, at.sub), type) THEN 0 ELSE none)
       ELSE With(fs_lookup(s.disk[at.fs], at.sub), LAMBDA r :
         IF r.bad # Fine THEN Stop(s, r.bad)
         ELSE Res(s, IF r.res # none /\ r.disk.inode[r.res].type = type THEN 0 ELSE none)))

mkdir(s, path) ==
  IF ~IsMounted(path) \/ get_mount_fs(path).fs \in Pseudo THEN Res(s, none)
  ELSE With(get_mount_fs(path), LAMBDA at :
         Call(s, at.fs, fs_mkdir(s.disk[at.fs], Walk(path_get_directory(at.sub)), path_get_name(at.sub))))

rm(s, path) ==
  IF ~IsMounted(path) \/ get_mount_fs(path).fs \in Pseudo THEN Res(s, none)
  ELSE With(get_mount_fs(path), LAMBDA at :
         Call(s, at.fs, fs_rm(s.disk[at.fs], Walk(path_get_directory(at.sub)), path_get_name(at.sub))))

\* With two mount points the lock stays held: no call after this one returns,
\* and the shell, for one, makes the next before it changes anything.
link(s, oldpath, newpath) ==
  LET old == get_mount_fs(oldpath)
      new == get_mount_fs(newpath)
  IN IF old.fs # new.fs THEN Stop(s, "vfs_lock")
     ELSE IF new.fs \in Pseudo THEN Res(s, none)
     ELSE Call(s, new.fs, fs_link(s.disk[new.fs], Walk(old.sub),
                                  Walk(path_get_directory(new.sub)), path_get_name(new.sub)))

\* The entries of a directory, the last first.
list_dir(d, i) ==
  LET used == SelectSeq([e \in Entries |-> Items(d, i)[e]], LAMBDA x : x # Free)
  IN Reverse([n \in DOMAIN used |-> [name |-> used[n].name, type |-> d.inode[used[n].inode_id].type]])

readdir(s, path) ==
  LET mounts == SetToSeq({[name |-> n, type |-> "DIR"] : n \in mount_list_readdir(path)})
  IN With(get_mount_fs(path), LAMBDA at :
     IF at.fs \in Pseudo THEN
       [s EXCEPT !.got = mounts \o IF at.sub # root THEN <<>> ELSE
          [n \in DOMAIN pseudo_names(at.fs) |-> [name |-> pseudo_names(at.fs)[n], type |-> "FILE"]]]
     ELSE With(fs_readdir(s.disk[at.fs], Walk(at.sub)), LAMBDA r :
       IF r.bad # Fine THEN Stop(s, r.bad)
       ELSE [s EXCEPT !.got = mounts \o IF r.res = none THEN <<>> ELSE list_dir(r.disk, r.res)]))

\* A file is made if it is not there, except to read it.
find_or_make(d, path, flags) ==
  With(fs_lookup(d, path), LAMBDA r :
    IF r.bad # Fine \/ r.res # none \/ flags = "READ" THEN r
    ELSE create_file(d, Walk(path_get_directory(path)), path_get_name(path)))

open_pseudo(s, fd, at, flags) ==
  IF at.sub[1] # Slash THEN Stop(s, "no slash")
  ELSE With(pseudo_open(at.fs, pseudo_lookup(at.fs, at.sub), flags), LAMBDA f :
         IF f = <<>> THEN Res(s, none)
         ELSE [s EXCEPT !.res = fd, !.fildes[fd] = [fs |-> at.fs, file |-> f]])

open(s, path, flags) ==
  LET fd      == Lowest({x \in Fd : s.fildes[x] = noFile})
      file(r) == IF r.res = none THEN noFile ELSE inode_open(inode_get(r.disk, r.res), flags)
  IN IF fd = none \/ ~IsMounted(path) THEN Res(s, none)
     ELSE With(get_mount_fs(path), LAMBDA at :
          IF at.fs \in Pseudo THEN open_pseudo(s, fd, at, flags)
          ELSE With(find_or_make(s.disk[at.fs], at.sub, flags), LAMBDA r :
            IF r.bad # Fine THEN Stop(s, r.bad)
            ELSE IF file(r) = noFile THEN Res(s, none)
            ELSE [s EXCEPT !.disk[at.fs] = r.disk, !.res = fd,
                           !.fildes[fd] = [fs |-> at.fs, file |-> file(r)]]))

read(s, fd, count) ==
  LET f == s.fildes[fd]
  IN IF f.fs = Dev /\ f.file.flags = "READ" THEN [s EXCEPT !.got = s.typed, !.typed = <<>>]
     ELSE IF f.fs = Proc THEN
       With(proc_read(f.file), LAMBDA r :
         [s EXCEPT !.fildes[fd].file = r.file, !.got = r.text])
     ELSE With(inode_read(s.disk[f.fs], f.file, count), LAMBDA r :
            IF r.bad # Fine THEN Stop(s, r.bad)
            ELSE [s EXCEPT !.fildes[fd].file = r.file, !.got = r.text])

write(s, fd, text) ==
  LET f == s.fildes[fd]
  IN IF f.fs \in Pseudo THEN Res(s, IF f.file.flags = "WRITE" THEN Len(text) ELSE none)
     ELSE With(inode_write(s.disk[f.fs], f.file, text), LAMBDA r :
            IF r.bad # Fine THEN Stop(s, r.bad)
            ELSE [s EXCEPT !.disk[f.fs] = r.disk, !.fildes[fd].file = r.file, !.res = r.res])

close(s, fd) == [s EXCEPT !.fildes[fd] = noFile, !.res = 0]

----------------------------------------------------------------------------
(* Streams *)

fsOpen(s, path, flags) ==
  With(open(s, path, flags), LAMBDA t :
    IF t.res = none THEN t ELSE [t EXCEPT !.stream[t.res] = <<>>])

\* Everything is written at once, or the assertion fails.
fsFlush(s, fd) ==
  IF s.stream[fd] = <<>> THEN s
  ELSE With(write(s, fd, s.stream[fd]), LAMBDA t :
         IF t.res # Len(s.stream[fd]) THEN Stop(t, "flush") ELSE [t EXCEPT !.stream[fd] = <<>>])

\* It writes what a stream holds, also where that was read; NULL is let go.
fsClose(s, fd) == IF fd = none THEN s ELSE close(fsFlush(s, fd), fd)

continue_read(s, fd) ==
  IF s.stream[fd] # <<>> THEN s
  ELSE With(read(s, fd, CAP), LAMBDA t : [t EXCEPT !.stream[fd] = t.got])

\* got is empty where the code returns -1.
fsGetChar(s, fd) ==
  With(continue_read(s, fd), LAMBDA t :
    IF t.stream[fd] = <<>> THEN [t EXCEPT !.got = <<>>]
    ELSE [t EXCEPT !.got = <<Head(t.stream[fd])>>, !.stream[fd] = Tail(@)])

\* The end of the line counts and is not kept; res is 0 where the code returns NULL.
fsGetLine(s, fd) ==
  LET more(r, n) ==
        IF r.ended THEN r
        ELSE With(fsGetChar(r.s, fd), LAMBDA t :
               IF t.got = <<>> THEN [r EXCEPT !.s = t, !.ended = TRUE]
               ELSE IF t.got = <<nl>> THEN [r EXCEPT !.s = t, !.n = n, !.ended = TRUE]
               ELSE [r EXCEPT !.s = t, !.n = n, !.text = @ \o t.got])
  IN With(FoldLeft(more, [s |-> s, text |-> <<>>, n |-> 0, ended |-> FALSE], [n \in 1 .. LINE |-> n]),
          LAMBDA r : [r.s EXCEPT !.got = r.text, !.res = r.n])

\* Mutant: what did not fit is not put after the flush.
fsPutChar_Dropping(s, fd, c) ==
  IF Terminal(s, fd) THEN s
  ELSE IF Len(s.stream[fd]) = CAP THEN fsFlush(s, fd)
  ELSE [s EXCEPT !.stream[fd] = Append(@, c)]

fsPutChar(s, fd, c) ==
  LET t == IF Len(s.stream[fd]) = CAP THEN fsFlush(s, fd) ELSE s
  IN IF Terminal(s, fd) THEN s ELSE [t EXCEPT !.stream[fd] = Append(@, c)]

fsPrintf(s, fd, text) == FoldLeft(LAMBDA t, c : fsPutChar(t, fd, c), s, text)

fsPutLine(s, fd, text) == fsPrintf(s, fd, Append(text, nl))
=============================================================================
