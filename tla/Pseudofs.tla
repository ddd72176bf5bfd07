------------------------------ MODULE Pseudofs ------------------------------
(***************************************************************************)
(* The file systems without a disk: procfs.c, whose files tell of the      *)
(* machine and its tasks, and devfs.c, whose files are the devices.  Each  *)
(* has a root and the files in it.  A node is the path by which fs_lookup  *)
(* found it, <<>> where there is none; a file is its node with what open   *)
(* and the reads since made of it.                                         *)
(*                                                                         *)
(* A call ends with res, which is none where the code returns -1 or NULL.  *)
(* Nobody opens a device that is not a terminal.                           *)
(***************************************************************************)
EXTENDS Paths

CONSTANTS Devices,  \* devices[], their names
          Tasks     \* the names of the tasks, in the order of their list

Dev    == <<Slash, "dev">>
Proc   == <<Slash, "proc">>
Pseudo == {Dev, Proc}

ASSUME PseudofsAssumption ==
  \A x \in ToSet(Devices) \cup ToSet(Tasks) : x # <<>> /\ Slash \notin ToSet(x)

root == <<Slash>>

\* What fs_readdir gives for the root: the last first, and the machine's two files.
dev_readdir  == Reverse(Devices)
proc_readdir == << <<"meminfo">>, <<"cpuinfo">> >> \o Reverse(Tasks)

pseudo_names(m) == IF m = Dev THEN dev_readdir ELSE proc_readdir

\* The whole path behind the slash is the name.
pseudo_lookup(m, path) ==
  IF path = root \/ Tail(path) \in ToSet(pseudo_names(m)) THEN path ELSE <<>>

pseudo_access(m, node, type) == node # <<>> /\ (type = "DIR") = (node = root)

\* To append is to write, for a device; procfs opens only to read.
dev_open(node, flags)  == [node |-> node, flags |-> IF flags = "READ" THEN flags ELSE "WRITE", offset |-> 0]
proc_open(node, flags) == IF flags # "READ" THEN <<>> ELSE [node |-> node, flags |-> flags, offset |-> 0]

pseudo_open(m, node, flags) ==
  IF node \in {<<>>, root} THEN <<>>
  ELSE IF m = Dev THEN dev_open(node, flags) ELSE proc_open(node, flags)

\* What open writes into the file, here as one line.
proc_content(node) == << << <<"about">>, Tail(node)>>, << <<"newline">> >> >>

\* All that is left: the text is shorter than any buffer, as it must be, for its
\* length is taken there.
proc_read(f) ==
  LET text == proc_content(f.node)
  IN IF f.flags # "READ" THEN [file |-> f, text |-> <<>>]
     ELSE [file |-> [f EXCEPT !.offset = Len(text)], text |-> SubSeq(text, f.offset + 1, Len(text))]
=============================================================================
