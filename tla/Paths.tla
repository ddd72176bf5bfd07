-------------------------------- MODULE Paths --------------------------------
(***************************************************************************)
(* Paths as text (kernel/src/path.c, and get_mount_fs of vfs.c).  A text   *)
(* is a sequence of symbols, of which one is the slash; a name is a text   *)
(* without slashes.                                                        *)
(***************************************************************************)
EXTENDS Integers, SequencesExt

CONSTANT Mounts    \* the paths in the mount list

Slash == "/"

ASSUME PathsAssumption == <<Slash>> \in Mounts /\ \A m \in Mounts : m # <<>> /\ m[1] = Slash

\* strrchr
LastSlash(s) == SelectLastInSeq(s, LAMBDA c : c = Slash)

\* The text without a slash at its end.
Bare(s) == IF s # <<>> /\ Last(s) = Slash THEN Front(s) ELSE s

\* Mutant: a slash at the end counts as the one before the name.
path_get_directory_Slashed(s) ==
  LET r == LastSlash(s) IN IF r = 0 THEN s ELSE SubSeq(s, 1, r)

\* Up to the slash before the name; the whole text if there is none.
path_get_directory(s) ==
  LET r == LastSlash(Bare(s)) IN IF r = 0 THEN s ELSE SubSeq(s, 1, r)

path_get_name(s) ==
  LET r == LastSlash(Bare(s)) IN IF r = 0 THEN <<>> ELSE SubSeq(Bare(s), r + 1, Len(Bare(s)))

\* One slash where the two meet.
path_join(base, child) ==
  IF base = <<>> THEN base
  ELSE IF child = <<>> THEN child
  ELSE Bare(base) \o <<Slash>> \o (IF child[1] = Slash THEN Tail(child) ELSE child)

\* The names that path_next_name gives one by one: what is between slashes,
\* without what is before a first one and behind a last one, if that is empty.
Walk(s) ==
  LET text  == IF s # <<>> /\ s[1] = Slash THEN Tail(s) ELSE s
      parts == FoldLeft(LAMBDA p, c : IF c = Slash THEN Append(p, <<>>)
                                      ELSE [p EXCEPT ![Len(p)] = Append(@, c)],
                        << <<>> >>, text)
  IN IF Last(parts) = <<>> THEN Front(parts) ELSE parts

\* The longest entry of the mount list that the text begins with, be that
\* within a name, and the rest of the text: with the symbol before it, if it
\* does not begin with a slash.
get_mount_fs(path) ==
  LET best == CHOOSE m \in Mounts : /\ IsPrefix(m, path)
                                    /\ \A n \in Mounts : IsPrefix(n, path) => Len(n) <= Len(m)
      rest == SubSeq(path, Len(best) + 1, Len(path))
  IN [fs  |-> best,
      sub |-> IF rest = <<>> THEN <<Slash>>
              ELSE IF rest[1] = Slash THEN rest ELSE SubSeq(path, Len(best), Len(path))]

IsMounted(path) == \E m \in Mounts : IsPrefix(m, path)

\* The names of the mount points in a directory.
mount_list_readdir(path) ==
  {path_get_name(m) : m \in {n \in Mounts : /\ path_get_directory(n) = Bare(path) \o <<Slash>>
                                           /\ path_get_name(n) # <<>>}}
=============================================================================
