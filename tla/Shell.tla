-------------------------------- MODULE Shell --------------------------------
(***************************************************************************)
(* One terminal's shell (kernel/src/shell.c): it reads lines and executes  *)
(* them, and so do some of its commands, each through parse_execute and    *)
(* with streams of its own.  What runs is a stack of commands, the topmost *)
(* is in one of the stages of execute_command.                             *)
(*                                                                         *)
(* The terminal shows what goes to sh->stdout, and nothing reads it back,  *)
(* so that the messages printed there are not in the model.                *)
(***************************************************************************)
EXTENDS Io

CONSTANTS Line,      \* the lines that a user types, each with its end
          MaxLines   \* bound on their number

ASSUME ShellAssumption == MaxLines \in Nat /\ \A x \in Line : Last(x) = nl /\ Len(x) <= LINE

VARIABLES sys,    \* what the task sees of the VFS
          cwd,    \* sh->cwd, a text
          stack,  \* the commands that run
          typed,  \* lines so far
          where   \* the names of cwd, for the properties

vars == <<sys, cwd, stack, typed, where>>

command_handlers == <<"hello", "pwd", "cd", "ls", "cat", "echo", "mkdir", "rm",
                      "ln", "cp", "mv", "alias", "unalias", "sh">>

Handler == ToSet(command_handlers)
Root    == root
tty     == <<Slash, "dev", Slash, "tty1">>
Console == {0, 1}              \* sh->stdin and sh->stdout
Bin     == <<Slash, "bin">>
Word(w) == <<w>>               \* a word without slashes
Number(h) == << <<"&", h>> >>  \* the address of a handler, in digits
Message == << <<"message">> >>
eot     == << <<"ctrlD">> >>

----------------------------------------------------------------------------
(* Start-up of the VFS *)

initrd_write(d, dir, name, text) ==
  LET r == create_file(d, dir, name)
  IN inode_write(r.disk, inode_open(inode_get(r.disk, r.res), "WRITE"), text).disk

\* The first disk gets /bin, and a file in it for each command.
init ==
  LET bin  == fs_mkdir(fs_init, <<>>, Word("bin")).disk
      full == FoldLeft(LAMBDA d, h : initrd_write(d, <<Word("bin")>>, Word(h), <<Number(h)>>),
                       bin, command_handlers)
  IN [m \in Disks |-> IF m = Root THEN full ELSE fs_init]

\* The task opens its terminal twice, to read and to write.
Init ==
  /\ sys = LET before == [disk |-> init, typed |-> <<>>, res |-> 0, got |-> <<>>, bad |-> Fine,
                          fildes |-> [fd \in Fd |-> noFile], stream |-> [fd \in Fd |-> <<>>]]
           IN Res(fsOpen(fsOpen(before, tty, "READ"), tty, "WRITE"), 0)
  /\ cwd = Root /\ stack = <<>> /\ typed = 0 /\ where = <<>>

----------------------------------------------------------------------------
(* Commands *)

path_expand(dir, path) ==
  IF path = Word(".") THEN dir
  ELSE IF path = Word("..") THEN path_get_directory(dir)
  ELSE IF path[1] = Slash THEN path
  ELSE path_join(dir, path)

\* The words of a text; what is printed in a row is not separated.
Words(text) == FoldLeft(LAMBDA w, unit : Front(w) \o <<Last(w) \o unit[1]>> \o Tail(unit),
                        << <<>> >>, text)

\* What a redirection is about; <<>> for no path.
Redirects(word) == IF word = Word("<") THEN "in"
                   ELSE IF word \in {Word(">"), Word("1>")} THEN "out"
                   ELSE IF word = Word("2>") THEN "err" ELSE ""

command_parse(dir, text) ==
  LET item(c, word) ==
        IF word = <<>> THEN c
        ELSE IF Redirects(word) # "" THEN [c EXCEPT !.last = IF @ = "" THEN Redirects(word) ELSE @]
        ELSE IF c.last # "" THEN [c EXCEPT !.path[c.last] = path_expand(dir, word), !.last = ""]
        ELSE [c EXCEPT !.words = Append(@, word)]
  IN FoldLeft(item, [words |-> <<>>, last |-> "", path |-> [in |-> <<>>, out |-> <<>>, err |-> <<>>]],
              Words(text))

Top     == stack[Len(stack)]
Arg(n)  == Top.words[n + 1]
argc    == Len(Top.words) - 1

\* An assertion that fails stops the system as it was.
Sys(s)  == sys' = IF s.bad = Fine THEN [s EXCEPT !.res = 0, !.got = <<>>, !.typed = <<>>]
                  ELSE [sys EXCEPT !.bad = s.bad]
Replace(f) == stack' = [stack EXCEPT ![Len(stack)] = f]

Running == sys.bad = Fine
At(stage) == Running /\ stack # <<>> /\ Top.at = stage

\* parse_execute: a line without a word is done at once, with result 0.
parse_execute(below, text) ==
  LET c == command_parse(cwd, text)
  IN IF c.words = <<>> THEN stack' = below
     ELSE stack' = Append(below,
       [words |-> c.words, path |-> c.path, at |-> "execute", handler |-> "", res |-> 0,
        fd |-> [in |-> none, out |-> none, err |-> none],
        step |-> 0, saw |-> <<>>, before |-> <<>>])

\* The lines that the terminal can have when a read of the stream must wait.
Typing(fd) == IF ~Terminal(sys, fd) \/ sys.stream[fd] # <<>> THEN { <<>> }
              ELSE IF typed < MaxLines THEN Line ELSE {}

Typed(line) == [sys EXCEPT !.typed = line]
Counted(line) == typed' = IF line = <<>> THEN typed ELSE typed + 1

\* shell_task: the next line
Prompt ==
  /\ Running /\ stack = <<>>
  /\ \E line \in Typing(0) :
       \E t \in {fsGetLine(Typed(line), 0)} :
         /\ Sys(t) /\ Counted(line) /\ parse_execute(stack, t.got)
  /\ UNCHANGED <<cwd, where>>

----------------------------------------------------------------------------
(* The stages of a command *)

\* Where a path leads, and the text of the file there.
NodeAt(s, path) ==
  LET at == get_mount_fs(path)
  IN [fs |-> at.fs,
      id |-> IF at.fs \in Pseudo THEN none ELSE get_path_inode(s.disk[at.fs], Walk(at.sub)).res]

InodeAt(s, path) == LET n == NodeAt(s, path)
                    IN IF n.id = none THEN EMPTY ELSE s.disk[n.fs].inode[n.id]

TextAt(s, path) ==
  LET n  == InodeAt(s, path)
      at == get_mount_fs(path)
  IN IF at.fs = Proc THEN proc_content(at.sub)
     ELSE IF n.type # "FILE" THEN <<>>
     ELSE [k \in 1 .. n.size |-> Data(s.disk[NodeAt(s, path).fs], n.block_id)[k].data]

\* execute_command up to the handler: the first line of a file with the
\* name, or of one in /bin, must be its address.  NULL, that is "", where there
\* is no such file or it holds no number.
find_handler(s, head) ==
  LET file == IF access(s, head, "FILE").res = none THEN path_join(Bin, head) ELSE head
      named(text) == {x \in Handler : text = <<Number(x)>>}
      loaded(o, l) ==
        IF l.res = 0 THEN [s |-> Stop(l, "getline"), handler |-> ""]
        ELSE [s |-> fsClose(l, o.res),
              handler |-> IF named(l.got) = {} THEN "" ELSE CHOOSE x \in named(l.got) : TRUE]
  IN IF access(s, file, "FILE").res = none
     THEN [s |-> access(access(s, head, "FILE"), file, "FILE"), handler |-> ""]
     ELSE With(fsOpen(s, file, "READ"), LAMBDA o :
            IF o.res = none THEN [s |-> Stop(o, "stream"), handler |-> ""]
            ELSE loaded(o, fsGetLine(o, o.res)))

Execute ==
  /\ At("execute")
  /\ \E r \in {find_handler(sys, Top.words[1])} :
       /\ Sys(r.s)
       /\ Replace(IF r.handler = "" THEN [Top EXCEPT !.at = "free", !.res = -1]
                  ELSE [Top EXCEPT !.at = "redirect", !.handler = r.handler])
  /\ UNCHANGED <<cwd, typed, where>>

\* In order; the first that fails leaves the others NULL.
command_openfs(s, path) ==
  LET one(r, x) ==
        IF ~r.ok THEN r
        ELSE IF path[x] = <<>> THEN [r EXCEPT !.fd[x] = IF x = "in" THEN 0 ELSE 1]
        ELSE With(fsOpen(r.s, path[x], IF x = "in" THEN "READ" ELSE "WRITE"), LAMBDA t :
               [s |-> t, fd |-> [r.fd EXCEPT ![x] = t.res], ok |-> t.res # none])
  IN FoldLeft(one, [s |-> s, fd |-> [in |-> none, out |-> none, err |-> none], ok |-> TRUE],
              <<"in", "out", "err">>)

\* What the properties remember: the texts before a copy, the file before a move.
Before(f) ==
  CASE f.handler = "cat" ->
         [in  |-> IF f.path.in = <<>> THEN <<>> ELSE TextAt(sys, f.path.in),
          out |-> IF f.path.out = <<>> THEN <<>> ELSE TextAt(sys, f.path.out)]
    [] f.handler = "mv" /\ Len(f.words) = 3 ->
         LET old == path_expand(cwd, f.words[2])
         IN [node |-> NodeAt(sys, old), type |-> InodeAt(sys, old).type, text |-> TextAt(sys, old)]
    [] OTHER -> <<>>

Redirect ==
  /\ At("redirect")
  /\ \E r \in {command_openfs(sys, Top.path)} :
       /\ Sys(r.s)
       /\ Replace(IF r.ok THEN [Top EXCEPT !.at = "run", !.fd = r.fd, !.before = Before(Top)]
                  ELSE [Top EXCEPT !.at = "free", !.fd = r.fd, !.res = -1])
  /\ UNCHANGED <<cwd, typed, where>>

\* Mutant: a command that could not be redirected is not freed of its streams.
command_free_Whole(s, f) ==
  IF none \in {f.fd[x] : x \in {"in", "out", "err"}} THEN s
  ELSE FoldLeft(LAMBDA t, x : IF f.path[x] = <<>> THEN t ELSE fsClose(t, f.fd[x]),
                s, <<"err", "out", "in">>)

command_free(s, f) ==
  FoldLeft(LAMBDA t, x : IF f.path[x] = <<>> THEN t ELSE fsClose(t, f.fd[x]),
           s, <<"err", "out", "in">>)

\* The rest of parse_execute; the command below goes on with the result.
Freed ==
  /\ At("free")
  /\ \E s \in {command_free(sys, Top)}, below \in {Front(stack)} :
       /\ Sys(s)
       /\ stack' = IF s.bad # Fine THEN stack
                   ELSE IF below = <<>> THEN <<>>
                   ELSE [below EXCEPT ![Len(below)].step = @ + 1, ![Len(below)].res = Top.res]
  /\ UNCHANGED <<cwd, typed, where>>

----------------------------------------------------------------------------
(* The commands, each with the number of its arguments *)

ArgsOf(h) == CASE h \in {"hello", "pwd"} -> 0 .. argc
               [] h = "ls" -> {0, 1}
               [] h \in {"cat", "sh"} -> {0}
               [] h \in {"cd", "echo", "mkdir", "rm", "unalias"} -> {1}
               [] h \in {"ln", "cp", "mv", "alias"} -> {2}

Runs(h) == At("run") /\ Top.handler = h /\ argc \in ArgsOf(h)

\* A command's return.
Return(s, code) == /\ Sys(s)
                   /\ Replace([Top EXCEPT !.at = "free", !.res = code])
                   /\ UNCHANGED <<cwd, typed, where>>

Complaint(s) == fsPutLine(s, Top.fd.err, <<Message>>)

\* What mkdir, rm and ln do with the result of their call.
Answer(s) == Return(IF s.res = none THEN Complaint(s) ELSE s, s.res)

WrongArgs == /\ At("run") /\ argc \notin ArgsOf(Top.handler)
             /\ Return(Complaint(sys), -1)

cmd_hello == Runs("hello") /\ Return(fsPutLine(sys, Top.fd.out, <<Message>>), 0)

cmd_pwd == Runs("pwd") /\ Return(fsPutLine(sys, Top.fd.out, << <<cwd>> >>), 0)

cmd_echo == Runs("echo") /\ Return(fsPutLine(sys, Top.fd.out, << <<Arg(1)>> >>), 0)

\* The names a user would expect to be in, by what was typed.
Names(names, path) == IF path = Word(".") THEN names
                      ELSE IF path = Word("..") THEN (IF names = <<>> THEN names ELSE Front(names))
                      ELSE IF path[1] = Slash THEN Walk(path) ELSE names \o Walk(path)

cmd_cd ==
  /\ Runs("cd")
  /\ \E dir \in {path_expand(cwd, Arg(1))} : \E a \in {access(sys, dir, "DIR")} :
       /\ Sys(a)
       /\ Replace([Top EXCEPT !.at = "free", !.res = a.res])
       /\ cwd' = IF a.res = 0 THEN dir ELSE cwd
       /\ where' = IF a.res = 0 THEN Names(where, Arg(1)) ELSE where
  /\ UNCHANGED typed

\* Two entries in a line, each filled up with spaces.
cmd_ls ==
  LET path == IF argc = 0 THEN cwd ELSE path_expand(cwd, Arg(1))
      item(x) == <<Word(x.type), x.name, <<>> >>
      text(l) == FoldLeft(LAMBDA t, n : Append(t, item(l[n])) \o (IF n % 2 = 0 \/ n = Len(l) THEN <<nl>> ELSE <<>>),
                          <<>>, [n \in DOMAIN l |-> n])
  IN /\ Runs("ls")
     /\ \E a \in {access(sys, path, "DIR")} :
          IF a.res = none THEN Return(Complaint(a), -1)
          ELSE \E r \in {readdir(a, path)} : Return(fsPrintf(r, Top.fd.out, text(r.got)), 0)

\* These two join where the others expand.
cmd_mkdir == Runs("mkdir") /\ Answer(mkdir(sys, path_join(cwd, Arg(1))))

cmd_rm == Runs("rm") /\ Answer(rm(sys, path_join(cwd, Arg(1))))

cmd_ln == Runs("ln") /\ Answer(link(sys, path_expand(cwd, Arg(1)), path_expand(cwd, Arg(2))))

\* A character at a time, up to the end of the file, or to control-D from the
\* terminal, where the end of that line is read too.
cmd_cat ==
  LET end == IF Top.fd.in = 0 THEN <<eot>> ELSE <<>>
  IN /\ Runs("cat")
     /\ \E line \in Typing(Top.fd.in) : \E s \in {fsGetChar(Typed(line), Top.fd.in)} :
          /\ Counted(line)
          /\ \/ /\ Top.step = 1 \/ (s.got = end /\ Top.fd.in # 0)
                /\ Sys(fsFlush(s, Top.fd.out))
                /\ Replace([Top EXCEPT !.at = "free", !.res = 0])
             \/ /\ Top.step = 0 /\ s.got = end /\ Top.fd.in = 0
                /\ Sys(s)
                /\ Replace([Top EXCEPT !.step = 1])
             \/ /\ Top.step = 0 /\ s.got # end
                /\ Sys(fsPutChar(s, Top.fd.out, s.got[1]))
                /\ Replace([Top EXCEPT !.saw = @ \o s.got])
     /\ UNCHANGED <<cwd, where>>

----------------------------------------------------------------------------
(* Commands that execute others *)

\* A part that is a line of its own, and back with its result.
Part(step, words) == /\ Top.step = step /\ parse_execute(stack, <<words>>)
                     /\ UNCHANGED <<sys, cwd, typed, where>>
Back(step) == Top.step = step /\ Return(sys, Top.res)

\* Mutant: a copy that fails is tried again.
cmd_cp_Again ==
  /\ Runs("cp")
  /\ \/ Part(0, <<Word("cat"), Word("<"), Arg(1), Word(">"), Arg(2)>>)
     \/ Top.res = 0 /\ Back(1)
     \/ /\ Top.step = 1 /\ Top.res # 0
        /\ Replace([Top EXCEPT !.step = 0])
        /\ UNCHANGED <<sys, cwd, typed, where>>

cmd_cp == /\ Runs("cp")
          /\ \/ Part(0, <<Word("cat"), Word("<"), Arg(1), Word(">"), Arg(2)>>)
             \/ Back(1)

\* Mutant: the old name goes whether or not the new one could be made.
cmd_mv_Always ==
  /\ Runs("mv")
  /\ \/ Part(0, <<Word("ln"), Arg(1), Arg(2)>>)
     \/ Part(1, <<Word("rm"), Arg(1)>>)
     \/ Back(2)

cmd_mv ==
  /\ Runs("mv")
  /\ \/ Part(0, <<Word("ln"), Arg(1), Arg(2)>>)
     \/ Top.res = 0 /\ Part(1, <<Word("rm"), Arg(1)>>)
     \/ Top.res # 0 /\ Back(1)
     \/ Back(2)

InBin(name) == Bin \o Root \o name

cmd_alias == /\ Runs("alias")
             /\ \/ Part(0, <<Word("ln"), InBin(Arg(1)), InBin(Arg(2))>>)
                \/ Back(1)

cmd_unalias == /\ Runs("unalias")
               /\ \/ Part(0, <<Word("rm"), InBin(Arg(1))>>)
                  \/ Back(1)

\* Line by line, up to the end or to a command that fails.
cmd_sh ==
  /\ Runs("sh")
  /\ \/ /\ Top.step = 0
        /\ \E line \in Typing(Top.fd.in) :
           \E s \in {fsGetLine(Typed(line), Top.fd.in)} :
             /\ Sys(s) /\ Counted(line)
             /\ IF s.bad # Fine \/ s.res = 0
                THEN Replace([Top EXCEPT !.at = "free", !.res = 0])
                ELSE parse_execute(stack, s.got)
        /\ UNCHANGED <<cwd, where>>
     \/ /\ Top.step = 1 /\ Top.res = 0
        /\ Replace([Top EXCEPT !.step = 0])
        /\ UNCHANGED <<sys, cwd, typed, where>>
     \/ Top.step = 1 /\ Top.res # 0 /\ Return(fsPrintf(sys, Top.fd.err, <<Message>>), -1)

\* The command on top reads from the terminal, and nothing is left of a line.
Waits == /\ At("run") /\ Top.handler \in {"cat", "sh"} 
         /\ Terminal(sys, Top.fd.in) /\ sys.stream[Top.fd.in] = <<>>

\* Where the code goes on without the user; elsewhere nothing more need happen.
Ready == Running /\ stack # <<>> /\ ~Waits
Rest  == ~Ready /\ UNCHANGED vars

Next == \/ Prompt \/ Execute \/ Redirect \/ Freed \/ WrongArgs
        \/ cmd_hello \/ cmd_pwd \/ cmd_echo \/ cmd_cd \/ cmd_ls \/ cmd_mkdir \/ cmd_rm
        \/ cmd_ln \/ cmd_cat \/ cmd_cp \/ cmd_mv \/ cmd_alias \/ cmd_unalias \/ cmd_sh
        \/ Rest

\* The scheduler runs the shell's task again and again (RoundRobin of Kmt), and
\* in Ready some step is possible, or TLC would find a deadlock: this is weak
\* fairness of the steps taken there.
Scheduled == <>[]Ready => []<><<TRUE>>_vars

Spec == Init /\ [][Next]_vars /\ Scheduled

----------------------------------------------------------------------------
(* Properties *)

Parts == {"in", "out", "err"}

\* The files that a command opened for itself.
Opened(f) == {x \in Parts : f.path[x] # <<>> /\ f.fd[x] # none}

TypeOK ==
  /\ cwd[1] = Slash /\ typed \in 0 .. MaxLines /\ DOMAIN sys.disk = Disks
  /\ \A fd \in Fd : Len(sys.stream[fd]) <= CAP
  /\ \A k \in DOMAIN stack :
       /\ stack[k].at \in {"execute", "redirect", "run", "free"} /\ stack[k].res \in {0, -1}
       /\ stack[k].handler \in Handler \cup {""} /\ (k < Len(stack) => stack[k].at = "run")

\* The task's files are those of the terminal and those that commands which
\* are not freed yet opened, each its own: whatever failed on the way, no file
\* stays open, and none is closed under a command.
FilesReturned ==
  LET opened == {p \in (DOMAIN stack) \X Parts : p[2] \in Opened(stack[p[1]])}
      fd(p)  == stack[p[1]].fd[p[2]]
  IN /\ TypeOK
     /\ {x \in Fd : sys.fildes[x] # noFile} = Console \cup {fd(p) : p \in opened}
     /\ \A p, q \in opened : fd(p) \notin Console /\ (fd(p) = fd(q) => p = q)

\* A command that comes back.
Over(h) == Len(stack') < Len(stack) /\ Top.handler = h /\ Top.res = 0

\* When cat is through, and so when cp is, the text that it read lies in the
\* file it wrote, with what that file had behind it, whatever the size of the
\* buffers, and if both were one file.
CopyFaithful ==
  [][Over("cat") /\ Top.path.out # <<>> /\ get_mount_fs(Top.path.out).fs \in Disks =>
       LET text == IF Top.path.in = <<>> THEN Top.saw ELSE Top.before.in
           old  == Top.before.out
       IN TextAt(sys', Top.path.out) =
            text \o SubSeq(old, Len(text) + 1, Len(old))]_vars

\* When mv of a file succeeds, the file has the new name and not the old one.
\* Not so for names that ln and rm take differently: rm puts the directory
\* before an absolute path, and ".." as a new name leaves the file without one.
MovesFile ==
  [][Over("mv") /\ Top.before.type = "FILE"
       /\ (Arg(1)[1] # Slash \/ cwd = Root) /\ path_get_name(path_expand(cwd, Arg(2))) # <<>> =>
       /\ NodeAt(sys', path_expand(cwd, Arg(1))).id = none
       /\ NodeAt(sys', path_expand(cwd, Arg(2))) = Top.before.node
       /\ TextAt(sys', path_expand(cwd, Arg(2))) = Top.before.text]_vars

\* Every line that is executed ends, in a prompt, an assertion, or a wait for
\* the terminal, also where a script runs itself or a file is copied onto
\* itself: those come to the end of the file or of the table of files.
PromptReturns == stack # <<>> ~> (stack = <<>> \/ ~Running \/ Waits)

\* By names: the longest mount point above, and the rest of the way.
MountOf(names) == CHOOSE m \in Mounts : /\ IsPrefix(Walk(m), names)
                                       /\ \A n \in Mounts : IsPrefix(Walk(n), names) => Len(n) <= Len(m)
RestOf(names)  == SubSeq(names, Len(Walk(MountOf(names))) + 1, Len(names))

\* Joining, cutting and matching texts leads where the names lead: the current
\* directory is the one that the user walked to, and a path ends on the disk
\* mounted above it, in the directory and with the name that it says.  Not so for a
\* name that only begins like a mount point: that ends on the wrong disk.
PathsSound ==
  /\ Walk(cwd) = where
  /\ \A k \in DOMAIN stack, n \in 2 .. 4 :
       LET path  == path_expand(cwd, stack[k].words[n])
           names == Names(where, stack[k].words[n])
           at    == get_mount_fs(path)
       IN n \in DOMAIN stack[k].words /\ at.sub[1] = Slash =>
            /\ Walk(path) = names
            /\ at.fs = MountOf(names) /\ Walk(at.sub) = RestOf(names)
            /\ Walk(at.sub) # <<>> => /\ path_get_name(at.sub) = Last(names)
                                      /\ Walk(path_get_directory(at.sub)) = Front(RestOf(names))
=============================================================================
