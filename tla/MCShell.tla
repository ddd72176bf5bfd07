------------------------------- MODULE MCShell -------------------------------
(* Shell with two disks, mounted at / and at /m, and lines that meet each other. *)
EXTENDS Shell

w(x)     == <<x>>
abs(x)   == <<Slash, x>>
under(x, y) == <<Slash, x, Slash, y>>
MCMounts == {<<Slash>>, abs("m"), Proc, Dev}
MCDevices == <<w("tty1")>>
MCTasks  == <<w("shell-1")>>
NoText   == <<>>

typing(words) == << words, nl >>

MCLine ==
  { <<nl>>, <<eot, nl>>,
    typing(<<w("hello")>>), typing(<<w("pwd")>>), typing(<<w("echo")>>),
    typing(<<w("cat"), w(">"), w("f")>>),
    typing(<<w("echo"), w("pwd"), w(">"), w("f")>>),
    typing(<<w("ls"), w(">"), w("f")>>),
    typing(<<w("ls"), w("d")>>),
    typing(<<w("cat"), w("<"), w("f"), w(">"), w("d")>>),
    typing(<<w("cp"), w("f"), w("g")>>), typing(<<w("cp"), w("f"), w("f")>>),
    typing(<<w("mv"), w("f"), w("g")>>),
    typing(<<w("mv"), w("f"), abs("m") \o abs("f")>>),
    typing(<<w("ln"), w("f"), <<"d", Slash, "f">> >>),
    typing(<<w("rm"), w("f")>>),
    typing(<<w("mkdir"), w("d")>>),
    typing(<<w("cd"), <<"d", Slash>> >>), typing(<<w("cd"), w("..")>>),
    typing(<<w("cd"), abs("m")>>), typing(<<w("cd"), <<Slash, "m", "x">> >>),
    typing(<<w("alias"), w("cat"), w("f")>>), typing(<<w("unalias"), w("f")>>),
    typing(<<abs("f")>>), typing(<<w("f")>>),
    typing(<<w("sh")>>), typing(<<w("sh"), w("<"), w("f")>>),
    typing(<<w("cat"), w("<"), w(">"), w("f")>>),
    typing(<<w("cp"), <<"d", Slash, "f">>, w("f")>>),
    typing(<<w("mv"), <<"d", Slash, "f">>, w("f")>>), typing(<<w("mv"), w("f"), w("..")>>),
    typing(<<w("rm"), w("d")>>),
    typing(<<w("cat"), w("<"), under("proc", "shell-1"), w(">"), w("f")>>),
    typing(<<w("cp"), under("proc", "cpuinfo"), w("f")>>),
    typing(<<w("cp"), w("f"), under("proc", "cpuinfo")>>),
    typing(<<w("cp"), w("f"), tty>>),
    typing(<<w("sh"), w("<"), tty>>),
    typing(<<w("ls"), abs("proc")>>), typing(<<w("cd"), abs("dev")>>),
    typing(<<w("sh"), w("<"), w("f"), w("2>"), w("g")>>) }
=============================================================================
