------------------------------ MODULE MCSysFile -----------------------------
(* Instances of SysFile for TLC.                                           *)
EXTENDS SysFile

Abs(c, path)    == [call |-> c, abs |-> TRUE, path |-> path, new |-> <<>>]
Rel(c, path)    == [call |-> c, abs |-> FALSE, path |-> path, new |-> <<>>]
Link(path, new) == [call |-> "link", abs |-> TRUE, path |-> path, new |-> new]

\* /a is a file or a directory with a file in it, and gets a second name.
\* One process makes and uses what the other removes.
MakeAndRemove ==
    [p1 |-> {Abs("create", <<"a">>), Abs("mkdir", <<"a">>), Abs("chdir", <<"a">>),
             Rel("mkdir", <<"b">>), Link(<<"a">>, <<"b">>)},
     p2 |-> {Abs("unlink", <<"a">>), Rel("unlink", <<"b">>), Abs("open", <<"a", "b">>)}]

\* p1 stands in /a/b and goes up from there; /a/b and /a are removed.
GoUp ==
    [p1 |-> {Abs("mkdir", <<"a">>), Abs("mkdir", <<"a", "b">>), Abs("chdir", <<"a", "b">>),
             Rel("open", <<"..">>)},
     p2 |-> {Abs("unlink", <<"a">>), Abs("unlink", <<"a", "b">>)}]

\* A file is created and removed in one directory.
OneFile == [p1 |-> {Abs("create", <<"a">>)}, p2 |-> {Abs("unlink", <<"a">>)}]
=============================================================================
