------------------------------- MODULE MCFiles -------------------------------
(***************************************************************************)
(* Instances of Files for TLC: the image of mkfs and the calls made.       *)
(***************************************************************************)
EXTENDS Files

Request(op, path, new, fd) == [op |-> op, path |-> path, new |-> new, fd |-> fd]
OnPath(op, path) == Request(op, path, <<>>, 1)
OnFd(op) == Request(op, <<>>, <<>>, 1)

MCPrograms == <<[name |-> "f", blocks |-> 1]>>

f == <<"f">>
d == <<"d">>
df == <<"d", "f">>
dd == <<"d", "d">>
up == <<"..">>

\* The first process makes a directory with something in it, forks, and both
\* work in it while it is taken away.
MCScript ==
    <<  << {OnPath("mkdir", d)},
           {OnPath("mkdir", dd), OnPath("create", df), Request("link", f, df, 1), OnPath("open", f)},
           {OnPath("chdir", d), OnPath("chdir", dd), OnFd("write")},
           {OnFd("fork")},
           {OnPath("unlink", <<"/", "d", "d">>), OnPath("unlink", <<"/", "d", "f">>), OnFd("close"),
            OnFd("write"), Request("link", <<"/", "f">>, <<"/", "d", "f">>, 1)},
           {OnPath("unlink", <<"/", "d">>), OnPath("create", f), OnFd("close"), OnPath("mkdir", <<"/">>),
            OnPath("mkdir", <<"/", "f", "d">>)},
           {OnPath("chdir", up), OnPath("mkdir", d), OnFd("read"), OnPath("unlink", <<"/", "f">>)} >>,
        << {OnPath("unlink", <<"/", "d">>), OnPath("unlink", f), OnPath("create", f), OnFd("dup"),
            OnPath("exec", <<"/", "f">>)},
           {OnPath("chdir", up), OnPath("mkdir", d), OnFd("write"), OnFd("pipe"), OnPath("mknod", f),
            OnPath("unlink", <<"d", ".">>)},
           {OnFd("exit")} >> >>
=============================================================================
