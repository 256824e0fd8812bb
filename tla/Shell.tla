------------------------------- MODULE Shell --------------------------------
(***************************************************************************)
(* The shell (sh.c): main() reads a line, forks a child that parses and    *)
(* runs it, and waits.  runcmd() turns the command into processes: it      *)
(* forks, makes pipes, closes and duplicates descriptors, and waits.  A    *)
(* process is named by the order of its creation; the pipe that process p  *)
(* makes has the ends <<"r", p>> and <<"w", p>>.  The program a command    *)
(* runs reads its standard input to the end, as cat does, and exits.       *)
(***************************************************************************)
EXTENDS ShellParser

CONSTANTS LineChar, \* the characters typed
          MAXLINE,  \* how many make a line
          Longer,   \* lines beyond that, typed at once
          NPROC     \* live processes, past which fork() fails

ASSUME ShellAssumption == MAXLINE \in Nat /\ NPROC \in Nat \ {0}

VARIABLES line, entered, proc,
          failed    \* history: a fork1() has failed

shellVars == <<line, entered, proc, failed>>

Closed == <<"none", 0>>
Console == <<"tty", 0>>
Disk == <<"file", 0>>
R(p) == <<"r", p>>
W(p) == <<"w", p>>

\* Descriptors: the three of main(), and the two a pipe takes.
FD == 0 .. 4
NoCmd == [type |-> "NONE"]

\* back is history: the process was started by an "&", or below one that was.
Proc(st, cmd, fd, parent, back) == [st |-> st, cmd |-> cmd, fd |-> fd, parent |-> parent, back |-> back]
Gone == Proc("gone", NoCmd, [f \in FD |-> Closed], 0, FALSE)

Pids == 1 .. Len(proc)
Live == {p \in Pids : proc[p].st \notin {"gone", "zombie"}}
Children(p) == {c \in Pids : proc[c].parent = p /\ proc[c].st # "gone"}
Lowest(fd) == Min({f \in FD : fd[f] = Closed})
Holds(p, end) == \E f \in FD : proc[p].fd[f] = end

ShellInit ==
    /\ line = <<>> /\ entered = FALSE /\ failed = FALSE
    /\ proc = <<Proc("prompt", NoCmd, [f \in FD |-> IF f < 3 THEN Console ELSE Closed], 0, FALSE)>>

-----------------------------------------------------------------------------
(***************************************************************************)
(* System calls.                                                           *)
(***************************************************************************)
\* The table after p has exited: its children go to init, which reaps them.
Exited(p) ==
    [q \in Pids |->
       IF q = p THEN IF proc[p].parent = 0 THEN Gone ELSE [Gone EXCEPT !.st = "zombie", !.parent = proc[p].parent]
       ELSE IF proc[q].parent # p THEN proc[q]
       ELSE IF proc[q].st = "zombie" THEN Gone ELSE [proc[q] EXCEPT !.parent = 0]]

exit(p) == proc' = Exited(p) /\ UNCHANGED <<line, entered, failed>>

\* fork1(): the child starts in state st on cmd, the parent goes on in state
\* next; when there is no process left the caller panics.
fork1(p, st, cmd, back, next) ==
    /\ UNCHANGED <<line, entered>>
    /\ IF Cardinality(Live) < NPROC
         THEN /\ proc' = Append([proc EXCEPT ![p].st = next],
                                Proc(st, cmd, proc[p].fd, p, proc[p].back \/ back))
              /\ UNCHANGED failed
         ELSE proc' = Exited(p) /\ failed' = TRUE

\* wait() reaps one child that has exited; p goes on as the record next.  It
\* does not wait when there is no child.
wait(p, next) ==
    /\ \E c \in IF Children(p) = {} THEN {p} ELSE {c \in Children(p) : proc[c].st = "zombie"} :
         proc' = [proc EXCEPT ![c] = Gone, ![p] = next]
    /\ UNCHANGED <<line, entered, failed>>

Goes(p, st) == [proc[p] EXCEPT !.st = st]

-----------------------------------------------------------------------------
(***************************************************************************)
(* runcmd(), one action per case and per call that others can see.         *)
(***************************************************************************)
Runs(p, type) == proc[p].st = "run" /\ proc[p].cmd.type = type

RunPanic(p) == Runs(p, "PANIC") /\ exit(p)

RunExec(p) ==
    /\ Runs(p, "EXEC")
    /\ IF proc[p].cmd.argv = <<>>
         THEN exit(p)
         ELSE proc' = [proc EXCEPT ![p].st = "program", ![p].cmd = NoCmd] /\ UNCHANGED <<line, entered, failed>>

\* exec() finds no such program.
RunExecFails(p) == Runs(p, "EXEC") /\ proc[p].cmd.argv # <<>> /\ exit(p)

RunRedir(p) ==
    /\ Runs(p, "REDIR")
    /\ LET closed == [proc[p].fd EXCEPT ![proc[p].cmd.fd] = Closed]
       IN  proc' = [proc EXCEPT ![p].fd = [closed EXCEPT ![Lowest(closed)] = Disk],
                                ![p].cmd = proc[p].cmd.cmd]
    /\ UNCHANGED <<line, entered, failed>>

RunRedirFails(p) == Runs(p, "REDIR") /\ exit(p)

RunList(p) == Runs(p, "LIST") /\ fork1(p, "run", proc[p].cmd.left, FALSE, "list")

ListWaits(p) ==
    proc[p].st = "list" /\ wait(p, [proc[p] EXCEPT !.st = "run", !.cmd = @.right])

RunPipe(p) ==
    /\ Runs(p, "PIPE")
    /\ LET r == Lowest(proc[p].fd)
           opened == [proc[p].fd EXCEPT ![r] = R(p)]
       IN  proc' = [proc EXCEPT ![p].fd = [opened EXCEPT ![Lowest(opened)] = W(p)], ![p].st = "left"]
    /\ UNCHANGED <<line, entered, failed>>

ForksLeft(p) == proc[p].st = "left" /\ fork1(p, "plumbs1", proc[p].cmd.left, FALSE, "right")
ForksRight(p) == proc[p].st = "right" /\ fork1(p, "plumbs0", proc[p].cmd.right, FALSE, "closes")

\* close(p[0]); close(p[1]) of the ends of pipe q
CloseEnds(fd, q) == [f \in FD |-> IF fd[f] \in {R(q), W(q)} /\ f > 2 THEN Closed ELSE fd[f]]

\* A child: close(std); dup(end); close(p[0]); close(p[1]).
Plumbed(fd, std, end, q) ==
    LET closed == [fd EXCEPT ![std] = Closed]
    IN  CloseEnds([closed EXCEPT ![Lowest(closed)] = end], q)

Plumbs(p) ==
    /\ proc[p].st \in {"plumbs0", "plumbs1"}
    /\ LET made == proc[p].fd[Min({f \in 3 .. 4 : proc[p].fd[f] # Closed})][2]
       IN  proc' = [proc EXCEPT
                      ![p].st = "run",
                      ![p].fd = IF proc[p].st = "plumbs1" THEN Plumbed(@, 1, W(made), made)
                                ELSE Plumbed(@, 0, R(made), made)]
    /\ UNCHANGED <<line, entered, failed>>

ClosesEnds_KeepsWrite(p) ==
    /\ proc[p].st = "closes"
    /\ proc' = [proc EXCEPT ![p].fd = [f \in FD |-> IF @[f] = R(p) THEN Closed ELSE @[f]], ![p].st = "waits2"]
    /\ UNCHANGED <<line, entered, failed>>

ClosesEnds(p) ==
    /\ proc[p].st = "closes"
    /\ proc' = [proc EXCEPT ![p].fd = CloseEnds(@, p), ![p].st = "waits2"]
    /\ UNCHANGED <<line, entered, failed>>

PipeWaits_Once(p) == proc[p].st = "waits2" /\ wait(p, Goes(p, "exits"))

PipeWaits(p) ==
    \/ proc[p].st = "waits2" /\ wait(p, Goes(p, "waits1"))
    \/ proc[p].st = "waits1" /\ wait(p, Goes(p, "exits"))

RunBack(p) == Runs(p, "BACK") /\ fork1(p, "run", proc[p].cmd.cmd, TRUE, "exits")

Exits(p) == proc[p].st = "exits" /\ exit(p)

\* The program: read() returns 0 at the end of the file, for a pipe when
\* nobody holds its write end, and the program exits.
ProgramEnds(p) ==
    /\ proc[p].st = "program"
    /\ \A q \in Pids : proc[p].fd[0] = R(q) => \A h \in Pids : ~Holds(h, W(q))
    /\ exit(p)

-----------------------------------------------------------------------------
(***************************************************************************)
(* main()                                                                  *)
(***************************************************************************)
Types(c) ==
    /\ proc[1].st = "prompt" /\ ~entered /\ Len(line) < MAXLINE
    /\ line' = Append(line, c)
    /\ UNCHANGED <<entered, proc, failed>>

Pastes ==
    /\ proc[1].st = "prompt" /\ ~entered /\ line = <<>>
    /\ line' \in Longer
    /\ UNCHANGED <<entered, proc, failed>>

\* getcmd() returns the line; the child parses it.
Enters ==
    /\ proc[1].st = "prompt" /\ ~entered
    /\ line' = <<>> /\ entered' = TRUE /\ UNCHANGED failed
    /\ proc' = Append([proc EXCEPT ![1].st = "waits"], Proc("run", parsecmd(line), proc[1].fd, 1, FALSE))

MainWaits == proc[1].st = "waits" /\ wait(1, Goes(1, "prompt"))

Steps(p) ==
    \/ RunPanic(p) \/ RunExec(p) \/ RunExecFails(p) \/ RunRedir(p) \/ RunRedirFails(p) \/ RunList(p)
    \/ ListWaits(p) \/ RunPipe(p) \/ ForksLeft(p) \/ ForksRight(p) \/ Plumbs(p) \/ ClosesEnds(p)
    \/ PipeWaits(p) \/ RunBack(p) \/ Exits(p) \/ ProgramEnds(p)

Run == MainWaits \/ \E p \in Pids : Steps(p)

\* One line is followed to the end of the processes it started.
ShellNext == Pastes \/ Enters \/ Run \/ \E c \in LineChar : Types(c)

-----------------------------------------------------------------------------
(***************************************************************************)
(* Properties.                                                             *)
(***************************************************************************)
\* parsecmd() accepts exactly the lines of the shell's grammar, and loses no
\* argument, redirection, pipe, list or background of them.
ParsesGrammar == ParsedRight(line)

\* When the prompt comes back, whatever still runs was put in the background:
\* runcmd() waits for both sides of a pipe and for the left of a list, however
\* they are nested.  What a failed fork1() leaves behind is excepted.
PromptAlone ==
    proc[1].st = "prompt" /\ ~failed => \A p \in Live \ {1} : proc[p].back

\* The shell comes back to its prompt and every process of the line ends: no
\* pipeline waits for an end of file that a descriptor left open holds back.
LineEnds == entered ~> proc[1].st = "prompt" /\ Live = {1}
=============================================================================
