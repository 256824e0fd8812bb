------------------------------- MODULE Session -------------------------------
(***************************************************************************)
(* The parts of a session at the terminal: the decoder of scan codes, a    *)
(* pipeline on the console, the shell, the allocator of user programs and  *)
(* the matcher of grep.  They meet one another only through system calls   *)
(* that each models from its side, so a behaviour follows one of them.     *)
(***************************************************************************)
EXTENDS Keyboard, Terminal, Shell, Umalloc, Matcher

CONSTANTS Pattern, MAXPATTERN,  \* the characters of an expression, and how many
          TextChar, MAXTEXT     \* the characters of a text, and how many

VARIABLES part, re, text

grepVars == <<re, text>>
vars == <<part, kbdVars, terminalVars, shellVars, heap, grepVars>>

Init ==
    /\ part \in {"keyboard", "terminal", "shell", "umalloc", "grep"}
    /\ KeyboardInit /\ TerminalInit /\ ShellInit /\ UmallocInit
    /\ re = <<>> /\ text = <<>>

\* The expression on the command line of grep, then a line of its input.
Grows ==
    \/ /\ Len(re) < MAXPATTERN /\ text = <<>>
       /\ \E c \in Pattern : re' = Append(re, c)
       /\ UNCHANGED text
    \/ /\ Len(text) < MAXTEXT
       /\ \E c \in TextChar : text' = Append(text, c)
       /\ UNCHANGED re

InKeyboard(A) == part = "keyboard" /\ A /\ UNCHANGED <<part, terminalVars, shellVars, heap, grepVars>>
InTerminal(A) == part = "terminal" /\ A /\ UNCHANGED <<part, kbdVars, shellVars, heap, grepVars>>
InShell(A) == part = "shell" /\ A /\ UNCHANGED <<part, kbdVars, terminalVars, heap, grepVars>>
InUmalloc(A) == part = "umalloc" /\ A /\ UNCHANGED <<part, kbdVars, terminalVars, shellVars, grepVars>>
InGrep(A) == part = "grep" /\ A /\ UNCHANGED <<part, kbdVars, terminalVars, shellVars, heap>>

Next ==
    \/ InKeyboard(KeyboardNext) \/ InTerminal(TerminalNext) \/ InShell(ShellNext)
    \/ InUmalloc(UmallocNext) \/ InGrep(Grows)

\* Processes that can run are run; nobody need type or kill.
Fairness == WF_vars(InTerminal(Cat)) /\ WF_vars(InTerminal(Sink)) /\ WF_vars(InShell(Run))

Spec == Init /\ [][Next]_vars /\ Fairness

\* match() of grep finds exactly the texts that the expression describes.
MatchesRight == match(re, text) = Matches(re, text)
=============================================================================
