----------------------------- MODULE ShellParser -----------------------------
(***************************************************************************)
(* The parser of the shell (sh.c): a recursive descent over the characters *)
(* of a line.  An operator takes the line s and a position i, and returns  *)
(* the command it has read and the position after it; the position 0 is    *)
(* for panic(), which ends the shell's child.  A character of a word is    *)
(* any one that is neither white space nor a symbol.                       *)
(***************************************************************************)
EXTENDS Naturals, Sequences, SequencesExt, FiniteSetsExt

CONSTANT MAXARGS

ASSUME ShellParserAssumption == MAXARGS \in Nat \ {0}

whitespace == {" "}
symbols == {"<", "|", ">", "&", ";", "(", ")"}

execcmd(argv) == [type |-> "EXEC", argv |-> argv]
redircmd(cmd, fd) == [type |-> "REDIR", cmd |-> cmd, fd |-> fd]
pipecmd(left, right) == [type |-> "PIPE", left |-> left, right |-> right]
listcmd(left, right) == [type |-> "LIST", left |-> left, right |-> right]
backcmd(cmd) == [type |-> "BACK", cmd |-> cmd]

\* The first position from i on that is past the line or in none of the sets.
SkipOver(s, i, set) == Min({j \in i .. Len(s) + 1 : j > Len(s) \/ s[j] \notin set})
SkipTo(s, i, set) == Min({j \in i .. Len(s) + 1 : j > Len(s) \/ s[j] \in set})

\* The token at i, its text, and where the next one starts.
gettoken(s, i) ==
    LET b == SkipOver(s, i, whitespace)
        ended == b > Len(s)
        double == ~ended /\ s[b] = ">" /\ b < Len(s) /\ s[b + 1] = ">"
        symbol == ~ended /\ s[b] \in symbols
        e == IF ended THEN b ELSE IF double THEN b + 2 ELSE IF symbol THEN b + 1
             ELSE SkipTo(s, b, whitespace \cup symbols)
    IN  [tok |-> IF ended THEN "end" ELSE IF double THEN "+" ELSE IF symbol THEN s[b] ELSE "a",
         text |-> SubSeq(s, b, e - 1),
         at |-> SkipOver(s, e, whitespace)]

peek(s, i, toks) ==
    LET b == SkipOver(s, i, whitespace) IN b <= Len(s) /\ s[b] \in toks

Read(cmd, at) == [cmd |-> cmd, at |-> at]
Panic == Read([type |-> "PANIC"], 0)

\* A command inside its redirections, the last one outside, and inside one
\* backcmd() for each of n ampersands.
Redirected(cmd, redirs) == FoldLeft(LAMBDA c, fd : redircmd(c, fd), cmd, redirs)
Backs(cmd, n) == FoldLeft(LAMBDA c, k : backcmd(c), cmd, [k \in 1 .. n |-> k])

(***************************************************************************)
(* The functions of the parser call one another through P, which is all of *)
(* them: P["line", i] is parseline() at position i.  "back" is the loop    *)
(* over "&" of parseline(), which counts them, and "args" the loop of      *)
(* parseexec(), which gathers arguments and redirections in any order.     *)
(***************************************************************************)
Ampersands_One(P, s, i) == IF peek(s, i, {"&"}) THEN Read(1, gettoken(s, i).at) ELSE Read(0, i)

Ampersands(P, s, i) ==
    IF ~peek(s, i, {"&"}) THEN Read(0, i)
    ELSE LET rest == P["back", gettoken(s, i).at] IN Read(rest.cmd + 1, rest.at)

parseline(P, s, i) ==
    LET first == P["pipe", i] IN
    IF first.at = 0 THEN Panic
    ELSE LET amps == P["back", first.at]
             cmd == Backs(first.cmd, amps.cmd)
         IN  IF ~peek(s, amps.at, {";"}) THEN Read(cmd, amps.at)
             ELSE LET rest == P["line", gettoken(s, amps.at).at]
                  IN  IF rest.at = 0 THEN Panic ELSE Read(listcmd(cmd, rest.cmd), rest.at)

parsepipe(P, s, i) ==
    LET first == P["exec", i] IN
    IF first.at = 0 THEN Panic
    ELSE IF ~peek(s, first.at, {"|"}) THEN first
    ELSE LET rest == P["pipe", gettoken(s, first.at).at]
         IN  IF rest.at = 0 THEN Panic ELSE Read(pipecmd(first.cmd, rest.cmd), rest.at)

\* The descriptors of the redirections, in order.
parseredirs(P, s, i) ==
    IF ~peek(s, i, {"<", ">"}) THEN Read(<<>>, i)
    ELSE LET tok == gettoken(s, i)
             file == gettoken(s, tok.at)
         IN  IF file.tok # "a" THEN Panic
             ELSE LET rest == P["redirs", file.at]
                  IN  IF rest.at = 0 THEN Panic
                      ELSE Read(<<IF tok.tok = "<" THEN 0 ELSE 1>> \o rest.cmd, rest.at)

Args(P, s, i) ==
    LET word == gettoken(s, i) IN
    IF peek(s, i, {"|", ")", "&", ";"}) \/ word.tok = "end" THEN Read([argv |-> <<>>, redirs |-> <<>>], i)
    ELSE IF word.tok # "a" THEN Panic
    ELSE LET redirs == P["redirs", word.at] IN
         IF redirs.at = 0 THEN Panic
         ELSE LET rest == P["args", redirs.at]
              IN  IF rest.at = 0 THEN Panic
                  ELSE Read([argv |-> <<word.text>> \o rest.cmd.argv,
                             redirs |-> redirs.cmd \o rest.cmd.redirs], rest.at)

parseblock(P, s, i) ==
    LET inner == P["line", gettoken(s, i).at] IN
    IF inner.at = 0 THEN Panic
    ELSE IF ~peek(s, inner.at, {")"}) THEN Panic
    ELSE LET redirs == P["redirs", gettoken(s, inner.at).at]
         IN  IF redirs.at = 0 THEN Panic ELSE Read(Redirected(inner.cmd, redirs.cmd), redirs.at)

parseexec(P, s, i) ==
    IF peek(s, i, {"("}) THEN parseblock(P, s, i)
    ELSE LET redirs == P["redirs", i] IN
         IF redirs.at = 0 THEN Panic
         ELSE LET args == P["args", redirs.at]
              IN  IF args.at = 0 THEN Panic
                  ELSE IF Len(args.cmd.argv) >= MAXARGS THEN Panic
                  ELSE Read(Redirected(execcmd(args.cmd.argv), redirs.cmd \o args.cmd.redirs), args.at)

\* parsecmd() panics on what is left over.
parsecmd(s) ==
    LET P[n \in {"line", "pipe", "exec", "args", "redirs", "back"}, i \in 1 .. Len(s) + 1] ==
          CASE n = "line" -> parseline(P, s, i)
          [] n = "pipe" -> parsepipe(P, s, i)
          [] n = "exec" -> parseexec(P, s, i)
          [] n = "args" -> Args(P, s, i)
          [] n = "redirs" -> parseredirs(P, s, i)
          [] n = "back" -> Ampersands(P, s, i)
        r == P["line", 1]
    IN  IF r.at = 0 THEN r.cmd
        ELSE IF SkipOver(s, r.at, whitespace) <= Len(s) THEN Panic.cmd ELSE r.cmd

-----------------------------------------------------------------------------
(***************************************************************************)
(* What a line means, by its grammar, over sequences of tokens:            *)
(*                                                                         *)
(*     line    ::= pipe "&"* | pipe "&"* ";" line                          *)
(*     pipe    ::= command | command "|" pipe                              *)
(*     command ::= "(" line ")" redirection* | (word | redirection)*       *)
(***************************************************************************)
Tokens(s) ==
    LET T[i \in 1 .. Len(s) + 1] ==
          LET t == gettoken(s, i) IN IF t.tok = "end" THEN <<>> ELSE <<t.tok>> \o T[t.at]
    IN  T[1]

IsRedir(t) == t \in {"<", ">", "+"}

\* The words of t from i to j that no redirection takes.
Arguments(t, i, j) == {k \in i .. j : t[k] = "a" /\ (k = i \/ ~IsRedir(t[k - 1]))}

Simple(t, i, j) ==
    \A k \in i .. j : t[k] = "a" \/ (IsRedir(t[k]) /\ k < j /\ t[k + 1] = "a")

\* t, from i to j, is derived from the nonterminal n.
Derives(t) ==
    LET G[n \in {"line", "pipe", "command"}, i \in 1 .. Len(t) + 2, j \in 0 .. Len(t)] ==
          CASE n = "line" ->
                 \E k \in i - 1 .. j :
                   /\ G["pipe", i, k]
                   /\ \E m \in k .. j :
                        /\ \A x \in k + 1 .. m : t[x] = "&"
                        /\ m = j \/ (t[m + 1] = ";" /\ G["line", m + 2, j])
          [] n = "pipe" ->
                 \/ G["command", i, j]
                 \/ \E k \in i .. j : t[k] = "|" /\ G["command", i, k - 1] /\ G["pipe", k + 1, j]
          [] n = "command" ->
                 \/ Simple(t, i, j) /\ Cardinality(Arguments(t, i, j)) < MAXARGS
                 \/ /\ i <= j /\ t[i] = "("
                    /\ \E k \in i + 1 .. j :
                         /\ t[k] = ")" /\ G["line", i + 1, k - 1]
                         /\ Simple(t, k + 1, j) /\ Arguments(t, k + 1, j) = {}
    IN  G["line", 1, Len(t)]

\* The shape of a command: how many commands, pipes, lists, backgrounds and
\* redirections it has.
RECURSIVE Shape(_)
Shape(c) ==
    CASE c.type = "EXEC" -> [i \in 1 .. 5 |-> IF i = 1 THEN Len(c.argv) ELSE 0]
    [] c.type = "REDIR" -> [Shape(c.cmd) EXCEPT ![2] = @ + 1]
    [] c.type = "BACK" -> [Shape(c.cmd) EXCEPT ![3] = @ + 1]
    [] c.type = "PIPE" -> [i \in 1 .. 5 |-> Shape(c.left)[i] + Shape(c.right)[i] + (IF i = 4 THEN 1 ELSE 0)]
    [] c.type = "LIST" -> [i \in 1 .. 5 |-> Shape(c.left)[i] + Shape(c.right)[i] + (IF i = 5 THEN 1 ELSE 0)]

Number(t, set) == Cardinality({k \in DOMAIN t : t[k] \in set})

TokenShape(t) ==
    <<Cardinality(Arguments(t, 1, Len(t))), Number(t, {"<", ">", "+"}), Number(t, {"&"}), Number(t, {"|"}), Number(t, {";"})>>

\* The line is read by parsecmd() as the grammar says.
ParsedRight(s) ==
    LET t == Tokens(s)
        c == parsecmd(s)
    IN  IF Derives(t) THEN c.type # "PANIC" /\ Shape(c) = TokenShape(t) ELSE c.type = "PANIC"
=============================================================================
