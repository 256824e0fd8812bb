------------------------------ MODULE Matcher --------------------------------
(***************************************************************************)
(* The regular expressions of grep (grep.c), and what they mean.  Both the *)
(* expression and the text are sequences of characters.                    *)
(***************************************************************************)
EXTENDS Naturals, Sequences

RECURSIVE matchhere(_, _), matchstar(_, _, _), match(_, _)

matchstar_Plus(c, re, text) ==
    /\ text # <<>> /\ (text[1] = c \/ c = ".")
    /\ matchhere(re, Tail(text)) \/ matchstar(c, re, Tail(text))

\* c*re at the beginning of the text
matchstar(c, re, text) ==
    \/ matchhere(re, text)
    \/ text # <<>> /\ (text[1] = c \/ c = ".") /\ matchstar(c, re, Tail(text))

\* re at the beginning of the text
matchhere(re, text) ==
    IF re = <<>> THEN TRUE
    ELSE IF Len(re) > 1 /\ re[2] = "*" THEN matchstar(re[1], Tail(Tail(re)), text)
    ELSE IF re = <<"$">> THEN text = <<>>
    ELSE text # <<>> /\ (re[1] = "." \/ re[1] = text[1]) /\ matchhere(Tail(re), Tail(text))

\* re anywhere in the text; ^ ties it to the beginning.
match(re, text) ==
    IF re # <<>> /\ re[1] = "^" THEN matchhere(Tail(re), text)
    ELSE matchhere(re, text) \/ (text # <<>> /\ match(re, Tail(text)))

-----------------------------------------------------------------------------
(***************************************************************************)
(* What an expression means: it is a sequence of items, an item matches a  *)
(* piece of the text, and the pieces follow one another.                   *)
(***************************************************************************)
RECURSIVE Items(_)
Items(re) ==
    IF re = <<>> THEN <<>>
    ELSE IF Len(re) > 1 /\ re[2] = "*"
      THEN <<[c |-> re[1], many |-> TRUE, end |-> FALSE]>> \o Items(Tail(Tail(re)))
      ELSE <<[c |-> re[1], many |-> FALSE, end |-> re = <<"$">>]>> \o Items(Tail(re))

\* The item matches the characters of the text after position i, up to j.
ItemMatches(item, text, i, j) ==
    IF item.end THEN i = j /\ j = Len(text)
    ELSE /\ item.many \/ j = i + 1
         /\ \A k \in i + 1 .. j : item.c \in {".", text[k]}

Matches(re, text) ==
    LET tied == re # <<>> /\ re[1] = "^"
        items == Items(IF tied THEN Tail(re) ELSE re)
    IN  \E cut \in [0 .. Len(items) -> 0 .. Len(text)] :
          /\ tied => cut[0] = 0
          /\ \A k \in DOMAIN items : cut[k - 1] <= cut[k] /\ ItemMatches(items[k], text, cut[k - 1], cut[k])
=============================================================================
