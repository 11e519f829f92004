------------------------------- MODULE MCShell -------------------------------
(* Shell for TLC: names of one character, lines of twelve.                   *)
EXTENDS Shell

SpelledA == [n \in Names |-> <<n>>]
Whole == [n \in Names |-> n]

\* A line: its words, with a space between.
Words(c, arguments) ==
    Letters[c] \o FlattenSeq([n \in DOMAIN arguments |-> <<" ">> \o arguments[n]])

Buffer(s) == [i \in 1 .. LINE |-> IF i <= Len(s) THEN s[i] ELSE NUL]

Small == {<<"a">>, <<"a", "/", "b">>}
Some == Small \cup {<<"b">>, <<".", ".">>, <<"/">>, <<".", "/", "a", "/", ".", ".">>}

\* Commands on paths.
Calls ==
    {Words(c, <<p>>) : c \in {"mkdir", "touch", "cd", "find", "rmdir"}, p \in Small}
    \cup {Words(c, <<p>>) : c \in {"rm", "cd", "ls"}, p \in Some}
    \cup {Words(c, <<p>>) : c \in {"stat", "cat"}, p \in {<<"a">>, <<"b">>}}
    \cup {Words("write", <<<<"a">>, t>>) : t \in {<<"x">>, <<"x", "x">>}}
    \cup {Words("mv", <<<<"a">>, p>>) : p \in {<<"b">>, <<"b", "/", "a">>}}
    \cup {Words(c, <<>>) : c \in {"find", "ls"}}

\* Lines for the parser: many spaces, prefixes, paths that are too deep or whose
\* names are too long.
Texts ==
    {<<>>, <<" ">>, <<"r">>, <<"r", " ">>, <<"x", " ", "a">>,
     Words("clear", <<>>), Words("man", <<<<"l", "s">>>>), Words("stat", <<>>),
     <<"e", " ", "a", " ">>, <<"e", " ", " ", "a", " ", "b", " ", " ", "c">>,
     <<"c", "d", " ", "a", "/", "b", "/", "a", "/", ".", ".">>,
     <<"c", "d", " ", "/", "/", "a", ".", "/", "/", "b", "/">>,
     <<"r", " ", ".", ".", "/", ".", ".", "/", "a", "a", "a">>}

\* Lines that went round: no terminator, or what was typed before behind it.
Wrapped ==
    {[i \in 1 .. LINE |-> "a"], Words("echo", <<<<"a", "a", "a", "a", "a", "a", "a">>>>),
     <<"l", "s", NUL, "a", " ", "b", " ", "a", "a", "a", "a", "b">>}

SmallLines == {Buffer(s) : s \in Calls \cup Texts} \cup Wrapped
=============================================================================
