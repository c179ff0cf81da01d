------------------------------ MODULE MCFront ------------------------------
(* A small tree, lists and command lines for Front.                         *)
EXTENDS Front, TLC

\* a/ holds b/ (with a file), a link to b and a file; e is empty; u does not
\* open; n/ is on a file system without d_type.
MCStrings == STRING
MCCwd == <<"cwd">>
P(s)  == MCCwd \o s
MCDir ==
  (P(<<>>) :> <<".", "a", "..", "e", "u", "n", "f">>) @@
  (P(<<"a">>) :> <<"b", ".", "..", "l", "f">>) @@ (P(<<"a", "b">>) :> <<".", "..", "f">>) @@
  (P(<<"a", "l">>) :> <<".", "..", "f">>) @@ (P(<<"e">>) :> <<".", "..">>) @@
  (P(<<"u">>) :> <<".", "..", "f">>) @@ (P(<<"n">>) :> <<".", "d", "..">>) @@
  (P(<<"n", "d">>) :> <<"f", ".", "..">>)
MCLinks   == {P(<<"a", "l">>)}
MCUntyped == {P(<<"n">>)}
MCBroken  == {P(<<"a", "b">>), <<"cut">>}
MCUnread  == {P(<<"u">>), P(<<"none">>), <<"lost">>}

Line(t) == [text |-> P(<<t>>), nl |-> TRUE]
MCListing ==
  (<<"idx">> :> <<Line("0"), Line("1")>>) @@ (<<"cut">> :> <<Line("0"), [Line("1") EXCEPT !.nl = FALSE]>>) @@
  (<<"dirs">> :> <<Line("a"), Line("1")>>) @@
  (<<"blank">> :> <<Line("0"), [text |-> Blank, nl |-> TRUE], Line("1")>>) @@ (<<"empty">> :> << >>) @@ (<<"lost">> :> <<Line("0")>>) @@
  \* one line that fills the buffer of fgets: its newline comes as a blank line
  (<<"long">> :> <<[Line("0") EXCEPT !.nl = FALSE], [text |-> Blank, nl |-> TRUE], Line("1")>>)

MCIndex == <<"idx">>
MCLevel == ("5" :> 5) @@ ("0" :> 0)

UpTo(S, n) == UNION {[1..k -> S] : k \in 0..n}
MCCommands ==
  UpTo({"-c", "-x", "-k", "-o", "-d", "-l", "5", "0", "-h", "x"}, 3) \cup
  {<<"-c", "-d", d, "x">> : d \in {"a", "e", "u", "n", "none"}}

Opt(o) == [opt |-> o]
Take1(o, S) == {[opt |-> o, arg |-> s] : s \in S}
MCLines ==
  UpTo({Opt("c"), Opt("h"), Opt("?")} \cup Take1("f", {<<"x">>, <<"y">>}) \cup Take1("T", {<<"idx">>}), 3) \cup
  {<<Opt("c"), [opt |-> "f", arg |-> <<"x">>]>> \o s :
     s \in UpTo(Take1("T", DOMAIN MCListing) \cup
               Take1("1", {P(<<d>>) : d \in {"a", "e", "u", "n", "f", "none"}} \cup MCLinks), 2)}
=============================================================================
