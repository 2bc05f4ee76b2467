--------------------------- MODULE MC_Environment ---------------------------
(***************************************************************************)
(* Raw values of environment variables, for the instances of the modules   *)
(* that use Config.                                                        *)
(***************************************************************************)
EXTENDS Config

Raw(word, number, parts) == [word |-> word, padded |-> FALSE, number |-> number, parts |-> parts]

Word(word)     == Raw(word, Null, <<>>)
Blank          == [Word("") EXCEPT !.padded = TRUE]
Number(n)      == Raw("number", n, <<>>)
Pair(key, n)   == [key |-> key, value |-> n]
Pairs(pairs)   == Raw("list", Null, pairs)
Course(key, hex, name) == [key |-> key, hex |-> hex, value |-> name]
File(contents) == Raw("path", Null, contents)
Hours(h, m, hh, mm) == Raw("hours", Null, <<[hour |-> h, minute |-> m], [hour |-> hh, minute |-> mm]>>)

Var(prefix, rest, raw) == <<prefix, rest>> :> raw
Selected(kinds) == Var("", "EVENTS", Pairs([i \in DOMAIN kinds |-> Pair(kinds[i], Null)]))
Empty == [name \in {} |-> Blank]

\* A washer and the secrets.
Basic ==
    Var("WASHER", "IP", Word("host")) @@ Var("PUSHOVER", "TOKEN", Word("secret"))
    @@ Var("PUSHOVER", "USER", Word("secret"))
=============================================================================
