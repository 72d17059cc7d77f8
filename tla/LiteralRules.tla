---------------------------- MODULE LiteralRules ----------------------------
(***************************************************************************)
(* What a literal's text says, what gcc reads in the initialisers, and the *)
(* properties that relate the two to the regions of module Literals.       *)
(***************************************************************************)
EXTENDS Literals

\* The characters a text stands for.
Meant(s) ==
    LET From[k \in 1 .. Len(s) + 2] ==
            IF k > Len(s) THEN <<>>
            ELSE IF s[k] = "backslash" /\ k < Len(s) THEN <<Escapes[s[k + 1]]>> \o From[k + 2]
            ELSE <<s[k]>> \o From[k + 1]
    IN  From[1]

\* A string initialiser in C: a backslash and up to three octal digits are one
\* character.
Octal == {"0", "1", "2", "3", "4", "5", "6", "7"}
OctalDigits(s, k) ==
    CHOOSE n \in 1 .. 3 :
        /\ \A j \in 1 .. n : k + j \in DOMAIN s /\ s[k + j] \in Octal
        /\ n < 3 => k + n + 1 \notin DOMAIN s \/ s[k + n + 1] \notin Octal
GccString(s) ==
    LET From[k \in 1 .. Len(s) + 1] ==
            IF k > Len(s) THEN <<>>
            ELSE IF s[k] # "backslash" THEN <<s[k]>> \o From[k + 1]
            ELSE IF s[k + 1] \notin Octal THEN <<Escapes[s[k + 1]]>> \o From[k + 2]
            ELSE <<IF \A j \in 1 .. OctalDigits(s, k) : s[k + j] = "0" THEN "nul"
                   ELSE "another">> \o From[k + OctalDigits(s, k) + 1]
    IN  From[1]

\* Character constants: a quote, a newline or a backslash cannot stand for itself.
GccFloat(s) ==
    LET From[k \in 1 .. Len(s) + 1] ==
            IF k > Len(s) THEN <<>>
            ELSE IF k + 2 <= Len(s) /\ s[k + 2] = "apostrophe"
                    /\ s[k + 1] \notin {"apostrophe", "newline", "backslash"}
            THEN <<s[k + 1]>> \o From[k + 3]
            ELSE IF k + 3 <= Len(s) /\ s[k + 1] = "backslash" /\ s[k + 3] = "apostrophe"
                    /\ s[k + 2] \in {"0"} \cup DOMAIN Escapes
            THEN <<IF s[k + 2] = "0" THEN "nul" ELSE Escapes[s[k + 2]]>> \o From[k + 4]
            ELSE <<"error">>
    IN  From[1]

Holds(memory, addr, bytes) ==
    /\ addr + Len(bytes) <= Len(memory)
    /\ SubSeq(memory, addr + 1, addr + Len(bytes)) = bytes

-----------------------------------------------------------------------------
(* rustlex.l 196, 200: deescape() works in two arrays on the stack, of one *)
(* byte more than the text has; whatever the text, nothing is written      *)
(* behind them, and nothing read behind the NUL.                           *)
TypeOK ==
    /\ pc \in {"lex", "deescape", "done", "exit_1"}
    /\ text \in Seq(Chars)
    /\ i \in 0 .. Len(text) + 1
    /\ buf2 \in Seq(Junk \cup {Escapes[e] : e \in DOMAIN Escapes})
    /\ Len(buf2) <= i /\ Len(buf2) <= Len(text)
    /\ STR_SIZE \in Nat /\ FLT_SIZE = DoubleSize * Len(FLT_REGION)
    /\ Len(literals) <= MaxLiterals

(* rustlex.l 48-50, 217: of a string without a newline, the rules let only *)
(* escape sequences through that the switch knows.  (With one, line 48     *)
(* does not match and line 50 does.)                                       *)
OneLine(s) == \A k \in DOMAIN s : s[k] # "newline"
EscapesKnown ==
    /\ pc = "deescape" /\ literals[Len(literals)].kind = "string"
    /\ OneLine(text) /\ At(i) = "backslash"
    => At(i + 1) \in DOMAIN Escapes

(* tac.c 283-305: the places of strings, given one by one while the lexer *)
(* runs, do not overlap and lie in the region that setup_string() lays out *)
(* when all are known, whatever deescape() made of their texts.            *)
Placed == {n \in DOMAIN literals : literals[n].kind \in {"string", "char"} /\ literals[n].at > 0}
Behind(n) == literals[n].addr + Len(STR_REGION[literals[n].at]) + 1
RegionsDisjoint ==
    \A n \in Placed :
        /\ Behind(n) <= STR_SIZE
        /\ \A m \in Placed : m < n => Behind(m) <= literals[n].addr

(* finalcode.c 613: "strings and floats are actually pointers to a global  *)
(* region space": in the running program each address holds what its       *)
(* literal says ...                                                        *)
Intact(literal) ==
    CASE literal.kind \in {"string", "char"} ->
            Holds(GccString(rstring), literal.addr, Append(Meant(literal.text), "nul"))
      [] literal.kind = "float" ->
            Holds(GccFloat(rfloat), literal.addr, literal.text)
      [] literal.kind = "integer" -> literal.addr = literal.text
LiteralsIntact == pc = "done" => \A n \in DOMAIN literals : Intact(literals[n])

(* ... unless the program has a literal that finalcode.c or the lexer does *)
(* not print or read right: a digit behind the \0 of the string before it  *)
(* (finalcode.c 92), a float with a byte that needs an escape sequence     *)
(* (132), a newline that hides an unknown escape (rustlex.l 48), '\' (56). *)
Fragile(literal) ==
    CASE literal.kind = "string" ->
            \/ ~ OneLine(literal.text)
            \/ literal.at > 1 /\ literal.text # <<>> /\ literal.text[1] \in Octal
      [] literal.kind = "char" ->
            \/ literal.text = <<"backslash">>
            \/ literal.at > 1 /\ literal.text[1] \in Octal
      [] literal.kind = "float" ->
            \E b \in DOMAIN literal.text :
                literal.text[b] \in {"apostrophe", "newline", "backslash"}
      [] literal.kind = "integer" -> FALSE
PlainLiteralsIntact ==
    (\A n \in DOMAIN literals : ~ Fragile(literals[n])) => LiteralsIntact
=============================================================================
