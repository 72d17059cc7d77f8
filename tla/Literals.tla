------------------------------ MODULE Literals ------------------------------
(***************************************************************************)
(* A literal's way through the compiler: rustlex.l accepts its text, turns *)
(* its escape sequences into characters and gives it a place in a region   *)
(* (tac.c); finalcode.c prints the regions as C, and gcc reads them back.  *)
(* Everything else between two literals is left out.                       *)
(***************************************************************************)
EXTENDS Integers, Sequences, FiniteSets

CONSTANTS
    Chars,        \* the characters of a literal's text
    Strings,      \* the texts that stand between the quotes of a string ...
    CharTexts,    \* ... and between those of a character
    Doubles,      \* the bytes of the values of floats
    DoubleSize,   \* sizeof(double)
    Values,       \* the values of integers
    INT_MIN, INT_MAX,
    MaxLiterals   \* bound on the literals of a program

ASSUME LiteralsAssumption ==
    /\ Chars \subseteq STRING \ {"nul"}     \* the source has no NUL byte: strlen(text) is its length
    /\ Strings \subseteq Seq(Chars) /\ CharTexts \subseteq Seq(Chars)
    /\ DoubleSize \in Nat
    /\ Doubles \subseteq [1 .. DoubleSize -> STRING]
    /\ Values \subseteq Int
    /\ MaxLiterals \in Nat

VARIABLES
    pc,                      \* "lex", "deescape", "done" or "exit_1"
    text, i, buf2,           \* of the deescape() that runs
    literals,                \* the literals so far
    STR_REGION, STR_SIZE,
    FLT_REGION, FLT_SIZE,
    rstring, rfloat          \* the initialisers in the C program
regions == <<STR_REGION, STR_SIZE, FLT_REGION, FLT_SIZE>>
vars == <<pc, text, i, buf2, literals, regions, rstring, rfloat>>

\* Its region's at-th entry, and where in the region that begins.
Literal(kind, body, at, addr) == [kind |-> kind, text |-> body, at |-> at, addr |-> addr]
NoPlace(kind, body) == Literal(kind, body, 0, -1)

-----------------------------------------------------------------------------
(* The rules for strings.  s is what stands between the quotes.            *)
Escapes == [n |-> "newline", t |-> "tab", r |-> "return",
            apostrophe |-> "apostrophe", quote |-> "quote", backslash |-> "backslash"]
Allowed == DOMAIN Escapes \ {"backslash"}     \* [ntr\'\"]

\* ([^"\n]|("\\\""))*
Starred(s) ==
    \A k \in DOMAIN s :
        /\ s[k] # "newline"
        /\ s[k] = "quote" => k > 1 /\ s[k - 1] = "backslash"
Before(s, k) == SubSeq(s, 1, k - 1)

BadEscapeAtEnd(s) ==    \* mutant: the .* of line 48 forgotten
    \E k \in 1 .. Len(s) - 1 :
        /\ s[k] = "backslash" /\ s[k + 1] \notin Allowed
        /\ Starred(Before(s, k))
        /\ k + 1 = Len(s)
BadEscape(s) ==
    \E k \in 1 .. Len(s) - 1 :
        /\ s[k] = "backslash" /\ s[k + 1] \notin Allowed
        /\ Starred(Before(s, k))
        /\ \A l \in k + 2 .. Len(s) : s[l] # "newline"
EscapedQuote(s) == s # <<>> /\ Starred(Before(s, Len(s))) /\ s[Len(s)] = "backslash"
IsString(s) == s # <<>> => Starred(Before(s, Len(s))) /\ s[Len(s)] # "backslash"

\* (\'.\')|(\'(\\[ntr\'\"])\')
IsChar(s) == \/ Len(s) = 1 /\ s[1] # "newline"
             \/ Len(s) = 2 /\ s[1] = "backslash" /\ s[2] \in Allowed
BadChar(s) == Len(s) = 2 /\ s[1] = "backslash" /\ s[2] \notin Allowed \cup {"newline"}

-----------------------------------------------------------------------------
Init ==
    /\ pc = "lex"
    /\ text = <<>> /\ i = 0 /\ buf2 = <<>>
    /\ literals = <<>>
    /\ STR_REGION = <<>> /\ STR_SIZE = 0
    /\ FLT_REGION = <<>> /\ FLT_SIZE = 0
    /\ rstring = <<>> /\ rfloat = <<>>

Lexing == pc = "lex" /\ Len(literals) < MaxLiterals

\* newToken() calls deescape(); sval is a second copy of what it returns.
Token(kind, s) ==
    /\ pc' = "deescape"
    /\ text' = s /\ i' = 0 /\ buf2' = <<>>
    /\ literals' = Append(literals, NoPlace(kind, s))
    /\ UNCHANGED <<regions, rstring, rfloat>>
Reject(kind, s) ==
    /\ pc' = "exit_1"
    /\ literals' = Append(literals, NoPlace(kind, s))
    /\ UNCHANGED <<text, i, buf2, regions, rstring, rfloat>>

\* Of two rules that match the first one counts.
LexString ==
    /\ Lexing
    /\ \E s \in Strings :
          IF BadEscape(s) \/ EscapedQuote(s) THEN Reject("string", s)
          ELSE IsString(s) /\ Token("string", s)

LexChar ==
    /\ Lexing
    /\ \E s \in CharTexts :
          \/ IsChar(s) /\ Token("char", s)
          \/ BadChar(s) /\ Reject("char", s)

\* checkRange
LexInteger ==
    /\ Lexing
    /\ \E v \in Values :
          IF v >= INT_MAX \/ v <= INT_MIN THEN Reject("integer", v)
          ELSE /\ literals' = Append(literals, Literal("integer", v, 0, v))
               /\ UNCHANGED <<pc, text, i, buf2, regions, rstring, rfloat>>

\* alloc_float
LexFloat ==
    /\ Lexing
    /\ \E d \in Doubles :
          /\ FLT_REGION' = Append(FLT_REGION, d)
          /\ FLT_SIZE' = FLT_SIZE + DoubleSize
          /\ literals' = Append(literals, Literal("float", d, Len(FLT_REGION) + 1, FLT_SIZE))
    /\ UNCHANGED <<pc, text, i, buf2, STR_REGION, STR_SIZE, rstring, rfloat>>

-----------------------------------------------------------------------------
(* deescape(): one turn of its loop.  buf1[len] is the NUL.                *)
At(k) == IF k < Len(text) THEN text[k + 1] ELSE "nul"
InsideOrAtEnd == pc = "deescape" /\ i <= Len(text)    \* mutant
Inside == pc = "deescape" /\ i < Len(text)

Copy ==
    /\ Inside /\ At(i) # "backslash"
    /\ buf2' = Append(buf2, At(i))
    /\ i' = i + 1
    /\ UNCHANGED <<pc, text, literals, regions, rstring, rfloat>>

\* Behind any other character the switch assigns nothing: buf2[j] is what the
\* stack held.
Junk == Chars \cup {"nul"}
Deescape ==
    /\ Inside /\ At(i) = "backslash"
    /\ \E c \in IF At(i + 1) \in DOMAIN Escapes THEN {Escapes[At(i + 1)]} ELSE Junk :
          buf2' = Append(buf2, c)
    /\ i' = i + 2
    /\ UNCHANGED <<pc, text, literals, regions, rstring, rfloat>>

\* strcpy, strlen: a C string ends at its first NUL.
Length(s) == Cardinality({k \in DOMAIN s : \A l \in 1 .. k : s[l] # "nul"})
CString(s) == SubSeq(s, 1, Length(s))

\* The end of deescape(), alloc_string() and the literal's address.
AllocStringNoNul ==    \* mutant: no byte for the NUL
    /\ pc = "deescape" /\ i >= Len(text)
    /\ pc' = "lex"
    /\ STR_REGION' = Append(STR_REGION, CString(buf2))
    /\ STR_SIZE' = STR_SIZE + Length(buf2)
    /\ literals' = [literals EXCEPT ![Len(literals)].at = Len(STR_REGION) + 1,
                                   ![Len(literals)].addr = STR_SIZE]
    /\ UNCHANGED <<text, i, buf2, FLT_REGION, FLT_SIZE, rstring, rfloat>>
AllocString ==
    /\ pc = "deescape" /\ i >= Len(text)
    /\ pc' = "lex"
    /\ STR_REGION' = Append(STR_REGION, CString(buf2))
    /\ STR_SIZE' = STR_SIZE + Length(buf2) + 1
    /\ literals' = [literals EXCEPT ![Len(literals)].at = Len(STR_REGION) + 1,
                                   ![Len(literals)].addr = STR_SIZE]
    /\ UNCHANGED <<text, i, buf2, FLT_REGION, FLT_SIZE, rstring, rfloat>>

-----------------------------------------------------------------------------
(* setup_regions()                                                         *)
Flat(ss) ==
    LET Upto[n \in 0 .. Len(ss)] == IF n = 0 THEN <<>> ELSE Upto[n - 1] \o ss[n]
    IN  Upto[Len(ss)]

\* The letter an escape sequence is printed with.
Letter == [newline |-> "n", tab |-> "t", return |-> "r", nul |-> "0", quote |-> "quote",
           apostrophe |-> "apostrophe", backslash |-> "backslash"]
Printed(c) == IF c \in DOMAIN Letter THEN <<"backslash", Letter[c]>> ELSE <<c>>

SetupStringNoNul(region) ==    \* mutant: the loop ends at strlen
    Flat([k \in DOMAIN region |-> Flat([j \in DOMAIN region[k] |-> Printed(region[k][j])])])
SetupString(region) ==
    Flat([k \in DOMAIN region |->
             Flat([j \in DOMAIN region[k] |-> Printed(region[k][j])]) \o Printed("nul")])

\* One character constant per byte; only a 0 is escaped.
Constant(b) == <<"apostrophe">> \o (IF b = "nul" THEN Printed(b) ELSE <<b>>) \o <<"apostrophe">>
SetupFloat(region) ==
    Flat([k \in DOMAIN region |-> Flat([j \in DOMAIN region[k] |-> Constant(region[k][j])])])

Codegen ==
    /\ pc = "lex"
    /\ pc' = "done"
    /\ rstring' = SetupString(STR_REGION)
    /\ rfloat' = SetupFloat(FLT_REGION)
    /\ UNCHANGED <<text, i, buf2, literals, regions>>

Ended == pc \in {"done", "exit_1"} /\ UNCHANGED vars

Next ==
    \/ LexString \/ LexChar \/ LexInteger \/ LexFloat
    \/ Copy \/ Deescape \/ AllocString
    \/ Codegen
    \/ Ended

Spec == Init /\ [][Next]_vars
=============================================================================
