----------------------------- MODULE MCLiterals -----------------------------
(* The texts of at most some length over small alphabets, for TLC.         *)
EXTENDS LiteralRules, SequencesExt

\* Every text of at most two characters; those of three to five in which
\* escape sequences, or newlines and digits, can meet.
Everything == {"a", "n", "backslash", "quote", "apostrophe", "newline", "7"}
MCStrings == BoundedSeq(Everything, 2)
    \cup BoundedSeq({"a", "n", "backslash", "quote"}, 5)
    \cup BoundedSeq({"a", "7", "backslash", "newline"}, 3)
MCCharTexts == BoundedSeq(Everything, 2)
MCDoubles == [1 .. 2 -> {"nul", "a", "apostrophe"}]

\* One string behind another.
DigitStrings == BoundedSeq({"a", "7"}, 2)

\* The limits of a type of four bits stand for those of int.
Lowest == -8
Highest == 7
NearLimits == {Lowest - 1, Lowest, Lowest + 1, 0, Highest - 1, Highest, Highest + 1}

None == {}
=============================================================================
