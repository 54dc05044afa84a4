------------------------------- MODULE Traversal -------------------------------
(* Loops over a sequence.  SequencesExt has operators like these; it also  *)
(* extends Bags, whose definitions the proof manager would carry through   *)
(* every obligation of the modules that reason about the loops.            *)
EXTENDS Sequences, FiniteSetsExt

Where(s, Test(_)) == {i \in 1 .. Len(s) : Test(s[i])}

\* The first and the last place of s with the property, 0 when there is none.
FirstWhere(s, Test(_)) == IF Where(s, Test) # {} THEN Min(Where(s, Test)) ELSE 0
LastWhere(s, Test(_)) == IF Where(s, Test) # {} THEN Max(Where(s, Test)) ELSE 0

\* What a loop over the indices of s makes of acc, with Step(acc, i) as its body.
Loop(Step(_, _), acc, s) ==
    LET before[i \in 1 .. Len(s) + 1] ==
            IF i = 1 THEN acc ELSE Step(before[i - 1], i - 1)
    IN  before[Len(s) + 1]
=============================================================================
