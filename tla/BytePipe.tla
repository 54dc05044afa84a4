------------------------------- MODULE BytePipe -------------------------------
(***************************************************************************)
(* What a connection promises to the one who writes to it: the bytes that  *)
(* are given to it are taken over by the transport in their order, each    *)
(* once, until it breaks.  Nothing is promised of a broken one.            *)
(***************************************************************************)
EXTENDS Naturals, Sequences, SequencesExt

VARIABLES given,        \* the bytes written so far
          taken,        \* the bytes that the transport has taken over
          broken

vars == <<given, taken, broken>>

Init == given = <<>> /\ taken = <<>> /\ broken = FALSE

Give == /\ ~broken
        /\ IsStrictPrefix(given, given')
        /\ UNCHANGED <<taken, broken>>

Take == /\ ~broken
        /\ \E n \in Len(taken) + 1 .. Len(given) : taken' = SubSeq(given, 1, n)
        /\ UNCHANGED <<given, broken>>

Break == ~broken /\ broken' = TRUE /\ UNCHANGED <<given, taken>>

Broken == broken /\ broken'

Next == Give \/ Take \/ Break \/ Broken

Spec == Init /\ [][Next]_vars /\ WF_vars(Take)
=============================================================================
