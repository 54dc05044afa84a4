------------------------------ MODULE MCMnCommand ------------------------------
(* Small programs for MnCommand.  *)
EXTENDS MnCommand, SequencesExt

CONSTANT MaxText

Cmd(longname, shortname, has_arg, kind) ==
    [longname |-> longname, shortname |-> shortname, has_arg |-> has_arg, kind |-> kind,
     description |-> Null]

Flag == Cmd("x", "a", "no", "bool")
Number == Cmd("y", "b", "required", "int")
Float == Cmd("z", "a", "optional", "double")
Quit == Cmd("q", "none", "no", "fails")
Usage == Cmd("h", "?", "no", "bool")

\* "x" and "z" have a letter in common.
Lists == {<<Flag, Number, Float>>, <<Float, Quit, Flag>>, <<Number>>, <<Number, Usage>>}

Words ==
    [form : {"long"}, name : {"x", "y", "z", "q"}, arg : BOOLEAN]
        \cup [form : {"short"}, name : {"a", "b", "?"}, arg : {FALSE}]
        \cup {[form |-> "plain", name |-> "p", arg |-> FALSE]}

\* A command with a description, for a program that asks for help.
Described(d) == [Flag EXCEPT !.description = d]

MCPrograms ==
    [cmds : Lists, argv : SeqOf(Words, 2) \cup {<<w, w, w>> : w \in Words}]
        \cup [cmds : {<<Described(d)>> : d \in SeqOf({"w", Blank, "."}, MaxText)}, argv : {<<>>}]
=============================================================================
