---------------------------- MODULE MnCommandProofs ----------------------------
(* The options that getopt_long(3) is given, for any program and any number
   of commands and calls.  *)
EXTENDS MnCommand, WellFoundedInduction, TLAPS

\* struct option.
Flags == Nat \cup {Null, Stale}
Names == {cmd.longname : cmd \in Commands} \cup {Null}
Kinds == {cmd.has_arg : cmd \in Commands} \cup {"no"}
Options == [name : Names, has_arg : Kinds, flag : Flags]

\* What is in front of the first zero option are copies of the commands of the
\* same index.
Copies(opts, cmds) ==
    \A i \in 1 .. Len(opts) : (\A j \in 1 .. i : opts[j].name # Null) =>
        /\ i <= Len(cmds)
        /\ opts[i].name = cmds[i].longname /\ opts[i].has_arg = cmds[i].has_arg

\* There is one option for each command, or a zero one.
Closed(opts, cmds) ==
    Len(opts) = Len(cmds) \/ \E j \in 1 .. Len(opts) : opts[j].name = Null

\* Two arrays of options differ in their pointers only.
SameBut(opts, new) ==
    /\ new \in Seq(Options) /\ Len(new) = Len(opts)
    /\ \A i \in 1 .. Len(opts) : new[i].name = opts[i].name /\ new[i].has_arg = opts[i].has_arg

LEMMA OptionType ==
    ASSUME NEW cmd \in Commands
    PROVE  /\ Option(cmd) \in Options
           /\ Option(cmd).name = cmd.longname /\ Option(cmd).has_arg = cmd.has_arg
  BY Zenon DEF Option, Options, Flags, Names, Kinds

\* Only the pointer of an option is set.
LEMMA SetFlag ==
    ASSUME NEW o \in Options, NEW f \in Flags
    PROVE  /\ [o EXCEPT !.flag = f] \in Options
           /\ [o EXCEPT !.flag = f].name = o.name /\ [o EXCEPT !.flag = f].has_arg = o.has_arg
           /\ [o EXCEPT !.flag = f].flag = f
  BY Zenon DEF Options

LEMMA MovedIsSame ==
    ASSUME NEW opts \in Seq(Options)
    PROVE  SameBut(opts, Moved(opts))
<1>1. ASSUME NEW i \in 1 .. Len(opts)
      PROVE  /\ Moved(opts)[i] \in Options
             /\ Moved(opts)[i].name = opts[i].name /\ Moved(opts)[i].has_arg = opts[i].has_arg
  <2>1. opts[i] \in Options /\ Stale \in Flags
    BY DEF Flags
  <2>2. Moved(opts)[i] = IF opts[i].flag = Null THEN opts[i] ELSE [opts[i] EXCEPT !.flag = Stale]
    BY DEF Moved
  <2> QED
    BY <2>1, <2>2, SetFlag
<1>2. DOMAIN Moved(opts) = 1 .. Len(opts) /\ Len(opts) \in Nat
  BY DEF Moved
<1>3. Moved(opts) = [i \in 1 .. Len(opts) |-> Moved(opts)[i]]
  BY <1>2, Zenon DEF Moved
<1>4. Moved(opts) \in [1 .. Len(opts) -> Options]
  BY <1>1, <1>3, Zenon
<1> QED
  BY <1>1, <1>2, <1>4 DEF SameBut

LEMMA FixupsSame ==
    ASSUME NEW opts \in Seq(Options), commands \in Seq(Commands)
    PROVE  /\ SameBut(opts, Fixups(opts))
           /\ \A i \in 1 .. Len(opts) : i <= Len(commands) => Fixups(opts)[i].flag = i
<1>1. ASSUME NEW i \in 1 .. Len(opts)
      PROVE  /\ Fixups(opts)[i] \in Options
             /\ Fixups(opts)[i].name = opts[i].name /\ Fixups(opts)[i].has_arg = opts[i].has_arg
             /\ i <= Len(commands) => Fixups(opts)[i].flag = i
  <2>1. opts[i] \in Options /\ i \in Flags
    BY DEF Flags
  <2>2. Fixups(opts)[i] = IF i <= Len(commands) THEN [opts[i] EXCEPT !.flag = i] ELSE opts[i]
    BY SMTT(30) DEF Fixups
  <2> QED
    BY <2>1, <2>2, SetFlag
<1>2. DOMAIN Fixups(opts) = 1 .. Len(opts) /\ Len(opts) \in Nat
  BY DEF Fixups
<1>3. Fixups(opts) = [i \in 1 .. Len(opts) |-> Fixups(opts)[i]]
  BY <1>2, Zenon DEF Fixups
<1>4. Fixups(opts) \in [1 .. Len(opts) -> Options]
  BY <1>1, <1>3, Zenon
<1> QED
  BY <1>1, <1>2, <1>4 DEF SameBut

LEMMA SameButKeeps ==
    ASSUME NEW opts \in Seq(Options), NEW new, SameBut(opts, new),
           NEW cmds \in Seq(Commands), Copies(opts, cmds), Closed(opts, cmds)
    PROVE  Copies(new, cmds) /\ Closed(new, cmds)
<1>1. /\ Len(new) = Len(opts)
      /\ \A i \in 1 .. Len(opts) : new[i].name = opts[i].name /\ new[i].has_arg = opts[i].has_arg
  BY Zenon DEF SameBut
<1>2. Closed(new, cmds)
  BY <1>1, Zenon DEF Closed
<1>3. ASSUME NEW i \in 1 .. Len(new), \A j \in 1 .. i : new[j].name # Null
      PROVE  /\ i <= Len(cmds)
             /\ new[i].name = cmds[i].longname /\ new[i].has_arg = cmds[i].has_arg
  <2>1. i \in 1 .. Len(opts) /\ 1 .. i \subseteq 1 .. Len(opts)
    BY <1>1
  <2>2. \A j \in 1 .. i : opts[j].name # Null
    BY <1>1, <1>3, <2>1, Zenon
  <2>3. /\ i <= Len(cmds)
        /\ opts[i].name = cmds[i].longname /\ opts[i].has_arg = cmds[i].has_arg
    BY <2>1, <2>2, Zenon DEF Copies
  <2> QED
    BY <1>1, <2>1, <2>3, Zenon
<1> QED
  BY <1>2, <1>3, Zenon DEF Copies

\* mncommand_ctx_add_cmd() appends to both arrays.
LEMMA AddKeeps ==
    ASSUME NEW opts \in Seq(Options), NEW cmds \in Seq(Commands), NEW cmd \in Commands,
           Copies(opts, cmds), Closed(opts, cmds)
    PROVE  /\ Copies(Append(opts, Option(cmd)), Append(cmds, cmd))
           /\ Closed(Append(opts, Option(cmd)), Append(cmds, cmd))
<1> DEFINE o == Append(opts, Option(cmd))
           k == Append(cmds, cmd)
<1>1. /\ Len(o) = Len(opts) + 1 /\ Len(k) = Len(cmds) + 1
      /\ Len(opts) \in Nat /\ Len(cmds) \in Nat
      /\ \A i \in 1 .. Len(opts) : o[i] = opts[i]
      /\ \A i \in 1 .. Len(cmds) : k[i] = cmds[i]
      /\ o[Len(opts) + 1] = Option(cmd) /\ k[Len(cmds) + 1] = cmd
  BY OptionType
<1> HIDE DEF o, k
<1>2. Copies(o, k)
  <2> SUFFICES ASSUME NEW i \in 1 .. Len(o), \A j \in 1 .. i : o[j].name # Null
               PROVE  /\ i <= Len(k)
                      /\ o[i].name = k[i].longname /\ o[i].has_arg = k[i].has_arg
    BY Zenon DEF Copies
  <2>1. CASE i <= Len(opts)
    <3>1. i \in 1 .. Len(opts) /\ 1 .. i \subseteq 1 .. Len(opts)
      BY <1>1, <2>1
    <3>2. \A j \in 1 .. i : opts[j].name # Null
      BY <1>1, <3>1, Zenon
    <3>3. /\ i <= Len(cmds)
          /\ opts[i].name = cmds[i].longname /\ opts[i].has_arg = cmds[i].has_arg
      BY <3>1, <3>2, Zenon DEF Copies
    <3> QED
      BY <1>1, <3>1, <3>3
  <2>2. CASE i = Len(opts) + 1
    <3>1. Len(opts) = Len(cmds)
      BY <1>1, <2>2 DEF Closed
    <3> QED
      BY <1>1, <2>2, <3>1, OptionType
  <2> QED
    BY <1>1, <2>1, <2>2
<1>3. Closed(o, k)
  BY <1>1 DEF Closed
<1> QED
  BY <1>2, <1>3, Zenon DEF o, k

\* mncommand_ctx_getopt() appends a zero option.
LEMMA ZeroKeeps ==
    ASSUME NEW opts \in Seq(Options), NEW cmds \in Seq(Commands), Copies(opts, cmds)
    PROVE  /\ Append(opts, Zero) \in Seq(Options)
           /\ Copies(Append(opts, Zero), cmds) /\ Closed(Append(opts, Zero), cmds)
<1>1. Zero \in Options /\ Zero.name = Null
  BY Zenon DEF Zero, Options, Names, Kinds, Flags
<1> DEFINE o == Append(opts, Zero)
<1>2. /\ o \in Seq(Options) /\ Len(o) = Len(opts) + 1 /\ Len(opts) \in Nat
      /\ \A i \in 1 .. Len(opts) : o[i] = opts[i]
      /\ o[Len(opts) + 1] = Zero
  BY <1>1
<1> HIDE DEF o
<1>3. Copies(o, cmds)
  <2> SUFFICES ASSUME NEW i \in 1 .. Len(o), \A j \in 1 .. i : o[j].name # Null
               PROVE  /\ i <= Len(cmds)
                      /\ o[i].name = cmds[i].longname /\ o[i].has_arg = cmds[i].has_arg
    BY Zenon DEF Copies
  <2>1. i \in 1 .. Len(opts) /\ 1 .. i \subseteq 1 .. Len(opts)
    BY <1>1, <1>2
  <2>2. \A j \in 1 .. i : opts[j].name # Null
    BY <1>2, <2>1, Zenon
  <2>3. /\ i <= Len(cmds)
        /\ opts[i].name = cmds[i].longname /\ opts[i].has_arg = cmds[i].has_arg
    BY <2>1, <2>2, Zenon DEF Copies
  <2> QED
    BY <1>2, <2>1, <2>3, Zenon
<1>4. Closed(o, cmds)
  BY <1>1, <1>2 DEF Closed
<1> QED
  BY <1>2, <1>3, <1>4, Zenon DEF o

-----------------------------------------------------------------------------
\* OptionsMatchCommands made inductive.
OptionsInv ==
    /\ prog \in Programs
    /\ options \in Seq(Options) /\ commands \in Seq(Commands)
    /\ ~failed => Copies(options, commands) /\ Closed(options, commands)
    /\ scanning => \A i \in 1 .. Len(options) :
                      i <= Len(commands) /\ options[i].name # Null => options[i].flag = i

LEMMA OptionsInvInit == Init => OptionsInv
  BY DEF Init, OptionsInv, Copies, Closed

LEMMA AddCmdKeeps ==
    ASSUME OptionsInv, AddCmd
    PROVE  OptionsInv'
<1> DEFINE cmd == prog.cmds[Len(commands) + 1]
<1>1. /\ ~scanning /\ prog' = prog /\ scanning' = scanning
      /\ commands' = Append(commands, cmd)
      /\ \E opts \in {options, Moved(options)} :
            \/ options' = Append(opts, Option(cmd)) /\ failed' = failed
            \/ options' = opts /\ failed' = TRUE
  BY Zenon DEF AddCmd
<1>2. cmd \in Commands
  <2>1. prog.cmds \in Seq(Commands) /\ Len(commands) < Len(prog.cmds) /\ Len(commands) \in Nat
    BY CommandAssumption DEF AddCmd, OptionsInv
  <2> QED
    BY <2>1
<1> HIDE DEF cmd
<1>3. PICK opts \in {options, Moved(options)} :
            \/ options' = Append(opts, Option(cmd)) /\ failed' = failed
            \/ options' = opts /\ failed' = TRUE
  BY <1>1, Zenon
<1>4. opts \in Seq(Options) /\ (~failed => Copies(opts, commands) /\ Closed(opts, commands))
  BY MovedIsSame, SameButKeeps, Zenon DEF OptionsInv, SameBut
<1>5. commands' \in Seq(Commands)
  BY <1>1, <1>2 DEF OptionsInv
<1>6. CASE options' = Append(opts, Option(cmd)) /\ failed' = failed
  <2>1. options' \in Seq(Options)
    BY <1>2, <1>4, <1>6, OptionType
  <2>2. ~failed => Copies(options', commands') /\ Closed(options', commands')
    BY <1>1, <1>2, <1>4, <1>6, AddKeeps, SMTT(30) DEF OptionsInv
  <2> QED
    BY <1>1, <1>5, <1>6, <2>1, <2>2, Zenon DEF OptionsInv
<1>7. CASE options' = opts /\ failed' = TRUE
  BY <1>1, <1>4, <1>5, <1>7, Zenon DEF OptionsInv
<1> QED
  BY <1>3, <1>6, <1>7, Zenon

LEMMA GetoptKeeps ==
    ASSUME OptionsInv, Getopt
    PROVE  OptionsInv'
<1> DEFINE fixed == Fixups(options)
<1>1. options' = Append(fixed, Zero) /\ UNCHANGED <<prog, commands, failed>>
  BY Zenon DEF Getopt, Terminated
<1>2. /\ fixed \in Seq(Options) /\ SameBut(options, fixed)
      /\ \A i \in 1 .. Len(options) : i <= Len(commands) => fixed[i].flag = i
  BY FixupsSame, Zenon DEF OptionsInv, SameBut
<1> HIDE DEF fixed
<1>3. ~failed => Copies(fixed, commands)
  BY <1>2, SameButKeeps, Zenon DEF OptionsInv
<1>4. Zero \in Options /\ Zero.name = Null
  BY Zenon DEF Zero, Options, Names, Kinds, Flags
<1>5. /\ options' \in Seq(Options)
      /\ ~failed => Copies(options', commands) /\ Closed(options', commands)
  BY <1>1, <1>2, <1>3, <1>4, ZeroKeeps DEF OptionsInv
<1>6. ASSUME NEW i \in 1 .. Len(options'), i <= Len(commands), options'[i].name # Null
      PROVE  options'[i].flag = i
  <2>1. /\ Len(options') = Len(options) + 1 /\ Len(options) \in Nat
        /\ \A k \in 1 .. Len(options) : options'[k] = fixed[k]
        /\ options'[Len(options) + 1] = Zero
    BY <1>1, <1>2, <1>4 DEF SameBut, OptionsInv
  <2>2. i \in 1 .. Len(options)
    BY <1>4, <1>6, <2>1
  <2> QED
    BY <1>2, <1>6, <2>1, <2>2, Zenon
<1> QED
  BY <1>1, <1>5, <1>6, Zenon DEF OptionsInv

LEMMA OptionsInvNext == OptionsInv /\ [Next]_vars => OptionsInv'
<1> SUFFICES ASSUME OptionsInv, [Next]_vars PROVE OptionsInv'
  BY Zenon
<1>1. CASE UNCHANGED <<prog, commands, options, failed>> /\ (scanning' => scanning)
  BY <1>1, Zenon DEF OptionsInv
<1>2. CASE Scan
  <2>1. scanning /\ UNCHANGED <<prog, commands, options, failed>>
    BY <1>2, Zenon DEF Scan
  <2> QED
    BY <1>1, <2>1, Zenon
<1>3. CASE Skip
  BY <1>1, <1>3, Zenon DEF Skip
<1>4. CASE Done
  BY <1>1, <1>4, Zenon DEF Done
<1>5. CASE FormatHelp
  BY <1>1, <1>5, Zenon DEF FormatHelp
<1>6. CASE UNCHANGED vars
  BY <1>1, <1>6, Zenon DEF vars
<1> QED
  BY <1>2, <1>3, <1>4, <1>5, <1>6, AddCmdKeeps, GetoptKeeps, SMTT(30) DEF Next

\* Two options with the same fields are equal.
LEMMA SameFields ==
    ASSUME NEW o \in Options, NEW cmd \in Commands, NEW f \in Flags,
           o.name = cmd.longname, o.has_arg = cmd.has_arg, o.flag = f
    PROVE  o = [Option(cmd) EXCEPT !.flag = f]
  BY DEF Options, Option

LEMMA OptionsInvMatch == OptionsInv => OptionsMatchCommands
<1> SUFFICES ASSUME OptionsInv, scanning, ~failed, NEW i \in Visible
             PROVE  /\ i \in DOMAIN commands
                    /\ options[i] = [Option(commands[i]) EXCEPT !.flag = i]
  BY Zenon DEF OptionsMatchCommands
<1>1. /\ i \in 1 .. Len(options) /\ \A j \in 1 .. i : options[j].name # Null
      /\ options[i] \in Options /\ i \in Flags
  BY DEF Visible, OptionsInv, Flags
<1>2. /\ i \in 1 .. Len(commands)
      /\ options[i].name = commands[i].longname /\ options[i].has_arg = commands[i].has_arg
  BY <1>1 DEF OptionsInv, Copies
<1>3. options[i].flag = i
  BY <1>1, <1>2 DEF OptionsInv
<1>4. i \in DOMAIN commands /\ commands[i] \in Commands
  BY <1>2 DEF OptionsInv
<1> QED
  BY <1>1, <1>2, <1>3, <1>4, SameFields

\* Every option that getopt_long() sees is the copy of the command with its index
\* and points to that command's flag, for all commands, whenever they are
\* registered and however often the arrays are moved.
THEOREM OptionsAreRight == Spec => []OptionsMatchCommands
  BY OptionsInvInit, OptionsInvNext, OptionsInvMatch, PTL DEF Spec

-----------------------------------------------------------------------------
(* What getopt_long() and mncommand_ctx_find_cmd() find.                   *)

LEMMA Smallest ==
    ASSUME NEW S \in SUBSET Nat, S # {}
    PROVE  Min(S) \in S /\ \A y \in S : Min(S) <= y
<1> DEFINE R == OpToRel(<, Nat)
<1>1. IsWellFoundedOn(R, Nat)
  BY NatLessThanWellFounded, Zenon
<1>2. \A x, y \in Nat : x < y => <<x, y>> \in R
  BY Zenon DEF OpToRel
<1> HIDE DEF R
<1>3. PICK x \in S : \A y \in S : ~(<<y, x>> \in R)
  BY <1>1, WFMin, Zenon
<1>4. \A y \in S : ~(y < x)
  BY <1>2, <1>3, Zenon
<1>5. \A y \in S : x <= y
  BY <1>4
<1> QED
  BY <1>5, Zenon DEF Min

\* i is the first element of 1 .. n that is in I, or 0.
IsFirst(i, I, n) ==
    \/ i = 0 /\ \A j \in 1 .. n : j \notin I
    \/ i \in 1 .. n /\ i \in I /\ \A j \in 1 .. n : j < i => j \notin I

LEMMA FirstIsFirst ==
    ASSUME NEW n \in Nat, NEW I \in SUBSET (1 .. n)
    PROVE  IsFirst(IF I # {} THEN Min(I) ELSE 0, I, n)
<1>1. CASE I = {}
  BY <1>1, Zenon DEF IsFirst
<1>2. CASE I # {}
  <2>1. I \in SUBSET Nat
    OBVIOUS
  <2>2. Min(I) \in I /\ \A y \in I : Min(I) <= y
    BY <1>2, <2>1, Smallest, Zenon
  <2> DEFINE i == Min(I)
  <2> HIDE DEF i
  <2>3. i \in I /\ \A y \in I : i <= y
    BY <2>2, Zenon DEF i
  <2>4. IsFirst(i, I, n)
    BY <2>3 DEF IsFirst
  <2> QED
    BY <1>2, <2>4, Zenon DEF i
<1> QED
  BY <1>1, <1>2, Zenon

\* Two first elements of the same set are the same.
LEMMA FirstIsUnique ==
    ASSUME NEW n \in Nat, NEW I, NEW i, NEW k, IsFirst(i, I, n), IsFirst(k, I, n)
    PROVE  i = k
  BY DEF IsFirst

-----------------------------------------------------------------------------
(* The calls of the commands.                                              *)

\* What is in front of the first zero option is no longer than ctx->commands,
\* also when a command has no option.
Within(opts, n) ==
    \A i \in 1 .. Len(opts) : (\A j \in 1 .. i : opts[j].name # Null) => i <= n

LEMMA WithinSame ==
    ASSUME NEW opts \in Seq(Options), NEW new, SameBut(opts, new), NEW n \in Nat, Within(opts, n)
    PROVE  Within(new, n)
<1> SUFFICES ASSUME NEW i \in 1 .. Len(new), \A j \in 1 .. i : new[j].name # Null
             PROVE  i <= n
  BY Zenon DEF Within
<1>1. i \in 1 .. Len(opts) /\ 1 .. i \subseteq 1 .. Len(opts)
  BY DEF SameBut
<1>2. \A j \in 1 .. i : opts[j].name # Null
  BY <1>1, Zenon DEF SameBut
<1> QED
  BY <1>1, <1>2, Zenon DEF Within

LEMMA WithinAppend ==
    ASSUME NEW opts \in Seq(Options), NEW o \in Options, NEW n \in Nat, Within(opts, n)
    PROVE  /\ Within(Append(opts, o), n + 1) /\ Within(opts, n + 1)
           /\ o.name = Null => Within(Append(opts, o), n)
<1> DEFINE new == Append(opts, o)
<1>1. /\ Len(new) = Len(opts) + 1 /\ Len(opts) \in Nat
      /\ \A i \in 1 .. Len(opts) : new[i] = opts[i]
      /\ new[Len(opts) + 1] = o
  OBVIOUS
<1> HIDE DEF new
<1>2. ASSUME NEW i \in 1 .. Len(opts), \A j \in 1 .. i : new[j].name # Null
      PROVE  i <= n
  <2>1. 1 .. i \subseteq 1 .. Len(opts)
    BY <1>1
  <2>2. \A j \in 1 .. i : opts[j].name # Null
    BY <1>1, <1>2, <2>1, Zenon
  <2> QED
    BY <2>2, Zenon DEF Within
<1>3. ASSUME \A j \in 1 .. Len(opts) + 1 : new[j].name # Null
      PROVE  o.name # Null /\ Len(opts) <= n
  <2>1. o.name # Null
    BY <1>1, <1>3
  <2>2. CASE Len(opts) = 0
    BY <2>1, <2>2
  <2>3. CASE Len(opts) # 0
    <3>1. Len(opts) \in 1 .. Len(opts) /\ \A j \in 1 .. Len(opts) : new[j].name # Null
      BY <1>1, <1>3, <2>3
    <3> QED
      BY <1>2, <2>1, <3>1, Zenon
  <2> QED
    BY <2>1, <2>2, <2>3, Zenon
<1>4. Within(opts, n + 1)
  BY <1>1 DEF Within
<1>5. Within(new, n + 1)
  <2> SUFFICES ASSUME NEW i \in 1 .. Len(new), \A j \in 1 .. i : new[j].name # Null
               PROVE  i <= n + 1
    BY Zenon DEF Within
  <2>1. CASE i \in 1 .. Len(opts)
    BY <1>2, <2>1
  <2>2. CASE i = Len(opts) + 1
    BY <1>1, <1>3, <2>2
  <2>3. i \in 1 .. Len(opts) \/ i = Len(opts) + 1
    BY <1>1
  <2> QED
    BY <2>1, <2>2, <2>3, Zenon
<1>6. ASSUME o.name = Null PROVE Within(new, n)
  <2> SUFFICES ASSUME NEW i \in 1 .. Len(new), \A j \in 1 .. i : new[j].name # Null
               PROVE  i <= n
    BY Zenon DEF Within
  <2>1. CASE i \in 1 .. Len(opts)
    BY <1>2, <2>1, Zenon
  <2>2. CASE i = Len(opts) + 1
    BY <1>3, <1>6, <2>2, Zenon
  <2> QED
    BY <1>1, <2>1, <2>2
<1> QED
  BY <1>4, <1>5, <1>6, Zenon DEF new

\* mncommand_ctx_find_cmd() finds the first command of a letter.
LEMMA FindsFirst ==
    ASSUME OptionsInv, NEW ch, NEW i, i = FindByVal(ch), i # 0
    PROVE  /\ i \in 1 .. Len(commands) /\ i \in Nat /\ commands[i].shortname = ch
           /\ \A j \in 1 .. i - 1 : commands[j].shortname # ch
<1> DEFINE I == {j \in 1 .. Len(commands) : commands[j].shortname = ch}
<1>0. Len(commands) \in Nat
  BY DEF OptionsInv
<1>1. i = IF I # {} THEN Min(I) ELSE 0
  BY Zenon DEF FindByVal, FirstWhere, Where
<1>2. IsFirst(i, I, Len(commands))
  BY <1>0, <1>1, FirstIsFirst, Zenon
<1>3. i \in 1 .. Len(commands) /\ i \in I /\ \A j \in 1 .. Len(commands) : j < i => j \notin I
  BY <1>2, Zenon DEF IsFirst
<1>4. i \in Nat /\ \A j \in 1 .. i - 1 : j \in 1 .. Len(commands) /\ j < i
  BY <1>0, <1>3
<1> QED
  BY <1>3, <1>4, Zenon

\* What a word leads to: its command, which has the same index as its option.
LEMMA MatchFinds ==
    ASSUME OptionsInv, Within(options, Len(commands)), scanning,
           NEW word, Match(word).i # 0,
           NEW cmd, cmd = (IF word.form = "long" THEN Match(word).i ELSE FindByVal(word.name))
    PROVE  /\ cmd \in 1 .. Len(commands) /\ cmd \in Nat
           /\ word.form = "long" =>
                /\ cmd \in 1 .. Len(options)
                /\ ~failed => /\ word.name = commands[cmd].longname
                              /\ options[cmd].flag = cmd
                              /\ Match(word).has_arg = commands[cmd].has_arg
           /\ word.form # "long" =>
                /\ word.name = commands[cmd].shortname
                /\ \A j \in 1 .. cmd - 1 : commands[j].shortname # word.name
                /\ Match(word).has_arg = SymbolArg(commands[cmd])
<1>0. Len(commands) \in Nat /\ Len(options) \in Nat /\ DOMAIN options = 1 .. Len(options)
  BY DEF OptionsInv
<1>1. CASE word.form = "long"
  <2> DEFINE i == FirstWhere(options, LAMBDA o : o.name = word.name)
             I == {j \in 1 .. Len(options) : options[j].name = word.name}
  <2>0. i = IF I # {} THEN Min(I) ELSE 0
    BY Zenon DEF FirstWhere, Where
  <2>2. Match(word) = IF i \in Visible THEN [i |-> i, has_arg |-> options[i].has_arg]
                      ELSE [i |-> 0, has_arg |-> "no"]
    BY <1>1, Zenon DEF Match
  <2> HIDE DEF i
  <2>1. IsFirst(i, I, Len(options))
    BY <1>0, <2>0, FirstIsFirst, Zenon
  <2>3. i \in Visible /\ Match(word).i = i /\ Match(word).has_arg = options[i].has_arg
    BY <2>2
  <2>4. i \in 1 .. Len(options) /\ \A j \in 1 .. i : options[j].name # Null
    BY <1>0, <2>3, Zenon DEF Visible
  <2>5. options[i].name = word.name
    BY <1>0, <2>1, <2>4 DEF IsFirst
  <2>6. i <= Len(commands)
    BY <2>4, Zenon DEF Within
  <2>7. ~failed => options[i].name = commands[i].longname /\ options[i].has_arg = commands[i].has_arg
    BY <2>4, Zenon DEF OptionsInv, Copies
  <2>8. options[i].flag = i
    BY <2>4, <2>6 DEF OptionsInv
  <2>9. cmd = i
    BY <1>1, <2>3, Zenon
  <2> QED
    BY <1>0, <1>1, <2>3, <2>4, <2>5, <2>6, <2>7, <2>8, <2>9
<1>2. CASE word.form # "long"
  <2> DEFINE i == FindByVal(word.name)
  <2>1. cmd = i
    BY <1>2, Zenon
  <2>2. Match(word) = [i |-> IF word.name \notin Letters THEN 0 ELSE i,
                       has_arg |-> IF (IF word.name \notin Letters THEN 0 ELSE i) = 0 THEN "no"
                           ELSE SymbolArg(commands[IF word.name \notin Letters THEN 0 ELSE i])]
    BY <1>2, Zenon DEF Match, FindByVal
  <2> HIDE DEF i
  <2>3. word.name \in Letters
    BY <2>2
  <2>4. Match(word).i = i /\ i # 0 /\ Match(word).has_arg = SymbolArg(commands[i])
    BY <2>2, <2>3
  <2>5. /\ i \in 1 .. Len(commands) /\ i \in Nat /\ commands[i].shortname = word.name
        /\ \A j \in 1 .. i - 1 : commands[j].shortname # word.name
    BY <2>4, FindsFirst, Zenon DEF i
  <2> QED
    BY <1>2, <2>1, <2>4, <2>5, Zenon
<1> QED
  BY <1>1, <1>2, Zenon

\* A call of a command.
Call == [word : ArgWords, cmd : Nat, arg : Nat, bad : BOOLEAN, flag : Flags]

\* c was called as DispatchAsNamed says, and is of a command of cmds.
Called(c, cmds) ==
    LET cmd == cmds[c.cmd]
        letter == IF c.bad THEN "?" ELSE c.word.name
    IN  /\ IF c.word.form = "long" /\ ~c.bad THEN c.word.name = cmd.longname
           ELSE /\ cmd.shortname = letter
                /\ \A j \in 1 .. c.cmd - 1 : cmds[j].shortname # letter
        /\ c.flag = c.cmd
        /\ c.bad \/ cmd.has_arg = "no" => c.arg = 0
        /\ ~c.bad /\ cmd.has_arg = "required" => c.arg # 0

\* DispatchAsNamed made inductive.
CallsInv ==
    /\ OptionsInv
    /\ optind \in Nat \ {0}
    /\ Within(options, Len(commands))
    /\ calls \in Seq(Call)
    /\ \A n \in 1 .. Len(calls) : /\ calls[n].cmd \in 1 .. Len(commands)
                                  /\ ~failed => Called(calls[n], commands)

\* An option is called: what mncommand_ctx_getopt() passes to its command.
CallsBy(cmd, arg) ==
    /\ cmd \in 1 .. Len(commands) /\ arg \in Nat
    /\ \E c \in Call : /\ c.cmd = cmd /\ c.arg = arg
                       /\ calls' = Append(calls, c)
                       /\ ~failed => Called(c, commands)

\* getopt_long() refuses the word.
Bad ==
    LET m == Match(prog.argv[optind])
    IN  m.i = 0 \/ BadArg(prog.argv[optind], m.has_arg)

\* The argument of an option that is called.
LEMMA ArgIsRight ==
    ASSUME NEW word, NEW has_arg, optind \in Nat \ {0}, Len(prog.argv) \in Nat,
           optind <= Len(prog.argv), ~BadArg(word, has_arg),
           NEW next, next = (has_arg = "required" /\ ~word.arg /\ optind < Len(prog.argv)),
           NEW arg, arg = IF next THEN optind + 1 ELSE IF word.arg THEN optind ELSE 0
    PROVE  /\ arg \in Nat
           /\ has_arg = "no" => arg = 0
           /\ has_arg = "required" => arg # 0
<1>1. arg \in Nat
  OBVIOUS
<1>2. ASSUME has_arg = "no" PROVE arg = 0
  BY <1>2, Zenon DEF BadArg
<1>3. ASSUME has_arg = "required" PROVE arg # 0
  <2>1. CASE next
    BY <2>1
  <2>2. CASE ~next
    <3>1. word.arg \/ optind # Len(prog.argv)
      BY <1>3, Zenon DEF BadArg
    <3>0. optind # Len(prog.argv) => optind < Len(prog.argv)
      OBVIOUS
    <3>2. word.arg
      BY <1>3, <2>2, <3>0, <3>1, Zenon
    <3> QED
      BY <2>2, <3>2, Zenon
  <2> QED
    BY <2>1, <2>2, Zenon
<1> QED
  BY <1>1, <1>2, <1>3, Zenon

\* One turn of the loop: an error, or a call of the command that the word names, or
\* of the one for '?'.
LEMMA ScanCalls ==
    ASSUME CallsInv, Scan
    PROVE  /\ UNCHANGED <<prog, commands, options, ngetopts, known, failed, help>>
           /\ optind' \in Nat \ {0} /\ scanning
           /\ Refused /\ res # "error" => Bad
           /\ \/ res' = "error" /\ UNCHANGED <<calls, values>>
              \/ \E cmd, arg : /\ CallsBy(cmd, arg)
                               /\ IF commands[cmd].kind = "fails"
                                    THEN res' = "func" /\ values' = values
                                    ELSE /\ values' = [values EXCEPT ![cmd] =
                                                  OptionValue(commands[cmd].kind, arg, @)]
                                         /\ res' = res
<1> DEFINE word == prog.argv[optind]
           m == Match(word)
           bad == m.i = 0 \/ BadArg(word, m.has_arg)
           cmd == IF bad THEN FindByVal("?")
                  ELSE IF word.form = "long" THEN m.i ELSE FindByVal(word.name)
           next == m.has_arg = "required" /\ ~word.arg /\ optind < Len(prog.argv)
           arg == IF next THEN optind + 1 ELSE IF word.arg /\ ~bad THEN optind ELSE 0
           flag == IF word.form = "long" /\ ~bad THEN options[m.i].flag ELSE cmd
           c == [word |-> word, cmd |-> cmd, arg |-> arg, bad |-> bad, flag |-> flag]
<1>1. /\ UNCHANGED <<prog, commands, options, ngetopts, known, failed, help>>
      /\ scanning /\ optind \in DOMAIN prog.argv
      /\ optind' = optind + IF next THEN 2 ELSE 1
  BY Zenon DEF Scan
<1>2. /\ prog.argv \in Seq(ArgWords) /\ optind \in Nat \ {0} /\ Len(prog.argv) \in Nat
      /\ optind <= Len(prog.argv) /\ word \in ArgWords
  BY <1>1, CommandAssumption DEF CallsInv, OptionsInv
<1>3. IF cmd = 0
        THEN res' = "error" /\ scanning' = FALSE /\ UNCHANGED <<calls, values>>
        ELSE /\ calls' = Append(calls, c)
             /\ IF commands[cmd].kind = "fails"
                  THEN res' = "func" /\ scanning' = FALSE /\ UNCHANGED values
                  ELSE /\ values' = [values EXCEPT ![cmd] =
                                        OptionValue(commands[cmd].kind, arg, @)]
                       /\ UNCHANGED <<res, scanning>>
  BY Zenon DEF Scan, Return
<1>4. optind' \in Nat \ {0}
  BY <1>1, <1>2
<1>5. OptionsInv /\ Within(options, Len(commands)) /\ scanning /\ calls \in Seq(Call)
  BY <1>1, Zenon DEF CallsInv
<1>6. bad \in BOOLEAN /\ (bad <=> Bad)
  BY Zenon DEF Bad
\* A word that is not refused has a command.
<1>7. ASSUME ~bad
      PROVE  /\ cmd \in 1 .. Len(commands) /\ cmd \in Nat
             /\ word.form = "long" =>
                  /\ cmd = m.i /\ cmd \in 1 .. Len(options)
                  /\ ~failed => /\ word.name = commands[cmd].longname
                                /\ options[cmd].flag = cmd
                                /\ m.has_arg = commands[cmd].has_arg
             /\ word.form # "long" =>
                  /\ word.name = commands[cmd].shortname
                  /\ \A j \in 1 .. cmd - 1 : commands[j].shortname # word.name
                  /\ m.has_arg = SymbolArg(commands[cmd])
  <2>1. /\ m = Match(word) /\ Match(word).i # 0
        /\ cmd = (IF word.form = "long" THEN Match(word).i ELSE FindByVal(word.name))
    BY <1>7, Zenon
  <2>2. word.form = "long" => cmd = m.i
    BY <1>7, Zenon
  <2> HIDE DEF word, m, cmd, bad
  <2> QED
    BY <1>5, <2>1, <2>2, MatchFinds
<1>8. ASSUME ~bad
      PROVE  /\ arg \in Nat
             /\ m.has_arg = "no" => arg = 0
             /\ m.has_arg = "required" => arg # 0
  <2>1. arg = IF next THEN optind + 1 ELSE IF word.arg THEN optind ELSE 0
    BY <1>8, Zenon
  <2>2. ~BadArg(word, m.has_arg)
    BY <1>8, Zenon
  <2>3. next = (m.has_arg = "required" /\ ~word.arg /\ optind < Len(prog.argv))
    BY Zenon
  <2> DEFINE has_arg == m.has_arg
  <2>4. /\ ~BadArg(word, has_arg)
        /\ next = (has_arg = "required" /\ ~word.arg /\ optind < Len(prog.argv))
    BY <2>2, <2>3, Zenon
  <2>5. has_arg = m.has_arg
    BY Zenon
  <2> HIDE DEF arg, next, m, word, bad, has_arg
  <2>6. /\ arg \in Nat
        /\ has_arg = "no" => arg = 0
        /\ has_arg = "required" => arg # 0
    BY <1>2, <2>1, <2>4, ArgIsRight
  <2> QED
    BY <2>5, <2>6
\* A word that is refused has no argument.
<1>9. ASSUME bad, cmd # 0
      PROVE  /\ arg = 0 /\ cmd \in 1 .. Len(commands) /\ cmd \in Nat
             /\ commands[cmd].shortname = "?"
             /\ \A j \in 1 .. cmd - 1 : commands[j].shortname # "?"
  <2>1. cmd = FindByVal("?")
    BY <1>9, Zenon
  <2>2. ~next
    <3>1. CASE m.i = 0
      <4>1. m.has_arg = "no"
        <5>1. word.form = "long" =>
                 LET i == FirstWhere(options, LAMBDA o : o.name = word.name)
                 IN  m = IF i \in Visible THEN [i |-> i, has_arg |-> options[i].has_arg]
                         ELSE [i |-> 0, has_arg |-> "no"]
          BY Zenon DEF Match
        <5>2. word.form # "long" =>
                 LET i == IF word.name \notin Letters THEN 0
                          ELSE FirstWhere(commands, LAMBDA o : o.shortname = word.name)
                 IN  m = [i |-> i, has_arg |-> IF i = 0 THEN "no" ELSE SymbolArg(commands[i])]
          BY Zenon DEF Match
        <5>3. 0 \notin Visible
          BY <1>5 DEF Visible, OptionsInv
        <5> DEFINE i == FirstWhere(options, LAMBDA o : o.name = word.name)
                   k == IF word.name \notin Letters THEN 0
                        ELSE FirstWhere(commands, LAMBDA o : o.shortname = word.name)
        <5>4. /\ word.form = "long" => m = IF i \in Visible THEN [i |-> i, has_arg |-> options[i].has_arg]
                                           ELSE [i |-> 0, has_arg |-> "no"]
              /\ word.form # "long" => m = [i |-> k, has_arg |-> IF k = 0 THEN "no" ELSE SymbolArg(commands[k])]
          BY <5>1, <5>2, Zenon
        <5> HIDE DEF i, k, m, word
        <5> QED
          BY <3>1, <5>3, <5>4
      <4> HIDE DEF m
      <4> QED
        BY <4>1
    <3>2. CASE BadArg(word, m.has_arg)
      <4> HIDE DEF m, word
      <4>1. \/ m.has_arg = "no"
            \/ m.has_arg = "required" /\ ~word.arg /\ optind = Len(prog.argv)
        BY <3>2, Zenon DEF BadArg
      <4> QED
        BY <1>2, <4>1
    <3> QED
      BY <1>9, <3>1, <3>2, Zenon
  <2>3. arg = 0
    BY <1>9, <2>2, Zenon
  <2> HIDE DEF cmd
  <2>4. /\ cmd \in 1 .. Len(commands) /\ cmd \in Nat /\ commands[cmd].shortname = "?"
        /\ \A j \in 1 .. cmd - 1 : commands[j].shortname # "?"
    BY <1>5, <1>9, <2>1, FindsFirst, Zenon
  <2> QED
    BY <2>3, <2>4, Zenon
<1>10. cmd = 0 => bad
  <2> HIDE DEF cmd, bad
  <2> QED
    BY <1>7
<1>11. CASE cmd = 0
  BY <1>1, <1>3, <1>4, <1>6, <1>10, <1>11, Zenon
<1>12. CASE cmd # 0
  <2>1. cmd \in 1 .. Len(commands) /\ cmd \in Nat /\ arg \in Nat
    <3>0. 0 \in Nat
      OBVIOUS
    <3>1. CASE bad
      BY <1>9, <1>12, <3>0, <3>1, Zenon
    <3>2. CASE ~bad
      BY <1>7, <1>8, <3>2, Zenon
    <3> QED
      BY <3>1, <3>2, Zenon
  <2>2. word.form = "long" /\ ~bad => flag = options[cmd].flag
    BY <1>7, Zenon
  <2>3. ~(word.form = "long" /\ ~bad) => flag = cmd
    BY Zenon
  <2>4. /\ calls' = Append(calls, c)
        /\ IF commands[cmd].kind = "fails"
             THEN res' = "func" /\ scanning' = FALSE /\ UNCHANGED values
             ELSE /\ values' = [values EXCEPT ![cmd] = OptionValue(commands[cmd].kind, arg, @)]
                  /\ UNCHANGED <<res, scanning>>
    BY <1>3, <1>12, Zenon
  <2> HIDE DEF word, m, bad, cmd, arg, flag
  <2>5. flag \in Flags
    <3>1. CASE word.form = "long" /\ ~bad
      <4>1. options[cmd] \in Options
        BY <1>5, <1>7, <3>1 DEF OptionsInv
      <4>2. options[cmd].flag \in Flags
        BY <4>1, Zenon DEF Options
      <4> QED
        BY <2>2, <3>1, <4>2, Zenon
    <3>2. CASE ~(word.form = "long" /\ ~bad)
      BY <2>1, <2>3, <3>2, Zenon DEF Flags
    <3> QED
      BY <3>1, <3>2, Zenon
  <2>6. /\ c \in Call /\ c.word = word /\ c.cmd = cmd /\ c.arg = arg /\ c.bad = bad
        /\ c.flag = flag
    BY <1>2, <1>6, <2>1, <2>5, Zenon DEF Call
  <2> HIDE DEF c
  <2>7. ASSUME ~failed PROVE Called(c, commands)
    <3>1. CASE bad
      BY <1>9, <1>12, <2>3, <2>6, <3>1, Zenon DEF Called
    <3>2. CASE ~bad
      <4>1. flag = cmd
        BY <1>7, <2>2, <2>3, <2>7, <3>2, Zenon
      <4>2. commands[cmd].has_arg = "no" => m.has_arg = "no"
        BY <1>7, <2>7, <3>2, Zenon DEF SymbolArg
      <4>3. commands[cmd].has_arg = "required" => m.has_arg = "required"
        BY <1>7, <2>7, <3>2, Zenon DEF SymbolArg
      <4> QED
        BY <1>7, <1>8, <2>6, <2>7, <3>2, <4>1, <4>2, <4>3, Zenon DEF Called
    <3> QED
      BY <3>1, <3>2, Zenon
  <2>8. CallsBy(cmd, arg)
    BY <2>1, <2>4, <2>6, <2>7, Zenon DEF CallsBy
  <2>9. ASSUME Refused, res # "error" PROVE Bad
    <3>1. res' # "error"
      BY <2>4, <2>9, CommandAssumption
    <3>2. calls'[Len(calls')] = c
      BY <1>5, <2>4, <2>6
    <3> QED
      BY <1>6, <2>6, <2>9, <3>1, <3>2, Zenon DEF Refused
  <2> QED
    BY <1>1, <1>4, <2>4, <2>8, <2>9, Zenon
<1> QED
  BY <1>11, <1>12, Zenon

\* mncommand_ctx_add_cmd(): the option of a command that is added.
LEMMA AddCmdOption ==
    ASSUME OptionsInv, AddCmd
    PROVE  \E cmd \in Commands, opts \in Seq(Options) :
             /\ SameBut(options, opts)
             /\ commands' = Append(commands, cmd)
             /\ \/ options' = Append(opts, Option(cmd)) /\ failed' = failed
                \/ options' = opts /\ failed' = TRUE
<1> DEFINE cmd == prog.cmds[Len(commands) + 1]
<1>1. /\ commands' = Append(commands, cmd)
      /\ \E opts \in {options, Moved(options)} :
            \/ options' = Append(opts, Option(cmd)) /\ failed' = failed
            \/ options' = opts /\ failed' = TRUE
  BY Zenon DEF AddCmd
<1>2. cmd \in Commands
  <2>1. prog.cmds \in Seq(Commands) /\ Len(commands) < Len(prog.cmds) /\ Len(commands) \in Nat
    BY CommandAssumption DEF AddCmd, OptionsInv
  <2> QED
    BY <2>1
<1> HIDE DEF cmd
<1>3. SameBut(options, options) /\ SameBut(options, Moved(options))
  BY MovedIsSame, Zenon DEF OptionsInv, SameBut
<1> QED
  BY <1>1, <1>2, <1>3, Zenon DEF SameBut

\* A command keeps its place.
LEMMA CommandsGrow ==
    ASSUME OptionsInv, AddCmd
    PROVE  /\ Len(commands') = Len(commands) + 1 /\ Len(commands) \in Nat
           /\ \A i \in 1 .. Len(commands) : commands'[i] = commands[i]
<1>1. PICK cmd \in Commands : commands' = Append(commands, cmd)
  BY AddCmdOption, Zenon
<1> QED
  BY <1>1 DEF OptionsInv

LEMMA CallsInvInit == Init => CallsInv
<1> SUFFICES ASSUME Init PROVE CallsInv
  BY Zenon
<1>1. OptionsInv /\ optind \in Nat \ {0}
  BY OptionsInvInit DEF Init
<1>2. calls = <<>> /\ options = <<>> /\ Len(<<>>) = 0
  BY Zenon DEF Init
<1>3. <<>> \in Seq(Call)
  OBVIOUS
<1> QED
  BY <1>1, <1>2, <1>3 DEF CallsInv, Within

LEMMA CallsInvNext == CallsInv /\ [Next]_vars => CallsInv'
<1> SUFFICES ASSUME CallsInv, [Next]_vars PROVE CallsInv'
  BY Zenon
<1>0. OptionsInv /\ OptionsInv'
  BY OptionsInvNext, Zenon DEF CallsInv
<1>1. CASE UNCHANGED <<commands, options, failed, calls>> /\ optind' \in Nat \ {0}
  BY <1>0, <1>1, Zenon DEF CallsInv
<1>2. CASE AddCmd
  <2>1. PICK cmd \in Commands, opts \in Seq(Options) :
             /\ SameBut(options, opts)
             /\ \/ options' = Append(opts, Option(cmd)) /\ failed' = failed
                \/ options' = opts /\ failed' = TRUE
    BY <1>0, <1>2, AddCmdOption, Zenon
  <2>2. /\ Len(commands') = Len(commands) + 1 /\ Len(commands) \in Nat
        /\ \A i \in 1 .. Len(commands) : commands'[i] = commands[i]
    BY <1>0, <1>2, CommandsGrow, Zenon
  <2>3. Within(opts, Len(commands))
    BY <1>0, <2>1, <2>2, WithinSame, Zenon DEF CallsInv, OptionsInv
  <2>4. Within(options', Len(commands'))
    BY <2>1, <2>2, <2>3, WithinAppend, OptionType, Zenon
  <2>5. UNCHANGED <<calls, optind>>
    BY <1>2, Zenon DEF AddCmd
  <2>6. \A n \in 1 .. Len(calls) : /\ calls[n].cmd \in 1 .. Len(commands')
                                   /\ ~failed' => Called(calls[n], commands')
    <3> TAKE n \in 1 .. Len(calls)
    <3>1. calls[n].cmd \in 1 .. Len(commands) /\ (~failed => Called(calls[n], commands))
      BY Zenon DEF CallsInv
    <3>2. commands'[calls[n].cmd] = commands[calls[n].cmd]
      BY <2>2, <3>1, Zenon
    <3>3. ~failed' => ~failed
      BY <2>1, Zenon
    <3>4. \A j \in 1 .. calls[n].cmd - 1 : commands'[j] = commands[j]
      BY <2>2, <3>1
    <3>5. ~failed' => Called(calls[n], commands')
      BY <3>1, <3>2, <3>3, <3>4, Zenon DEF Called
    <3> QED
      BY <2>2, <3>1, <3>5
  <2> QED
    BY <1>0, <2>4, <2>5, <2>6, Zenon DEF CallsInv
<1>3. CASE Getopt
  <2>1. /\ options' = Append(Fixups(options), Zero) /\ UNCHANGED <<commands, failed, calls>>
        /\ optind' \in {optind, 1}
    BY <1>3, Zenon DEF Getopt, Terminated
  <2>2. SameBut(options, Fixups(options)) /\ Len(commands) \in Nat
    BY <1>0, FixupsSame DEF OptionsInv
  <2>3. Zero \in Options /\ Zero.name = Null
    BY Zenon DEF Zero, Options, Names, Kinds, Flags
  <2>4. Within(Fixups(options), Len(commands)) /\ Fixups(options) \in Seq(Options)
    BY <1>0, <2>2, WithinSame, Zenon DEF CallsInv, OptionsInv, SameBut
  <2>5. Within(options', Len(commands))
    BY <2>1, <2>2, <2>3, <2>4, WithinAppend, Zenon
  <2>6. optind' \in Nat \ {0}
    BY <2>1 DEF CallsInv
  <2> QED
    BY <1>0, <2>1, <2>5, <2>6, Zenon DEF CallsInv
<1>4. CASE Scan
  <2>1. UNCHANGED <<commands, options, failed>> /\ optind' \in Nat \ {0}
    BY <1>4, ScanCalls, Zenon
  <2>2. CASE calls' = calls
    BY <1>1, <2>1, <2>2, Zenon
  <2>3. ASSUME NEW cmd, NEW arg, CallsBy(cmd, arg) PROVE CallsInv'
    <3>1. PICK c \in Call : /\ calls' = Append(calls, c) /\ c.cmd = cmd
                            /\ ~failed => Called(c, commands)
      BY <2>3, Zenon DEF CallsBy
    <3>2. /\ Len(calls') = Len(calls) + 1 /\ Len(calls) \in Nat /\ calls' \in Seq(Call)
          /\ \A n \in 1 .. Len(calls) : calls'[n] = calls[n]
          /\ calls'[Len(calls) + 1] = c
      BY <3>1 DEF CallsInv
    <3>3. cmd \in 1 .. Len(commands)
      BY <2>3, Zenon DEF CallsBy
    <3>4. \A n \in 1 .. Len(calls') : n \in 1 .. Len(calls) \/ n = Len(calls) + 1
      BY <3>2
    <3>5. \A n \in 1 .. Len(calls') : /\ calls'[n].cmd \in 1 .. Len(commands)
                                      /\ ~failed => Called(calls'[n], commands)
      BY <3>1, <3>2, <3>3, <3>4, Zenon DEF CallsInv
    <3> QED
      BY <1>0, <2>1, <3>2, <3>5, Zenon DEF CallsInv
  <2> QED
    BY <1>4, <2>2, <2>3, ScanCalls, Zenon
<1>5. CASE Skip \/ Done \/ FormatHelp \/ UNCHANGED vars
  <2>1. UNCHANGED <<commands, options, failed, calls>> /\ optind' \in {optind, optind + 1}
    BY <1>5, Zenon DEF Skip, Done, FormatHelp, vars
  <2> QED
    BY <1>1, <2>1 DEF CallsInv
<1> QED
  BY <1>2, <1>3, <1>4, <1>5, Zenon DEF Next

\* Every word that is taken for an option calls the command it names, with the
\* argument that was registered for it and that command's own flag, and one that
\* getopt_long() refuses calls none but the first command for '?', for any
\* commands, also when several have the same letter and when commands are added
\* between two calls of mncommand_ctx_getopt().
THEOREM CallsAreRight == Spec => []DispatchAsNamed
<1>1. CallsInv => DispatchAsNamed
  <2> SUFFICES ASSUME CallsInv, ~failed, NEW n \in DOMAIN calls PROVE Called(calls[n], commands)
    BY Zenon DEF DispatchAsNamed, Called
  <2> QED
    BY DEF CallsInv
<1> QED
  BY <1>1, CallsInvInit, CallsInvNext, PTL DEF Spec

-----------------------------------------------------------------------------
(* What the program finds.                                                 *)

LEMMA Largest ==
    ASSUME NEW n \in Nat, NEW S \in SUBSET (1 .. n), S # {}
    PROVE  Max(S) \in S /\ \A y \in S : Max(S) >= y
<1> DEFINE T == {n - y : y \in S}
<1>1. T \in SUBSET Nat /\ T # {}
  <2>1. \A y \in S : n - y \in Nat
    OBVIOUS
  <2> QED
    BY <2>1, Zenon
<1>2. Min(T) \in T /\ \A z \in T : Min(T) <= z
  BY <1>1, Smallest, Zenon
<1> DEFINE m == Min(T)
<1> HIDE DEF m
<1>3. m \in T /\ \A z \in T : m <= z
  BY <1>2, Zenon DEF m
<1>4. PICK x \in S : m = n - x
  BY <1>3, Zenon
<1>5. \A y \in S : x >= y
  <2> TAKE y \in S
  <2>1. m <= n - y
    BY <1>3, Zenon
  <2> QED
    BY <1>4, <2>1
<1> QED
  BY <1>5, Zenon DEF Max

LEMMA LargestIs ==
    ASSUME NEW S \in SUBSET Nat, NEW x \in S, \A y \in S : x >= y
    PROVE  Max(S) = x
<1>1. Max(S) \in S /\ \A y \in S : Max(S) >= y
  BY Zenon DEF Max
<1> DEFINE m == Max(S)
<1> HIDE DEF m
<1>2. m \in S /\ \A y \in S : m >= y
  BY <1>1, Zenon DEF m
<1>3. m >= x /\ x >= m /\ m \in Nat /\ x \in Nat
  BY <1>2, Zenon
<1>4. m = x
  BY <1>3
<1> QED
  BY <1>4, Zenon DEF m

\* The calls that give the value of the command i, and that value.
Setting(i, cs, cmds) ==
    {n \in DOMAIN cs : cs[n].cmd = i /\ (cmds[i].kind = "double" => cs[n].arg # 0)}
Set(cs, mine) ==
    IF mine = {} THEN "default"
    ELSE LET c == cs[Max(mine)] IN IF c.arg # 0 THEN c.arg ELSE "none"

\* LastWordWins made inductive.
ValuesInv ==
    /\ values \in Seq(Nat \cup {"default", "none"}) /\ Len(values) = Len(commands)
    /\ \A i \in 1 .. Len(commands) :
          commands[i].kind # "fails" => values[i] = Set(calls, Setting(i, calls, commands))

LEMMA ValuesInvInit == Init => ValuesInv
<1> SUFFICES ASSUME Init PROVE ValuesInv
  BY Zenon
<1>1. commands = <<>> /\ values = <<>> /\ Len(<<>>) = 0
  BY Zenon DEF Init
<1>2. <<>> \in Seq(Nat \cup {"default", "none"})
  OBVIOUS
<1> QED
  BY <1>1, <1>2 DEF ValuesInv

\* A command that is added has not been called.
LEMMA AddCmdValue ==
    ASSUME CallsInv, ValuesInv, AddCmd
    PROVE  ValuesInv'
<1>1. /\ Len(commands') = Len(commands) + 1 /\ Len(commands) \in Nat
      /\ \A i \in 1 .. Len(commands) : commands'[i] = commands[i]
  BY CommandsGrow, Zenon DEF CallsInv
<1>2. values' = Append(values, "default") /\ calls' = calls
  BY Zenon DEF AddCmd
<1>3. /\ values' \in Seq(Nat \cup {"default", "none"}) /\ Len(values') = Len(commands')
      /\ \A i \in 1 .. Len(commands) : values'[i] = values[i]
      /\ values'[Len(commands) + 1] = "default"
  BY <1>1, <1>2 DEF ValuesInv
<1>4. ASSUME NEW i \in 1 .. Len(commands), commands'[i].kind # "fails"
      PROVE  values'[i] = Set(calls, Setting(i, calls, commands'))
  <2>1. Setting(i, calls, commands') = Setting(i, calls, commands)
    BY <1>1, Zenon DEF Setting
  <2>2. values[i] = Set(calls, Setting(i, calls, commands))
    BY <1>1, <1>4, Zenon DEF ValuesInv
  <2> QED
    BY <1>3, <2>1, <2>2, Zenon
<1>5. Setting(Len(commands) + 1, calls, commands') = {}
  BY <1>1 DEF Setting, CallsInv
<1>6. Set(calls, {}) = "default"
  BY Zenon DEF Set
<1>7. \A i \in 1 .. Len(commands') : i \in 1 .. Len(commands) \/ i = Len(commands) + 1
  BY <1>1
<1> QED
  BY <1>2, <1>3, <1>4, <1>5, <1>6, <1>7, Zenon DEF ValuesInv

\* A call sets the value of its command, and no other.
LEMMA CallValue ==
    ASSUME CallsInv, ValuesInv, NEW cmd, NEW arg, CallsBy(cmd, arg), commands' = commands,
           IF commands[cmd].kind = "fails" THEN values' = values
           ELSE values' = [values EXCEPT ![cmd] = OptionValue(commands[cmd].kind, arg, @)]
    PROVE  ValuesInv'
<1> DEFINE N == Len(calls) + 1
<1>1. PICK c \in Call : calls' = Append(calls, c) /\ c.cmd = cmd /\ c.arg = arg
  BY Zenon DEF CallsBy
<1>2. /\ Len(calls) \in Nat /\ calls' \in Seq(Call)
      /\ DOMAIN calls = 1 .. Len(calls) /\ DOMAIN calls' = 1 .. N
      /\ \A n \in 1 .. Len(calls) : calls'[n] = calls[n]
      /\ calls'[N] = c
  BY <1>1 DEF CallsInv
<1>3. \A n \in 1 .. N : n \in 1 .. Len(calls) \/ n = N
  BY <1>2
<1>4. /\ cmd \in 1 .. Len(commands) /\ Len(commands) \in Nat /\ arg \in Nat
      /\ DOMAIN values = 1 .. Len(commands)
  <2>1. /\ cmd \in 1 .. Len(commands) /\ arg \in Nat /\ commands \in Seq(Commands)
        /\ values \in Seq(Nat \cup {"default", "none"}) /\ Len(values) = Len(commands)
    BY Zenon DEF CallsBy, CallsInv, OptionsInv, ValuesInv
  <2> QED
    BY <2>1
<1>5. values' \in Seq(Nat \cup {"default", "none"}) /\ Len(values') = Len(commands)
  <2>1. values[cmd] \in Nat \cup {"default", "none"}
    BY <1>4 DEF ValuesInv
  <2>2. OptionValue(commands[cmd].kind, arg, values[cmd]) \in Nat \cup {"default", "none"}
    BY <1>4, <2>1, Zenon DEF OptionValue
  <2> QED
    BY <1>4, <2>2 DEF ValuesInv
<1>6. ASSUME NEW i \in 1 .. Len(commands), commands[i].kind # "fails"
      PROVE  values'[i] = Set(calls', Setting(i, calls', commands))
  <2> DEFINE old == Setting(i, calls, commands)
             new == Setting(i, calls', commands)
  <2>0. values[i] = Set(calls, old)
    BY <1>6, Zenon DEF ValuesInv
  <2>1. old \in SUBSET (1 .. Len(calls)) /\ new \in SUBSET (1 .. N)
    BY <1>2, Zenon DEF Setting
  <2>2. ASSUME new = old PROVE Set(calls', new) = Set(calls, old)
    <3>1. CASE old = {}
      BY <2>2, <3>1, Zenon DEF Set
    <3>2. CASE old # {}
      <4>1. Max(old) \in 1 .. Len(calls)
        BY <1>2, <2>1, <3>2, Largest, Zenon
      <4>2. calls'[Max(old)] = calls[Max(old)]
        BY <1>2, <4>1, Zenon
      <4> QED
        BY <2>2, <3>2, <4>2, Zenon DEF Set
    <3> QED
      BY <3>1, <3>2, Zenon
  <2>3. CASE i # cmd
    <3>1. new = old
      BY <1>1, <1>2, <1>3, <2>3 DEF Setting
    <3>2. values'[i] = values[i]
      BY <1>4, <2>3, Zenon DEF ValuesInv
    <3> QED
      BY <2>0, <2>2, <3>1, <3>2, Zenon
  <2>4. CASE i = cmd
    <3>0. values'[i] = OptionValue(commands[i].kind, arg, values[i])
      BY <1>4, <1>6, <2>4, Zenon DEF ValuesInv
    <3>1. CASE commands[i].kind = "double" /\ arg = 0
      <4>1. new = old
        BY <1>1, <1>2, <1>3, <2>4, <3>1 DEF Setting
      <4>2. values'[i] = values[i]
        BY <3>0, <3>1, Zenon DEF OptionValue
      <4> QED
        BY <2>0, <2>2, <4>1, <4>2, Zenon
    <3>2. CASE ~(commands[i].kind = "double" /\ arg = 0)
      <4>1. N \in new
        BY <1>1, <1>2, <2>4, <3>2 DEF Setting
      <4>2. \A y \in new : N >= y
        BY <1>2, <2>1
      <4>3. new \in SUBSET Nat
        BY <1>2, <2>1
      <4> HIDE DEF new, N
      <4>4. Max(new) = N
        BY <4>1, <4>2, <4>3, LargestIs, Zenon
      <4>5. Set(calls', new) = IF arg # 0 THEN arg ELSE "none"
        BY <1>1, <1>2, <4>1, <4>4, Zenon DEF Set
      <4> QED
        BY <3>0, <3>2, <4>5, Zenon DEF OptionValue, new
    <3> QED
      BY <3>1, <3>2, Zenon
  <2> QED
    BY <2>3, <2>4, Zenon
<1> QED
  BY <1>5, <1>6, Zenon DEF ValuesInv

LEMMA ValuesInvNext == CallsInv /\ ValuesInv /\ [Next]_vars => ValuesInv'
<1> SUFFICES ASSUME CallsInv, ValuesInv, [Next]_vars PROVE ValuesInv'
  BY Zenon
<1>1. CASE UNCHANGED <<commands, calls, values>>
  BY <1>1, Zenon DEF ValuesInv
<1>2. CASE Scan
  <2>1. commands' = commands
    BY <1>2, ScanCalls, Zenon
  <2>2. ASSUME NEW cmd, NEW arg, CallsBy(cmd, arg),
               IF commands[cmd].kind = "fails" THEN values' = values
               ELSE values' = [values EXCEPT ![cmd] = OptionValue(commands[cmd].kind, arg, @)]
        PROVE  ValuesInv'
    BY <2>1, <2>2, CallValue, Zenon
  <2> QED
    BY <1>1, <1>2, <2>1, <2>2, ScanCalls, Zenon
<1>3. CASE Getopt \/ Skip \/ Done \/ FormatHelp \/ UNCHANGED vars
  BY <1>1, <1>3, Zenon DEF Getopt, Skip, Done, FormatHelp, vars
<1> QED
  BY <1>2, <1>3, AddCmdValue, Zenon DEF Next

\* The value that a program finds for an option is what the last word for it says,
\* for any commands and words, over any number of calls of mncommand_ctx_getopt().
THEOREM LastWordIsKept == Spec => []LastWordWins
<1>1. CallsInv /\ ValuesInv => LastWordWins
  <2> SUFFICES ASSUME CallsInv, ValuesInv, NEW i \in DOMAIN commands, commands[i].kind # "fails"
               PROVE  values[i] = Set(calls, Setting(i, calls, commands))
    BY Zenon DEF LastWordWins, Set, Setting
  <2>0. commands \in Seq(Commands)
    BY Zenon DEF CallsInv, OptionsInv
  <2>1. i \in 1 .. Len(commands)
    BY <2>0
  <2> QED
    BY <2>1, Zenon DEF ValuesInv
<1> QED
  BY <1>1, CallsInvInit, CallsInvNext, ValuesInvInit, ValuesInvNext, PTL DEF Spec

-----------------------------------------------------------------------------
(* What mncommand_ctx_getopt() refuses.                                    *)

\* The first options are those of the commands that were there before the first
\* call of mncommand_ctx_getopt(), without a zero one among them.
Prefix(opts, k) == k <= Len(opts) /\ \A i \in 1 .. k : opts[i].name # Null

KnownInv ==
    /\ scanning => res = Null
    /\ known \in Nat /\ ngetopts \in Nat
    /\ ~failed => /\ Prefix(options, known) /\ known <= Len(commands)
                  /\ ngetopts = 0 => known = Len(commands) /\ Len(options) = Len(commands)

LEMMA PrefixSame ==
    ASSUME NEW opts \in Seq(Options), NEW new, SameBut(opts, new), NEW k \in Nat, Prefix(opts, k)
    PROVE  Prefix(new, k)
  BY DEF Prefix, SameBut

LEMMA PrefixAppend ==
    ASSUME NEW opts \in Seq(Options), NEW o \in Options, NEW k \in Nat, Prefix(opts, k)
    PROVE  /\ Prefix(Append(opts, o), k)
           /\ k = Len(opts) /\ o.name # Null => Prefix(Append(opts, o), k + 1)
<1> DEFINE new == Append(opts, o)
<1>1. /\ Len(new) = Len(opts) + 1 /\ Len(opts) \in Nat
      /\ \A i \in 1 .. Len(opts) : new[i] = opts[i]
      /\ new[Len(opts) + 1] = o
  OBVIOUS
<1> HIDE DEF new
<1>2. Prefix(new, k)
  BY <1>1 DEF Prefix
<1>3. ASSUME k = Len(opts), o.name # Null PROVE Prefix(new, k + 1)
  <2>1. \A i \in 1 .. k + 1 : i \in 1 .. k \/ i = Len(opts) + 1
    BY <1>3
  <2>2. \A i \in 1 .. k + 1 : new[i].name # Null
    BY <1>1, <1>2, <1>3, <2>1, Zenon DEF Prefix
  <2> QED
    BY <1>1, <1>3, <2>2 DEF Prefix
<1> QED
  BY <1>2, <1>3, Zenon DEF new

LEMMA KnownInvInit == Init => KnownInv
<1> SUFFICES ASSUME Init PROVE KnownInv
  BY Zenon
<1>1. /\ commands = <<>> /\ options = <<>> /\ Len(<<>>) = 0 /\ known = 0 /\ ngetopts = 0
      /\ scanning = FALSE
  BY Zenon DEF Init
<1> QED
  BY <1>1 DEF KnownInv, Prefix

LEMMA KnownInvNext == CallsInv /\ KnownInv /\ [Next]_vars => KnownInv'
<1> SUFFICES ASSUME CallsInv, KnownInv, [Next]_vars PROVE KnownInv'
  BY Zenon
<1>0. OptionsInv /\ Len(options) \in Nat /\ Len(commands) \in Nat
  BY DEF CallsInv, OptionsInv
<1>1. CASE UNCHANGED <<commands, options, ngetopts, known, failed>> /\ (scanning' => res' = Null)
  BY <1>1, Zenon DEF KnownInv
<1>2. CASE AddCmd
  <2>1. PICK cmd \in Commands, opts \in Seq(Options) :
             /\ SameBut(options, opts)
             /\ \/ options' = Append(opts, Option(cmd)) /\ failed' = failed
                \/ options' = opts /\ failed' = TRUE
    BY <1>0, <1>2, AddCmdOption, Zenon
  <2>2. Len(commands') = Len(commands) + 1
    BY <1>0, <1>2, CommandsGrow, Zenon
  <2>3. /\ ~scanning' /\ ngetopts' = ngetopts
        /\ known' = IF ngetopts = 0 THEN known + 1 ELSE known
    BY <1>2, Zenon DEF AddCmd
  <2>4. ASSUME ~failed'
        PROVE  /\ Prefix(options', known') /\ known' <= Len(commands')
               /\ ngetopts' = 0 => known' = Len(commands') /\ Len(options') = Len(commands')
    <3>1. options' = Append(opts, Option(cmd)) /\ ~failed
      BY <2>1, <2>4
    <3>2. Option(cmd) \in Options /\ Option(cmd).name # Null
      BY OptionType, CommandAssumption, Zenon
    <3>3. Prefix(opts, known) /\ Len(opts) = Len(options)
      BY <1>0, <2>1, <3>1, PrefixSame, Zenon DEF KnownInv, OptionsInv, SameBut
    <3>4. Len(options') = Len(options) + 1
      BY <1>0, <3>1, <3>2, <3>3
    <3>5. Prefix(options', known')
      BY <2>3, <3>1, <3>2, <3>3, PrefixAppend, Zenon DEF KnownInv
    <3> QED
      BY <1>0, <2>2, <2>3, <3>1, <3>4, <3>5 DEF KnownInv
  <2>5. known' \in Nat /\ ngetopts' \in Nat
    BY <2>3 DEF KnownInv
  <2> QED
    BY <2>3, <2>4, <2>5, Zenon DEF KnownInv
<1>3. CASE Getopt
  <2>1. /\ options' = Append(Fixups(options), Zero) /\ UNCHANGED <<commands, known, failed>>
        /\ ngetopts' = ngetopts + 1 /\ res' = Null
    BY <1>3, Zenon DEF Getopt, Terminated
  <2>2. SameBut(options, Fixups(options))
    BY <1>0, FixupsSame, Zenon DEF OptionsInv
  <2>3. Zero \in Options
    BY Zenon DEF Zero, Options, Names, Kinds, Flags
  <2>4. ~failed => Prefix(options', known)
    BY <1>0, <2>1, <2>2, <2>3, PrefixSame, PrefixAppend, Zenon DEF KnownInv, OptionsInv, SameBut
  <2> QED
    BY <2>1, <2>4 DEF KnownInv
<1>4. CASE Scan
  <2>1. UNCHANGED <<commands, options, ngetopts, known, failed>> /\ scanning
    BY <1>4, ScanCalls, Zenon
  <2>2. scanning' => res' = res
    BY <1>4, Zenon DEF Scan, Return
  <2> QED
    BY <1>1, <2>1, <2>2, Zenon DEF KnownInv
<1>5. CASE Skip \/ Done \/ FormatHelp \/ UNCHANGED vars
  <2>1. UNCHANGED <<commands, options, ngetopts, known, failed>>
    BY <1>5, Zenon DEF Skip, Done, FormatHelp, vars
  <2>2. scanning' => scanning /\ res' = res
    BY <1>5, Zenon DEF Skip, Done, FormatHelp, vars, Return
  <2> QED
    BY <1>1, <2>1, <2>2, Zenon DEF KnownInv
<1> QED
  BY <1>2, <1>3, <1>4, <1>5, Zenon DEF Next

\* The command a long word names is the one with its option.
LEMMA KnownIsMatched ==
    ASSUME CallsInv, KnownInv, ~failed, NEW word, word.form = "long",
           NEW k \in 1 .. known,
           IsFirst(k, {j \in 1 .. Len(commands) : commands[j].longname = word.name}, Len(commands))
    PROVE  Match(word) = [i |-> k, has_arg |-> commands[k].has_arg]
<1>0. /\ Len(commands) \in Nat /\ Len(options) \in Nat /\ DOMAIN options = 1 .. Len(options)
      /\ known \in Nat /\ known <= Len(commands) /\ known <= Len(options)
  BY DEF CallsInv, OptionsInv, KnownInv, Prefix
<1>1. ASSUME NEW i \in 1 .. known
      PROVE  /\ \A j \in 1 .. i : options[j].name # Null
             /\ options[i].name = commands[i].longname /\ options[i].has_arg = commands[i].has_arg
  <2>1. \A j \in 1 .. i : options[j].name # Null
    BY <1>0 DEF KnownInv, Prefix
  <2>2. i \in 1 .. Len(options)
    BY <1>0
  <2> QED
    BY <2>1, <2>2, Zenon DEF CallsInv, OptionsInv, Copies
<1> DEFINE i == FirstWhere(options, LAMBDA o : o.name = word.name)
           I == {j \in 1 .. Len(options) : options[j].name = word.name}
<1>2. i = IF I # {} THEN Min(I) ELSE 0
  BY Zenon DEF FirstWhere, Where
<1>3. Match(word) = IF i \in Visible THEN [i |-> i, has_arg |-> options[i].has_arg]
                    ELSE [i |-> 0, has_arg |-> "no"]
  BY Zenon DEF Match
<1> HIDE DEF i
<1>4. IsFirst(i, I, Len(options))
  BY <1>0, <1>2, FirstIsFirst, Zenon
<1>5. IsFirst(k, I, Len(options))
  <2>1. k \in 1 .. Len(options) /\ k \in 1 .. Len(commands)
    BY <1>0
  <2>2. commands[k].longname = word.name
    BY <2>1 DEF IsFirst
  <2>3. k \in I
    BY <1>1, <2>1, <2>2, Zenon
  <2>4. ASSUME NEW j \in 1 .. Len(options), j < k PROVE j \notin I
    <3>1. j \in 1 .. known /\ j \in 1 .. Len(commands)
      BY <1>0, <2>4
    <3>2. commands[j].longname # word.name
      BY <2>1, <2>4, <3>1, Zenon DEF IsFirst
    <3> QED
      BY <1>1, <3>1, <3>2, Zenon
  <2> QED
    BY <2>1, <2>3, <2>4, Zenon DEF IsFirst
<1>6. i = k
  BY <1>0, <1>4, <1>5, FirstIsUnique, Zenon
<1>7. k \in Visible
  BY <1>0, <1>1 DEF Visible
<1> QED
  BY <1>1, <1>3, <1>6, <1>7, Zenon

\* What BadArg() says of a word is that it does not fit.
LEMMA BadIsUnfit ==
    ASSUME NEW word, NEW has_arg, BadArg(word, has_arg), optind \in Nat, Len(prog.argv) \in Nat
    PROVE  ~ArgFits(word, has_arg)
  BY DEF BadArg, ArgFits

LEMMA RefusesOnlyUnknown ==
    ASSUME CallsInv, KnownInv, [Next]_vars
    PROVE  [RefusesUnknown]_vars
<1> SUFFICES ASSUME Next, scanning, Refused, ~failed PROVE RefusesUnknown
  BY Zenon DEF RefusesUnknown
<1> DEFINE word == prog.argv[optind]
           m == Match(word)
<1>1. /\ res = Null /\ Null # "error" /\ prog.argv \in Seq(ArgWords)
      /\ optind \in Nat /\ Len(prog.argv) \in Nat /\ Len(commands) \in Nat
  BY CommandAssumption DEF KnownInv, CallsInv, OptionsInv
<1>2. Scan
  BY <1>1, Zenon DEF Refused, Next, AddCmd, Getopt, Skip, Done, FormatHelp, Return
<1>3. m.i = 0 \/ BadArg(word, m.has_arg)
  BY <1>1, <1>2, ScanCalls, Zenon DEF Bad
<1>4. ASSUME word.form = "long"
      PROVE  LET i == FirstWhere(commands, LAMBDA cmd : cmd.longname = word.name)
             IN  i \in 1 .. known => ~ArgFits(word, commands[i].has_arg)
  <2> DEFINE i == FirstWhere(commands, LAMBDA cmd : cmd.longname = word.name)
             I == {j \in 1 .. Len(commands) : commands[j].longname = word.name}
  <2>1. i = IF I # {} THEN Min(I) ELSE 0
    BY Zenon DEF FirstWhere, Where
  <2> SUFFICES i \in 1 .. known => ~ArgFits(word, commands[i].has_arg)
    BY Zenon
  <2> HIDE DEF i
  <2>2. IsFirst(i, I, Len(commands))
    BY <1>1, <2>1, FirstIsFirst, Zenon
  <2> SUFFICES ASSUME i \in 1 .. known PROVE ~ArgFits(word, commands[i].has_arg)
    BY Zenon
  <2>3. m = [i |-> i, has_arg |-> commands[i].has_arg]
    BY <1>4, <2>2, KnownIsMatched, Zenon
  <2>4. i # 0
    BY DEF KnownInv
  <2>5. BadArg(word, commands[i].has_arg)
    BY <1>3, <2>3, <2>4
  <2> QED
    BY <1>1, <2>5, BadIsUnfit, Zenon
<1>5. ASSUME word.form = "short"
      PROVE  LET i == FindByVal(word.name)
             IN  i # 0 /\ word.name \in Letters => ~ArgFits(word, SymbolArg(commands[i]))
  <2> DEFINE i == FindByVal(word.name)
  <2>0. word.form # "long"
    BY <1>5
  <2>1. word.name \in Letters =>
            m = [i |-> i, has_arg |-> IF i = 0 THEN "no" ELSE SymbolArg(commands[i])]
    BY <2>0, Zenon DEF Match, FindByVal
  <2> SUFFICES ASSUME i # 0, word.name \in Letters PROVE ~ArgFits(word, SymbolArg(commands[i]))
    BY Zenon
  <2> HIDE DEF i
  <2>2. BadArg(word, SymbolArg(commands[i]))
    BY <1>3, <2>1
  <2> QED
    BY <1>1, <2>2, BadIsUnfit, Zenon
<1> QED
  BY <1>4, <1>5, Zenon DEF RefusesUnknown

\* mncommand_ctx_getopt() returns an error for a word, or hands it to the command for
\* '?', only if it names no command, or its letter is none that isalnum(3) is true of,
\* or if its argument is not what the command was registered with: whatever
\* commands there are, and however often it was called before.
THEOREM RefusesNoKnown == Spec => KnownIsFound
<1>1. CallsInv /\ KnownInv /\ [Next]_vars => [RefusesUnknown]_vars
  BY RefusesOnlyUnknown, Zenon
<1> QED
  BY <1>1, CallsInvInit, CallsInvNext, KnownInvInit, KnownInvNext, PTL DEF Spec, KnownIsFound
=============================================================================
