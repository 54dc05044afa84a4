------------------------------ MODULE MnCommand ------------------------------
(***************************************************************************)
(* The command line parser mncommand.c: commands are registered in         *)
(* ctx->commands and copied to ctx->options, which getopt_long(3) reads;   *)
(* options found on the command line are dispatched to their commands.     *)
(*                                                                         *)
(* A pointer to cmd->flag is the index of its command, or Stale once the   *)
(* array has been moved.  A letter is an option of its own word, and its   *)
(* argument the next one.                                                  *)
(***************************************************************************)
EXTENDS Naturals, Sequences, Traversal

CONSTANTS Null, Stale,  \* pointers: NULL, and one to memory that was given back
          Programs,     \* the commands that a program registers, its argv
          Letters,      \* the letters that isalnum(3) is true of
          MaxGetopts,   \* bound: calls of mncommand_ctx_getopt()
          MemoryFails,  \* may ctx->options fail to grow?
          BufSz         \* sizeof(buf) in mncommand_ctx_format_help(): 55

\* All commands that programs register, and all words of their command lines.
Commands == UNION {Range(p.cmds) : p \in Programs}
ArgWords == UNION {Range(p.argv) : p \in Programs}

\* mncommand_ctx_add_cmd() asserts that a command has a long name.
ASSUME CommandAssumption ==
    /\ \A p \in Programs : p.cmds \in Seq(Commands) /\ p.argv \in Seq(ArgWords)
    /\ \A cmd \in Commands : cmd.longname # Null
    /\ \A word \in ArgWords : word.form = "short" => ~word.arg
    /\ "?" \notin Letters
    /\ Null \notin {"error", "func", "optind"}
    /\ MaxGetopts \in Nat /\ MemoryFails \in BOOLEAN /\ BufSz \in Nat /\ BufSz > 2
    /\ Null # Stale /\ Null \notin Nat /\ Stale \notin Nat

VARIABLES prog,         \* the program, one of Programs
          commands,     \* ctx->commands
          options,      \* ctx->options
          ngetopts,     \* calls of mncommand_ctx_getopt() so far
          known,        \* commands that were registered before the first of them
          failed,       \* has mncommand_ctx_add_cmd() failed?
          scanning,     \* is the loop of mncommand_ctx_getopt() under way?
          optind,       \* the global variable of getopt(3): the next word
          calls,        \* which words called which command
          values,       \* what each command's udata points to
          res,          \* what mncommand_ctx_getopt() returned, or Null
          help          \* what mncommand_ctx_format_help() wrote, or Null

vars == <<prog, commands, options, ngetopts, known, failed, scanning, optind, calls,
          values, res, help>>

\* struct option: for a command, and the zero one.
Option(cmd) == [name |-> cmd.longname, has_arg |-> cmd.has_arg, flag |-> Null]
Zero == [name |-> Null, has_arg |-> "no", flag |-> Null]

\* mncommand_ctx_init().
Init ==
    /\ prog \in Programs
    /\ commands = <<>> /\ options = <<>>
    /\ ngetopts = 0 /\ known = 0 /\ failed = FALSE
    /\ scanning = FALSE /\ optind = 1
    /\ calls = <<>> /\ values = <<>> /\ res = Null /\ help = Null

Moved(opts) ==
    [i \in DOMAIN opts |-> IF opts[i].flag = Null THEN opts[i] ELSE [opts[i] EXCEPT !.flag = Stale]]

\* mncommand_ctx_add_cmd().  To grow, an array may be moved.
AddCmd ==
    LET cmd == prog.cmds[Len(commands) + 1]
    IN  /\ ~scanning /\ Len(commands) < Len(prog.cmds)
        /\ commands' = Append(commands, cmd) /\ values' = Append(values, "default")
        /\ \E opts \in {options, Moved(options)} :
             \/ options' = Append(opts, Option(cmd)) /\ failed' = failed
             \/ MemoryFails /\ options' = opts /\ failed' = TRUE
        /\ known' = IF ngetopts = 0 THEN known + 1 ELSE known
        /\ UNCHANGED <<prog, ngetopts, scanning, optind, calls, res, help>>

\* Mutant: the pointers of options that have one already are left as they are.
FixupsOnce(opts) ==
    [i \in DOMAIN opts |-> IF i <= Len(commands) /\ opts[i].flag = Null
                           THEN [opts[i] EXCEPT !.flag = i] ELSE opts[i]]

\* The fixups of mncommand_ctx_getopt().
Fixups(opts) ==
    [i \in DOMAIN opts |-> IF i <= Len(commands) THEN [opts[i] EXCEPT !.flag = i] ELSE opts[i]]

\* Mutant: the zero option takes the place of the last one.
TerminatedOver(opts) == IF opts = <<>> THEN <<Zero>> ELSE [opts EXCEPT ![Len(opts)] = Zero]

Terminated(opts) == Append(opts, Zero)

\* mncommand_ctx_getopt(), up to the loop.  A program that wants the words to be
\* scanned again has set optind.
Getopt ==
    /\ ~scanning /\ ngetopts < MaxGetopts
    /\ options' = Terminated(Fixups(options))
    /\ ngetopts' = ngetopts + 1
    /\ scanning' = TRUE /\ optind' \in {optind, 1} /\ res' = Null
    /\ UNCHANGED <<prog, commands, known, failed, calls, values, help>>

\* The options that getopt_long() sees: those in front of the first zero one.
Visible == {i \in DOMAIN options : \A j \in 1 .. i : options[j].name # Null}

\* getopt_symbol(): any argument of a letter is a required one.
SymbolArg(cmd) == IF cmd.has_arg = "no" THEN "no" ELSE "required"

\* Mutant: of two commands with the same letter the last is found.
FindLast(ch) == LastWhere(commands, LAMBDA cmd : cmd.shortname = ch)

\* mncommand_ctx_find_cmd() without an index; also how getopt_long() looks up a
\* letter.
FindByVal(ch) == FirstWhere(commands, LAMBDA cmd : cmd.shortname = ch)

\* getopt_long() for one word: the index it found, in options or in the letters
\* that getopt_symbol() listed, and what kind of argument that has.
Match(word) ==
    IF word.form = "long"
      THEN LET i == FirstWhere(options, LAMBDA o : o.name = word.name)
           IN  IF i \in Visible THEN [i |-> i, has_arg |-> options[i].has_arg]
               ELSE [i |-> 0, has_arg |-> "no"]
      ELSE LET i == IF word.name \notin Letters THEN 0
                    ELSE FirstWhere(commands, LAMBDA cmd : cmd.shortname = word.name)
           IN  [i |-> i, has_arg |-> IF i = 0 THEN "no" ELSE SymbolArg(commands[i])]

\* Is there an error in what follows the option?
BadArg(word, has_arg) ==
    \/ has_arg = "no" /\ word.arg
    \/ has_arg = "required" /\ ~word.arg /\ optind = Len(prog.argv)

\* Mutant: an option without an argument clears a value of any kind.
OptionValueCleared(kind, arg, old) == IF arg # 0 THEN arg ELSE "none"

\* mncommand_option_int(), _uint(), _bytes() and _bool() without an argument set
\* a value of their own; _double() leaves it.
OptionValue(kind, arg, old) == IF arg # 0 THEN arg ELSE IF kind = "double" THEN old ELSE "none"

Return(value) == res' = value /\ scanning' = FALSE

\* One turn of the loop: getopt_long(), mncommand_ctx_find_cmd(), cmd->func().
\* An option is followed by its argument, in the same word or in the next.  For a
\* word that it refuses getopt_long() returns '?' without an index or an argument,
\* which is then looked up as the letter of a command.
Scan ==
    LET word == prog.argv[optind]
        m == Match(word)
        bad == m.i = 0 \/ BadArg(word, m.has_arg)
        cmd == IF bad THEN FindByVal("?")
               ELSE IF word.form = "long" THEN m.i ELSE FindByVal(word.name)
        next == m.has_arg = "required" /\ ~word.arg /\ optind < Len(prog.argv)
        arg == IF next THEN optind + 1 ELSE IF word.arg /\ ~bad THEN optind ELSE 0
    IN  /\ scanning /\ optind \in DOMAIN prog.argv /\ word.form # "plain"
        /\ optind' = optind + IF next THEN 2 ELSE 1
        /\ IF cmd = 0
             THEN Return("error") /\ UNCHANGED <<calls, values>>
             ELSE /\ calls' = Append(calls, [word |-> word, cmd |-> cmd, arg |-> arg, bad |-> bad,
                        flag |-> IF word.form = "long" /\ ~bad THEN options[m.i].flag ELSE cmd])
                  /\ IF commands[cmd].kind = "fails"
                       THEN Return("func") /\ UNCHANGED values
                       ELSE /\ values' = [values EXCEPT ![cmd] =
                                             OptionValue(commands[cmd].kind, arg, @)]
                            /\ UNCHANGED <<res, scanning>>
        /\ UNCHANGED <<prog, commands, options, ngetopts, known, failed, help>>

\* getopt_long() puts a word that is not an option behind the others.
Skip ==
    /\ scanning /\ optind \in DOMAIN prog.argv /\ prog.argv[optind].form = "plain"
    /\ optind' = optind + 1
    /\ UNCHANGED <<prog, commands, options, ngetopts, known, failed, scanning, calls,
                   values, res, help>>

\* All words are done: optind is returned.
Done ==
    /\ scanning /\ optind > Len(prog.argv)
    /\ Return("optind")
    /\ UNCHANGED <<prog, commands, options, ngetopts, known, failed, optind, calls,
                   values, help>>

-----------------------------------------------------------------------------
(* mncommand_ctx_format_help().                                            *)

Blank == " "
isspace(s, i) == i < Len(s) /\ s[i + 1] = Blank
isalnum(s, i) == i < Len(s) /\ s[i + 1] = "w"

\* Mutant: a line is never broken at a blank.
FindNcopyFull(s, nhead) == IF Len(s) - nhead < BufSz - 2 THEN Len(s) - nhead ELSE BufSz - 1

\* mncommand_find_ncopy(): what is left, or a line up to its last blank.
FindNcopy(s, nhead) ==
    LET ncopy == IF Len(s) - nhead < BufSz - 2 THEN Len(s) - nhead ELSE BufSz - 2
        blanks == {n \in 1 .. ncopy : isspace(s, nhead + n)}
    IN  IF ncopy = BufSz - 2 /\ blanks # {} THEN Max(blanks) ELSE ncopy

\* The lines of a description from nhead on: where each starts, how long it is,
\* and whether it ends with a dash.  A length that falls below zero wraps around.
HelpLines(s) ==
    LET skip(nhead) == CHOOSE k \in 0 .. Len(s) - nhead :
                          /\ ~isspace(s, nhead + k)
                          /\ \A j \in 0 .. k - 1 : isspace(s, nhead + j)
        lines[nhead \in 0 .. Len(s)] ==
            LET k == skip(nhead)
                n == FindNcopy(s, nhead) - k
                end == nhead + k + n
                dash == n > 0 /\ isalnum(s, end - 1) /\ isalnum(s, end)
            IN  IF FindNcopy(s, nhead) < k THEN <<Stale>>
                ELSE << [at |-> nhead + k, n |-> n, dash |-> dash] >>
                       \o (IF end < Len(s) THEN lines[end] ELSE <<>>)
    IN  lines[0]

FormatHelp ==
    /\ ~scanning /\ help = Null
    /\ help' = [i \in DOMAIN commands |-> IF commands[i].description = Null THEN <<>>
                                          ELSE HelpLines(commands[i].description)]
    /\ UNCHANGED <<prog, commands, options, ngetopts, known, failed, scanning, optind,
                   calls, values, res>>

Next == AddCmd \/ Getopt \/ Scan \/ Skip \/ Done \/ FormatHelp

Spec == Init /\ [][Next]_vars

-----------------------------------------------------------------------------
(* Properties.                                                             *)

\* While getopt_long() is at work, every option it sees is the copy of the command
\* with the same index, and points to the flag of that command where it is now:
\* the fixups see to that although the arrays are moved when they grow, and
\* although a call of mncommand_ctx_getopt() leaves a zero option in the middle.
OptionsMatchCommands ==
    scanning /\ ~failed =>
        \A i \in Visible : /\ i \in DOMAIN commands
                           /\ options[i] = [Option(commands[i]) EXCEPT !.flag = i]

\* mncommand_ctx_getopt() calls the command that the word names, the first one for
\* a letter, with an argument just as it was registered to have one.  A word that
\* getopt_long() refuses is handed to the first command of the letter '?', without
\* an argument.
DispatchAsNamed ==
    ~failed => \A n \in DOMAIN calls :
        LET c == calls[n]
            cmd == commands[c.cmd]
            letter == IF c.bad THEN "?" ELSE c.word.name
        IN  /\ IF c.word.form = "long" /\ ~c.bad THEN c.word.name = cmd.longname
               ELSE /\ cmd.shortname = letter
                    /\ \A j \in 1 .. c.cmd - 1 : commands[j].shortname # letter
            /\ c.flag = c.cmd
            /\ c.bad \/ cmd.has_arg = "no" => c.arg = 0
            /\ ~c.bad /\ cmd.has_arg = "required" => c.arg # 0

\* What a program finds after mncommand_ctx_getopt() is what the last word for an
\* option says; a floating point value also survives a word without argument.
LastWordWins ==
    \A i \in DOMAIN commands :
        LET mine == {n \in DOMAIN calls : /\ calls[n].cmd = i
                                          /\ commands[i].kind = "double" => calls[n].arg # 0}
        IN  commands[i].kind # "fails" =>
                values[i] = IF mine = {} THEN "default"
                            ELSE LET c == calls[Max(mine)] IN IF c.arg # 0 THEN c.arg ELSE "none"

\* The word has the argument that cmd wants.
ArgFits(word, has_arg) ==
    /\ word.arg => has_arg # "no"
    /\ has_arg = "required" /\ ~word.arg => optind < Len(prog.argv)

\* A word is refused: with an error, or by a call of the command for '?'.
Refused == res' = "error" \/ (calls' # calls /\ calls'[Len(calls')].bad)

\* mncommand_ctx_getopt() refuses no word that names a command in full, has the
\* argument that the first command of that name wants, and names one registered
\* before its first call.  (Long names that are registered later are behind the
\* zero option and not seen.)  A letter must be one that isalnum(3) is true of.
RefusesUnknown ==
    scanning /\ Refused /\ ~failed =>
        LET word == prog.argv[optind]
        IN  /\ word.form = "long" =>
                 LET i == FirstWhere(commands, LAMBDA cmd : cmd.longname = word.name)
                 IN  i \in 1 .. known => ~ArgFits(word, commands[i].has_arg)
            /\ word.form = "short" =>
                 LET i == FindByVal(word.name)
                 IN  i # 0 /\ word.name \in Letters => ~ArgFits(word, SymbolArg(commands[i]))

\* No step of mncommand_ctx_getopt() refuses a word that it should know.
KnownIsFound == [][RefusesUnknown]_vars

Printed(lines) == UNION {lines[l].at + 1 .. lines[l].at + lines[l].n : l \in DOMAIN lines}

\* mncommand_ctx_format_help() keeps within buf, with its dash and its NUL, writes
\* the words of a description in their order and each letter once, and puts a dash
\* just where it breaks a word, if no two blanks follow each other.
HelpKeepsText ==
    help # Null => \A i \in DOMAIN help :
        LET d == commands[i].description
            lines == help[i]
        IN  d # Null /\ (\A j \in 1 .. Len(d) - 1 : d[j] # Blank \/ d[j + 1] # Blank) =>
              /\ Stale \notin Range(lines)
              /\ \A l \in DOMAIN lines : lines[l].n + (IF lines[l].dash THEN 2 ELSE 1) <= BufSz
              /\ \A l \in 2 .. Len(lines) : lines[l - 1].at + lines[l - 1].n <= lines[l].at
              /\ \A j \in DOMAIN d : d[j] # Blank => j \in Printed(lines)
              /\ \A l \in 1 .. Len(lines) - 1 :
                   lines[l].dash = (d[lines[l].at + lines[l].n] = "w" /\ d[lines[l].at + lines[l].n + 1] = "w")
=============================================================================
