------------------------------ MODULE CommandLine ------------------------------
(***************************************************************************)
(* One tmux process from its argument list to what it types or prints:     *)
(* Parse and the option parsers (internal/tmux/parser.go), the dispatch    *)
(* and the parts of the handlers that read options                         *)
(* (internal/tmux/commands.go), BuildSendKeysData (keys.go) and            *)
(* ExpandFormat (format.go).  One action is one turn of one of the loops.  *)
(*                                                                         *)
(* Words are sequences of tokens (KeyExpansion).  In a template the tokens *)
(* are "#{", "}", variable names and text.  What else a handler does with  *)
(* the terminal, the pane table and the agent is TmuxSession's subject.    *)
(***************************************************************************)
EXTENDS KeyExpansion

CONSTANTS CommandLines,  \* the argument lists to look at
          Session        \* SHIMUX_SESSION, a word

\* A process gets words whose bytes are known.
ASSUME WordsAssumption ==
    Session \in Seq(STRING) /\ CommandLines \subseteq Seq(Seq(DOMAIN Spelling))

VARIABLES
    args,     \* the whole argument list
    phase,    \* "parse", "options", "typing", "printing", "rejected" or "done"
    cmd,      \* whose options are parsed: "tmux" until the command is known
    rest,     \* what the current parser was given
    i,        \* its position, then the position in Keys or in the template
    opts,     \* the options struct
    typed,    \* bytes for the agent
    template, \* what ExpandFormat was given
    printed   \* what goes to stdout

vars == <<args, phase, cmd, rest, i, opts, typed, template, printed>>

-----------------------------------------------------------------------------
(* The parsers' grammar *)

direction(h, d) == [Horizontal |-> h, Direction |-> d]

\* Options without a value, and the fields they set.
flags ==
    Entry("split-window",    Entry("-h", direction(TRUE, "right"))
                          ++ Entry("-v", direction(FALSE, "down"))
                          ++ Entry("--left", direction(FALSE, "left"))
                          ++ Entry("--right", direction(TRUE, "right"))
                          ++ Entry("--up", direction(FALSE, "up"))
                          ++ Entry("--down", direction(FALSE, "down"))
                          ++ Entry("-P", [PrintAfter |-> TRUE]))
    ++ Entry("send-keys", Entry("-l", [Literal |-> TRUE]))
    ++ Entry("display-message", Entry("-p", [print |-> TRUE]))
    ++ Entry("show-options", Entry("-g", [Global |-> TRUE]))

\* Options of several parsers.
target == Entry("-t", "Target")
format == Entry("-F", "Format")

\* Options whose value is the next word, and the field it goes to.
valued ==
    Entry("tmux", Entry("-L", "SocketName") ++ Entry("-S", "SocketPath")
                     ++ Entry("-f", "ConfigFile"))
    ++ Entry("split-window", target ++ Entry("-l", "Size") ++ format)
    ++ Entry("send-keys", target)
    ++ Entry("select-pane", target ++ Entry("-P", "Style") ++ Entry("-T", "Title"))
    ++ Entry("has-session", target)
    ++ Entry("kill-pane", target)
    ++ Entry("list-panes", format ++ target)
    ++ Entry("display-message", target ++ format)

\* The field a word that is no option goes to; elsewhere it is passed over.
positional == Entry("display-message", "Format") ++ Entry("show-options", "Option")

\* Where the first word that is no option ends the options.
endsAtWord == {"tmux", "send-keys"}

\* The commands Execute parses options for.
parsed == (DOMAIN valued \cup DOMAIN flags) \ {"tmux"}

noWords == [t \in {} |-> <<>>]
flagsOf(c)  == IF c \in DOMAIN flags THEN flags[c] ELSE noWords
valuedOf(c) == IF c \in DOMAIN valued THEN valued[c] ELSE noWords

\* All fields of all options structs, before parsing.
noOptions ==
    [Direction |-> "down", Horizontal |-> FALSE, PrintAfter |-> FALSE, Literal |-> FALSE,
     print |-> FALSE, Global |-> FALSE, Keys |-> <<>>]
    ++ [f \in {"SocketName", "SocketPath", "ConfigFile", "Target", "Size", "Format",
               "Style", "Title", "Option"} |-> <<>>]

Init ==
    /\ args \in CommandLines
    /\ phase = "parse" /\ cmd = "tmux"
    /\ rest = args /\ i = 1
    /\ opts = noOptions
    /\ typed = <<>> /\ template = <<>> /\ printed = <<>>

-----------------------------------------------------------------------------
(* The parsing loop, common to all parsers *)

Parsing  == phase \in {"parse", "options"} /\ i <= Len(rest)
IsFlag   == In(rest[i], flagsOf(cmd))
IsValued == In(rest[i], valuedOf(cmd))

Rejected == /\ phase' = "rejected"
            /\ UNCHANGED <<args, cmd, rest, i, opts, typed, template, printed>>

TakeFlag ==
    /\ Parsing /\ IsFlag
    /\ opts' = flagsOf(cmd)[rest[i][1]] ++ opts
    /\ i' = i + 1
    /\ UNCHANGED <<args, phase, cmd, rest, typed, template, printed>>

\* Mutant of TakeValue: the value is looked at again, as an option.
TakeValueTwice ==
    /\ Parsing /\ IsValued
    /\ i < Len(rest)
    /\ opts' = [opts EXCEPT ![valuedOf(cmd)[rest[i][1]]] = rest[i + 1]]
    /\ i' = i + 1
    /\ UNCHANGED <<args, phase, cmd, rest, typed, template, printed>>

TakeValue ==
    /\ Parsing /\ IsValued
    /\ i < Len(rest)
    /\ opts' = [opts EXCEPT ![valuedOf(cmd)[rest[i][1]]] = rest[i + 1]]
    /\ i' = i + 2
    /\ UNCHANGED <<args, phase, cmd, rest, typed, template, printed>>

\* Mutant of MissingValue: an option at the end is passed over.
MissingValueIgnored ==
    /\ Parsing /\ IsValued
    /\ i = Len(rest)
    /\ i' = i + 1
    /\ UNCHANGED <<args, phase, cmd, rest, opts, typed, template, printed>>

MissingValue ==
    /\ Parsing /\ IsValued
    /\ i = Len(rest)
    /\ Rejected

\* A positional argument, or a word no case of the switch matches.
TakeWord ==
    /\ Parsing /\ ~IsFlag /\ ~IsValued
    /\ cmd \notin endsAtWord
    /\ opts' = IF cmd \in DOMAIN positional
               THEN [opts EXCEPT ![positional[cmd]] = rest[i]] ELSE opts
    /\ i' = i + 1
    /\ UNCHANGED <<args, phase, cmd, rest, typed, template, printed>>

-----------------------------------------------------------------------------
(* Parse and the dispatch of Execute *)

AtCommand == phase = "parse" /\ Parsing /\ ~IsValued

Version ==
    /\ AtCommand /\ rest[i] = <<"-V">>
    /\ phase' = "done"
    /\ printed' = <<"version">>
    /\ UNCHANGED <<args, cmd, rest, i, opts, typed, template>>

NoCommand ==
    /\ \/ phase = "parse" /\ i > Len(rest)
       \/ AtCommand /\ rest[i] = <<>>
    /\ Rejected

\* switch-client, new-session and commands that are not supported take no options.
CommandName ==
    /\ AtCommand /\ rest[i] \notin {<<>>, <<"-V">>}
    /\ cmd' = IF Len(rest[i]) = 1 THEN rest[i][1] ELSE "unsupported"
    /\ phase' = IF cmd' \in parsed THEN "options" ELSE "done"
    /\ rest' = SubSeq(rest, i + 1, Len(rest))
    /\ i' = 1
    /\ opts' = noOptions
    /\ UNCHANGED <<args, typed, template, printed>>

-----------------------------------------------------------------------------
(* The handlers, once the options are parsed *)

\* send-keys: what follows -- or begins with the first word that is no option.
KeyArguments ==
    /\ phase = "options" /\ cmd = "send-keys"
    /\ i <= Len(rest) => ~IsFlag /\ ~IsValued
    /\ phase' = "typing"
    /\ LET first == IF i <= Len(rest) /\ rest[i] = <<"--">> THEN i + 1 ELSE i
       IN  opts' = [opts EXCEPT !.Keys = SubSeq(rest, first, Len(rest))]
    /\ i' = 1
    /\ UNCHANGED <<args, cmd, rest, typed, template, printed>>

\* split-window -P, after a split that worked (left and up never do), and
\* display-message -p print.  Without -p, and for list-panes, whose table is
\* empty, nothing is expanded.
Handle ==
    /\ phase = "options" /\ cmd # "send-keys"
    /\ i > Len(rest)
    /\ \/ /\ cmd = "split-window" /\ opts.PrintAfter
          /\ opts.Direction \in {"right", "down"}
          /\ phase' = "printing"
          /\ template' = IF opts.Format = <<>> THEN <<"#{", "pane_id", "}">>
                         ELSE opts.Format
          /\ UNCHANGED printed
       \/ /\ cmd = "display-message" /\ opts.print
          /\ phase' = "printing"
          /\ template' = opts.Format
          /\ UNCHANGED printed
       \/ /\ cmd # "display-message" \/ ~opts.print
          /\ phase' = "done"
          /\ printed' = IF cmd = "show-options" /\ opts.Global /\ opts.Option = <<"prefix">>
                        THEN <<"prefix C-b">> ELSE <<>>
          /\ UNCHANGED template
    /\ i' = 1
    /\ UNCHANGED <<args, cmd, rest, opts, typed>>

\* One turn of BuildSendKeysData.
BuildSendKeysData ==
    /\ phase = "typing"
    /\ IF i <= Len(opts.Keys)
       THEN /\ typed' = typed \o (IF opts.Literal THEN Bytes(opts.Keys[i])
                                  ELSE ExpandSpecialKey(opts.Keys[i]))
            /\ i' = i + 1
            /\ UNCHANGED phase
       ELSE phase' = "done" /\ UNCHANGED <<typed, i>>
    /\ UNCHANGED <<args, cmd, rest, opts, template, printed>>

-----------------------------------------------------------------------------
(* ExpandFormat *)

\* The context of a pane registered just now, in a table that was empty, or of
\* display-message, which finds no active pane.
FormatContext ==
    LET split == cmd = "split-window"
        only(v) == IF split THEN v ELSE <<>>
    IN  [session_name |-> Session, session_id |-> only(<<"$0">>),
         window_index |-> only(<<"0">>), window_id |-> only(<<"@0">>),
         window_name |-> only(Session), pane_id |-> only(<<"%0">>),
         pane_index |-> only(<<"0">>), pane_pid |-> <<"0">>, pane_tty |-> <<>>,
         pane_current_path |-> <<>>, pane_width |-> <<"0">>, pane_height |-> <<"0">>,
         pane_active |-> IF split THEN <<"1">> ELSE <<"0">>]

lookupVar(name) ==
    IF In(name, FormatContext) THEN FormatContext[name[1]]
    ELSE <<"#{">> \o name \o <<"}">>

\* Positions of a token in the template, from k on.
Found(token, k) == {p \in k..Len(template) : template[p] = token}

\* Mutant of ExpandVariable: what a variable stands for is scanned again.
ExpandVariableAgain ==
    /\ phase = "printing" /\ Found("#{", i) # {}
    /\ LET idx == Min(Found("#{", i))
           end == Min(Found("}", idx))
       IN  /\ Found("}", idx) # {}
           /\ printed' = printed \o SubSeq(template, i, idx - 1)
           /\ LET value == lookupVar(SubSeq(template, idx + 1, end - 1))
              IN  template' = SubSeq(template, 1, end) \o value
                                 \o SubSeq(template, end + 1, Len(template))
           /\ i' = end + 1
    /\ UNCHANGED <<args, phase, cmd, rest, opts, typed>>

ExpandVariable ==
    /\ phase = "printing" /\ Found("#{", i) # {}
    /\ LET idx == Min(Found("#{", i))
           end == Min(Found("}", idx))
       IN  /\ Found("}", idx) # {}
           /\ printed' = printed \o SubSeq(template, i, idx - 1)
                            \o lookupVar(SubSeq(template, idx + 1, end - 1))
           /\ i' = end + 1
    /\ UNCHANGED <<args, phase, cmd, rest, opts, typed, template>>

\* No variable is left, or one that is not closed.
ExpandRest ==
    /\ phase = "printing"
    /\ Found("#{", i) # {} => Found("}", Min(Found("#{", i))) = {}
    /\ printed' = printed \o SubSeq(template, i, Len(template))
    /\ phase' = "done"
    /\ UNCHANGED <<args, cmd, rest, i, opts, typed, template>>

-----------------------------------------------------------------------------
(* Specification *)

Next == \/ TakeFlag \/ TakeValue \/ MissingValue \/ TakeWord
        \/ Version \/ NoCommand \/ CommandName
        \/ KeyArguments \/ Handle \/ BuildSendKeysData
        \/ ExpandVariable \/ ExpandRest

Spec == Init /\ [][Next]_vars

-----------------------------------------------------------------------------
(* What the loops compute, without a loop *)

\* The word at j is the value of the option before it: the options with a value
\* that stand directly before j, without a gap, are odd in number.
IsValue(c, w, j) ==
    LET v(k) == In(w[k], valuedOf(c))
    IN  \E n \in 1..(j - 1) : /\ n % 2 = 1
                              /\ \A k \in (j - n)..(j - 1) : v(k)
                              /\ j - n = 1 \/ ~v(j - n - 1)

\* Where the options end.
OptionsEnd(c, w) ==
    Min({Len(w) + 1} \cup
        {p \in 1..Len(w) : /\ c \in endsAtWord
                           /\ ~IsValue(c, w, p)
                           /\ ~In(w[p], flagsOf(c)) /\ ~In(w[p], valuedOf(c))})

\* The last option has no value.
ValueIsMissing(c, w) ==
    /\ w # <<>> /\ OptionsEnd(c, w) > Len(w)
    /\ In(w[Len(w)], valuedOf(c)) /\ ~IsValue(c, w, Len(w))

\* The word at p sets field f: as an option without or with a value, or by its place.
FlagSets(c, w, f, p)  == In(w[p], flagsOf(c)) /\ f \in DOMAIN flagsOf(c)[w[p][1]]
ValueSets(c, w, f, p) == In(w[p], valuedOf(c)) /\ valuedOf(c)[w[p][1]] = f
WordSets(c, w, f, p)  == /\ ~In(w[p], flagsOf(c)) /\ ~In(w[p], valuedOf(c))
                         /\ c \in DOMAIN positional /\ positional[c] = f

Setters(c, w, f, e) ==
    {p \in 1..(e - 1) : /\ ~IsValue(c, w, p)
                        /\ \/ FlagSets(c, w, f, p)
                           \/ ValueSets(c, w, f, p)
                           \/ WordSets(c, w, f, p)}

SetBy(c, w, f, p) ==
    IF FlagSets(c, w, f, p) THEN flagsOf(c)[w[p][1]][f]
    ELSE IF ValueSets(c, w, f, p) THEN w[p + 1]
    ELSE w[p]

\* The value of field f: what the last of the words before e that set it says.
SettingBefore(c, w, f, e) ==
    IF Setters(c, w, f, e) = {} THEN noOptions[f] ELSE SetBy(c, w, f, Max(Setters(c, w, f, e)))

Setting(c, w, f) == SettingBefore(c, w, f, OptionsEnd(c, w))

\* The command is the first word that is no global option, and its arguments.
Command   == OptionsEnd("tmux", args)
Arguments == SubSeq(args, Command + 1, Len(args))

NamesNoCommand == Command > Len(args) \/ args[Command] = <<>>

LacksValue ==
    /\ ~NamesNoCommand /\ Len(args[Command]) = 1 /\ args[Command][1] \in parsed
    /\ ValueIsMissing(args[Command][1], Arguments)

\* The template the options call for, and what its token at p becomes: a variable
\* is a known name between brackets, and the nearest bracket to its left, if any,
\* closes.
Given == IF cmd = "split-window" /\ opts.Format = <<>> THEN <<"#{", "pane_id", "}">>
         ELSE opts.Format

IsVariable(p) ==
    /\ p \in 1..(Len(Given) - 2)
    /\ Given[p] = "#{" /\ Given[p + 1] \in DOMAIN FormatContext /\ Given[p + 2] = "}"
    /\ LET q == SelectLastInSubSeq(Given, 1, p - 1, LAMBDA t : t \in {"#{", "}"})
       IN  q # 0 => Given[q] = "}"

Expansion(p) ==
    IF IsVariable(p) THEN FormatContext[Given[p + 1]]
    ELSE IF IsVariable(p - 1) \/ IsVariable(p - 2) THEN <<>>
    ELSE <<Given[p]>>

-----------------------------------------------------------------------------
(* Properties *)

HasOptions == phase \in {"typing", "printing", "done"} /\ cmd \in parsed

\* A command gets the options its arguments say, by any mix of options, values that
\* look like options, repetitions and words: the later setting of a field wins
\* (parser.go:109), a value is never taken for an option, and the keys of send-keys
\* are all that follows its options, a leading -- left out (parser.go:179).
OptionsAsGiven ==
    HasOptions =>
        /\ args[Command] = <<cmd>>
        /\ \A f \in DOMAIN noOptions \ {"Keys"} : opts[f] = Setting(cmd, Arguments, f)
        /\ cmd = "send-keys" =>
              LET e == OptionsEnd(cmd, Arguments)
                  dashes == e <= Len(Arguments) /\ Arguments[e] = <<"--">>
              IN  opts.Keys = SubSeq(Arguments, IF dashes THEN e + 1 ELSE e, Len(Arguments))

\* A command line is rejected when and only when it names no command or its last
\* option lacks its value, globally or for the command (parser.go:50, 138): an
\* option that is itself a value lacks none.
RejectedForCause ==
    /\ phase = "rejected" => NamesNoCommand \/ LacksValue
    /\ phase \in {"typing", "printing", "done"} => ~NamesNoCommand /\ ~LacksValue

\* send-keys types, key by key, what KeyBytes says or with -l the words themselves:
\* the two tables of keys.go agree with each other and with xterm's encoding for
\* every combination and order of modifiers.
KeysFollowXterm ==
    cmd = "send-keys" /\ phase \in {"typing", "done"} =>
        LET n == IF phase = "typing" THEN i - 1 ELSE Len(opts.Keys)
        IN  typed = FlattenSeq([k \in 1..n |-> IF opts.Literal THEN Bytes(opts.Keys[k])
                                               ELSE KeyBytes(opts.Keys[k])])

\* ExpandFormat replaces every variable once and leaves the rest of the template as
\* it is (format.go:27), brackets that do not match and unknown names included; a
\* value that looks like a variable is not expanded again.
FormatExpandedOnce ==
    phase = "printing" \/ template # <<>> =>
        LET n == IF phase = "printing" THEN i - 1 ELSE Len(Given)
        IN  printed = FlattenSeq([p \in 1..n |-> Expansion(p)])

================================================================================
