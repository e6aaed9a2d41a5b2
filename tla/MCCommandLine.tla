----------------------------- MODULE MCCommandLine -----------------------------
(* The argument lists, tokens and session name TLC looks at. *)
EXTENDS CommandLine, TLC

\* Tokens that are never typed byte by byte: names of the tables, options, commands
\* and what templates are made of.  Any two bytes will do for them.
Names == DOMAIN specialKeys \cup parsed
            \cup UNION {DOMAIN flagsOf(c) \cup DOMAIN valuedOf(c) : c \in parsed \cup {"tmux"}}
            \cup {"tmux", "-V", "new-session", "prefix",
                  "#{", "}", "pane_id", "session_name", "foo"}

\* ModifierPrefixes, characters at the ends of the ranges keys.go tests, and text.
MCSpelling ==
    "C-" :> <<67, 45>> @@ "c-" :> <<99, 45>> @@ "M-" :> <<77, 45>> @@ "m-" :> <<109, 45>>
    @@ "S-" :> <<83, 45>> @@ "s-" :> <<115, 45>>
    @@ "a" :> <<97>> @@ "z" :> <<122>> @@ "A" :> <<65>> @@ "Z" :> <<90>> @@ "@" :> <<64>>
    @@ "[" :> <<91>> @@ "grave" :> <<96>> @@ "{" :> <<123>> @@ "-" :> <<45>> @@ "e-acute" :> <<195, 169>>
    @@ "xy" :> <<120, 121>> @@ "-t" :> <<45, 116>> @@ "-l" :> <<45, 108>> @@ "--" :> <<45, 45>>
    @@ "Up" :> <<85, 112>>
    @@ [t \in Names |-> <<110, 110>>]

\* A session named like a variable.
MCSession == <<"#{", "pane_id", "}">>

One(tokens) == {<<t>> : t \in tokens}
Line(command, words) == <<<<command>>>> \o words

OptionWords(c) == One(DOMAIN flagsOf(c) \cup DOMAIN valuedOf(c) \cup {"--", "xy"})
                     \cup (IF c = "show-options" THEN {<<"prefix">>} ELSE {<<>>})

\* Fewer words in longer lists.
FewWords(c) == OptionWords(c) \ One({"-v", "--right", "--up", "--down", "-l"})

GlobalLines == BoundedSeq(One({"-L", "-S", "-f", "-V", "tmux", "list-panes"}) \cup {<<>>}, 4)

OptionLines ==
    UNION {{Line(c, w) : w \in BoundedSeq(OptionWords(c), 2) \cup BoundedSeq(FewWords(c), 4)} :
              c \in parsed \cup {"new-session"}}

Modifiers == BoundedSeq(ModifierPrefixes, 2) \cup {<<"S-", "c-", "M-">>, <<"m-", "C-", "m-">>}
Bases == One(DOMAIN specialKeys \cup {"a", "z", "A", "Z", "@", "[", "grave", "{", "-", "e-acute", "xy"})
            \cup {<<>>}

KeyLines ==
    {Line("send-keys", <<m \o b>>) : m \in Modifiers, b \in Bases}
    \cup {Line("send-keys", o \o k) :
             o \in {<<>>, <<<<"-l">>>>},
             k \in BoundedSeq({<<"Up">>, <<"C-", "a">>, <<"s-", "xy">>, <<"-t">>, <<>>}, 3)}

Templates == BoundedSeq({"#{", "}", "pane_id", "session_name", "foo"}, 5)

FormatLines ==
    {Line("display-message", <<<<"-p">>, t>>) : t \in Templates}
    \cup {Line("split-window", <<<<"-P">>, <<"-F">>, t>>) : t \in Templates}

MCCommandLines == GlobalLines \cup OptionLines \cup KeyLines \cup FormatLines

================================================================================
