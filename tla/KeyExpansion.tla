----------------------------- MODULE KeyExpansion -----------------------------
(***************************************************************************)
(* internal/tmux/keys.go: from the name of a key to the bytes send-keys    *)
(* types.                                                                  *)
(*                                                                         *)
(* A word of the command line is a sequence of tokens.  The modifier       *)
(* prefixes a key name begins with are tokens of their own, and so is a    *)
(* name of the tables: C-Up is <<"C-", "Up">>, and a word without modifiers*)
(* is one token.  Spelling gives the bytes of a token.                     *)
(***************************************************************************)
EXTENDS Naturals, Sequences, SequencesExt

CONSTANT Spelling   \* token -> its bytes

ModifierPrefixes == {"C-", "c-", "M-", "m-", "S-", "s-"}

\* Single bytes are ASCII, so that Go's string(ch) is the byte itself.
ASSUME SpellingAssumption ==
    /\ ModifierPrefixes \subseteq DOMAIN Spelling
    /\ \A t \in DOMAIN Spelling :
          Spelling[t] \in Seq(0..255) /\ (Len(Spelling[t]) = 1 => Spelling[t][1] < 128)

Bytes(word) == FlattenSeq([k \in DOMAIN word |-> Spelling[word[k]]])

\* The word is a name of the table.
In(word, table) == Len(word) = 1 /\ word[1] \in DOMAIN table

\* A table with one entry, and the entries of f with those of g for other names.
Entry(k, v) == [x \in {k} |-> v]
f ++ g == [x \in DOMAIN f \cup DOMAIN g |-> IF x \in DOMAIN f THEN f[x] ELSE g[x]]

-----------------------------------------------------------------------------
(* The tables *)

ESC == 27
CSI(s) == <<ESC, 91>> \o s
SS3(s) == <<ESC, 79>> \o s

\* Consecutive characters, from the first on, each under its name.
Characters(first, names) ==
    [n \in ToSet(names) |-> <<first - 1 + (CHOOSE k \in DOMAIN names : names[k] = n)>>]

namedKeys ==
    [Enter |-> <<13>>, Escape |-> <<ESC>>, Tab |-> <<9>>, Space |-> <<32>>,
     BSpace |-> <<127>>, BTab |-> CSI(<<90>>),
     Up |-> CSI(<<65>>), Down |-> CSI(<<66>>), Right |-> CSI(<<67>>),
     Left |-> CSI(<<68>>), End |-> CSI(<<70>>), Home |-> CSI(<<72>>),
     IC |-> CSI(<<50, 126>>), Insert |-> CSI(<<50, 126>>),
     DC |-> CSI(<<51, 126>>), Delete |-> CSI(<<51, 126>>),
     PPage |-> CSI(<<53, 126>>), PageUp |-> CSI(<<53, 126>>), PgUp |-> CSI(<<53, 126>>),
     NPage |-> CSI(<<54, 126>>), PageDown |-> CSI(<<54, 126>>), PgDn |-> CSI(<<54, 126>>),
     F1 |-> SS3(<<80>>), F2 |-> SS3(<<81>>), F3 |-> SS3(<<82>>), F4 |-> SS3(<<83>>),
     F5 |-> CSI(<<49, 53, 126>>), F6 |-> CSI(<<49, 55, 126>>),
     F7 |-> CSI(<<49, 56, 126>>), F8 |-> CSI(<<49, 57, 126>>),
     F9 |-> CSI(<<50, 48, 126>>), F10 |-> CSI(<<50, 49, 126>>),
     F11 |-> CSI(<<50, 51, 126>>), F12 |-> CSI(<<50, 52, 126>>),
     KPEnter |-> <<13>>]

specialKeys ==
    namedKeys
    ++ Characters(0, <<"[NUL]", "[SOH]", "[STX]", "[ETX]", "[EOT]", "[ENQ]", "[ASC]",
                       "[BEL]", "[BS]">>)
    ++ Characters(10, <<"[LF]", "[VT]", "[FF]">>)
    ++ Characters(14, <<"[SO]", "[SI]", "[DLE]", "[DC1]", "[DC2]", "[DC3]", "[DC4]",
                        "[NAK]", "[SYN]", "[ETB]", "[CAN]", "[EM]", "[SUB]">>)
    ++ Characters(28, <<"[FS]", "[GS]", "[RS]", "[US]">>)
    ++ Characters(42, <<"KP*", "KP+">>)
    ++ Characters(45, <<"KP-", "KP.", "KP/", "KP0", "KP1", "KP2", "KP3", "KP4", "KP5",
                        "KP6", "KP7", "KP8", "KP9">>)

letter(l) == [paramStyle |-> "letter", num |-> <<49>>, final |-> l]
tilde(n)  == [paramStyle |-> "tilde", num |-> n, final |-> 126]

\* csi_letter and ss3_to_csi are built alike: the number is 1.
modifiableKeys ==
    [Up |-> letter(65), Down |-> letter(66), Right |-> letter(67), Left |-> letter(68),
     Home |-> letter(72), End |-> letter(70),
     IC |-> tilde(<<50>>), Insert |-> tilde(<<50>>), DC |-> tilde(<<51>>),
     Delete |-> tilde(<<51>>), PPage |-> tilde(<<53>>), PageUp |-> tilde(<<53>>),
     PgUp |-> tilde(<<53>>), NPage |-> tilde(<<54>>), PageDown |-> tilde(<<54>>),
     PgDn |-> tilde(<<54>>),
     F1 |-> letter(80), F2 |-> letter(81), F3 |-> letter(82), F4 |-> letter(83),
     F5 |-> tilde(<<49, 53>>), F6 |-> tilde(<<49, 55>>), F7 |-> tilde(<<49, 56>>),
     F8 |-> tilde(<<49, 57>>), F9 |-> tilde(<<50, 48>>), F10 |-> tilde(<<50, 49>>),
     F11 |-> tilde(<<50, 51>>), F12 |-> tilde(<<50, 52>>)]

-----------------------------------------------------------------------------
(* Expansion *)

parseModifiers(word) ==
    LET n == Max({k \in 0..Len(word) : \A j \in 1..k : word[j] \in ModifierPrefixes})
        given(ps) == \E j \in 1..n : word[j] \in ps
    IN  [ctrl |-> given({"C-", "c-"}), meta |-> given({"M-", "m-"}),
         shift |-> given({"S-", "s-"}), base |-> SubSeq(word, n + 1, Len(word))]

\* Mutant of xtermModParam: the weights of Meta and Ctrl change places.
xtermModParamSwapped(m) ==
    1 + (IF m.shift THEN 1 ELSE 0) + (IF m.meta THEN 4 ELSE 0) + (IF m.ctrl THEN 2 ELSE 0)

xtermModParam(m) ==
    1 + (IF m.shift THEN 1 ELSE 0) + (IF m.meta THEN 2 ELSE 0) + (IF m.ctrl THEN 4 ELSE 0)

buildModifiedSequence(info, modParam) ==
    CSI(info.num \o <<59, 48 + modParam, info.final>>)

\* The prefixes in their canonical order and case.
rebuildKeyName(m) ==
    Bytes((IF m.ctrl THEN <<"C-">> ELSE <<>>) \o (IF m.meta THEN <<"M-">> ELSE <<>>)
              \o (IF m.shift THEN <<"S-">> ELSE <<>>) \o m.base)

toUpper(ch) == IF ch \in 97..122 THEN ch - 97 + 65 ELSE ch

\* Shift, then Ctrl, applied to one character.
modifiedChar(m, char) ==
    LET ch == IF m.shift THEN toUpper(char) ELSE char
        upper == toUpper(ch)
    IN  IF ~m.ctrl THEN ch
        ELSE IF upper \in 65..90 THEN upper - 65 + 1
        ELSE IF upper = 64 THEN 0 ELSE ch

expandBaseKey(m) ==
    LET escaped(s) == IF m.meta THEN <<ESC>> \o s ELSE s
    IN  IF In(m.base, specialKeys) THEN escaped(specialKeys[m.base[1]])
        ELSE LET b == Bytes(m.base)
             IN  IF Len(b) = 1 THEN escaped(<<modifiedChar(m, b[1])>>)
                 ELSE rebuildKeyName(m)

ExpandSpecialKey(word) ==
    LET m == parseModifiers(word)
    IN  IF In(word, specialKeys) THEN specialKeys[word[1]]
        ELSE IF ~(m.ctrl \/ m.meta \/ m.shift) THEN Bytes(word)
        ELSE IF In(m.base, modifiableKeys)
             THEN buildModifiedSequence(modifiableKeys[m.base[1]], xtermModParam(m))
        ELSE expandBaseKey(m)

-----------------------------------------------------------------------------
(* What the expansion computes, without the modifiers' flags and their table *)

\* The modifier sets in the order of xterm's parameter, which counts from 1, and
\* their prefixes as tmux writes them.
XtermModifiers == <<{}, {"S"}, {"M"}, {"M", "S"}, {"C"}, {"C", "S"}, {"C", "M"},
                    {"C", "M", "S"}>>
CanonicalPrefixes == <<<<>>, <<"S-">>, <<"M-">>, <<"M-", "S-">>, <<"C-">>, <<"C-", "S-">>,
                       <<"C-", "M-">>, <<"C-", "M-", "S-">>>>
XtermParam(mods) == CHOOSE k \in 1..8 : XtermModifiers[k] = mods

\* The xterm sequence of a modified key is its plain one with the parameter put in
\* before the last byte.
XtermSequence(plain, mods) ==
    LET final == plain[Len(plain)]
        num   == IF final = 126 THEN SubSeq(plain, 3, Len(plain) - 1) ELSE <<49>>
    IN  CSI(num \o <<59, 48 + XtermParam(mods), final>>)

ModifierName(t) == CASE t \in {"C-", "c-"} -> "C" [] t \in {"M-", "m-"} -> "M"
                     [] t \in {"S-", "s-"} -> "S"

\* A key with a set of modifiers.  Ctrl keeps the low five bits of a letter or @,
\* Shift makes a letter upper case, Meta is an escape in front; a modifier without
\* such a meaning is dropped, and a name nobody knows is typed, its modifiers put
\* in order.
ModifiedKey(base, mods) ==
    LET meta(s) == IF "M" \in mods THEN <<ESC>> \o s ELSE s
        char(b) == IF "C" \in mods /\ b \in (64..90) \cup (97..122) THEN b % 32
                   ELSE IF "S" \in mods /\ b \in 97..122 THEN b - 32 ELSE b
    IN  IF In(base, modifiableKeys) /\ mods # {}
        THEN XtermSequence(specialKeys[base[1]], mods)
        ELSE IF In(base, specialKeys) THEN meta(specialKeys[base[1]])
        ELSE IF Len(Bytes(base)) = 1 THEN meta(<<char(Bytes(base)[1])>>)
        ELSE Bytes(CanonicalPrefixes[XtermParam(mods)] \o base)

\* The bytes for a key name: its prefixes are a set of modifiers, whatever their
\* order and number.
KeyBytes(w) ==
    LET first == SelectInSeq(w \o <<"">>, LAMBDA t : t \notin ModifierPrefixes)
    IN  ModifiedKey(SubSeq(w, first, Len(w)), {ModifierName(w[k]) : k \in 1..(first - 1)})

===============================================================================
