--------------------------- MODULE CommandLineProofs ---------------------------
(***************************************************************************)
(* Proofs about CommandLine: the loops of the parsers, of BuildSendKeysData*)
(* and of ExpandFormat compute what the definitions without a loop say.    *)
(***************************************************************************)
EXTENDS CommandLine, KeyExpansionProofs

-----------------------------------------------------------------------------
(* The grammar's tables *)

Fields == DOMAIN noOptions \ {"Keys"}

\* A table with one entry.
LEMMA EntryFacts ==
    \A k, v : DOMAIN Entry(k, v) = {k} /\ Entry(k, v)[k] = v
    BY DEF Entry

\* The fields, and what they are before parsing.
LEMMA NoOptionsFacts ==
    /\ Fields = {"Direction", "Horizontal", "PrintAfter", "Literal", "print", "Global",
                 "SocketName", "SocketPath", "ConfigFile", "Target", "Size", "Format",
                 "Style", "Title", "Option"}
    /\ DOMAIN noOptions = Fields \cup {"Keys"}
    /\ noOptions["Format"] = <<>> /\ noOptions["Keys"] = <<>>
    BY DEF noOptions, Fields, ++

\* The commands, and the options each of them has, without and with a value.
Commands == {"tmux", "split-window", "send-keys", "select-pane", "has-session",
             "kill-pane", "list-panes", "display-message", "show-options"}

FlagPairs ==
    ({"split-window"} \X {"-h", "-v", "--left", "--right", "--up", "--down", "-P"})
    \cup {<<"send-keys", "-l">>, <<"display-message", "-p">>, <<"show-options", "-g">>}

ValuedPairs ==
    ({"tmux"} \X {"-L", "-S", "-f"}) \cup ({"split-window"} \X {"-t", "-l", "-F"})
    \cup ({"send-keys"} \X {"-t"}) \cup ({"select-pane"} \X {"-t", "-P", "-T"})
    \cup ({"has-session", "kill-pane"} \X {"-t"})
    \cup ({"list-panes", "display-message"} \X {"-F", "-t"})

\* An option without a value sets fields of the struct, and the template is not one
\* of them.
LEMMA FlagsFacts ==
    /\ DOMAIN flags \subseteq Commands
    /\ \A c \in DOMAIN flags : \A x \in DOMAIN flags[c] :
          /\ <<c, x>> \in FlagPairs
          /\ DOMAIN flags[c][x] \subseteq Fields \ {"Format"}
<1> DEFINE sets(r) == DOMAIN r \subseteq Fields \ {"Format"}
           entries(c, t) == \A x \in DOMAIN t : <<c, x>> \in FlagPairs /\ sets(t[x])
           good(T) == \A c \in DOMAIN T : c \in Commands /\ entries(c, T[c])
<1>1. /\ \A h, d : sets(direction(h, d))
      /\ sets([PrintAfter |-> TRUE]) /\ sets([Literal |-> TRUE])
      /\ sets([print |-> TRUE]) /\ sets([Global |-> TRUE])
    BY NoOptionsFacts DEF direction
<1> HIDE DEF sets
<1>2. ASSUME NEW c, NEW t, NEW u, entries(c, t), entries(c, u)
      PROVE  entries(c, t ++ u)
    BY <1>2 DEF ++
<1>3. ASSUME NEW c, NEW x, NEW r, <<c, x>> \in FlagPairs, sets(r)
      PROVE  entries(c, Entry(x, r))
    BY <1>3 DEF Entry
<1> HIDE DEF entries
<1>4. ASSUME NEW T, NEW U, good(T), good(U)
      PROVE  good(T ++ U)
    BY <1>4 DEF ++
<1>5. ASSUME NEW c \in Commands, NEW t, entries(c, t)
      PROVE  good(Entry(c, t))
    BY <1>5 DEF Entry
<1> HIDE DEF good
<1> DEFINE pair(c, x) == <<c, x>> \in FlagPairs
<1>6. /\ pair("split-window", "-h") /\ pair("split-window", "-v")
      /\ pair("split-window", "--left") /\ pair("split-window", "--right")
      /\ pair("split-window", "--up") /\ pair("split-window", "--down")
      /\ pair("split-window", "-P") /\ pair("send-keys", "-l")
      /\ pair("display-message", "-p") /\ pair("show-options", "-g")
    BY DEF FlagPairs
<1>7. /\ "split-window" \in Commands /\ "send-keys" \in Commands
      /\ "display-message" \in Commands /\ "show-options" \in Commands
    BY DEF Commands
<1>8. good(flags)
    BY <1>1, <1>2, <1>3, <1>4, <1>5, <1>6, <1>7, Zenon DEF flags
<1> QED
    BY <1>8 DEF good, entries, sets

\* The value of an option goes to a field of the struct.
LEMMA ValuedFacts ==
    /\ DOMAIN valued \subseteq Commands
    /\ \A c \in DOMAIN valued : \A x \in DOMAIN valued[c] :
          <<c, x>> \in ValuedPairs /\ valued[c][x] \in Fields
<1> DEFINE entries(c, t) == \A x \in DOMAIN t : <<c, x>> \in ValuedPairs /\ t[x] \in Fields
           good(T) == \A c \in DOMAIN T : c \in Commands /\ entries(c, T[c])
<1>1. ASSUME NEW c, NEW t, NEW u, entries(c, t), entries(c, u)
      PROVE  entries(c, t ++ u)
    BY <1>1 DEF ++
<1>2. ASSUME NEW c, NEW x, NEW f, <<c, x>> \in ValuedPairs, f \in Fields
      PROVE  entries(c, Entry(x, f))
    BY <1>2 DEF Entry
<1> HIDE DEF entries
<1>3. ASSUME NEW T, NEW U, good(T), good(U)
      PROVE  good(T ++ U)
    BY <1>3 DEF ++
<1>4. ASSUME NEW c \in Commands, NEW t, entries(c, t)
      PROVE  good(Entry(c, t))
    BY <1>4 DEF Entry
<1> HIDE DEF good
<1>5. /\ entries("tmux", Entry("-L", "SocketName") ++ Entry("-S", "SocketPath")
                            ++ Entry("-f", "ConfigFile"))
      /\ entries("split-window", target ++ Entry("-l", "Size") ++ format)
      /\ entries("send-keys", target)
      /\ entries("select-pane", target ++ Entry("-P", "Style") ++ Entry("-T", "Title"))
      /\ entries("has-session", target)
      /\ entries("kill-pane", target)
      /\ entries("list-panes", format ++ target)
      /\ entries("display-message", target ++ format)
    <2> DEFINE pair(c, x) == <<c, x>> \in ValuedPairs
    <2>1. /\ pair("tmux", "-L") /\ pair("tmux", "-S") /\ pair("tmux", "-f")
          /\ pair("split-window", "-t") /\ pair("split-window", "-l")
          /\ pair("split-window", "-F") /\ pair("send-keys", "-t")
          /\ pair("select-pane", "-t") /\ pair("select-pane", "-P")
          /\ pair("select-pane", "-T") /\ pair("has-session", "-t")
          /\ pair("kill-pane", "-t") /\ pair("list-panes", "-F")
          /\ pair("list-panes", "-t") /\ pair("display-message", "-t")
          /\ pair("display-message", "-F")
        BY DEF ValuedPairs
    <2>2. /\ "SocketName" \in Fields /\ "SocketPath" \in Fields /\ "ConfigFile" \in Fields
          /\ "Target" \in Fields /\ "Size" \in Fields /\ "Format" \in Fields
          /\ "Style" \in Fields /\ "Title" \in Fields
        BY NoOptionsFacts
    <2> QED
        BY <1>1, <1>2, <2>1, <2>2, Zenon DEF target, format
<1>6. /\ "tmux" \in Commands /\ "split-window" \in Commands /\ "send-keys" \in Commands
      /\ "select-pane" \in Commands /\ "has-session" \in Commands
      /\ "kill-pane" \in Commands /\ "list-panes" \in Commands
      /\ "display-message" \in Commands
    BY DEF Commands
<1>7. good(valued)
    BY <1>3, <1>4, <1>5, <1>6, Zenon DEF valued
<1> QED
    BY <1>7 DEF good, entries

\* What the proofs need to know of the grammar: no option is of both kinds, and what
\* is set are fields of the struct.
LEMMA GrammarFacts ==
    ASSUME NEW c
    PROVE  /\ DOMAIN flagsOf(c) \cap DOMAIN valuedOf(c) = {}
           /\ \A x \in DOMAIN flagsOf(c) : DOMAIN flagsOf(c)[x] \subseteq Fields \ {"Format"}
           /\ \A x \in DOMAIN valuedOf(c) : valuedOf(c)[x] \in Fields
           /\ c \in DOMAIN positional => positional[c] \in Fields
<1>1. DOMAIN noWords = {}
    BY DEF noWords
<1>2. c \in DOMAIN positional => positional[c] \in Fields
    BY NoOptionsFacts, ZenonT(30) DEF positional, Entry, ++
<1>3. \A x \in DOMAIN flagsOf(c) : DOMAIN flagsOf(c)[x] \subseteq Fields \ {"Format"}
    BY <1>1, FlagsFacts DEF flagsOf
<1>4. \A x \in DOMAIN valuedOf(c) : valuedOf(c)[x] \in Fields
    BY <1>1, ValuedFacts DEF valuedOf
<1>5. \A x \in DOMAIN flagsOf(c) : <<c, x>> \in FlagPairs
    BY <1>1, FlagsFacts DEF flagsOf
<1>6. \A x \in DOMAIN valuedOf(c) : <<c, x>> \in ValuedPairs
    BY <1>1, ValuedFacts DEF valuedOf
<1>7. FlagPairs \cap ValuedPairs = {}
    BY DEF FlagPairs, ValuedPairs
<1>8. DOMAIN flagsOf(c) \cap DOMAIN valuedOf(c) = {}
    BY <1>5, <1>6, <1>7
<1> QED
    BY <1>2, <1>3, <1>4, <1>8

\* Names that are no command with options.
LEMMA NotParsed == parsed \cap {"tmux", "-V", "unsupported"} = {}
    BY FlagsFacts, ValuedFacts DEF parsed, Commands

-----------------------------------------------------------------------------
(* Values *)

\* The options with a value that stand directly before j are n in number.
Run(c, w, j, n) ==
    /\ n \in 0..(j - 1)
    /\ \A k \in (j - n)..(j - 1) : In(w[k], valuedOf(c))
    /\ j - n = 1 \/ ~In(w[j - n - 1], valuedOf(c))

LEMMA RunNext ==
    ASSUME NEW c, NEW w, NEW j \in Nat, j >= 1, NEW n, Run(c, w, j, n)
    PROVE  /\ In(w[j], valuedOf(c)) => Run(c, w, j + 1, n + 1)
           /\ ~In(w[j], valuedOf(c)) => Run(c, w, j + 1, 0)
<1>0. n \in 0..(j - 1)
    BY DEF Run
<1>1. ASSUME In(w[j], valuedOf(c))
      PROVE  Run(c, w, j + 1, n + 1)
    <2>1. n + 1 \in 0..((j + 1) - 1)
        BY <1>0
    <2>2. ASSUME NEW k \in ((j + 1) - (n + 1))..((j + 1) - 1)
          PROVE  In(w[k], valuedOf(c))
        <3>1. k = j \/ k \in (j - n)..(j - 1)
            BY <1>0
        <3> QED
            BY <1>1, <3>1 DEF Run
    <2>3. (j + 1) - (n + 1) = j - n /\ (j + 1) - (n + 1) - 1 = j - n - 1
        BY <1>0
    <2>4. (j + 1) - (n + 1) = 1 \/ ~In(w[(j + 1) - (n + 1) - 1], valuedOf(c))
        BY <2>3 DEF Run
    <2> QED
        BY <2>1, <2>2, <2>4 DEF Run
<1>2. ASSUME ~In(w[j], valuedOf(c))
      PROVE  Run(c, w, j + 1, 0)
    <2>1. 0 \in 0..((j + 1) - 1) /\ (j + 1) - 0 - 1 = j
        OBVIOUS
    <2>2. \A k \in ((j + 1) - 0)..((j + 1) - 1) : FALSE
        OBVIOUS
    <2> QED
        BY <1>2, <2>1, <2>2 DEF Run
<1> QED
    BY <1>1, <1>2

LEMMA RunExists ==
    ASSUME NEW c, NEW w
    PROVE  \A j \in Nat : j >= 1 => \E n : Run(c, w, j, n)
<1> DEFINE T == {d \in Nat : \E n : Run(c, w, d + 1, n)}
<1>1. 0 \in T
    <2>1. Run(c, w, 1, 0)
        <3>1. 0 \in 0..(1 - 1) /\ 1 - 0 = 1
            OBVIOUS
        <3>2. \A k \in (1 - 0)..(1 - 1) : FALSE
            OBVIOUS
        <3> QED
            BY <3>1, <3>2 DEF Run
    <2>2. 0 + 1 = 1
        OBVIOUS
    <2> QED
        BY <2>1, <2>2
<1>2. ASSUME NEW d \in Nat, d \in T
      PROVE  d + 1 \in T
    <2>1. PICK n : Run(c, w, d + 1, n)
        BY <1>2
    <2>2. d + 1 \in Nat /\ d + 1 >= 1
        OBVIOUS
    <2>3. Run(c, w, (d + 1) + 1, n + 1) \/ Run(c, w, (d + 1) + 1, 0)
        BY <2>1, <2>2, RunNext
    <2> QED
        BY <2>2, <2>3
<1> HIDE DEF T
<1>3. \A d \in Nat : d \in T
    BY <1>1, <1>2, NatSetInduction
<1> SUFFICES ASSUME NEW j \in Nat, j >= 1
             PROVE  \E n : Run(c, w, j, n)
    OBVIOUS
<1>4. j - 1 \in Nat /\ (j - 1) + 1 = j
    OBVIOUS
<1>5. j - 1 \in T
    BY <1>3, <1>4
<1> QED
    BY <1>4, <1>5 DEF T

LEMMA RunUnique ==
    ASSUME NEW c, NEW w, NEW j \in Nat, NEW n, NEW m, Run(c, w, j, n), Run(c, w, j, m)
    PROVE  n = m
<1>1. n \in 0..(j - 1) /\ m \in 0..(j - 1)
    BY DEF Run
<1>2. ASSUME NEW x \in 0..(j - 1), NEW y \in 0..(j - 1), x < y,
             Run(c, w, j, x), Run(c, w, j, y)
      PROVE  FALSE
    <2>1. j - x # 1 /\ j - x - 1 \in (j - y)..(j - 1)
        BY <1>2
    <2>2. ~In(w[j - x - 1], valuedOf(c))
        BY <1>2, <2>1 DEF Run
    <2>3. In(w[j - x - 1], valuedOf(c))
        BY <1>2, <2>1 DEF Run
    <2> QED
        BY <2>2, <2>3
<1> QED
    BY <1>1, <1>2

\* A word is a value when that number is odd.
LEMMA ValueByRun ==
    ASSUME NEW c, NEW w, NEW j \in Nat, j >= 1, NEW n, Run(c, w, j, n)
    PROVE  IsValue(c, w, j) <=> n % 2 = 1
<1>1. n \in 0..(j - 1)
    BY DEF Run
<1>2. ASSUME n % 2 = 1
      PROVE  IsValue(c, w, j)
    <2>1. n \in 1..(j - 1)
        BY <1>1, <1>2
    <2> QED
        BY <1>2, <2>1 DEF Run, IsValue
<1>3. ASSUME IsValue(c, w, j)
      PROVE  n % 2 = 1
    <2>1. PICK m \in 1..(j - 1) : /\ m % 2 = 1
                                  /\ \A k \in (j - m)..(j - 1) : In(w[k], valuedOf(c))
                                  /\ j - m = 1 \/ ~In(w[j - m - 1], valuedOf(c))
        BY <1>3 DEF IsValue
    <2>2. Run(c, w, j, m)
        BY <2>1 DEF Run
    <2>3. m = n
        BY <2>2, RunUnique
    <2> QED
        BY <2>1, <2>3
<1> QED
    BY <1>2, <1>3

\* The word after a word is its value if that is an option with a value and not
\* itself a value; the first word is none.
LEMMA ValueStep ==
    ASSUME NEW c, NEW w, NEW j \in Nat, j >= 1
    PROVE  /\ ~IsValue(c, w, 1)
           /\ IsValue(c, w, j + 1) <=> In(w[j], valuedOf(c)) /\ ~IsValue(c, w, j)
<1>1. ~IsValue(c, w, 1)
    BY DEF IsValue
<1>2. PICK n : Run(c, w, j, n)
    BY RunExists
<1>3. n \in Nat
    BY <1>2 DEF Run
<1>4. IsValue(c, w, j) <=> n % 2 = 1
    BY <1>2, ValueByRun
<1>5. j + 1 \in Nat /\ j + 1 >= 1
    OBVIOUS
<1>6. CASE In(w[j], valuedOf(c))
    <2>1. Run(c, w, j + 1, n + 1)
        BY <1>2, <1>6, RunNext
    <2>2. IsValue(c, w, j + 1) <=> (n + 1) % 2 = 1
        BY <1>5, <2>1, ValueByRun
    <2>3. (n + 1) % 2 = 1 <=> ~(n % 2 = 1)
        BY <1>3
    <2> QED
        BY <1>1, <1>4, <1>6, <2>2, <2>3
<1>7. CASE ~In(w[j], valuedOf(c))
    <2>1. Run(c, w, j + 1, 0)
        BY <1>2, <1>7, RunNext
    <2>2. IsValue(c, w, j + 1) <=> 0 % 2 = 1
        BY <1>5, <2>1, ValueByRun
    <2> QED
        BY <1>1, <1>7, <2>2
<1> QED
    BY <1>6, <1>7

-----------------------------------------------------------------------------
(* The parsing loop *)

\* A parser may be at position k: it is behind a value, if any, and what it passed
\* over, where the first word ends the options, was options and values.
Scanned(c, w, k) ==
    /\ k \in 1..(Len(w) + 1)
    /\ ~IsValue(c, w, k)
    /\ c \in endsAtWord =>
          \A p \in 1..(k - 1) : IsValue(c, w, p) \/ In(w[p], flagsOf(c)) \/ In(w[p], valuedOf(c))

LEMMA ScannedInit ==
    ASSUME NEW c, NEW S, NEW w \in Seq(S)
    PROVE  Scanned(c, w, 1)
<1>1. 1 \in 1..(Len(w) + 1) /\ \A p \in 1..(1 - 1) : FALSE
    OBVIOUS
<1>2. ~IsValue(c, w, 1)
    BY DEF IsValue
<1> QED
    BY <1>1, <1>2 DEF Scanned

\* Past an option without a value, or a word that does not end the options.
LEMMA ScannedWord ==
    ASSUME NEW c, NEW S, NEW w \in Seq(S), NEW k, Scanned(c, w, k), k <= Len(w),
           ~In(w[k], valuedOf(c)), In(w[k], flagsOf(c)) \/ c \notin endsAtWord
    PROVE  Scanned(c, w, k + 1)
<1>1. k \in Nat /\ k >= 1 /\ Len(w) \in Nat
    BY DEF Scanned
<1>2. k + 1 \in 1..(Len(w) + 1)
    BY <1>1
<1>3. ~IsValue(c, w, k + 1)
    BY <1>1, ValueStep
<1>4. ASSUME c \in endsAtWord, NEW p \in 1..((k + 1) - 1)
      PROVE  IsValue(c, w, p) \/ In(w[p], flagsOf(c)) \/ In(w[p], valuedOf(c))
    <2>1. p = k \/ p \in 1..(k - 1)
        BY <1>1
    <2> QED
        BY <1>4, <2>1 DEF Scanned
<1> QED
    BY <1>2, <1>3, <1>4 DEF Scanned

\* Past an option and its value.
LEMMA ScannedValue ==
    ASSUME NEW c, NEW S, NEW w \in Seq(S), NEW k, Scanned(c, w, k), k < Len(w),
           In(w[k], valuedOf(c))
    PROVE  Scanned(c, w, k + 2) /\ IsValue(c, w, k + 1)
<1>1. k \in Nat /\ k >= 1 /\ Len(w) \in Nat
    BY DEF Scanned
<1>2. k + 2 \in 1..(Len(w) + 1)
    BY <1>1
<1>3. IsValue(c, w, k + 1)
    BY <1>1, ValueStep DEF Scanned
<1>4. ~IsValue(c, w, k + 2)
    <2>1. k + 1 \in Nat /\ k + 1 >= 1 /\ (k + 1) + 1 = k + 2
        BY <1>1
    <2>2. IsValue(c, w, (k + 1) + 1) <=> In(w[k + 1], valuedOf(c)) /\ ~IsValue(c, w, k + 1)
        BY <2>1, ValueStep
    <2> QED
        BY <1>3, <2>1, <2>2
<1>5. ASSUME c \in endsAtWord, NEW p \in 1..((k + 2) - 1)
      PROVE  IsValue(c, w, p) \/ In(w[p], flagsOf(c)) \/ In(w[p], valuedOf(c))
    <2>1. p = k + 1 \/ p = k \/ p \in 1..(k - 1)
        BY <1>1
    <2> QED
        BY <1>3, <1>5, <2>1 DEF Scanned
<1> QED
    BY <1>2, <1>3, <1>4, <1>5 DEF Scanned

\* The options do not end before k.
LEMMA EndNotBefore ==
    ASSUME NEW c, NEW S, NEW w \in Seq(S), NEW k \in 1..(Len(w) + 1),
           c \in endsAtWord =>
               \A p \in 1..(k - 1) :
                  IsValue(c, w, p) \/ In(w[p], flagsOf(c)) \/ In(w[p], valuedOf(c))
    PROVE  OptionsEnd(c, w) \in k..(Len(w) + 1)
<1> DEFINE ends(p) == /\ c \in endsAtWord
                      /\ ~IsValue(c, w, p)
                      /\ ~In(w[p], flagsOf(c)) /\ ~In(w[p], valuedOf(c))
           T == {Len(w) + 1} \cup {p \in 1..Len(w) : ends(p)}
<1>1. Len(w) \in Nat
    OBVIOUS
<1>2. OptionsEnd(c, w) = Min(T)
    BY DEF OptionsEnd
<1>3. \A p \in 1..(k - 1) : ~ends(p)
    OBVIOUS
<1> HIDE DEF ends
<1>4. T \subseteq Nat /\ T # {}
    BY <1>1
<1>5. Min(T) \in T
    <2> HIDE DEF T
    <2> QED
        BY <1>4, MinFacts
<1>6. \A x \in T : x \in k..(Len(w) + 1)
    <2> SUFFICES ASSUME NEW x \in 1..Len(w), ends(x)
                 PROVE  x \in k..(Len(w) + 1)
        BY <1>1
    <2>1. x \notin 1..(k - 1)
        BY <1>3
    <2> QED
        BY <1>1, <2>1
<1> QED
    BY <1>2, <1>5, <1>6

\* They end at k.
LEMMA EndHere ==
    ASSUME NEW c, NEW S, NEW w \in Seq(S), NEW k, Scanned(c, w, k),
           k <= Len(w) => /\ c \in endsAtWord
                          /\ ~In(w[k], flagsOf(c)) /\ ~In(w[k], valuedOf(c))
    PROVE  OptionsEnd(c, w) = k
<1> DEFINE ends(p) == /\ c \in endsAtWord
                      /\ ~IsValue(c, w, p)
                      /\ ~In(w[p], flagsOf(c)) /\ ~In(w[p], valuedOf(c))
           T == {Len(w) + 1} \cup {p \in 1..Len(w) : ends(p)}
<1>1. Len(w) \in Nat /\ k \in 1..(Len(w) + 1)
    BY DEF Scanned
<1>2. OptionsEnd(c, w) = Min(T)
    BY DEF OptionsEnd
<1>3. OptionsEnd(c, w) \in k..(Len(w) + 1)
    BY <1>1, EndNotBefore DEF Scanned
<1>4. k <= Len(w) => ends(k)
    BY DEF Scanned
<1> HIDE DEF ends
<1>5. T \subseteq Nat /\ k \in T
    BY <1>1, <1>4
<1>6. Min(T) <= k
    <2> HIDE DEF T
    <2> QED
        BY <1>5, MinFacts
<1> QED
    BY <1>1, <1>2, <1>3, <1>6

\* Whoever reaches the end has all values.
LEMMA NothingMissing ==
    ASSUME NEW c, NEW S, NEW w \in Seq(S), Scanned(c, w, Len(w) + 1)
    PROVE  ~ValueIsMissing(c, w)
<1> SUFFICES ASSUME ValueIsMissing(c, w)
             PROVE  FALSE
    OBVIOUS
<1>1. In(w[Len(w)], valuedOf(c)) /\ ~IsValue(c, w, Len(w)) /\ w # <<>>
    BY DEF ValueIsMissing
<1>2. Len(w) \in Nat /\ Len(w) >= 1
    BY <1>1, EmptySeq
<1>3. IsValue(c, w, Len(w) + 1)
    BY <1>1, <1>2, ValueStep
<1> QED
    BY <1>3 DEF Scanned

-----------------------------------------------------------------------------
(* What is set *)

\* Before the first word nothing is set.
LEMMA SettingFirst ==
    ASSUME NEW c, NEW w, NEW f
    PROVE  SettingBefore(c, w, f, 1) = noOptions[f]
<1>1. Setters(c, w, f, 1) = {}
    BY DEF Setters
<1> QED
    BY <1>1 DEF SettingBefore

\* The word at p sets the field f.
Sets(c, w, f, p) ==
    /\ ~IsValue(c, w, p)
    /\ FlagSets(c, w, f, p) \/ ValueSets(c, w, f, p) \/ WordSets(c, w, f, p)

\* Behind one more word, a field has what that word says, or what it had.
LEMMA SettingNext ==
    ASSUME NEW c, NEW w, NEW f, NEW k \in Nat, k >= 1
    PROVE  SettingBefore(c, w, f, k + 1) =
               IF Sets(c, w, f, k) THEN SetBy(c, w, f, k) ELSE SettingBefore(c, w, f, k)
<1> DEFINE A == Setters(c, w, f, k)
           B == Setters(c, w, f, k + 1)
<1>1. A = {p \in 1..(k - 1) : Sets(c, w, f, p)} /\ B = {p \in 1..k : Sets(c, w, f, p)}
    <2>1. (k + 1) - 1 = k
        OBVIOUS
    <2> QED
        BY <2>1 DEF Setters, Sets
<1>2. CASE Sets(c, w, f, k)
    <2>1. k \in B /\ B \subseteq 0..k /\ B # {}
        BY <1>1, <1>2
    <2>2. Max(B) \in B /\ \A y \in B : Max(B) >= y
        <3> HIDE DEF B
        <3> QED
            BY <2>1, MaxFacts
    <2>3. Max(B) = k
        <3> HIDE DEF B
        <3>1. Max(B) \in 0..k /\ Max(B) >= k
            BY <2>1, <2>2, Zenon
        <3> QED
            BY <3>1
    <2> QED
        BY <1>2, <2>1, <2>3 DEF SettingBefore
<1>3. CASE ~Sets(c, w, f, k)
    <2>1. A = B
        <3>1. \A p : p \in 1..k <=> p = k \/ p \in 1..(k - 1)
            OBVIOUS
        <3> QED
            BY <1>1, <1>3, <3>1, Zenon
    <2> QED
        BY <1>3, <2>1, Zenon DEF SettingBefore
<1> QED
    BY <1>2, <1>3

Words == Seq(DOMAIN Spelling)

\* The struct o is what the words before k say.
ReadBefore(o, c, w, k) ==
    /\ DOMAIN o = DOMAIN noOptions
    /\ o["Format"] \in Words
    /\ \A f \in Fields : o[f] = SettingBefore(c, w, f, k)

LEMMA ReadFirst ==
    ASSUME NEW c, NEW w
    PROVE  ReadBefore(noOptions, c, w, 1)
<1>1. <<>> \in Words
    BY EmptySeq DEF Words
<1>2. noOptions["Format"] \in Words
    BY <1>1, NoOptionsFacts
<1> QED
    BY <1>2, SettingFirst DEF ReadBefore

LEMMA FlagTaken ==
    ASSUME NEW c, NEW w, NEW k \in Nat, k >= 1, NEW o, ReadBefore(o, c, w, k),
           ~IsValue(c, w, k), In(w[k], flagsOf(c))
    PROVE  ReadBefore(flagsOf(c)[w[k][1]] ++ o, c, w, k + 1)
<1> DEFINE r == flagsOf(c)[w[k][1]]
<1>1. w[k][1] \in DOMAIN flagsOf(c) /\ Len(w[k]) = 1
    BY DEF In
<1>2. DOMAIN r \subseteq Fields \ {"Format"}
    BY <1>1, GrammarFacts
<1>3. ~In(w[k], valuedOf(c))
    BY <1>1, GrammarFacts DEF In
<1>4. ASSUME NEW f \in Fields
      PROVE  (r ++ o)[f] = SettingBefore(c, w, f, k + 1)
    <2>1. SettingBefore(c, w, f, k + 1) =
               IF Sets(c, w, f, k) THEN SetBy(c, w, f, k) ELSE SettingBefore(c, w, f, k)
        BY SettingNext
    <2>2. Sets(c, w, f, k) <=> f \in DOMAIN r
        BY <1>3 DEF Sets, FlagSets, ValueSets, WordSets
    <2>3. f \in DOMAIN o /\ o[f] = SettingBefore(c, w, f, k)
        BY DEF ReadBefore, Fields
    <2>4. CASE f \in DOMAIN r
        <3>1. SetBy(c, w, f, k) = r[f]
            BY <2>4 DEF SetBy, FlagSets
        <3>2. (r ++ o)[f] = r[f]
            BY <2>4, TablesMerged, ZenonT(30)
        <3> QED
            BY <2>1, <2>2, <2>4, <3>1, <3>2
    <2>5. CASE f \notin DOMAIN r
        <3>1. (r ++ o)[f] = o[f]
            BY <2>3, <2>5 DEF ++
        <3> QED
            BY <2>1, <2>2, <2>3, <2>5, <3>1
    <2> QED
        BY <2>4, <2>5
<1>5. DOMAIN (r ++ o) = DOMAIN noOptions
    BY <1>2, TablesMerged DEF ReadBefore, Fields
<1>6. (r ++ o)["Format"] \in Words
    <2>1. "Format" \in DOMAIN o \ DOMAIN r
        BY <1>2, NoOptionsFacts DEF ReadBefore
    <2>2. (r ++ o)["Format"] = o["Format"]
        BY <2>1, ZenonT(30) DEF ++
    <2> QED
        BY <2>2 DEF ReadBefore
<1> QED
    BY <1>4, <1>5, <1>6 DEF ReadBefore

LEMMA ValueTaken ==
    ASSUME NEW c, NEW w, NEW k \in Nat, k >= 1, NEW o, ReadBefore(o, c, w, k),
           ~IsValue(c, w, k), IsValue(c, w, k + 1), In(w[k], valuedOf(c)), w[k + 1] \in Words
    PROVE  ReadBefore([o EXCEPT ![valuedOf(c)[w[k][1]]] = w[k + 1]], c, w, k + 2)
<1> DEFINE g == valuedOf(c)[w[k][1]]
           u == [o EXCEPT ![g] = w[k + 1]]
<1>1. w[k][1] \in DOMAIN valuedOf(c) /\ Len(w[k]) = 1
    BY DEF In
<1>2. g \in Fields /\ g \in DOMAIN o
    BY <1>1, GrammarFacts DEF ReadBefore, Fields
<1>3. ~In(w[k], flagsOf(c))
    BY <1>1, GrammarFacts DEF In
<1>4. ASSUME NEW f \in Fields
      PROVE  u[f] = SettingBefore(c, w, f, k + 2)
    <2>1. SettingBefore(c, w, f, k + 1) =
               IF Sets(c, w, f, k) THEN SetBy(c, w, f, k) ELSE SettingBefore(c, w, f, k)
        BY SettingNext
    <2>2. SettingBefore(c, w, f, k + 2) = SettingBefore(c, w, f, k + 1)
        <3>1. k + 1 \in Nat /\ k + 1 >= 1 /\ (k + 1) + 1 = k + 2
            OBVIOUS
        <3>2. ~Sets(c, w, f, k + 1)
            BY DEF Sets
        <3>3. SettingBefore(c, w, f, (k + 1) + 1) =
                 IF Sets(c, w, f, k + 1) THEN SetBy(c, w, f, k + 1)
                 ELSE SettingBefore(c, w, f, k + 1)
            BY <3>1, SettingNext
        <3> QED
            BY <3>1, <3>2, <3>3
    <2>3. Sets(c, w, f, k) <=> f = g
        BY <1>3 DEF Sets, FlagSets, ValueSets, WordSets
    <2>4. f = g => SetBy(c, w, f, k) = w[k + 1]
        BY <1>3 DEF SetBy, FlagSets, ValueSets
    <2>5. f \in DOMAIN o /\ o[f] = SettingBefore(c, w, f, k)
        BY DEF ReadBefore, Fields
    <2>6. u[f] = IF f = g THEN w[k + 1] ELSE o[f]
        BY <2>5
    <2> QED
        BY <2>1, <2>2, <2>3, <2>4, <2>5, <2>6, Zenon
<1>5. DOMAIN u = DOMAIN noOptions
    BY DEF ReadBefore
<1>6. u["Format"] \in Words
    <2>1. "Format" \in DOMAIN o
        BY NoOptionsFacts DEF ReadBefore
    <2> QED
        BY <2>1 DEF ReadBefore
<1> QED
    BY <1>4, <1>5, <1>6 DEF ReadBefore

LEMMA WordTaken ==
    ASSUME NEW c, NEW w, NEW k \in Nat, k >= 1, NEW o, ReadBefore(o, c, w, k),
           ~IsValue(c, w, k), ~In(w[k], flagsOf(c)), ~In(w[k], valuedOf(c)), w[k] \in Words
    PROVE  ReadBefore(IF c \in DOMAIN positional THEN [o EXCEPT ![positional[c]] = w[k]] ELSE o,
                      c, w, k + 1)
<1> DEFINE g == positional[c]
           u == IF c \in DOMAIN positional THEN [o EXCEPT ![g] = w[k]] ELSE o
<1>1. ASSUME NEW f \in Fields
      PROVE  u[f] = SettingBefore(c, w, f, k + 1)
    <2>1. SettingBefore(c, w, f, k + 1) =
               IF Sets(c, w, f, k) THEN SetBy(c, w, f, k) ELSE SettingBefore(c, w, f, k)
        BY SettingNext
    <2>2. Sets(c, w, f, k) <=> c \in DOMAIN positional /\ f = g
        BY DEF Sets, FlagSets, ValueSets, WordSets
    <2>3. SetBy(c, w, f, k) = w[k]
        BY DEF SetBy, FlagSets, ValueSets
    <2>4. f \in DOMAIN o /\ o[f] = SettingBefore(c, w, f, k)
        BY DEF ReadBefore, Fields
    <2>5. u[f] = IF c \in DOMAIN positional /\ f = g THEN w[k] ELSE o[f]
        BY <2>4
    <2> QED
        BY <2>1, <2>2, <2>3, <2>4, <2>5, Zenon
<1>2. DOMAIN u = DOMAIN noOptions
    BY DEF ReadBefore
<1>3. u["Format"] \in Words
    <2>1. "Format" \in DOMAIN o
        BY NoOptionsFacts DEF ReadBefore
    <2> QED
        BY <2>1 DEF ReadBefore
<1> QED
    BY <1>1, <1>2, <1>3 DEF ReadBefore

-----------------------------------------------------------------------------
(* The parsers' inductive invariant *)

\* send-keys: what follows its options.
KeysOf(w) ==
    LET e == OptionsEnd("send-keys", w)
        dashes == e <= Len(w) /\ w[e] = <<"--">>
    IN  SubSeq(w, IF dashes THEN e + 1 ELSE e, Len(w))

CommandKnown ==
    /\ cmd \in parsed
    /\ Command \in 1..Len(args) /\ args[Command] = <<cmd>>
    /\ rest = Arguments

\* Parsing has succeeded.
OptionsRead ==
    /\ CommandKnown
    /\ ~ValueIsMissing(cmd, rest)
    /\ ReadBefore(opts, cmd, rest, OptionsEnd(cmd, rest))

\* The command is one without options.
OtherCommand ==
    /\ ~NamesNoCommand
    /\ Len(args[Command]) = 1 => args[Command][1] \notin parsed

ParserType ==
    /\ args \in Seq(Words) /\ rest \in Seq(Words)
    /\ phase \in {"parse", "options", "typing", "printing", "rejected", "done"}

WhileParsing ==
    /\ phase = "parse" => cmd = "tmux" /\ rest = args /\ Scanned(cmd, rest, i)
    /\ phase = "options" => CommandKnown /\ Scanned(cmd, rest, i) /\ ReadBefore(opts, cmd, rest, i)

AfterParsing ==
    /\ phase \in {"typing", "printing"} => OptionsRead
    /\ phase = "done" => IF cmd \in parsed THEN OptionsRead ELSE OtherCommand
    /\ phase = "rejected" => NamesNoCommand \/ LacksValue

KeysRead ==
    /\ phase = "typing" => cmd = "send-keys"
    /\ phase = "printing" => cmd \in {"split-window", "display-message"}
    /\ phase \in {"typing", "done"} /\ cmd = "send-keys" => opts["Keys"] = KeysOf(rest)

ParserInv == ParserType /\ WhileParsing /\ AfterParsing /\ KeysRead

\* parsed and the global options.
LEMMA ParsedFacts ==
    /\ "send-keys" \in parsed
    /\ DOMAIN flagsOf("tmux") = {}
<1>1. "send-keys" \in DOMAIN valued
    <2> DEFINE has(T) == "send-keys" \in DOMAIN T
    <2>1. ASSUME NEW T, NEW U
          PROVE  has(T) \/ has(U) => has(T ++ U)
        BY TablesMerged
    <2>2. \A t : has(Entry("send-keys", t))
        BY DEF Entry
    <2> HIDE DEF has
    <2>3. has(valued)
        BY <2>1, <2>2, Zenon DEF valued
    <2> QED
        BY <2>3 DEF has
<1>2. \A x : <<"tmux", x>> \notin FlagPairs
    BY DEF FlagPairs
<1>3. DOMAIN flagsOf("tmux") = {}
    BY <1>2, FlagsFacts DEF flagsOf, noWords
<1> QED
    BY <1>1, <1>3 DEF parsed

\* The words of a process are words whose bytes are known.
LEMMA ParserInit == Init => ParserInv
<1> SUFFICES ASSUME Init
             PROVE  ParserInv
    OBVIOUS
<1>1. args \in Seq(Words) /\ rest = args /\ cmd = "tmux" /\ phase = "parse" /\ i = 1
    BY WordsAssumption DEF Init, Words
<1>2. Scanned(cmd, rest, i)
    BY <1>1, ScannedInit
<1> QED
    BY <1>1, <1>2 DEF ParserInv, ParserType, WhileParsing, AfterParsing, KeysRead

\* What is said of the argument list does not change.
LEMMA SameCommandLine ==
    ASSUME UNCHANGED args
    PROVE  /\ Command' = Command /\ Arguments' = Arguments
           /\ NamesNoCommand' <=> NamesNoCommand
           /\ LacksValue' <=> LacksValue
           /\ OtherCommand' <=> OtherCommand
    BY DEF Command, Arguments, NamesNoCommand, LacksValue, OtherCommand

LEMMA SameCommand ==
    ASSUME UNCHANGED <<args, cmd, rest>>
    PROVE  /\ CommandKnown' <=> CommandKnown
           /\ UNCHANGED opts => (OptionsRead' <=> OptionsRead)
<1>1. CommandKnown' <=> CommandKnown
    BY SameCommandLine DEF CommandKnown
<1> QED
    BY <1>1 DEF OptionsRead

\* One turn of a parsing loop.
LEMMA LoopTurn ==
    ASSUME ParserInv, phase \in {"parse", "options"}, UNCHANGED <<args, phase, cmd, rest>>,
           Scanned(cmd, rest, i'),
           phase = "options" => ReadBefore(opts', cmd, rest, i')
    PROVE  ParserInv'
<1>1. CommandKnown' <=> CommandKnown
    BY SameCommand
<1>2. ParserType'
    BY DEF ParserInv, ParserType
<1>3. WhileParsing'
    BY <1>1 DEF ParserInv, WhileParsing
<1>4. AfterParsing' /\ KeysRead'
    BY DEF AfterParsing, KeysRead
<1> QED
    BY <1>2, <1>3, <1>4 DEF ParserInv

LEMMA LoopFacts ==
    ASSUME ParserInv, Parsing
    PROVE  /\ rest \in Seq(Words) /\ args \in Seq(Words)
           /\ Scanned(cmd, rest, i) /\ ~IsValue(cmd, rest, i)
           /\ i \in Nat /\ i >= 1 /\ i <= Len(rest) /\ rest[i] \in Words
           /\ phase = "parse" => cmd = "tmux" /\ rest = args
           /\ phase = "options" => CommandKnown /\ ReadBefore(opts, cmd, rest, i)
<1>1. rest \in Seq(Words) /\ Scanned(cmd, rest, i) /\ i <= Len(rest)
    BY DEF ParserInv, ParserType, WhileParsing, Parsing
<1>2. ~IsValue(cmd, rest, i) /\ i \in Nat /\ i >= 1
    BY <1>1 DEF Scanned
<1>3. rest[i] \in Words
    BY <1>1, <1>2, ElementOfSeq
<1> QED
    BY <1>1, <1>2, <1>3 DEF ParserInv, ParserType, WhileParsing

LEMMA TakeFlagKeepsParser == ParserInv /\ TakeFlag => ParserInv'
<1> SUFFICES ASSUME ParserInv, TakeFlag
             PROVE  ParserInv'
    OBVIOUS
<1>1. /\ Parsing /\ In(rest[i], flagsOf(cmd))
      /\ opts' = flagsOf(cmd)[rest[i][1]] ++ opts /\ i' = i + 1
      /\ UNCHANGED <<args, phase, cmd, rest>>
    BY DEF TakeFlag, IsFlag
<1>2. ~In(rest[i], valuedOf(cmd))
    BY <1>1, GrammarFacts DEF In
<1>3. Scanned(cmd, rest, i')
    BY <1>1, <1>2, LoopFacts, ScannedWord
<1>4. phase = "options" => ReadBefore(opts', cmd, rest, i')
    BY <1>1, LoopFacts, FlagTaken
<1> QED
    BY <1>1, <1>3, <1>4, LoopTurn DEF Parsing

LEMMA TakeValueKeepsParser == ParserInv /\ TakeValue => ParserInv'
<1> SUFFICES ASSUME ParserInv, TakeValue
             PROVE  ParserInv'
    OBVIOUS
<1>1. /\ Parsing /\ In(rest[i], valuedOf(cmd)) /\ i < Len(rest)
      /\ opts' = [opts EXCEPT ![valuedOf(cmd)[rest[i][1]]] = rest[i + 1]] /\ i' = i + 2
      /\ UNCHANGED <<args, phase, cmd, rest>>
    BY DEF TakeValue, IsValued
<1>2. Scanned(cmd, rest, i') /\ IsValue(cmd, rest, i + 1)
    BY <1>1, LoopFacts, ScannedValue
<1>3. rest[i + 1] \in Words
    BY <1>1, LoopFacts, ElementOfSeq
<1>4. phase = "options" => ReadBefore(opts', cmd, rest, i')
    BY <1>1, <1>2, <1>3, LoopFacts, ValueTaken
<1> QED
    BY <1>1, <1>2, <1>4, LoopTurn DEF Parsing

LEMMA TakeWordKeepsParser == ParserInv /\ TakeWord => ParserInv'
<1> SUFFICES ASSUME ParserInv, TakeWord
             PROVE  ParserInv'
    OBVIOUS
<1>1. /\ Parsing /\ ~In(rest[i], flagsOf(cmd)) /\ ~In(rest[i], valuedOf(cmd))
      /\ cmd \notin endsAtWord
      /\ opts' = IF cmd \in DOMAIN positional
                 THEN [opts EXCEPT ![positional[cmd]] = rest[i]] ELSE opts
      /\ i' = i + 1 /\ UNCHANGED <<args, phase, cmd, rest>>
    BY DEF TakeWord, IsValued, IsFlag
<1>2. Scanned(cmd, rest, i')
    BY <1>1, LoopFacts, ScannedWord
<1>3. phase = "options" => ReadBefore(opts', cmd, rest, i')
    BY <1>1, LoopFacts, WordTaken
<1> QED
    BY <1>1, <1>2, <1>3, LoopTurn DEF Parsing

\* A process that is rejected is so for a cause.
LEMMA RejectedKeepsParser ==
    ASSUME ParserInv, Rejected, NamesNoCommand \/ LacksValue
    PROVE  ParserInv'
<1>1. phase' = "rejected" /\ UNCHANGED <<args, cmd, rest>>
    BY DEF Rejected
<1>2. NamesNoCommand' \/ LacksValue'
    BY <1>1, SameCommandLine
<1>3. ParserType'
    BY <1>1 DEF ParserInv, ParserType
<1>4. WhileParsing' /\ KeysRead'
    BY <1>1 DEF WhileParsing, KeysRead
<1>5. AfterParsing'
    BY <1>1, <1>2 DEF AfterParsing
<1> QED
    BY <1>3, <1>4, <1>5 DEF ParserInv

\* A known command is named.
LEMMA KnownIsNamed ==
    ASSUME args \in Seq(Words), CommandKnown
    PROVE  ~NamesNoCommand /\ Len(args[Command]) = 1 /\ args[Command][1] = cmd
<1>1. Command \in 1..Len(args) /\ args[Command] = <<cmd>> /\ Len(args) \in Nat
    BY DEF CommandKnown
<1>2. ~(Command > Len(args))
    BY <1>1
<1>3. <<cmd>> # <<>> /\ Len(<<cmd>>) = 1 /\ <<cmd>>[1] = cmd
    OBVIOUS
<1> QED
    BY <1>1, <1>2, <1>3, Zenon DEF NamesNoCommand

LEMMA MissingValueKeepsParser == ParserInv /\ MissingValue => ParserInv'
<1> SUFFICES ASSUME ParserInv, MissingValue
             PROVE  ParserInv'
    OBVIOUS
<1>1. Parsing /\ In(rest[i], valuedOf(cmd)) /\ i = Len(rest) /\ Rejected
    BY DEF MissingValue, IsValued
<1>2. /\ rest \in Seq(Words) /\ Scanned(cmd, rest, i) /\ ~IsValue(cmd, rest, i)
      /\ i \in Nat /\ i >= 1
    BY <1>1, LoopFacts
<1>3. OptionsEnd(cmd, rest) = Len(rest) + 1
    <2>1. i + 1 \in 1..(Len(rest) + 1) /\ (i + 1) - 1 = i
        BY <1>1, <1>2
    <2>2. ASSUME cmd \in endsAtWord, NEW p \in 1..((i + 1) - 1)
          PROVE  IsValue(cmd, rest, p) \/ In(rest[p], flagsOf(cmd)) \/ In(rest[p], valuedOf(cmd))
        <3>1. p = i \/ p \in 1..(i - 1)
            BY <1>2
        <3> QED
            BY <1>1, <1>2, <2>2, <3>1 DEF Scanned
    <2>3. OptionsEnd(cmd, rest) \in (i + 1)..(Len(rest) + 1)
        BY <1>2, <2>1, <2>2, EndNotBefore
    <2> QED
        BY <1>1, <1>2, <2>3
<1>4. CASE phase = "parse"
    <2>1. cmd = "tmux" /\ rest = args
        BY <1>1, <1>4, LoopFacts
    <2>2. NamesNoCommand
        BY <1>1, <1>2, <1>3, <2>1 DEF NamesNoCommand, Command
    <2> QED
        BY <1>1, <2>2, RejectedKeepsParser
<1>5. CASE phase = "options"
    <2>1. CommandKnown
        BY <1>1, <1>5, LoopFacts
    <2>2. rest # <<>>
        BY <1>1, <1>2
    <2>3. ValueIsMissing(cmd, rest)
        BY <1>1, <1>2, <1>3, <2>2 DEF ValueIsMissing
    <2>4. rest = Arguments /\ cmd \in parsed
        BY <2>1 DEF CommandKnown
    <2>5. LacksValue
        BY <2>1, <2>3, <2>4, KnownIsNamed DEF LacksValue, ParserInv, ParserType
    <2> QED
        BY <1>1, <2>5, RejectedKeepsParser
<1> QED
    BY <1>1, <1>4, <1>5 DEF Parsing

\* The parser of the global options stops at the command.
LEMMA CommandHere ==
    ASSUME ParserInv, AtCommand
    PROVE  /\ Parsing /\ rest = args /\ cmd = "tmux" /\ Command = i
           /\ i \in Nat /\ i >= 1 /\ i <= Len(args)
<1>1. Parsing /\ phase = "parse" /\ ~In(rest[i], valuedOf(cmd))
    BY DEF AtCommand, IsValued
<1>2. rest = args /\ cmd = "tmux" /\ rest \in Seq(Words) /\ Scanned(cmd, rest, i)
    BY <1>1, LoopFacts
<1>3. ~In(rest[i], flagsOf(cmd))
    BY <1>2, ParsedFacts DEF In
<1>4. cmd \in endsAtWord
    BY <1>2 DEF endsAtWord
<1>5. OptionsEnd(cmd, rest) = i
    BY <1>1, <1>2, <1>3, <1>4, EndHere
<1> QED
    BY <1>1, <1>2, <1>5, LoopFacts DEF Command

LEMMA VersionKeepsParser == ParserInv /\ Version => ParserInv'
<1> SUFFICES ASSUME ParserInv, Version
             PROVE  ParserInv'
    OBVIOUS
<1>1. AtCommand /\ rest[i] = <<"-V">> /\ phase' = "done" /\ UNCHANGED <<args, cmd, rest>>
    BY DEF Version
<1>2. rest = args /\ cmd = "tmux" /\ Command = i /\ i \in Nat /\ i <= Len(args)
    BY <1>1, CommandHere
<1>3. cmd \notin parsed /\ cmd # "send-keys"
    BY <1>2, NotParsed
<1>4. args \in Seq(Words)
    BY DEF ParserInv, ParserType
<1>5. OtherCommand
    <2>1. ~(Command > Len(args))
        BY <1>2, <1>4
    <2>2. args[Command] = <<"-V">> /\ <<"-V">> # <<>> /\ <<"-V">>[1] = "-V"
        BY <1>1, <1>2
    <2>3. "-V" \notin parsed
        BY NotParsed
    <2> QED
        BY <2>1, <2>2, <2>3 DEF OtherCommand, NamesNoCommand
<1>6. OtherCommand'
    BY <1>1, <1>5, SameCommandLine
<1>7. ParserType'
    BY <1>1 DEF ParserInv, ParserType
<1>8. WhileParsing' /\ KeysRead'
    BY <1>1, <1>3 DEF WhileParsing, KeysRead
<1>9. AfterParsing'
    BY <1>1, <1>3, <1>6 DEF AfterParsing
<1> QED
    BY <1>7, <1>8, <1>9 DEF ParserInv

LEMMA NoCommandKeepsParser == ParserInv /\ NoCommand => ParserInv'
<1> SUFFICES ASSUME ParserInv, NoCommand
             PROVE  ParserInv'
    OBVIOUS
<1>1. Rejected
    BY DEF NoCommand
<1>2. CASE phase = "parse" /\ i > Len(rest)
    <2>1. rest \in Seq(Words) /\ rest = args /\ cmd = "tmux" /\ Scanned(cmd, rest, i)
        BY <1>2 DEF ParserInv, ParserType, WhileParsing
    <2>2. Len(rest) \in Nat /\ i \in Nat
        BY <2>1 DEF Scanned
    <2>3. ~(i <= Len(rest))
        BY <1>2, <2>2
    <2>4. OptionsEnd(cmd, rest) = i
        BY <2>1, <2>3, EndHere
    <2> QED
        BY <1>1, <1>2, <2>1, <2>4, RejectedKeepsParser DEF NamesNoCommand, Command
<1>3. CASE AtCommand /\ rest[i] = <<>>
    BY <1>1, <1>3, CommandHere, RejectedKeepsParser DEF NamesNoCommand
<1> QED
    BY <1>2, <1>3 DEF NoCommand

\* A sequence of length 1 is a pair of brackets around its element.
LEMMA OneElement ==
    ASSUME NEW S, NEW s \in Seq(S), Len(s) = 1
    PROVE  s = <<s[1]>>
<1>1. s[1] \in S
    BY ElementOfSeq
<1>2. <<s[1]>> \in Seq(S) /\ Len(<<s[1]>>) = 1 /\ <<s[1]>>[1] = s[1]
    BY <1>1
<1>3. \A k \in 1..1 : k = 1
    OBVIOUS
<1> QED
    BY <1>2, <1>3, SeqEqual

LEMMA CommandNameKeepsParser == ParserInv /\ CommandName => ParserInv'
<1> SUFFICES ASSUME ParserInv, CommandName
             PROVE  ParserInv'
    OBVIOUS
<1>1. /\ AtCommand /\ rest[i] # <<>>
      /\ cmd' = IF Len(rest[i]) = 1 THEN rest[i][1] ELSE "unsupported"
      /\ phase' = IF cmd' \in parsed THEN "options" ELSE "done"
      /\ rest' = SubSeq(rest, i + 1, Len(rest))
      /\ i' = 1 /\ opts' = noOptions /\ UNCHANGED args
    BY DEF CommandName
<1>2. rest = args /\ Command = i /\ i \in Nat /\ i >= 1 /\ i <= Len(args) /\ rest[i] \in Words
    BY <1>1, CommandHere, LoopFacts
<1>3. rest' \in Seq(Words) /\ args \in Seq(Words)
    <2>1. args \in Seq(Words) /\ Len(args) \in Nat
        BY DEF ParserInv, ParserType
    <2>2. \A m \in (i + 1)..Len(args) : m \in 1..Len(args)
        BY <1>2, <2>1
    <2>3. SubSeq(args, i + 1, Len(args)) \in Seq(Words)
        BY <1>2, <2>1, <2>2, SubSeqProperties
    <2> QED
        BY <1>1, <1>2, <2>1, <2>3
<1>4. rest' = Arguments'
    BY <1>1, <1>2, SameCommandLine DEF Arguments
<1>5. ParserType'
    BY <1>1, <1>3 DEF ParserType
<1>6. CASE cmd' \in parsed
    <2>1. Len(rest[i]) = 1 /\ cmd' = rest[i][1]
        BY <1>1, <1>6, NotParsed
    <2>2. args[Command] = <<cmd'>>
        BY <1>2, <2>1, OneElement DEF Words
    <2>3. CommandKnown'
        <3>1. Command' = Command /\ args' = args /\ Command \in 1..Len(args)
            BY <1>1, <1>2, <1>3, SameCommandLine
        <3> QED
            BY <1>4, <1>6, <2>2, <3>1 DEF CommandKnown
    <2>4. Scanned(cmd', rest', 1)
        BY <1>3, ScannedInit
    <2>5. ReadBefore(noOptions, cmd', rest', 1)
        BY ReadFirst
    <2>6. WhileParsing'
        BY <1>1, <1>6, <2>3, <2>4, <2>5 DEF WhileParsing
    <2>7. AfterParsing' /\ KeysRead'
        BY <1>1, <1>6 DEF AfterParsing, KeysRead
    <2> QED
        BY <1>5, <2>6, <2>7 DEF ParserInv
<1>7. CASE cmd' \notin parsed
    <2>1. ~(Command > Len(args)) /\ args[Command] # <<>>
        BY <1>1, <1>2, <1>3
    <2>2. Len(args[Command]) = 1 => args[Command][1] \notin parsed
        BY <1>1, <1>2, <1>7
    <2>3. OtherCommand'
        BY <1>1, <2>1, <2>2, SameCommandLine DEF OtherCommand, NamesNoCommand
    <2>4. cmd' # "send-keys"
        BY <1>7, ParsedFacts
    <2>5. WhileParsing' /\ KeysRead'
        BY <1>1, <1>7, <2>4 DEF WhileParsing, KeysRead
    <2>6. AfterParsing'
        BY <1>1, <1>7, <2>3 DEF AfterParsing
    <2> QED
        BY <1>5, <2>5, <2>6 DEF ParserInv
<1> QED
    BY <1>6, <1>7

\* The parser of the options stops where they end, and none lacks its value.
LEMMA OptionsOver ==
    ASSUME ParserInv, phase = "options",
           i <= Len(rest) => /\ cmd \in endsAtWord
                             /\ ~In(rest[i], flagsOf(cmd)) /\ ~In(rest[i], valuedOf(cmd))
    PROVE  OptionsEnd(cmd, rest) = i /\ i \in Nat /\ OptionsRead
<1>1. /\ rest \in Seq(Words) /\ CommandKnown
      /\ Scanned(cmd, rest, i) /\ ReadBefore(opts, cmd, rest, i)
    BY DEF ParserInv, ParserType, WhileParsing
<1>2. OptionsEnd(cmd, rest) = i
    BY <1>1, EndHere
<1>3. i \in 1..(Len(rest) + 1) /\ Len(rest) \in Nat
    BY <1>1 DEF Scanned
<1>4. ~ValueIsMissing(cmd, rest)
    <2>1. CASE i = Len(rest) + 1
        BY <1>1, <2>1, NothingMissing
    <2>2. CASE i # Len(rest) + 1
        <3>1. ~(OptionsEnd(cmd, rest) > Len(rest))
            BY <1>2, <1>3, <2>2
        <3> QED
            BY <3>1 DEF ValueIsMissing
    <2> QED
        BY <2>1, <2>2
<1> QED
    BY <1>1, <1>2, <1>3, <1>4 DEF OptionsRead

LEMMA KeyArgumentsKeepsParser == ParserInv /\ KeyArguments => ParserInv'
<1> SUFFICES ASSUME ParserInv, KeyArguments
             PROVE  ParserInv'
    OBVIOUS
<1> DEFINE first == IF i <= Len(rest) /\ rest[i] = <<"--">> THEN i + 1 ELSE i
           keys == SubSeq(rest, first, Len(rest))
<1>1. /\ phase = "options" /\ cmd = "send-keys"
      /\ i <= Len(rest) => ~In(rest[i], flagsOf(cmd)) /\ ~In(rest[i], valuedOf(cmd))
      /\ phase' = "typing" /\ opts' = [opts EXCEPT !["Keys"] = keys]
      /\ UNCHANGED <<args, cmd, rest>>
    BY DEF KeyArguments, IsFlag, IsValued
<1>2. cmd \in endsAtWord
    BY <1>1 DEF endsAtWord
<1>3. OptionsEnd(cmd, rest) = i /\ OptionsRead
    BY <1>1, <1>2, OptionsOver
<1>4. keys = KeysOf(rest)
    BY <1>1, <1>3 DEF KeysOf
<1> HIDE DEF keys
<1>5. ReadBefore(opts, cmd, rest, i) /\ CommandKnown /\ ~ValueIsMissing(cmd, rest)
    BY <1>3 DEF OptionsRead
<1>6. ReadBefore(opts', cmd, rest, i)
    <2>1. DOMAIN opts = DOMAIN noOptions /\ DOMAIN opts' = DOMAIN opts
        BY <1>1, <1>5 DEF ReadBefore
    <2>2. ASSUME NEW f \in Fields
          PROVE  opts'[f] = opts[f]
        BY <1>1, <2>1 DEF Fields
    <2>3. "Format" \in Fields
        BY NoOptionsFacts
    <2> QED
        BY <1>5, <2>1, <2>2, <2>3 DEF ReadBefore
<1>7. opts'["Keys"] = keys
    <2>1. "Keys" \in DOMAIN opts
        BY <1>5, NoOptionsFacts DEF ReadBefore
    <2> QED
        BY <1>1, <2>1
<1>8. OptionsRead'
    <2>1. CommandKnown'
        BY <1>1, <1>5, SameCommand
    <2> QED
        BY <1>1, <1>3, <1>5, <1>6, <2>1 DEF OptionsRead
<1>9. ParserType' /\ WhileParsing' /\ AfterParsing'
    BY <1>1, <1>8 DEF ParserInv, ParserType, WhileParsing, AfterParsing
<1>10. KeysRead'
    BY <1>1, <1>4, <1>7 DEF KeysRead
<1> QED
    BY <1>9, <1>10 DEF ParserInv

LEMMA HandleKeepsParser == ParserInv /\ Handle => ParserInv'
<1> SUFFICES ASSUME ParserInv, Handle
             PROVE  ParserInv'
    OBVIOUS
<1>1. /\ phase = "options" /\ cmd # "send-keys" /\ i > Len(rest)
      /\ UNCHANGED <<args, cmd, rest, opts>>
      /\ phase' \in {"printing", "done"}
      /\ phase' = "printing" => cmd \in {"split-window", "display-message"}
    BY DEF Handle
<1>2. ~(i <= Len(rest))
    BY <1>1 DEF ParserInv, ParserType, WhileParsing, Scanned
<1>3. OptionsRead /\ cmd \in parsed
    BY <1>1, <1>2, OptionsOver DEF OptionsRead, CommandKnown
<1>4. OptionsRead'
    BY <1>1, <1>3, SameCommand
<1>5. ParserType' /\ WhileParsing' /\ AfterParsing' /\ KeysRead'
    BY <1>1, <1>3, <1>4 DEF ParserInv, ParserType, WhileParsing, AfterParsing, KeysRead
<1> QED
    BY <1>5 DEF ParserInv

\* Once the options are read, they stay.
LEMMA LaterKeepsParser ==
    ASSUME ParserInv, phase \in {"typing", "printing"}, phase' \in {phase, "done"},
           UNCHANGED <<args, cmd, rest, opts>>
    PROVE  ParserInv'
<1>1. OptionsRead' /\ cmd \in parsed
    BY SameCommand DEF ParserInv, AfterParsing, OptionsRead, CommandKnown
<1>2. ParserType' /\ WhileParsing' /\ AfterParsing'
    BY <1>1 DEF ParserInv, ParserType, WhileParsing, AfterParsing
<1>3. KeysRead'
    BY DEF ParserInv, KeysRead
<1> QED
    BY <1>2, <1>3 DEF ParserInv

LEMMA StutterKeepsParser == ParserInv /\ UNCHANGED vars => ParserInv'
<1> SUFFICES ASSUME ParserInv, UNCHANGED vars
             PROVE  ParserInv'
    OBVIOUS
<1>1. UNCHANGED <<args, phase, cmd, rest, i, opts>>
    BY DEF vars
<1>2. /\ CommandKnown' <=> CommandKnown
      /\ OptionsRead' <=> OptionsRead
      /\ OtherCommand' <=> OtherCommand
      /\ NamesNoCommand' <=> NamesNoCommand
      /\ LacksValue' <=> LacksValue
    BY <1>1, SameCommand, SameCommandLine
<1> QED
    BY <1>1, <1>2 DEF ParserInv, ParserType, WhileParsing, AfterParsing, KeysRead

LEMMA ParserStep == ParserInv /\ [Next]_vars => ParserInv'
<1> SUFFICES ASSUME ParserInv, [Next]_vars
             PROVE  ParserInv'
    OBVIOUS
<1>1. CASE BuildSendKeysData
    <2>1. /\ phase = "typing" /\ phase' \in {phase, "done"}
          /\ UNCHANGED <<args, cmd, rest, opts>>
        BY <1>1 DEF BuildSendKeysData
    <2> QED
        BY <2>1, LaterKeepsParser
<1>2. CASE ExpandVariable
    <2>1. phase = "printing" /\ phase' = phase /\ UNCHANGED <<args, cmd, rest, opts>>
        BY <1>2 DEF ExpandVariable
    <2> QED
        BY <2>1, LaterKeepsParser
<1>3. CASE ExpandRest
    <2>1. phase = "printing" /\ phase' = "done" /\ UNCHANGED <<args, cmd, rest, opts>>
        BY <1>3 DEF ExpandRest
    <2> QED
        BY <2>1, LaterKeepsParser
<1> QED
    BY <1>1, <1>2, <1>3, TakeFlagKeepsParser, TakeValueKeepsParser, TakeWordKeepsParser,
       MissingValueKeepsParser, VersionKeepsParser, NoCommandKeepsParser,
       CommandNameKeepsParser, KeyArgumentsKeepsParser, HandleKeepsParser,
       StutterKeepsParser DEF Next

LEMMA ParserInvariant == Spec => []ParserInv
    BY ParserInit, ParserStep, PTL DEF Spec

\* The parsers give every command the options its arguments say, whatever the argument
\* list: the scan with a look-ahead of one word (parser.go:109) computes what the
\* definition of a value by the number of options before it says.
THEOREM OptionsFollowArguments == Spec => []OptionsAsGiven
<1>1. ParserInv => OptionsAsGiven
    <2> SUFFICES ASSUME ParserInv, HasOptions
                 PROVE  /\ args[Command] = <<cmd>>
                        /\ \A f \in DOMAIN noOptions \ {"Keys"} :
                              opts[f] = Setting(cmd, Arguments, f)
                        /\ cmd = "send-keys" => opts["Keys"] = KeysOf(Arguments)
        BY DEF OptionsAsGiven, KeysOf
    <2>1. OptionsRead
        BY DEF HasOptions, ParserInv, AfterParsing
    <2>2. CommandKnown /\ rest = Arguments /\ args[Command] = <<cmd>>
        BY <2>1 DEF OptionsRead, CommandKnown
    <2>3. \A f \in Fields : opts[f] = Setting(cmd, rest, f)
        BY <2>1 DEF OptionsRead, ReadBefore, Setting
    <2>4. cmd = "send-keys" => opts["Keys"] = KeysOf(rest)
        BY DEF ParserInv, KeysRead, HasOptions
    <2> QED
        BY <2>2, <2>3, <2>4 DEF Fields
<1> QED
    BY <1>1, ParserInvariant, PTL

\* A command line is rejected when and only when it names no command or an option
\* lacks its value (parser.go:50, 138), whatever the argument list.
THEOREM RejectionHasCause == Spec => []RejectedForCause
<1>1. ParserInv => RejectedForCause
    <2> SUFFICES ASSUME ParserInv, phase \in {"typing", "printing", "done"}
                 PROVE  ~NamesNoCommand /\ ~LacksValue
        BY DEF RejectedForCause, ParserInv, AfterParsing
    <2>1. OptionsRead \/ OtherCommand
        BY DEF ParserInv, AfterParsing
    <2>2. CASE OptionsRead
        <3>1. CommandKnown /\ ~ValueIsMissing(cmd, Arguments)
            BY <2>2 DEF OptionsRead, CommandKnown
        <3>2. ~NamesNoCommand /\ args[Command][1] = cmd
            BY <3>1, KnownIsNamed DEF ParserInv, ParserType
        <3> QED
            BY <3>1, <3>2 DEF LacksValue
    <2>3. CASE OtherCommand
        BY <2>3 DEF OtherCommand, LacksValue
    <2> QED
        BY <2>1, <2>2, <2>3
<1> QED
    BY <1>1, ParserInvariant, PTL

-----------------------------------------------------------------------------
(* BuildSendKeysData *)

\* What each key is typed as.
KeyEffects(o) ==
    [k \in 1..Len(o["Keys"]) |-> IF o["Literal"] THEN Bytes(o["Keys"][k])
                                 ELSE KeyBytes(o["Keys"][k])]

TypingInv ==
    /\ phase \in {"parse", "options"} => typed = <<>>
    /\ phase = "typing" => /\ i \in 1..(Len(opts["Keys"]) + 1)
                           /\ typed = FlattenTo(KeyEffects(opts), i - 1)
    /\ phase = "done" /\ cmd = "send-keys" =>
          typed = FlattenTo(KeyEffects(opts), Len(opts["Keys"]))

\* The keys are words.
LEMMA KeysOfType ==
    ASSUME NEW w \in Seq(Words)
    PROVE  KeysOf(w) \in Seq(Words)
<1> DEFINE e == OptionsEnd("send-keys", w)
           a == IF e <= Len(w) /\ w[e] = <<"--">> THEN e + 1 ELSE e
<1>1. Len(w) \in Nat /\ 1 \in 1..(Len(w) + 1)
    OBVIOUS
<1>2. \A p \in 1..(1 - 1) : FALSE
    OBVIOUS
<1>3. e \in 1..(Len(w) + 1)
    BY <1>1, <1>2, EndNotBefore
<1> HIDE DEF e
<1>4. a \in Nat /\ a >= 1
    BY <1>1, <1>3
<1> HIDE DEF a
<1>5. \A m \in a..Len(w) : m \in 1..Len(w)
    BY <1>1, <1>4
<1>6. SubSeq(w, a, Len(w)) \in Seq(Words)
    BY <1>1, <1>4, <1>5, SubSeqProperties
<1> QED
    BY <1>6 DEF KeysOf, a, e

LEMMA KeysAreWords ==
    ASSUME ParserInv, phase \in {"typing", "done"}, cmd = "send-keys"
    PROVE  opts["Keys"] \in Seq(Words)
<1>1. opts["Keys"] = KeysOf(rest) /\ rest \in Seq(Words)
    BY DEF ParserInv, ParserType, KeysRead
<1> QED
    BY <1>1, KeysOfType

LEMMA KeyEffectsType ==
    ASSUME NEW o, o["Keys"] \in Seq(Words)
    PROVE  KeyEffects(o) \in Seq(Seq(Nat)) /\ Len(KeyEffects(o)) = Len(o["Keys"])
<1>1. ASSUME NEW k \in 1..Len(o["Keys"])
      PROVE  Bytes(o["Keys"][k]) \in Seq(Nat) /\ KeyBytes(o["Keys"][k]) \in Seq(Nat)
    <2>1. o["Keys"][k] \in Words
        BY ElementOfSeq
    <2>2. Bytes(o["Keys"][k]) \in Seq(0..255)
        BY <2>1, BytesType DEF Words
    <2>3. 0..255 \subseteq Nat
        OBVIOUS
    <2>4. Bytes(o["Keys"][k]) \in Seq(Nat)
        BY <2>2, <2>3, SeqMonotonic
    <2>5. KeyBytes(o["Keys"][k]) \in Seq(Nat)
        BY <2>1, KeyBytesType DEF Words
    <2> QED
        BY <2>4, <2>5
<1>2. Len(o["Keys"]) \in Nat
    OBVIOUS
<1> DEFINE N == Seq(Nat)
           effect(k) == IF o["Literal"] THEN Bytes(o["Keys"][k]) ELSE KeyBytes(o["Keys"][k])
<1>3. \A k \in 1..Len(o["Keys"]) : effect(k) \in N
    BY <1>1, Zenon
<1>4. KeyEffects(o) = [k \in 1..Len(o["Keys"]) |-> effect(k)]
    BY DEF KeyEffects
<1> HIDE DEF effect, N
<1>5. KeyEffects(o) \in Seq(N) /\ Len(KeyEffects(o)) = Len(o["Keys"])
    BY <1>2, <1>3, <1>4
<1> QED
    BY <1>5 DEF N

LEMMA TypingInit == Init => TypingInv
    BY DEF Init, TypingInv

\* One turn of the loop types one key; the table's sequence is xterm's.
LEMMA TypingTurn ==
    ASSUME ParserInv, TypingInv, BuildSendKeysData
    PROVE  TypingInv'
<1> DEFINE K == opts["Keys"]
<1>1. phase = "typing" /\ cmd = "send-keys" /\ UNCHANGED <<cmd, opts>>
    BY DEF ParserInv, KeysRead, BuildSendKeysData
<1>2. K \in Seq(Words)
    BY <1>1, KeysAreWords
<1>3. i \in 1..(Len(K) + 1) /\ typed = FlattenTo(KeyEffects(opts), i - 1) /\ Len(K) \in Nat
    BY <1>1, <1>2 DEF TypingInv
<1>4. CASE i <= Len(K)
    <2>1. /\ phase' = phase /\ i' = i + 1
          /\ typed' = typed \o (IF opts["Literal"] THEN Bytes(K[i]) ELSE ExpandSpecialKey(K[i]))
        BY <1>1, <1>4 DEF BuildSendKeysData
    <2>2. i \in 1..Len(K)
        BY <1>3, <1>4
    <2>3. K[i] \in Seq(DOMAIN Spelling)
        BY <1>2, <2>2, ElementOfSeq DEF Words
    <2>4. ExpandSpecialKey(K[i]) = KeyBytes(K[i])
        BY <2>3, ExpansionFollowsXterm
    <2>5. KeyEffects(opts)[i] = IF opts["Literal"] THEN Bytes(K[i]) ELSE KeyBytes(K[i])
        BY <2>2 DEF KeyEffects
    <2>6. FlattenTo(KeyEffects(opts), i) = FlattenTo(KeyEffects(opts), i - 1) \o KeyEffects(opts)[i]
        <3>1. /\ KeyEffects(opts) \in Seq(Seq(Nat)) /\ Len(KeyEffects(opts)) = Len(K)
              /\ i \in 0..Len(K) /\ i > 0
            BY <1>2, <2>2, KeyEffectsType
        <3> HIDE DEF K
        <3> QED
            BY <3>1, FlattenToFacts
    <2>7. typed' = FlattenTo(KeyEffects(opts), i)
        BY <1>3, <2>1, <2>4, <2>5, <2>6
    <2>8. i' - 1 = i /\ i' \in 1..(Len(K) + 1)
        BY <1>3, <2>1, <2>2
    <2> QED
        BY <1>1, <2>1, <2>7, <2>8 DEF TypingInv
<1>5. CASE ~(i <= Len(K))
    <2>1. phase' = "done" /\ typed' = typed
        BY <1>1, <1>5 DEF BuildSendKeysData
    <2>2. i - 1 = Len(K)
        BY <1>3, <1>5
    <2> QED
        BY <1>1, <1>3, <2>1, <2>2 DEF TypingInv
<1> QED
    BY <1>4, <1>5

\* Typing begins with nothing typed.
LEMMA TypingBegins ==
    ASSUME TypingInv, KeyArguments, ParserInv'
    PROVE  TypingInv'
<1>1. phase = "options" /\ phase' = "typing" /\ i' = 1 /\ typed' = typed /\ cmd' = "send-keys"
    BY DEF KeyArguments
<1>2. opts'["Keys"] \in Seq(Words)
    <2>1. opts'["Keys"] = KeysOf(rest') /\ rest' \in Seq(Words)
        BY <1>1 DEF ParserInv, ParserType, KeysRead
    <2> QED
        BY <2>1, KeysOfType
<1>3. KeyEffects(opts') \in Seq(Seq(Nat)) /\ 0 \in 0..Len(KeyEffects(opts'))
    BY <1>2, KeyEffectsType
<1>4. FlattenTo(KeyEffects(opts'), 0) = <<>>
    BY <1>3, FlattenToFacts
<1>5. typed' = <<>>
    BY <1>1 DEF TypingInv
<1>6. i' - 1 = 0 /\ i' \in 1..(Len(opts'["Keys"]) + 1)
    BY <1>1, <1>2
<1> QED
    BY <1>1, <1>4, <1>5, <1>6 DEF TypingInv

LEMMA TypingStep == ParserInv /\ ParserInv' /\ TypingInv /\ [Next]_vars => TypingInv'
<1> SUFFICES ASSUME ParserInv, ParserInv', TypingInv, [Next]_vars
             PROVE  TypingInv'
    OBVIOUS
<1>1. CASE TakeFlag \/ TakeValue \/ TakeWord
    BY <1>1 DEF TakeFlag, TakeValue, TakeWord, Parsing, TypingInv
<1>2. CASE MissingValue \/ NoCommand
    BY <1>2 DEF MissingValue, NoCommand, Rejected, TypingInv
<1>3. CASE Version
    <2>1. phase' = "done" /\ cmd' = "tmux"
        BY <1>3, CommandHere DEF Version
    <2> QED
        BY <2>1 DEF TypingInv
<1>4. CASE CommandName
    <2>1. /\ phase = "parse" /\ typed' = typed
          /\ phase' = IF cmd' \in parsed THEN "options" ELSE "done"
        BY <1>4 DEF CommandName, AtCommand
    <2>2. phase' = "done" => cmd' # "send-keys"
        BY <2>1, ParsedFacts
    <2> QED
        BY <2>1, <2>2 DEF TypingInv
<1>5. CASE KeyArguments
    BY <1>5, TypingBegins
<1>6. CASE Handle
    BY <1>6 DEF Handle, TypingInv
<1>7. CASE BuildSendKeysData
    BY <1>7, TypingTurn
<1>8. CASE ExpandVariable \/ ExpandRest
    <2>1. phase = "printing" /\ phase' \in {"printing", "done"} /\ cmd' = cmd
        BY <1>8 DEF ExpandVariable, ExpandRest
    <2>2. cmd # "send-keys"
        BY <2>1 DEF ParserInv, KeysRead
    <2> QED
        BY <2>1, <2>2 DEF TypingInv
<1>9. CASE UNCHANGED vars
    BY <1>9 DEF vars, TypingInv
<1> QED
    BY <1>1, <1>2, <1>3, <1>4, <1>5, <1>6, <1>7, <1>8, <1>9 DEF Next

\* send-keys types, for any keys and any combination, order, case and repetition of
\* modifiers, the bytes of xterm's encoding (keys.go), or with -l the words.
THEOREM TypedFollowsXterm == Spec => []KeysFollowXterm
<1>1. ParserInv /\ TypingInv => KeysFollowXterm
    <2> SUFFICES ASSUME ParserInv, TypingInv, cmd = "send-keys", phase \in {"typing", "done"},
                        NEW n, n = IF phase = "typing" THEN i - 1 ELSE Len(opts["Keys"])
                 PROVE  typed = FlattenSeq([k \in 1..n |->
                                   IF opts["Literal"] THEN Bytes(opts["Keys"][k])
                                   ELSE KeyBytes(opts["Keys"][k])])
        BY DEF KeysFollowXterm
    <2>1. opts["Keys"] \in Seq(Words)
        BY KeysAreWords
    <2>2. n \in 0..Len(opts["Keys"])
        BY <2>1 DEF TypingInv
    <2>3. typed = FlattenTo(KeyEffects(opts), n)
        BY DEF TypingInv
    <2>4. [k \in 1..n |-> KeyEffects(opts)[k]] =
             [k \in 1..n |-> IF opts["Literal"] THEN Bytes(opts["Keys"][k])
                             ELSE KeyBytes(opts["Keys"][k])]
        BY <2>1, <2>2 DEF KeyEffects
    <2> QED
        BY <2>3, <2>4 DEF FlattenTo
<1> QED
    BY <1>1, TypingInit, TypingStep, ParserInvariant, PTL DEF Spec

-----------------------------------------------------------------------------
(* Templates *)

\* What templates and values are made of: tokens of words, of the session's name and
\* of the code.
Literals == {"#{", "pane_id", "}", "$0", "0", "@0", "%0", "1"}
Tokens == STRING \cup DOMAIN Spelling \cup Literals

Brackets == {"#{", "}"}

\* IsVariable and Expansion for a template t and values v of the variables.
VariableIn(t, v, p) ==
    /\ p \in 1..(Len(t) - 2)
    /\ t[p] = "#{" /\ t[p + 1] \in DOMAIN v /\ t[p + 2] = "}"
    /\ \A q \in 1..(p - 1) :
          t[q] \in Brackets /\ (\A r \in (q + 1)..(p - 1) : t[r] \notin Brackets) => t[q] = "}"

PieceOf(t, v, p) ==
    IF VariableIn(t, v, p) THEN v[t[p + 1]]
    ELSE IF VariableIn(t, v, p - 1) \/ VariableIn(t, v, p - 2) THEN <<>>
    ELSE <<t[p]>>

PiecesOf(t, v) == [p \in 1..Len(t) |-> PieceOf(t, v, p)]

\* Values are texts, and no name is a bracket.
ValuesOf(v) ==
    /\ DOMAIN v \cap Brackets = {}
    /\ \A n \in DOMAIN v : v[n] \in Seq(Tokens)

LEMMA PiecesType ==
    ASSUME NEW t \in Seq(Tokens), NEW v, ValuesOf(v)
    PROVE  PiecesOf(t, v) \in Seq(Seq(Tokens)) /\ Len(PiecesOf(t, v)) = Len(t)
<1>1. Len(t) \in Nat
    OBVIOUS
<1>2. ASSUME NEW p \in 1..Len(t)
      PROVE  PieceOf(t, v, p) \in Seq(Tokens)
    <2>1. t[p] \in Tokens
        BY ElementOfSeq
    <2>2. <<t[p]>> \in Seq(Tokens) /\ <<>> \in Seq(Tokens)
        BY <2>1, EmptySeq
    <2>3. VariableIn(t, v, p) => v[t[p + 1]] \in Seq(Tokens)
        BY DEF VariableIn, ValuesOf
    <2> QED
        BY <2>2, <2>3, Zenon DEF PieceOf
<1> DEFINE N == Seq(Tokens)
<1>3. \A p \in 1..Len(t) : PieceOf(t, v, p) \in N
    BY <1>2
<1> HIDE DEF N
<1>4. PiecesOf(t, v) \in Seq(N) /\ Len(PiecesOf(t, v)) = Len(t)
    BY <1>1, <1>3 DEF PiecesOf
<1> QED
    BY <1>4 DEF N

\* Positions the scanner stands at: nothing but a closed bracket is before it.
ScanStart(t, a) == a \in 1..(Len(t) + 1) /\ (a = 1 \/ t[a - 1] = "}")

\* Where no variable begins, from a to b, tokens stay what they are.
LEMMA LiteralTokens ==
    ASSUME NEW t \in Seq(Tokens), NEW v, ValuesOf(v), NEW a, ScanStart(t, a),
           NEW b \in Nat, b <= Len(t), \A p \in a..b : ~VariableIn(t, v, p)
    PROVE  \A p \in a..b : PiecesOf(t, v)[p] = <<t[p]>>
<1>0. Len(t) \in Nat
    OBVIOUS
<1>1. a \in Nat /\ a >= 1 /\ Len(t) \in Nat
    <2>1. a \in 1..(Len(t) + 1)
        BY Zenon DEF ScanStart
    <2> QED
        BY <1>0, <2>1
<1>2. ~VariableIn(t, v, a - 1)
    <2> SUFFICES ASSUME VariableIn(t, v, a - 1)
                 PROVE  FALSE
        OBVIOUS
    <2>0. a - 1 \in 1..(Len(t) - 2)
        BY DEF VariableIn
    <2>1. t[a - 1] = "#{"
        BY DEF VariableIn
    <2>2. a # 1
        BY <1>1, <2>0
    <2>3. t[a - 1] = "}"
        BY <2>2, Zenon DEF ScanStart
    <2> QED
        BY <2>1, <2>3
<1>3. ~VariableIn(t, v, a - 2)
    <2> SUFFICES ASSUME VariableIn(t, v, a - 2)
                 PROVE  FALSE
        OBVIOUS
    <2>1. a - 2 \in 1..(Len(t) - 2) /\ t[(a - 2) + 1] \in DOMAIN v
        BY DEF VariableIn
    <2>2. (a - 2) + 1 = a - 1 /\ a # 1
        BY <1>1, <2>1
    <2>3. t[a - 1] = "}" /\ "}" \in Brackets
        BY <2>2 DEF ScanStart, Brackets
    <2> QED
        BY <2>1, <2>2, <2>3 DEF ValuesOf
<1> SUFFICES ASSUME NEW p \in a..b
             PROVE  PiecesOf(t, v)[p] = <<t[p]>>
    OBVIOUS
<1>4. ~VariableIn(t, v, p) /\ ~VariableIn(t, v, p - 1) /\ ~VariableIn(t, v, p - 2)
    <2>1. p - 1 = a - 1 \/ p - 1 \in a..b
        BY <1>1
    <2>2. p - 2 = a - 1 \/ p - 2 = a - 2 \/ p - 2 \in a..b
        BY <1>1
    <2> QED
        BY <1>2, <1>3, <2>1, <2>2
<1>5. p \in 1..Len(t)
    BY <1>1
<1>6. PieceOf(t, v, p) = <<t[p]>>
    BY <1>4, Zenon DEF PieceOf
<1> QED
    BY <1>5, <1>6 DEF PiecesOf

\* They are copied to the output.
LEMMA LiteralCopied ==
    ASSUME NEW t \in Seq(Tokens), NEW v, ValuesOf(v), NEW a \in Nat, a >= 1,
           NEW b \in Nat, b <= Len(t), a <= b + 1,
           \A p \in a..b : PiecesOf(t, v)[p] = <<t[p]>>
    PROVE  FlattenTo(PiecesOf(t, v), b) = FlattenTo(PiecesOf(t, v), a - 1) \o SubSeq(t, a, b)
<1> DEFINE e == PiecesOf(t, v)
<1>1. e \in Seq(Seq(Tokens)) /\ Len(t) = Len(e) /\ Len(e) \in Nat
    BY PiecesType
<1>2. \A p \in a..b : e[p] = <<t[p]>>
    OBVIOUS
<1> HIDE DEF e
<1>3. a - 1 \in 0..Len(e) /\ b \in (a - 1)..Len(e) /\ (a - 1) + 1 = a
    BY <1>1
<1>4. \A k \in ((a - 1) + 1)..b : e[k] = <<t[k]>>
    BY <1>2, <1>3
<1>5. FlattenTo(e, b) = FlattenTo(e, a - 1) \o SubSeq(t, (a - 1) + 1, b)
    BY <1>1, <1>3, <1>4, FlattenSegment, ZenonT(30)
<1> QED
    BY <1>3, <1>5 DEF e

\* The first opening bracket from a on is at j.
Opens(t, a, j) ==
    /\ j \in a..Len(t) /\ t[j] = "#{"
    /\ \A q \in a..(j - 1) : t[q] # "#{"

\* The first closing bracket behind it is at n.
Closes(t, j, n) ==
    /\ n \in (j + 1)..Len(t) /\ t[n] = "}"
    /\ \A q \in j..(n - 1) : t[q] # "}"

LEMMA BeforeOpening ==
    ASSUME NEW t \in Seq(Tokens), NEW v, ValuesOf(v), NEW a, ScanStart(t, a), NEW j, Opens(t, a, j)
    PROVE  FlattenTo(PiecesOf(t, v), j - 1)
              = FlattenTo(PiecesOf(t, v), a - 1) \o SubSeq(t, a, j - 1)
<1>0. Len(t) \in Nat
    OBVIOUS
<1>1. a \in 1..(Len(t) + 1)
    BY DEF ScanStart
<1>2. j \in a..Len(t)
    BY DEF Opens
<1>3. /\ a \in Nat /\ a >= 1 /\ j - 1 \in Nat /\ j - 1 <= Len(t) /\ a <= (j - 1) + 1
    BY <1>0, <1>1, <1>2
<1>4. \A p \in a..(j - 1) : ~VariableIn(t, v, p)
    BY DEF VariableIn, Opens
<1>5. \A p \in a..(j - 1) : PiecesOf(t, v)[p] = <<t[p]>>
    BY <1>3, <1>4, LiteralTokens
<1> QED
    BY <1>3, <1>5, LiteralCopied

\* A known name between the brackets is replaced.
LEMMA VariableReplaced ==
    ASSUME NEW t \in Seq(Tokens), NEW v, ValuesOf(v), NEW a, ScanStart(t, a),
           NEW j, Opens(t, a, j), Closes(t, j, j + 2), t[j + 1] \in DOMAIN v
    PROVE  FlattenTo(PiecesOf(t, v), j + 2)
              = FlattenTo(PiecesOf(t, v), j - 1) \o v[t[j + 1]]
<1> DEFINE e == PiecesOf(t, v)
<1>0. Len(t) \in Nat
    OBVIOUS
<1>1. a \in 1..(Len(t) + 1)
    BY DEF ScanStart
<1>2. j \in a..Len(t)
    BY DEF Opens
<1>3. j + 2 \in (j + 1)..Len(t)
    BY DEF Closes
<1>4. a \in Nat /\ a >= 1 /\ j \in Nat /\ j >= a /\ j \in 1..(Len(t) - 2)
    BY <1>0, <1>1, <1>2, <1>3
<1>5. ASSUME NEW q \in 1..(j - 1), t[q] \in Brackets,
             \A r \in (q + 1)..(j - 1) : t[r] \notin Brackets
      PROVE  t[q] = "}"
    <2>1. CASE q >= a
        <3>1. q \in a..(j - 1)
            BY <1>4, <2>1
        <3>2. t[q] # "#{"
            BY <3>1 DEF Opens
        <3> QED
            BY <1>5, <3>2 DEF Brackets
    <2>2. CASE q < a
        <3>1. a # 1 /\ (q = a - 1 \/ a - 1 \in (q + 1)..(j - 1))
            BY <1>4, <2>2
        <3>2. t[a - 1] = "}"
            BY <3>1, Zenon DEF ScanStart
        <3>3. "}" \in Brackets
            BY DEF Brackets
        <3> QED
            BY <1>5, <3>1, <3>2, <3>3
    <2>3. q >= a \/ q < a
        BY <1>4
    <2> QED
        BY <2>1, <2>2, <2>3
<1>6. t[j] = "#{" /\ t[j + 2] = "}"
    BY DEF Opens, Closes
<1>7. VariableIn(t, v, j)
    BY <1>4, <1>5, <1>6 DEF VariableIn
<1>8. ~VariableIn(t, v, j + 1) /\ ~VariableIn(t, v, j + 2)
    <2>1. t[j + 1] # "#{"
        BY DEF ValuesOf, Brackets
    <2> QED
        BY <1>6, <2>1 DEF VariableIn
<1>9. e[j] = v[t[j + 1]] /\ e[j + 1] = <<>> /\ e[j + 2] = <<>>
    <2>1. j \in 1..Len(t) /\ j + 1 \in 1..Len(t) /\ j + 2 \in 1..Len(t)
        BY <1>0, <1>4
    <2>2. (j + 1) - 1 = j /\ (j + 2) - 2 = j
        BY <1>4
    <2>3. /\ e[j] = PieceOf(t, v, j) /\ e[j + 1] = PieceOf(t, v, j + 1)
          /\ e[j + 2] = PieceOf(t, v, j + 2)
        BY <2>1 DEF PiecesOf
    <2>4. PieceOf(t, v, j) = v[t[j + 1]]
        BY <1>7, Zenon DEF PieceOf
    <2>5. PieceOf(t, v, j + 1) = <<>>
        BY <1>7, <1>8, <2>2 DEF PieceOf
    <2>6. PieceOf(t, v, j + 2) = <<>>
        BY <1>7, <1>8, <2>2 DEF PieceOf
    <2> QED
        BY <2>3, <2>4, <2>5, <2>6
<1>10. e \in Seq(Seq(Tokens)) /\ Len(e) = Len(t)
    BY PiecesType
<1> HIDE DEF e
<1>11. /\ j \in 0..Len(e) /\ j > 0 /\ j + 1 \in 0..Len(e) /\ j + 1 > 0
       /\ j + 2 \in 0..Len(e) /\ j + 2 > 0
       /\ (j + 1) - 1 = j /\ (j + 2) - 1 = j + 1
    BY <1>0, <1>4, <1>10
<1>12. FlattenTo(e, j) = FlattenTo(e, j - 1) \o e[j] /\ FlattenTo(e, j) \in Seq(Tokens)
    BY <1>10, <1>11, FlattenToFacts
<1>13. FlattenTo(e, j + 1) = FlattenTo(e, j) \o <<>> /\ FlattenTo(e, j + 1) \in Seq(Tokens)
    BY <1>9, <1>10, <1>11, FlattenToFacts
<1>14. FlattenTo(e, j + 2) = FlattenTo(e, j + 1) \o <<>>
    BY <1>9, <1>10, <1>11, FlattenToFacts
<1>15. \A s \in Seq(Tokens) : s \o <<>> = s
    BY ConcatEmptySeq
<1> QED
    BY <1>9, <1>12, <1>13, <1>14, <1>15 DEF e

\* Anything else between them is kept, the brackets with it.
LEMMA UnknownKept ==
    ASSUME NEW t \in Seq(Tokens), NEW v, ValuesOf(v), NEW a, ScanStart(t, a),
           NEW j, Opens(t, a, j), NEW n, Closes(t, j, n),
           ~(n = j + 2 /\ t[j + 1] \in DOMAIN v)
    PROVE  FlattenTo(PiecesOf(t, v), n) = FlattenTo(PiecesOf(t, v), j - 1) \o SubSeq(t, j, n)
<1>0. Len(t) \in Nat
    OBVIOUS
<1>1. a \in 1..(Len(t) + 1)
    BY DEF ScanStart
<1>2. j \in a..Len(t)
    BY DEF Opens
<1>3. n \in (j + 1)..Len(t)
    BY DEF Closes
<1>4. /\ a \in Nat /\ a >= 1 /\ j \in Nat /\ j >= a /\ n \in Nat /\ n > j /\ n <= Len(t)
    BY <1>0, <1>1, <1>2, <1>3
<1>5. ~VariableIn(t, v, j)
    <2> SUFFICES ASSUME VariableIn(t, v, j)
                 PROVE  FALSE
        OBVIOUS
    <2>1. t[j + 1] \in DOMAIN v /\ t[j + 2] = "}"
        BY DEF VariableIn
    <2>2. t[j + 1] # "}"
        BY <2>1 DEF ValuesOf, Brackets
    <2>3. t[n] = "}" /\ \A q \in j..(n - 1) : t[q] # "}"
        BY DEF Closes
    <2>4. n # j + 1
        BY <2>2, <2>3
    <2>5. j + 2 \notin j..(n - 1)
        BY <2>1, <2>3
    <2>6. n = j + 2
        BY <1>4, <2>4, <2>5
    <2> QED
        BY <2>1, <2>6
<1>6. ASSUME NEW p \in (j + 1)..(n - 1), VariableIn(t, v, p)
      PROVE  FALSE
    <2> DEFINE B == {q \in j..(p - 1) : t[q] \in Brackets}
               m == Max(B)
    <2>1. t[j] \in Brackets
        BY DEF Opens, Brackets
    <2>2. j \in j..(p - 1) /\ p \in Nat /\ \A q \in j..(p - 1) : q \in 0..p
        BY <1>4
    <2>3. B \subseteq 0..p /\ B # {}
        BY <2>1, <2>2
    <2>4. m \in B /\ \A q \in B : m >= q
        <3> HIDE DEF B
        <3> QED
            BY <2>2, <2>3, MaxFacts
    <2> HIDE DEF m
    <2>5. m \in j..(p - 1) /\ t[m] \in Brackets
        BY <2>4
    <2>6. ASSUME NEW r \in (m + 1)..(p - 1)
          PROVE  t[r] \notin Brackets
        <3>1. r \in j..(p - 1) /\ ~(m >= r)
            BY <1>4, <2>5
        <3> QED
            BY <2>4, <3>1
    <2>7. m \in 1..(p - 1) /\ m \in j..(n - 1)
        BY <1>4, <2>5
    <2>8. t[m] = "}"
        BY <1>6, <2>5, <2>6, <2>7 DEF VariableIn
    <2> QED
        BY <2>7, <2>8 DEF Closes
<1>7. ASSUME NEW p \in a..n, VariableIn(t, v, p)
      PROVE  FALSE
    <2>1. t[p] = "#{"
        BY <1>7 DEF VariableIn
    <2>2. p \in a..(j - 1) \/ p = j \/ p \in (j + 1)..(n - 1) \/ p = n
        BY <1>4
    <2>3. p \notin a..(j - 1)
        BY <2>1 DEF Opens
    <2>4. p # n
        BY <2>1 DEF Closes
    <2> QED
        BY <1>5, <1>6, <1>7, <2>2, <2>3, <2>4
<1>8. \A p \in a..n : PiecesOf(t, v)[p] = <<t[p]>>
    BY <1>4, <1>7, LiteralTokens
<1>9. \A p \in j..n : PiecesOf(t, v)[p] = <<t[p]>>
    BY <1>4, <1>8
<1>10. j >= 1 /\ j <= n + 1
    BY <1>4
<1> QED
    BY <1>4, <1>9, <1>10, LiteralCopied

\* No bracket that is opened from a on is closed.
NoneCloses(t, a) ==
    \A p \in a..Len(t) : t[p] = "#{" => \A q \in p..Len(t) : t[q] # "}"

\* Then all is kept.
LEMMA RestKept ==
    ASSUME NEW t \in Seq(Tokens), NEW v, ValuesOf(v), NEW a, ScanStart(t, a),
           NoneCloses(t, a)
    PROVE  FlattenTo(PiecesOf(t, v), Len(t))
              = FlattenTo(PiecesOf(t, v), a - 1) \o SubSeq(t, a, Len(t))
<1>0. Len(t) \in Nat /\ Len(t) <= Len(t)
    OBVIOUS
<1>1. a \in 1..(Len(t) + 1)
    BY DEF ScanStart
<1>2. a \in Nat /\ a >= 1 /\ a <= Len(t) + 1
    BY <1>0, <1>1
<1>3. ASSUME NEW p \in a..Len(t), VariableIn(t, v, p)
      PROVE  FALSE
    <2>1. p \in 1..(Len(t) - 2)
        BY <1>3 DEF VariableIn
    <2>2. t[p] = "#{" /\ t[p + 2] = "}"
        BY <1>3 DEF VariableIn
    <2>3. p + 2 \in p..Len(t)
        BY <1>0, <2>1
    <2> QED
        BY <2>2, <2>3 DEF NoneCloses
<1>4. \A p \in a..Len(t) : PiecesOf(t, v)[p] = <<t[p]>>
    BY <1>0, <1>3, LiteralTokens
<1> QED
    BY <1>0, <1>2, <1>4, LiteralCopied

-----------------------------------------------------------------------------
(* ExpandFormat *)

LEMMA Singleton ==
    ASSUME NEW S, NEW x \in S
    PROVE  <<x>> \in Seq(S)
    OBVIOUS

LEMMA ContextFacts == ValuesOf(FormatContext)
<1>1. DOMAIN FormatContext =
         {"session_name", "session_id", "window_index", "window_id", "window_name", "pane_id",
          "pane_index", "pane_pid", "pane_tty", "pane_current_path", "pane_width",
          "pane_height", "pane_active"}
    BY DEF FormatContext
<1>2. DOMAIN FormatContext \cap Brackets = {}
    BY <1>1 DEF Brackets
<1> DEFINE N == Seq(Tokens)
<1>3. Session \in N
    <2>1. STRING \subseteq Tokens
        BY DEF Tokens
    <2> QED
        BY <2>1, WordsAssumption, SeqMonotonic
<1>4. "$0" \in Tokens /\ "0" \in Tokens /\ "@0" \in Tokens /\ "%0" \in Tokens /\ "1" \in Tokens
    BY DEF Tokens, Literals
<1>5. <<>> \in N
    BY EmptySeq
<1>6. /\ <<"$0">> \in N /\ <<"0">> \in N /\ <<"@0">> \in N /\ <<"%0">> \in N /\ <<"1">> \in N
    BY <1>4, Singleton, Zenon
<1> HIDE DEF N
<1>7. \A x \in DOMAIN FormatContext : FormatContext[x] \in N
    BY <1>1, <1>3, <1>5, <1>6 DEF FormatContext
<1> QED
    BY <1>2, <1>7 DEF ValuesOf, N

\* The nearest bracket to the left of p, as IsVariable looks for it.
LEMMA VariablesAgree ==
    ASSUME Given \in Seq(Tokens), NEW p
    PROVE  IsVariable(p) <=> VariableIn(Given, FormatContext, p)
<1> DEFINE t == Given
           B == {k \in 1..(p - 1) : t[k] \in Brackets}
           near == B # {} => t[Max(B)] = "}"
           opened == /\ p \in 1..(Len(t) - 2)
                     /\ t[p] = "#{" /\ t[p + 1] \in DOMAIN FormatContext /\ t[p + 2] = "}"
           all == \A q \in 1..(p - 1) :
                     t[q] \in Brackets /\ (\A r \in (q + 1)..(p - 1) : t[r] \notin Brackets)
                        => t[q] = "}"
<1>1. CASE ~(p \in 1..(Len(t) - 2))
    BY <1>1 DEF IsVariable, VariableIn
<1>2. CASE p \in 1..(Len(t) - 2)
    <2>0. Len(t) \in Nat
        <3> HIDE DEF t
        <3> QED
            BY DEF t
    <2>1. p \in Nat /\ \A k \in 1..(p - 1) : k \in 0..p /\ k # 0
        BY <1>2, <2>0
    <2>2. B \subseteq 0..p /\ 0 \notin B
        BY <2>1
    <2>3. B # {} => Max(B) \in B /\ \A y \in B : Max(B) >= y
        <3> HIDE DEF B
        <3> QED
            BY <2>1, <2>2, MaxFacts
    <2>4. IsVariable(p) <=> opened /\ near
        <3>1. SelectLastInSubSeq(t, 1, p - 1, LAMBDA x : x \in {"#{", "}"})
                 = IF B # {} THEN Max(B) ELSE 0
            BY DEF SelectLastInSubSeq, Brackets
        <3> QED
            BY <2>2, <2>3, <3>1 DEF IsVariable
    <2>5. near <=> all
        <3>1. ASSUME near, NEW q \in 1..(p - 1), t[q] \in Brackets,
                     \A r \in (q + 1)..(p - 1) : t[r] \notin Brackets
              PROVE  t[q] = "}"
            <4>1. q \in B
                BY <3>1
            <4>2. Max(B) \in B /\ Max(B) >= q
                BY <2>3, <4>1
            <4>3. Max(B) \in 1..(p - 1) /\ t[Max(B)] \in Brackets
                BY <4>2
            <4>4. Max(B) \notin (q + 1)..(p - 1)
                BY <3>1, <4>3
            <4>5. Max(B) = q
                <5> HIDE DEF B
                <5> QED
                    BY <2>1, <4>2, <4>3, <4>4
            <4> QED
                BY <3>1, <4>1, <4>5
        <3>2. ASSUME all, B # {}
              PROVE  t[Max(B)] = "}"
            <4>1. Max(B) \in B /\ \A y \in B : Max(B) >= y
                BY <2>3, <3>2
            <4>2. Max(B) \in 1..(p - 1) /\ t[Max(B)] \in Brackets
                BY <4>1
            <4>3. ASSUME NEW r \in (Max(B) + 1)..(p - 1)
                  PROVE  t[r] \notin Brackets
                <5>1. r \in 1..(p - 1) /\ ~(Max(B) >= r)
                    <6> HIDE DEF B
                    <6> QED
                        BY <2>1, <4>2
                <5> QED
                    BY <4>1, <5>1
            <4> QED
                BY <3>2, <4>2, <4>3
        <3> QED
            BY <3>1, <3>2
    <2>6. VariableIn(Given, FormatContext, p) <=> opened /\ all
        BY DEF VariableIn
    <2> HIDE DEF opened, near, all
    <2> QED
        BY <2>4, <2>5, <2>6
<1> QED
    BY <1>1, <1>2

LEMMA ExpansionsAgree ==
    ASSUME Given \in Seq(Tokens), NEW n \in 0..Len(Given)
    PROVE  FlattenSeq([p \in 1..n |-> Expansion(p)])
              = FlattenTo(PiecesOf(Given, FormatContext), n)
<1>1. \A p : Expansion(p) = PieceOf(Given, FormatContext, p)
    BY VariablesAgree DEF Expansion, PieceOf
<1>2. Len(Given) \in Nat /\ \A p \in 1..n : p \in 1..Len(Given)
    OBVIOUS
<1>3. \A p \in 1..n : PiecesOf(Given, FormatContext)[p] = PieceOf(Given, FormatContext, p)
    BY <1>2 DEF PiecesOf
<1>4. [p \in 1..n |-> Expansion(p)] = [p \in 1..n |-> PiecesOf(Given, FormatContext)[p]]
    BY <1>1, <1>3
<1> QED
    BY <1>4 DEF FlattenTo

\* A part of a sequence, put together from its first element and the others, and
\* from its ends and what is between them.
LEMMA SegmentFirst ==
    ASSUME NEW S, NEW t \in Seq(S), NEW j \in Nat, NEW n \in Nat, j >= 1, j <= n, n <= Len(t)
    PROVE  <<t[j]>> \o SubSeq(t, j + 1, n) = SubSeq(t, j, n)
<1> DEFINE x == <<t[j]>>
           y == SubSeq(t, j + 1, n)
           z == SubSeq(t, j, n)
           m == n - j
<1>1. \A k \in j..n : t[k] \in S
    <2>1. \A k \in j..n : k \in 1..Len(t)
        OBVIOUS
    <2> QED
        BY <2>1, ElementOfSeq
<1>2. PICK one \in Nat : one = 1
    OBVIOUS
<1>3. x \in Seq(S) /\ Len(x) = one /\ x[1] = t[j]
    BY <1>1, <1>2
<1>4. m \in Nat
    OBVIOUS
<1>5. y \in Seq(S) /\ Len(y) = m /\ \A k \in 1..m : y[k] = t[j + k]
    BY <1>1, SubSeqProperties
<1>6. z \in Seq(S) /\ Len(z) = m + 1 /\ \A k \in 1..(m + 1) : z[k] = t[j + k - 1]
    BY <1>1, SubSeqProperties
<1> HIDE DEF m, x, y, z
<1>7. /\ x \o y \in Seq(S) /\ Len(x \o y) = one + m
      /\ \A k \in 1..one : (x \o y)[k] = x[k]
      /\ \A k \in 1..m : (x \o y)[one + k] = y[k]
    <2>1. x \in Seq(S) /\ y \in Seq(S) /\ Len(x) = one /\ Len(y) = m /\ one \in Nat /\ m \in Nat
        BY <1>2, <1>3, <1>4, <1>5
    <2>2. x \o y \in Seq(S) /\ Len(x \o y) = one + m
        BY <2>1
    <2>3. ASSUME NEW k \in 1..one
          PROVE  (x \o y)[k] = x[k]
        BY <2>1
    <2>4. ASSUME NEW k \in 1..m
          PROVE  (x \o y)[one + k] = y[k]
        BY <2>1
    <2> QED
        BY <2>2, <2>3, <2>4
<1>8. ASSUME NEW k \in 1..(m + 1)
      PROVE  (x \o y)[k] = z[k]
    <2>1. CASE k = 1
        <3>1. 1 \in 1..one /\ 1 \in 1..(m + 1) /\ j + 1 - 1 = j
            BY <1>2, <1>4
        <3>2. (x \o y)[1] = x[1]
            BY <1>7, <3>1
        <3>3. z[1] = t[j + 1 - 1]
            BY <1>6, <3>1
        <3> QED
            BY <1>3, <2>1, <3>1, <3>2, <3>3
    <2>2. CASE k # 1
        <3>1. k - 1 \in 1..m /\ one + (k - 1) = k /\ j + (k - 1) = j + k - 1
            BY <1>2, <1>4, <2>2
        <3>2. (x \o y)[one + (k - 1)] = y[k - 1]
            BY <1>7, <3>1
        <3>3. y[k - 1] = t[j + (k - 1)]
            BY <1>5, <3>1
        <3>4. z[k] = t[j + k - 1]
            BY <1>6
        <3> QED
            BY <3>1, <3>2, <3>3, <3>4
    <2> QED
        BY <2>1, <2>2
<1>9. Len(x \o y) = m + 1
    BY <1>2, <1>4, <1>7
<1>10. x \o y = z
    <2> DEFINE s == x \o y
    <2>1. s \in Seq(S) /\ Len(s) = m + 1 /\ \A k \in 1..(m + 1) : s[k] = z[k]
        BY <1>7, <1>8, <1>9
    <2> HIDE DEF s
    <2>2. s = z
        BY <1>6, <2>1, SeqEqual
    <2> QED
        BY <2>2 DEF s
<1> QED
    BY <1>10 DEF x, y, z

LEMMA SegmentBetween ==
    ASSUME NEW S, NEW t \in Seq(S), NEW j \in Nat, NEW n \in Nat, j >= 1, j < n, n <= Len(t)
    PROVE  <<t[j]>> \o SubSeq(t, j + 1, n - 1) \o <<t[n]>> = SubSeq(t, j, n)
<1>1. t[j] \in S
    <2>1. j \in 1..Len(t)
        OBVIOUS
    <2> QED
        BY <2>1, ElementOfSeq
<1>2. <<t[j]>> \in Seq(S)
    BY <1>1, Singleton
<1> DEFINE q == n - 1
<1>3. q \in Nat /\ j <= q /\ q + 1 <= Len(t) /\ q + 1 = n /\ q = n - 1
    OBVIOUS
<1> HIDE DEF q
<1>4. (<<t[j]>> \o SubSeq(t, j + 1, q)) \o <<t[q + 1]>> = <<t[j]>> \o SubSeq(t, j + 1, q + 1)
    BY <1>2, <1>3, SegmentGrows
<1>5. <<t[j]>> \o SubSeq(t, j + 1, n) = SubSeq(t, j, n)
    BY SegmentFirst
<1> QED
    BY <1>3, <1>4, <1>5

\* What lookupVar makes of the text between an opening and the next closing bracket.
LEMMA Between ==
    ASSUME NEW t \in Seq(Tokens), NEW a, ScanStart(t, a), NEW j, Opens(t, a, j),
           NEW n, Closes(t, j, n)
    PROVE  LET name == SubSeq(t, j + 1, n - 1)
           IN  /\ In(name, FormatContext) <=> n = j + 2 /\ t[j + 1] \in DOMAIN FormatContext
               /\ n = j + 2 => name[1] = t[j + 1]
<1> DEFINE name == SubSeq(t, j + 1, n - 1)
<1>0. Len(t) \in Nat
    OBVIOUS
<1>1. a \in 1..(Len(t) + 1)
    BY DEF ScanStart
<1>2. j \in a..Len(t)
    BY DEF Opens
<1>3. n \in (j + 1)..Len(t)
    BY DEF Closes
<1>4. j \in Nat /\ j >= 1 /\ n \in Nat /\ j < n /\ n <= Len(t)
    BY <1>0, <1>1, <1>2, <1>3
<1>5. \A k \in (j + 1)..(n - 1) : k \in 1..Len(t)
    BY <1>0, <1>4
<1>6. \A k \in (j + 1)..(n - 1) : t[k] \in Tokens
    BY <1>5, ElementOfSeq
<1>7. /\ Len(name) = n - 1 - j
      /\ \A k \in 1..(n - 1 - j) : name[k] = t[j + k]
    BY <1>4, <1>6, SubSeqProperties
<1>8. n = j + 2 => name[1] = t[j + 1]
    <2> HIDE DEF name
    <2> QED
        BY <1>4, <1>7
<1>9. Len(name) = 1 <=> n = j + 2
    <2> HIDE DEF name
    <2> QED
        BY <1>4, <1>7
<1>10. In(name, FormatContext) <=> n = j + 2 /\ t[j + 1] \in DOMAIN FormatContext
    BY <1>8, <1>9 DEF In
<1> QED
    BY <1>8, <1>10

\* What the first n tokens of the template become.
Output(n) == FlattenTo(PiecesOf(template, FormatContext), n)

PrintingInv ==
    /\ phase \in {"parse", "options"} => printed = <<>>
    /\ phase \notin {"printing", "done"} => template = <<>>
    /\ phase = "printing" \/ template # <<>> => template = Given /\ opts["Format"] \in Words
    /\ phase = "printing" => ScanStart(template, i) /\ printed = Output(i - 1)
    /\ phase = "done" /\ template # <<>> => printed = Output(Len(template))

LEMMA GivenType ==
    ASSUME opts["Format"] \in Words
    PROVE  Given \in Seq(Tokens)
<1>1. opts["Format"] \in Seq(Tokens)
    <2>1. DOMAIN Spelling \subseteq Tokens
        BY DEF Tokens
    <2> QED
        BY <2>1, SeqMonotonic DEF Words
<1>2. <<"#{", "pane_id", "}">> \in Seq(Tokens)
    <2>1. "#{" \in Tokens /\ "pane_id" \in Tokens /\ "}" \in Tokens
        BY DEF Tokens, Literals
    <2>2. ASSUME NEW S, NEW x \in S, NEW y \in S, NEW z \in S
          PROVE  <<x, y, z>> \in Seq(S)
        OBVIOUS
    <2> QED
        BY <2>1, <2>2, Zenon
<1> QED
    BY <1>1, <1>2, Zenon DEF Given

LEMMA FormatRead ==
    ASSUME ParserInv, phase = "options" \/ phase = "printing" \/ (phase = "done" /\ cmd \in parsed)
    PROVE  opts["Format"] \in Words
    BY DEF ParserInv, WhileParsing, AfterParsing, OptionsRead, ReadBefore

\* The context stays while the template is expanded.
LEMMA SameContext ==
    ASSUME UNCHANGED cmd
    PROVE  FormatContext' = FormatContext
    BY DEF FormatContext

LEMMA PrintingInit == Init => PrintingInv
    BY DEF Init, PrintingInv

LEMMA TemplateFacts ==
    ASSUME ParserInv, PrintingInv, phase = "printing"
    PROVE  /\ template = Given /\ template \in Seq(Tokens) /\ Len(template) \in Nat
           /\ ScanStart(template, i) /\ printed = Output(i - 1)
           /\ i \in Nat /\ i >= 1 /\ ValuesOf(FormatContext)
<1>1. /\ template = Given /\ ScanStart(template, i) /\ printed = Output(i - 1)
    BY DEF PrintingInv
<1>2. template \in Seq(Tokens)
    BY <1>1, FormatRead, GivenType
<1>3. Len(template) \in Nat
    BY <1>2
<1>4. i \in 1..(Len(template) + 1)
    BY <1>1 DEF ScanStart
<1>5. i \in Nat /\ i >= 1
    BY <1>3, <1>4
<1> QED
    BY <1>1, <1>2, <1>3, <1>5, ContextFacts

\* Where strings.Index finds the brackets.
LEMMA FoundFirst ==
    ASSUME NEW x, NEW k \in Nat, template \in Seq(Tokens), Found(x, k) # {}
    PROVE  /\ Min(Found(x, k)) \in k..Len(template) /\ template[Min(Found(x, k))] = x
           /\ \A q \in k..(Min(Found(x, k)) - 1) : template[q] # x
<1> DEFINE T == Found(x, k)
           m == Min(T)
<1>0. Len(template) \in Nat
    OBVIOUS
<1>1. T \subseteq Nat /\ T # {}
    BY <1>0 DEF Found
<1>2. m \in T /\ \A y \in T : m <= y
    <2> HIDE DEF T
    <2> QED
        BY <1>1, MinFacts
<1>3. m \in k..Len(template) /\ template[m] = x
    BY <1>2 DEF Found
<1>4. ASSUME NEW q \in k..(m - 1), template[q] = x
      PROVE  FALSE
    <2>1. q \in k..Len(template) /\ ~(m <= q)
        <3> HIDE DEF m
        <3> QED
            BY <1>0, <1>3
    <2>2. q \in T
        BY <1>4, <2>1 DEF Found
    <2> QED
        BY <1>2, <2>1, <2>2
<1> QED
    BY <1>3, <1>4

\* A variable expanded, or kept because nobody knows it.
LEMMA PrintingTurn ==
    ASSUME ParserInv, PrintingInv, ExpandVariable
    PROVE  PrintingInv'
<1> DEFINE j == Min(Found("#{", i))
           n == Min(Found("}", j))
           name == SubSeq(template, j + 1, n - 1)
           e == PiecesOf(template, FormatContext)
<1>1. /\ phase = "printing" /\ Found("#{", i) # {} /\ Found("}", j) # {}
      /\ printed' = printed \o SubSeq(template, i, j - 1) \o lookupVar(name)
      /\ i' = n + 1 /\ UNCHANGED <<phase, cmd, opts, template>>
    BY DEF ExpandVariable
<1>1a. template \in Seq(Tokens) /\ ScanStart(template, i) /\ ValuesOf(FormatContext)
    BY <1>1, TemplateFacts
<1>1b. i \in Nat /\ i >= 1 /\ Len(template) \in Nat
    BY <1>1, TemplateFacts
<1>1c. template = Given /\ opts["Format"] \in Words /\ printed = FlattenTo(e, i - 1)
    BY <1>1, TemplateFacts, FormatRead DEF Output
<1>2. j \in i..Len(template)
    BY <1>1, <1>1a, <1>1b, FoundFirst
<1>3. template[j] = "#{" /\ \A q \in i..(j - 1) : template[q] # "#{"
    BY <1>1, <1>1a, <1>1b, FoundFirst
<1>4. Opens(template, i, j)
    BY <1>2, <1>3 DEF Opens
<1>5. j \in Nat /\ j >= 1
    <2> HIDE DEF j
    <2> QED
        BY <1>1b, <1>2
<1>6. n \in j..Len(template)
    <2> HIDE DEF j
    <2> QED
        BY <1>1, <1>1a, <1>5, FoundFirst
<1>7. template[n] = "}" /\ \A q \in j..(n - 1) : template[q] # "}"
    <2> HIDE DEF j
    <2> QED
        BY <1>1, <1>1a, <1>5, FoundFirst
<1> HIDE DEF j, n
<1>7a. n # j
    BY <1>3, <1>7
<1>8. /\ n \in (j + 1)..Len(template) /\ n \in Nat
      /\ n + 1 \in 1..(Len(template) + 1) /\ (n + 1) - 1 = n
    BY <1>1b, <1>7a, <1>5, <1>6
<1>9. Closes(template, j, n)
    BY <1>7, <1>8 DEF Closes
<1>10. FlattenTo(e, j - 1) = printed \o SubSeq(template, i, j - 1)
    <2>1. FlattenTo(e, j - 1) = FlattenTo(e, i - 1) \o SubSeq(template, i, j - 1)
        BY <1>1a, <1>4, BeforeOpening
    <2> QED
        BY <1>1c, <2>1
<1>11. /\ In(name, FormatContext) <=> n = j + 2 /\ template[j + 1] \in DOMAIN FormatContext
       /\ n = j + 2 => name[1] = template[j + 1]
    BY <1>1a, <1>4, <1>9, Between
<1>12. FlattenTo(e, n) = FlattenTo(e, j - 1) \o lookupVar(name)
    <2>1. CASE In(name, FormatContext)
        <3>1. n = j + 2 /\ template[j + 1] \in DOMAIN FormatContext /\ name[1] = template[j + 1]
            BY <1>11, <2>1
        <3>2. FlattenTo(e, j + 2) = FlattenTo(e, j - 1) \o FormatContext[template[j + 1]]
            BY <1>1a, <1>4, <1>9, <3>1, VariableReplaced
        <3>3. lookupVar(name) = FormatContext[template[j + 1]]
            BY <2>1, <3>1 DEF lookupVar
        <3> QED
            BY <3>1, <3>2, <3>3
    <2>2. CASE ~In(name, FormatContext)
        <3>1. ~(n = j + 2 /\ template[j + 1] \in DOMAIN FormatContext)
            BY <1>11, <2>2
        <3>2. FlattenTo(e, n) = FlattenTo(e, j - 1) \o SubSeq(template, j, n)
            BY <1>1a, <1>4, <1>9, <3>1, UnknownKept, ZenonT(30)
        <3>3. <<template[j]>> \o name \o <<template[n]>> = SubSeq(template, j, n)
            <4>1. j < n /\ n <= Len(template)
                BY <1>1b, <1>5, <1>8
            <4> QED
                BY <1>1a, <1>5, <1>8, <4>1, SegmentBetween
        <3>4. lookupVar(name) = <<"#{">> \o name \o <<"}">>
            BY <2>2 DEF lookupVar
        <3>5. lookupVar(name) = SubSeq(template, j, n)
            BY <1>3, <1>7, <3>3, <3>4
        <3> QED
            BY <3>2, <3>5
    <2> QED
        BY <2>1, <2>2
<1>13. printed' = FlattenTo(e, n)
    BY <1>1, <1>10, <1>12
<1> HIDE DEF e
<1>14. printed' = Output(n)
    BY <1>13 DEF e, Output
<1>15. FormatContext' = FormatContext /\ Given' = Given
    BY <1>1, SameContext DEF Given
<1>16. ScanStart(template, n + 1)
    BY <1>7, <1>8 DEF ScanStart
<1>17. Output(i - 1)' = Output(n)
    <2>1. i' - 1 = n
        BY <1>1, <1>8
    <2> QED
        BY <1>1, <1>15, <2>1 DEF Output
<1>18. ScanStart(template, i)'
    BY <1>1, <1>16
<1> QED
    BY <1>1, <1>1c, <1>14, <1>15, <1>17, <1>18 DEF PrintingInv

LEMMA PrintingEnds ==
    ASSUME ParserInv, PrintingInv, ExpandRest
    PROVE  PrintingInv'
<1> DEFINE j == Min(Found("#{", i))
           e == PiecesOf(template, FormatContext)
<1>1. /\ phase = "printing"
      /\ Found("#{", i) # {} => Found("}", j) = {}
      /\ printed' = printed \o SubSeq(template, i, Len(template))
      /\ phase' = "done" /\ UNCHANGED <<cmd, opts, template>>
    BY DEF ExpandRest
<1>1a. template \in Seq(Tokens) /\ ScanStart(template, i) /\ ValuesOf(FormatContext)
    BY <1>1, TemplateFacts
<1>1b. i \in Nat /\ i >= 1 /\ Len(template) \in Nat
    BY <1>1, TemplateFacts
<1>1c. template = Given /\ opts["Format"] \in Words /\ printed = FlattenTo(e, i - 1)
    BY <1>1, TemplateFacts, FormatRead DEF Output
<1>2. ASSUME NEW p \in i..Len(template), NEW q \in p..Len(template),
             NEW k \in i..Len(template), p \notin i..(k - 1)
      PROVE  q \in k..Len(template)
    BY <1>1b, <1>2
<1>3. NoneCloses(template, i)
    <2> SUFFICES ASSUME NEW p \in i..Len(template), template[p] = "#{",
                        NEW q \in p..Len(template), template[q] = "}"
                 PROVE  FALSE
        BY DEF NoneCloses
    <2>1. p \in Found("#{", i)
        BY DEF Found
    <2>2. Found("}", j) = {}
        BY <1>1, <2>1
    <2>3. j \in i..Len(template)
        BY <1>1a, <1>1b, <2>1, FoundFirst
    <2>4. p \notin i..(j - 1)
        BY <1>1a, <1>1b, <2>1, FoundFirst
    <2> HIDE DEF j
    <2>5. q \in j..Len(template)
        BY <1>2, <2>3, <2>4
    <2>6. q \in Found("}", j)
        BY <2>5 DEF Found
    <2> QED
        BY <2>2, <2>6
<1>4. printed' = FlattenTo(e, Len(template))
    <2>1. FlattenTo(e, Len(template)) = FlattenTo(e, i - 1) \o SubSeq(template, i, Len(template))
        BY <1>1a, <1>3, RestKept
    <2> QED
        BY <1>1, <1>1c, <2>1
<1> HIDE DEF e
<1>5. printed' = Output(Len(template))
    BY <1>4 DEF e, Output
<1>6. FormatContext' = FormatContext /\ Given' = Given
    BY <1>1, SameContext DEF Given
<1>7. Output(Len(template))' = Output(Len(template))
    BY <1>1, <1>6 DEF Output
<1> QED
    BY <1>1, <1>1c, <1>5, <1>6, <1>7 DEF PrintingInv

\* Expansion begins with the template the options call for and nothing printed.
LEMMA PrintingBegins ==
    ASSUME ParserInv, PrintingInv, Handle
    PROVE  PrintingInv'
<1>1. /\ phase = "options" /\ printed = <<>> /\ template = <<>>
      /\ i' = 1 /\ UNCHANGED <<cmd, opts>>
    BY DEF Handle, PrintingInv
<1>2. opts["Format"] \in Words /\ Given' = Given
    BY <1>1, FormatRead DEF Given
<1>3. Given \in Seq(Tokens)
    BY <1>2, GivenType
<1>4. CASE phase' = "printing"
    <2>1. template' = Given /\ printed' = <<>>
        BY <1>1, <1>4 DEF Handle, Given
    <2>2. ScanStart(template', 1)
        <3>1. 1 \in 1..(Len(Given) + 1)
            BY <1>3
        <3> QED
            BY <2>1, <3>1 DEF ScanStart
    <2>3. FlattenTo(PiecesOf(template', FormatContext'), 0) = <<>>
        <3>1. ValuesOf(FormatContext')
            BY <1>1, ContextFacts DEF FormatContext
        <3>2. template' \in Seq(Tokens)
            BY <1>3, <2>1
        <3> DEFINE e == PiecesOf(template', FormatContext')
        <3>3. e \in Seq(Seq(Tokens))
            BY <3>1, <3>2, PiecesType
        <3> HIDE DEF e
        <3>4. 0 \in 0..Len(e)
            BY <3>3
        <3>5. FlattenTo(e, 0) = <<>>
            BY <3>3, <3>4, FlattenToFacts
        <3> QED
            BY <3>5 DEF e
    <2>4. i' - 1 = 0
        BY <1>1
    <2>5. printed' = Output(i - 1)'
        BY <2>1, <2>3, <2>4 DEF Output
    <2> QED
        BY <1>1, <1>2, <1>4, <2>1, <2>2, <2>5 DEF PrintingInv
<1>5. CASE phase' # "printing"
    <2>1. phase' = "done" /\ template' = <<>>
        BY <1>1, <1>5 DEF Handle
    <2> QED
        BY <2>1 DEF PrintingInv
<1> QED
    BY <1>4, <1>5

LEMMA PrintingStep == ParserInv /\ PrintingInv /\ [Next]_vars => PrintingInv'
<1> SUFFICES ASSUME ParserInv, PrintingInv, [Next]_vars
             PROVE  PrintingInv'
    OBVIOUS
<1>1. CASE TakeFlag \/ TakeValue \/ TakeWord
    BY <1>1 DEF TakeFlag, TakeValue, TakeWord, Parsing, PrintingInv
<1>2. CASE MissingValue
    BY <1>2 DEF MissingValue, Rejected, Parsing, PrintingInv
<1>3. CASE NoCommand
    BY <1>3 DEF NoCommand, Rejected, AtCommand, PrintingInv
<1>4. CASE Version
    BY <1>4 DEF Version, AtCommand, PrintingInv
<1>5. CASE CommandName
    BY <1>5 DEF CommandName, AtCommand, PrintingInv
<1>6. CASE KeyArguments
    BY <1>6 DEF KeyArguments, PrintingInv
<1>7. CASE Handle
    BY <1>7, PrintingBegins
<1>8. CASE BuildSendKeysData
    BY <1>8 DEF BuildSendKeysData, PrintingInv
<1>9. CASE ExpandVariable
    BY <1>9, PrintingTurn
<1>10. CASE ExpandRest
    BY <1>10, PrintingEnds
<1>11. CASE UNCHANGED vars
    <2>1. UNCHANGED <<phase, cmd, opts, i, template, printed>>
        BY <1>11 DEF vars
    <2>2. FormatContext' = FormatContext /\ Given' = Given
        BY <2>1, SameContext DEF Given
    <2>3. Output(i - 1)' = Output(i - 1) /\ Output(Len(template))' = Output(Len(template))
        BY <2>1, <2>2 DEF Output
    <2> QED
        BY <2>1, <2>2, <2>3 DEF PrintingInv
<1> QED
    BY <1>1, <1>2, <1>3, <1>4, <1>5, <1>6, <1>7, <1>8, <1>9, <1>10, <1>11 DEF Next

\* ExpandFormat replaces every variable of any template once and keeps all the rest
\* (format.go:27), for any session name.
THEOREM VariablesExpandedOnce == Spec => []FormatExpandedOnce
<1>1. PrintingInv => FormatExpandedOnce
    <2> DEFINE n == IF phase = "printing" THEN i - 1 ELSE Len(Given)
    <2> SUFFICES ASSUME PrintingInv, phase = "printing" \/ template # <<>>
                 PROVE  printed = FlattenSeq([p \in 1..n |-> Expansion(p)])
        BY Zenon DEF FormatExpandedOnce
    <2>1. template = Given /\ phase \in {"printing", "done"}
        BY DEF PrintingInv
    <2>2. Given \in Seq(Tokens)
        BY GivenType DEF PrintingInv
    <2>3. n \in 0..Len(Given)
        <3>1. Len(Given) \in Nat
            BY <2>2
        <3>2. phase = "printing" => i \in 1..(Len(Given) + 1)
            BY <2>1 DEF PrintingInv, ScanStart
        <3> QED
            BY <3>1, <3>2
    <2>4. printed = FlattenTo(PiecesOf(Given, FormatContext), n)
        BY <2>1 DEF PrintingInv, Output
    <2> HIDE DEF n
    <2> QED
        BY <2>2, <2>3, <2>4, ExpansionsAgree
<1> QED
    BY <1>1, PrintingInit, PrintingStep, ParserInvariant, PTL DEF Spec

================================================================================
