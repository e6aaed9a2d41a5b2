--------------------------- MODULE KeyExpansionProofs ---------------------------
(***************************************************************************)
(* Proofs about KeyExpansion, and the facts about least and greatest       *)
(* numbers, induction and FlattenSeq that these and the proofs about       *)
(* CommandLine rest on.                                                    *)
(***************************************************************************)
EXTENDS KeyExpansion, Integers, SequenceTheorems, WellFoundedInduction, TLAPS

-----------------------------------------------------------------------------
(* Numbers *)

\* Every non-empty set of natural numbers has a least element.
LEMMA LeastNatural ==
    ASSUME NEW T, T \subseteq Nat, T # {}
    PROVE  \E x \in T : \A y \in T : x <= y
<1> DEFINE R == {p \in Nat \X Nat : p[1] < p[2]}
<1>1. IsWellFoundedOn(R, Nat)
    BY NatLessThanWellFounded, Zenon DEF OpToRel
<1>2. \A x, y \in Nat : <<y, x>> \notin R => x <= y
    OBVIOUS
<1> HIDE DEF R
<1>3. PICK x \in T : \A y \in T : <<y, x>> \notin R
    BY <1>1, WFMin, Zenon
<1>4. ASSUME NEW y \in T
      PROVE  x <= y
    <2>1. x \in Nat /\ y \in Nat
        OBVIOUS
    <2> QED
        BY <1>2, <1>3, <2>1
<1> QED
    BY <1>4

\* Induction, for a property that is given as a set.
LEMMA NatSetInduction ==
    ASSUME NEW T, 0 \in T, \A n \in Nat : n \in T => n + 1 \in T
    PROVE  \A n \in Nat : n \in T
<1> SUFFICES ASSUME Nat \ T # {}
             PROVE  FALSE
    OBVIOUS
<1>1. PICK x \in Nat \ T : \A y \in Nat \ T : x <= y
    BY LeastNatural
<1> QED
    BY <1>1

\* Min of a non-empty set of numbers is its least element.
LEMMA MinFacts ==
    ASSUME NEW T, T \subseteq Nat, T # {}
    PROVE  Min(T) \in T /\ \A y \in T : Min(T) <= y
<1>1. \E x \in T : \A y \in T : x <= y
    BY LeastNatural
<1> QED
    BY <1>1, Zenon DEF Min

\* Max of a non-empty set of numbers below a bound is its greatest element.
LEMMA MaxFacts ==
    ASSUME NEW n \in Nat, NEW T, T \subseteq 0..n, T # {}
    PROVE  Max(T) \in T /\ \A y \in T : Max(T) >= y
<1> DEFINE U == {n - x : x \in T}
<1>1. \A x \in T : x \in Int /\ n - x \in U /\ n - x \in Nat
    OBVIOUS
<1>2. \A u \in U : \E x \in T : u = n - x
    OBVIOUS
<1>3. U \subseteq Nat /\ U # {}
    BY <1>1, <1>2
<1> HIDE DEF U
<1>4. PICK u \in U : \A v \in U : u <= v
    BY <1>3, LeastNatural
<1>5. PICK x \in T : u = n - x
    BY <1>2
<1>6. ASSUME NEW y \in T
      PROVE  x >= y
    <2>1. n - x <= n - y
        BY <1>1, <1>4, <1>5
    <2> QED
        BY <1>1, <2>1
<1>7. \E z \in T : \A y \in T : z >= y
    BY <1>6
<1> QED
    BY <1>7, Zenon DEF Max

\* The elements of a concatenation.
LEMMA Joined ==
    ASSUME NEW S, NEW s \in Seq(S), NEW t \in Seq(S), NEW n \in Nat, NEW m \in Nat,
           Len(s) = n, Len(t) = m
    PROVE  /\ s \o t \in Seq(S) /\ Len(s \o t) = n + m
           /\ \A k \in 1..n : (s \o t)[k] = s[k]
           /\ \A k \in 1..m : (s \o t)[n + k] = t[k]
<1>1. /\ s \o t \in Seq(S)
      /\ Len(s \o t) = n + m
      /\ \A k \in 1..(n + m) : (s \o t)[k] = IF k <= n THEN s[k] ELSE t[k - n]
    BY ConcatProperties
<1>2. \A k \in 1..n : k \in 1..(n + m) /\ k <= n
    OBVIOUS
<1>3. \A k \in 1..m : n + k \in 1..(n + m) /\ ~(n + k <= n) /\ (n + k) - n = k
    OBVIOUS
<1> QED
    BY <1>1, <1>2, <1>3

-----------------------------------------------------------------------------
(* FlattenSeq *)

\* The recursive function of FlattenSeq, up to n: g satisfies its equation.
Flattens(s, n, g) == g = [k \in 1..n |-> IF k = 1 THEN s[k] ELSE g[k - 1] \o s[k]]

\* The two agree up to n.
Agree(f, g, n) == \A k \in 1..n : f[k] = g[k]

\* Some function satisfies the equation, whatever its length.
LEMMA FlattensExists ==
    ASSUME NEW s
    PROVE  \A n \in Nat : \E g : Flattens(s, n, g)
<1> DEFINE T == {n \in Nat : \E g : Flattens(s, n, g)}
<1>1. 0 \in T
    <2>1. Flattens(s, 0, [k \in 1..0 |-> 0])
        BY DEF Flattens
    <2> QED
        BY <2>1
<1>2. ASSUME NEW n \in Nat, n \in T
      PROVE  n + 1 \in T
    <2>1. PICK g : Flattens(s, n, g)
        BY <1>2
    <2> DEFINE h == [k \in 1..(n + 1) |-> IF k = n + 1
                                         THEN IF k = 1 THEN s[k] ELSE g[n] \o s[k]
                                         ELSE g[k]]
    <2>2. ASSUME NEW k \in 1..(n + 1)
          PROVE  h[k] = IF k = 1 THEN s[k] ELSE h[k - 1] \o s[k]
        <3>1. CASE k = n + 1
            BY <3>1
        <3>2. CASE k # n + 1
            <4>1. k \in 1..n
                BY <3>2
            <4>2. g[k] = IF k = 1 THEN s[k] ELSE g[k - 1] \o s[k]
                BY <2>1, <4>1 DEF Flattens
            <4>3. h[k] = g[k] /\ (k # 1 => h[k - 1] = g[k - 1])
                BY <4>1
            <4> QED
                BY <4>2, <4>3
        <3> QED
            BY <3>1, <3>2
    <2>3. h = [k \in 1..(n + 1) |-> h[k]]
        OBVIOUS
    <2> HIDE DEF h
    <2>4. Flattens(s, n + 1, h)
        BY <2>2, <2>3 DEF Flattens
    <2> QED
        BY <2>4
<1> HIDE DEF T
<1>3. \A n \in Nat : n \in T
    BY <1>1, <1>2, NatSetInduction
<1> QED
    BY <1>3 DEF T

\* The equation determines the function, on the common part of two sequences.
LEMMA FlattensUnique ==
    ASSUME NEW s, NEW t, NEW n \in Nat, NEW m \in Nat, n <= m, Agree(s, t, n),
           NEW g, NEW h, Flattens(s, n, g), Flattens(t, m, h)
    PROVE  Agree(g, h, n)
<1> DEFINE T == {k \in Nat : k \in 1..n => g[k] = h[k]}
<1>1. 0 \in T
    OBVIOUS
<1>2. ASSUME NEW k \in Nat, k \in T
      PROVE  k + 1 \in T
    <2> SUFFICES ASSUME k + 1 \in 1..n
                 PROVE  g[k + 1] = h[k + 1]
        OBVIOUS
    <2>1. k + 1 \in 1..m
        OBVIOUS
    <2>2. g[k + 1] = IF k + 1 = 1 THEN s[k + 1] ELSE g[(k + 1) - 1] \o s[k + 1]
        BY DEF Flattens
    <2>3. h[k + 1] = IF k + 1 = 1 THEN t[k + 1] ELSE h[(k + 1) - 1] \o t[k + 1]
        BY <2>1 DEF Flattens
    <2>4. k # 0 => g[k] = h[k]
        BY <1>2
    <2>5. (k + 1) - 1 = k /\ (k + 1 = 1 <=> k = 0)
        OBVIOUS
    <2>6. s[k + 1] = t[k + 1]
        BY DEF Agree
    <2> QED
        BY <2>2, <2>3, <2>4, <2>5, <2>6
<1> HIDE DEF T
<1>3. \A k \in Nat : k \in T
    BY <1>1, <1>2, NatSetInduction
<1> QED
    BY <1>3 DEF T, Agree

\* FlattenSeq is what the equation determines.
LEMMA FlattenIs ==
    ASSUME NEW s, NEW n \in Nat, Len(s) = n, n # 0
    PROVE  \E g : Flattens(s, n, g) /\ FlattenSeq(s) = g[n]
<1> DEFINE g == CHOOSE x : Flattens(s, Len(s), x)
<1>1. FlattenSeq(s) = g[Len(s)]
    BY DEF FlattenSeq, Flattens
<1>2. Flattens(s, Len(s), g)
    BY FlattensExists, Zenon
<1> QED
    BY <1>1, <1>2

LEMMA FlattenEmpty == FlattenSeq(<<>>) = <<>>
    BY DEF FlattenSeq

\* One more sequence at the end.
LEMMA FlattenAppend ==
    ASSUME NEW S, NEW s \in Seq(Seq(S)), NEW t \in Seq(Seq(S)), Len(t) = Len(s) + 1,
           Agree(s, t, Len(s))
    PROVE  FlattenSeq(t) = FlattenSeq(s) \o t[Len(t)]
<1> DEFINE n == Len(s)
<1>0. n \in Nat /\ Len(s) = n /\ Len(t) = n + 1 /\ Agree(s, t, n)
    OBVIOUS
<1>a. n + 1 \in 1..(n + 1)
    BY <1>0
<1> HIDE DEF n
<1>1. PICK h : Flattens(t, n + 1, h) /\ FlattenSeq(t) = h[n + 1]
    BY FlattenIs, <1>0
<1>2. h[n + 1] = IF n + 1 = 1 THEN t[n + 1] ELSE h[(n + 1) - 1] \o t[n + 1]
    BY <1>1, <1>a DEF Flattens
<1>3. CASE n = 0
    <2>1. s = <<>>
        BY <1>0, <1>3, EmptySeq
    <2>2. t[n + 1] \in Seq(S)
        BY <1>3
    <2>3. FlattenSeq(s) \o t[n + 1] = t[n + 1]
        BY <2>1, <2>2, FlattenEmpty, ConcatEmptySeq
    <2> QED
        BY <1>0, <1>1, <1>2, <1>3, <2>3
<1>4. CASE n # 0
    <2>1. PICK g : Flattens(s, n, g) /\ FlattenSeq(s) = g[n]
        BY FlattenIs, <1>0, <1>4
    <2>2. Agree(g, h, n)
        <3> DEFINE m == n + 1
        <3>1. m \in Nat /\ n <= m /\ Flattens(t, m, h)
            BY <1>0, <1>1
        <3> HIDE DEF m
        <3> QED
            BY <1>0, <2>1, <3>1, FlattensUnique
    <2>3. n \in 1..n /\ (n + 1) - 1 = n /\ n + 1 # 1
        BY <1>0, <1>4
    <2>4. g[n] = h[n]
        BY <2>2, <2>3, Zenon DEF Agree
    <2> QED
        BY <1>0, <1>1, <1>2, <2>1, <2>3, <2>4
<1> QED
    BY <1>3, <1>4

\* The result is a sequence.
LEMMA FlattenType ==
    ASSUME NEW S, NEW s \in Seq(Seq(S))
    PROVE  FlattenSeq(s) \in Seq(S)
<1> DEFINE n == Len(s)
<1>0. n \in Nat
    OBVIOUS
<1>1. CASE n = 0
    BY <1>1, EmptySeq, FlattenEmpty
<1>2. CASE n # 0
    <2>1. PICK g : Flattens(s, n, g) /\ FlattenSeq(s) = g[n]
        BY FlattenIs, <1>0, <1>2
    <2> DEFINE T == {k \in Nat : k \in 1..n => g[k] \in Seq(S)}
    <2>2. 0 \in T
        OBVIOUS
    <2>3. ASSUME NEW k \in Nat, k \in T
          PROVE  k + 1 \in T
        <3> SUFFICES ASSUME k + 1 \in 1..n
                     PROVE  g[k + 1] \in Seq(S)
            OBVIOUS
        <3>1. g[k + 1] = IF k + 1 = 1 THEN s[k + 1] ELSE g[(k + 1) - 1] \o s[k + 1]
            BY <2>1 DEF Flattens
        <3>2. (k + 1) - 1 = k /\ (k + 1 = 1 <=> k = 0)
            OBVIOUS
        <3>3. k # 0 => g[k] \in Seq(S)
            BY <2>3
        <3>4. s[k + 1] \in Seq(S)
            OBVIOUS
        <3> QED
            BY <3>1, <3>2, <3>3, <3>4
    <2> HIDE DEF T
    <2>4. \A k \in Nat : k \in T
        BY <2>2, <2>3, NatSetInduction
    <2>5. n \in T
        BY <1>0, <2>4
    <2> QED
        BY <1>0, <1>2, <2>1, <2>5 DEF T
<1> QED
    BY <1>1, <1>2

\* What the first n sequences of e give.
FlattenTo(e, n) == FlattenSeq([k \in 1..n |-> e[k]])

LEMMA FlattenToFacts ==
    ASSUME NEW S, NEW e \in Seq(Seq(S)), NEW n \in 0..Len(e)
    PROVE  /\ FlattenTo(e, n) \in Seq(S)
           /\ n = 0 => FlattenTo(e, n) = <<>>
           /\ n > 0 => FlattenTo(e, n) = FlattenTo(e, n - 1) \o e[n]
<1> DEFINE p(k) == [j \in 1..k |-> e[j]]
<1>1. \A k \in 0..Len(e) : p(k) \in Seq(Seq(S)) /\ Len(p(k)) = k
    OBVIOUS
<1>2. FlattenTo(e, n) \in Seq(S)
    <2>1. p(n) \in Seq(Seq(S))
        BY <1>1
    <2> QED
        BY <2>1, FlattenType DEF FlattenTo
<1>3. n = 0 => FlattenTo(e, n) = <<>>
    <2> SUFFICES ASSUME n = 0
                 PROVE  FlattenTo(e, n) = <<>>
        OBVIOUS
    <2>1. p(n) = <<>>
        BY <1>1, EmptySeq
    <2> QED
        BY <2>1, FlattenEmpty DEF FlattenTo
<1>4. ASSUME n > 0
      PROVE  FlattenTo(e, n) = FlattenTo(e, n - 1) \o e[n]
    <2> DEFINE s == p(n - 1)
               t == p(n)
    <2>1. s \in Seq(Seq(S)) /\ t \in Seq(Seq(S)) /\ Len(s) = n - 1 /\ Len(t) = n
        BY <1>1, <1>4
    <2>2. Agree(s, t, n - 1) /\ t[n] = e[n]
        BY <1>4 DEF Agree
    <2>3. FlattenTo(e, n - 1) = FlattenSeq(s) /\ FlattenTo(e, n) = FlattenSeq(t)
        BY DEF FlattenTo
    <2> HIDE DEF s, t
    <2>4. Len(t) = Len(s) + 1 /\ Agree(s, t, Len(s))
        BY <2>1, <2>2
    <2>5. FlattenSeq(t) = FlattenSeq(s) \o t[Len(t)]
        BY <2>1, <2>4, FlattenAppend
    <2> QED
        BY <2>1, <2>2, <2>3, <2>5
<1> QED
    BY <1>2, <1>3, <1>4

\* A segment grows by one element.
LEMMA SegmentGrows ==
    ASSUME NEW S, NEW u \in Seq(S), NEW n \in Nat, NEW q \in Nat, n <= q, q + 1 <= Len(u),
           NEW a \in Seq(S)
    PROVE  (a \o SubSeq(u, n + 1, q)) \o <<u[q + 1]>> = a \o SubSeq(u, n + 1, q + 1)
<1> DEFINE b == SubSeq(u, n + 1, q)
           c == <<u[q + 1]>>
           d == SubSeq(u, n + 1, q + 1)
<1>1. u[q + 1] \in S
    OBVIOUS
<1>2. b \in Seq(S) /\ c \in Seq(S) /\ Len(b) = q - n /\ Len(c) = 1
    BY <1>1
<1>3. d \in Seq(S) /\ Len(d) = q + 1 - n
    OBVIOUS
<1>4. b \o c \in Seq(S) /\ Len(b \o c) = q + 1 - n
    BY <1>2
<1>5. ASSUME NEW k \in 1..(q + 1 - n)
      PROVE  d[k] = (b \o c)[k]
    BY <1>2
<1>6. d = b \o c
    BY <1>3, <1>4, <1>5, SeqEqual
<1> HIDE DEF b, c, d
<1>7. (a \o b) \o c = a \o (b \o c)
    BY <1>2, ConcatAssociative, SMTT(60)
<1> QED
    BY <1>6, <1>7 DEF b, c, d

\* Single elements in a row are copied.
LEMMA FlattenSegment ==
    ASSUME NEW S, NEW e \in Seq(Seq(S)), NEW u \in Seq(S), Len(u) = Len(e),
           NEW n \in 0..Len(e), NEW m \in n..Len(e),
           \A k \in (n + 1)..m : e[k] = <<u[k]>>
    PROVE  FlattenTo(e, m) = FlattenTo(e, n) \o SubSeq(u, n + 1, m)
<1> DEFINE T == {d \in Nat : n + d \in n..m =>
                    FlattenTo(e, n + d) = FlattenTo(e, n) \o SubSeq(u, n + 1, n + d)}
<1>0. FlattenTo(e, n) \in Seq(S)
    BY FlattenToFacts
<1>1. 0 \in T
    <2>1. SubSeq(u, n + 1, n) = <<>> /\ n + 0 = n
        BY SubSeqEmpty
    <2>2. FlattenTo(e, n) \o <<>> = FlattenTo(e, n)
        BY <1>0, ConcatEmptySeq
    <2> QED
        BY <2>1, <2>2
<1>2. ASSUME NEW d \in Nat, d \in T
      PROVE  d + 1 \in T
    <2>0. d + 1 \in Nat
        OBVIOUS
    <2> SUFFICES ASSUME n + (d + 1) \in n..m
                 PROVE  FlattenTo(e, n + (d + 1))
                            = FlattenTo(e, n) \o SubSeq(u, n + 1, n + (d + 1))
        BY <2>0, Zenon
    <2> DEFINE q == n + d
               a == FlattenTo(e, n)
               b == SubSeq(u, n + 1, q)
               c == <<u[q + 1]>>
    <2>1. /\ q \in Nat /\ n <= q /\ q + 1 <= Len(u) /\ q \in n..m
          /\ q + 1 \in (n + 1)..m /\ n + (d + 1) = q + 1 /\ q + 1 \in 0..Len(e)
        OBVIOUS
    <2>2. FlattenTo(e, q) = a \o b
        BY <1>2, <2>1
    <2> HIDE DEF q
    <2>3. FlattenTo(e, q + 1) = FlattenTo(e, q) \o c
        <3>1. (q + 1) - 1 = q /\ q + 1 > 0
            BY <2>1
        <3>2. FlattenTo(e, q + 1) = FlattenTo(e, (q + 1) - 1) \o e[q + 1]
            BY <2>1, <3>1, FlattenToFacts
        <3> QED
            BY <2>1, <3>1, <3>2
    <2>4. (a \o b) \o c = a \o SubSeq(u, n + 1, q + 1)
        <3>1. n \in Nat /\ a \in Seq(S) /\ n <= q /\ q + 1 <= Len(u) /\ q \in Nat
            BY <1>0, <2>1
        <3> HIDE DEF a
        <3> QED
            BY <3>1, SegmentGrows, ZenonT(30)
    <2> QED
        BY <2>1, <2>2, <2>3, <2>4
<1> HIDE DEF T
<1>3. \A d \in Nat : d \in T
    BY <1>1, <1>2, NatSetInduction
<1>4. m - n \in Nat /\ n + (m - n) = m /\ m \in n..m
    OBVIOUS
<1>5. m - n \in T
    BY <1>3, <1>4
<1> QED
    BY <1>4, <1>5 DEF T

-----------------------------------------------------------------------------
(* The tables *)

\* Looking a name up in two tables.
LEMMA TablesMerged ==
    ASSUME NEW f, NEW g
    PROVE  /\ DOMAIN (f ++ g) = DOMAIN f \cup DOMAIN g
           /\ \A x \in DOMAIN f : (f ++ g)[x] = f[x]
           /\ \A x \in DOMAIN g \ DOMAIN f : (f ++ g)[x] = g[x]
    BY DEF ++

\* A name of namedKeys is not hidden by another table.
LEMMA NamedKeysFirst ==
    \A t \in DOMAIN namedKeys : t \in DOMAIN specialKeys /\ specialKeys[t] = namedKeys[t]
    BY ZenonT(60) DEF specialKeys, ++

\* No name of a key is a modifier prefix.
LEMMA NamesAreNoPrefixes == DOMAIN specialKeys \cap ModifierPrefixes = {}
<1> DEFINE clear(table) == DOMAIN table \cap ModifierPrefixes = {}
<1>1. \A f, g : clear(f) /\ clear(g) => clear(f ++ g)
    BY TablesMerged
<1>2. clear(namedKeys)
    BY DEF namedKeys, ModifierPrefixes
<1>3. clear(Characters(0, <<"[NUL]", "[SOH]", "[STX]", "[ETX]", "[EOT]", "[ENQ]", "[ASC]",
                       "[BEL]", "[BS]">>))
    BY DEF Characters, ToSet, ModifierPrefixes
<1>4. clear(Characters(10, <<"[LF]", "[VT]", "[FF]">>))
    BY DEF Characters, ToSet, ModifierPrefixes
<1>5. clear(Characters(14, <<"[SO]", "[SI]", "[DLE]", "[DC1]", "[DC2]", "[DC3]", "[DC4]",
                        "[NAK]", "[SYN]", "[ETB]", "[CAN]", "[EM]", "[SUB]">>))
    BY DEF Characters, ToSet, ModifierPrefixes
<1>6. clear(Characters(28, <<"[FS]", "[GS]", "[RS]", "[US]">>))
    BY DEF Characters, ToSet, ModifierPrefixes
<1>7. clear(Characters(42, <<"KP*", "KP+">>))
    BY DEF Characters, ToSet, ModifierPrefixes
<1>8. clear(Characters(45, <<"KP-", "KP.", "KP/", "KP0", "KP1", "KP2", "KP3", "KP4", "KP5",
                        "KP6", "KP7", "KP8", "KP9">>))
    BY DEF Characters, ToSet, ModifierPrefixes
<1> HIDE DEF clear
<1>9. clear(specialKeys)
    BY <1>1, <1>2, <1>3, <1>4, <1>5, <1>6, <1>7, <1>8, Zenon DEF specialKeys
<1> QED
    BY <1>9 DEF clear

\* The number and the last byte of a plain sequence.
Final(plain)  == plain[Len(plain)]
Number(plain) == IF Final(plain) = 126 THEN SubSeq(plain, 3, Len(plain) - 1) ELSE <<49>>

\* They are found behind the two bytes of the introducer.
LEMMA PlainParts ==
    ASSUME NEW s \in Seq(Nat), Len(s) > 0, NEW plain, plain = CSI(s) \/ plain = SS3(s)
    PROVE  /\ Final(plain) = s[Len(s)]
           /\ Number(plain) = IF s[Len(s)] = 126 THEN Front(s) ELSE <<49>>
<1>1. PICK h \in Seq(Nat) : Len(h) = 2 /\ plain = h \o s
    <2> DEFINE c == <<27, 91>>
               d == <<27, 79>>
    <2>1. c \in Seq(Nat) /\ Len(c) = 2 /\ d \in Seq(Nat) /\ Len(d) = 2
        OBVIOUS
    <2>2. plain = c \o s \/ plain = d \o s
        BY DEF CSI, SS3, ESC
    <2> HIDE DEF c, d
    <2> QED
        BY <2>1, <2>2
<1> DEFINE n == Len(s)
<1>2. n \in Nat /\ n > 0 /\ Len(s) = n
    OBVIOUS
<1> HIDE DEF n
<1> DEFINE p == h \o s
<1>3. p \in Seq(Nat) /\ Len(p) = n + 2 /\ \A k \in 1..n : p[k + 2] = s[k]
    <2>1. /\ h \o s \in Seq(Nat)
          /\ Len(h \o s) = Len(h) + Len(s)
          /\ \A k \in 1..(Len(h) + Len(s)) :
                (h \o s)[k] = IF k <= Len(h) THEN h[k] ELSE s[k - Len(h)]
        BY ConcatProperties
    <2>2. Len(h) = 2 /\ Len(s) = n
        BY <1>1, <1>2
    <2> HIDE DEF p
    <2>3. /\ p \in Seq(Nat)
          /\ Len(p) = 2 + n
          /\ \A k \in 1..(2 + n) : p[k] = IF k <= 2 THEN h[k] ELSE s[k - 2]
        BY <2>1, <2>2, Zenon DEF p
    <2>4. ASSUME NEW k \in 1..n
          PROVE  p[k + 2] = s[k]
        <3>1. k + 2 \in 1..(2 + n) /\ ~(k + 2 <= 2) /\ (k + 2) - 2 = k
            BY <1>2
        <3> QED
            BY <2>3, <3>1
    <2> QED
        BY <1>2, <2>3, <2>4
<1> HIDE DEF p
<1>4. plain = p
    BY <1>1 DEF p
<1>5. Final(plain) = s[n]
    BY <1>2, <1>3, <1>4 DEF Final
<1>6. SubSeq(plain, 3, Len(plain) - 1) = SubSeq(s, 1, n - 1)
    <2> DEFINE u == SubSeq(plain, 3, n + 1)
               v == SubSeq(s, 1, n - 1)
    <2>1. u \in Seq(Nat) /\ Len(u) = n - 1
        BY <1>2, <1>3, <1>4
    <2>2. v \in Seq(Nat) /\ Len(v) = n - 1
        BY <1>2
    <2>3. ASSUME NEW k \in 1..(n - 1)
          PROVE  u[k] = v[k]
        <3>1. u[k] = plain[3 + k - 1]
            <4>1. 3 \in Int /\ n + 1 \in Int /\ k \in 1..((n + 1) - 3 + 1)
                BY <1>2
            <4>2. \A j \in 3..(n + 1) : plain[j] \in Nat
                BY <1>2, <1>3, <1>4
            <4> QED
                BY <4>1, <4>2, SubSeqProperties
        <3>2. v[k] = s[k]
            BY <1>2
        <3>3. 3 + k - 1 = k + 2 /\ k \in 1..n
            BY <1>2
        <3> QED
            BY <1>3, <1>4, <3>1, <3>2, <3>3
    <2> HIDE DEF u, v
    <2>4. u = v
        BY <1>2, <2>1, <2>2, <2>3, SeqEqual
    <2>5. Len(plain) - 1 = n + 1
        BY <1>2, <1>3, <1>4
    <2> QED
        BY <2>4, <2>5 DEF u, v
<1> QED
    BY <1>2, <1>5, <1>6 DEF Number, Front

\* All but the last of two or three numbers.
LEMMA ShortFronts ==
    ASSUME NEW a \in Nat, NEW b \in Nat, NEW c \in Nat
    PROVE  SubSeq(<<a, c>>, 1, 1) = <<a>> /\ SubSeq(<<a, b, c>>, 1, 2) = <<a, b>>
<1>1. SubSeq(<<a, c>>, 1, 1) = <<a>>
    <2> DEFINE u == <<a, c>>
               v == <<a>>
    <2>1. u \in Seq(Nat) /\ Len(u) = 2 /\ u[1] = a
        OBVIOUS
    <2>2. v \in Seq(Nat) /\ Len(v) = 1 /\ v[1] = a
        OBVIOUS
    <2> HIDE DEF u, v
    <2>3. SubSeq(u, 1, 1) \in Seq(Nat) /\ Len(SubSeq(u, 1, 1)) = 1 /\ SubSeq(u, 1, 1)[1] = a
        BY <2>1
    <2>4. \A k \in 1..1 : SubSeq(u, 1, 1)[k] = v[k]
        BY <2>2, <2>3
    <2>5. SubSeq(u, 1, 1) = v
        BY <2>2, <2>3, <2>4, SeqEqual
    <2> QED
        BY <2>5 DEF u, v
<1>2. SubSeq(<<a, b, c>>, 1, 2) = <<a, b>>
    <2> DEFINE u == <<a, b, c>>
               v == <<a, b>>
               s == SubSeq(u, 1, 2)
    <2>1. u \in Seq(Nat) /\ Len(u) = 3 /\ u[1] = a /\ u[2] = b
        OBVIOUS
    <2>2. v \in Seq(Nat) /\ Len(v) = 2 /\ v[1] = a /\ v[2] = b
        OBVIOUS
    <2> HIDE DEF u, v
    <2>3. s \in Seq(Nat) /\ Len(s) = 2 /\ s[1] = a /\ s[2] = b
        BY <2>1
    <2> HIDE DEF s
    <2>4. \A k \in 1..2 : s[k] = v[k]
        BY <2>2, <2>3
    <2>5. s = v
        BY <2>2, <2>3, <2>4, SeqEqual
    <2> QED
        BY <2>5 DEF u, v, s
<1> QED
    BY <1>1, <1>2

\* The two tables agree: the parts of a modified sequence are those of the plain one.
LEMMA TablesAgree ==
    ASSUME NEW t \in DOMAIN modifiableKeys
    PROVE  /\ t \in DOMAIN namedKeys
           /\ modifiableKeys[t].final = Final(namedKeys[t])
           /\ modifiableKeys[t].num = Number(namedKeys[t])
<1>1. ASSUME NEW a \in Nat \ {126}
      PROVE  /\ Final(CSI(<<a>>)) = a /\ Number(CSI(<<a>>)) = <<49>>
             /\ Final(SS3(<<a>>)) = a /\ Number(SS3(<<a>>)) = <<49>>
    <2> DEFINE s == <<a>>
    <2>1. s \in Seq(Nat) /\ Len(s) = 1 /\ s[1] = a
        OBVIOUS
    <2> HIDE DEF s
    <2>2. \A plain : plain = CSI(s) \/ plain = SS3(s) =>
                         Final(plain) = a /\ Number(plain) = <<49>>
        <3> SUFFICES ASSUME NEW plain, plain = CSI(s) \/ plain = SS3(s)
                     PROVE  Final(plain) = a /\ Number(plain) = <<49>>
            OBVIOUS
        <3>1. Len(s) > 0
            BY <2>1
        <3> QED
            BY <2>1, <3>1, PlainParts
    <2> QED
        BY <2>2 DEF s
<1>2. ASSUME NEW a \in Nat
      PROVE  Final(CSI(<<a, 126>>)) = 126 /\ Number(CSI(<<a, 126>>)) = <<a>>
    <2> DEFINE s == <<a, 126>>
    <2>1. s \in Seq(Nat) /\ Len(s) = 2 /\ s[2] = 126
        OBVIOUS
    <2>2. SubSeq(s, 1, 1) = <<a>>
        BY ShortFronts
    <2> HIDE DEF s
    <2>3. Len(s) - 1 = 1
        BY <2>1
    <2>4. Front(s) = <<a>>
        BY <2>2, <2>3, Zenon DEF Front
    <2>5. Final(CSI(s)) = 126 /\ Number(CSI(s)) = Front(s)
        <3> DEFINE plain == CSI(s)
        <3>1. Len(s) > 0 /\ (plain = CSI(s) \/ plain = SS3(s)) 
            BY <2>1
        <3>2. plain = CSI(s)
            OBVIOUS
        <3> HIDE DEF plain
        <3>3. /\ Final(plain) = s[Len(s)]
              /\ Number(plain) = IF s[Len(s)] = 126 THEN Front(s) ELSE <<49>>
            BY <2>1, <3>1, PlainParts, ZenonT(60)
        <3> QED
            BY <2>1, <3>2, <3>3
    <2> QED
        BY <2>4, <2>5 DEF s
<1>3. ASSUME NEW a \in Nat, NEW b \in Nat
      PROVE  Final(CSI(<<a, b, 126>>)) = 126 /\ Number(CSI(<<a, b, 126>>)) = <<a, b>>
    <2> DEFINE s == <<a, b, 126>>
    <2>1. s \in Seq(Nat) /\ Len(s) = 3 /\ s[3] = 126
        OBVIOUS
    <2>2. SubSeq(s, 1, 2) = <<a, b>>
        BY ShortFronts
    <2> HIDE DEF s
    <2>3. Len(s) - 1 = 2
        BY <2>1
    <2>4. Front(s) = <<a, b>>
        BY <2>2, <2>3, Zenon DEF Front
    <2>5. Final(CSI(s)) = 126 /\ Number(CSI(s)) = Front(s)
        <3> DEFINE plain == CSI(s)
        <3>1. Len(s) > 0 /\ (plain = CSI(s) \/ plain = SS3(s)) 
            BY <2>1
        <3>2. plain = CSI(s)
            OBVIOUS
        <3> HIDE DEF plain
        <3>3. /\ Final(plain) = s[Len(s)]
              /\ Number(plain) = IF s[Len(s)] = 126 THEN Front(s) ELSE <<49>>
            BY <2>1, <3>1, PlainParts, ZenonT(60)
        <3> QED
            BY <2>1, <3>2, <3>3
    <2> QED
        BY <2>4, <2>5 DEF s
<1>4. t \in DOMAIN namedKeys
    BY DEF modifiableKeys, namedKeys
<1> DEFINE one(a)    == Final(CSI(<<a>>)) = a /\ Number(CSI(<<a>>)) = <<49>>
           shift(a)  == Final(SS3(<<a>>)) = a /\ Number(SS3(<<a>>)) = <<49>>
           digit(a)  == Final(CSI(<<a, 126>>)) = 126 /\ Number(CSI(<<a, 126>>)) = <<a>>
           two(a, b) == /\ Final(CSI(<<a, b, 126>>)) = 126
                        /\ Number(CSI(<<a, b, 126>>)) = <<a, b>>
<1>5. /\ \A a \in Nat \ {126} : one(a) /\ shift(a)
      /\ \A a \in Nat : digit(a)
      /\ \A a, b \in Nat : two(a, b)
    BY <1>1, <1>2, <1>3
<1> HIDE DEF one, shift, digit, two
<1>6. CASE t \in {"Up", "Down", "Right", "Left", "Home", "End"}
    <2>1. one(65) /\ one(66) /\ one(67) /\ one(68) /\ one(72) /\ one(70)
        BY <1>5
    <2> QED
        BY <1>4, <1>6, <2>1 DEF modifiableKeys, namedKeys, letter, one
<1>7. CASE t \in {"F1", "F2", "F3", "F4"}
    <2>1. shift(80) /\ shift(81) /\ shift(82) /\ shift(83)
        BY <1>5
    <2> QED
        BY <1>4, <1>7, <2>1 DEF modifiableKeys, namedKeys, letter, shift
<1>8. CASE t \in {"IC", "Insert", "DC", "Delete", "PPage", "PageUp", "PgUp", "NPage",
                  "PageDown", "PgDn"}
    <2>1. digit(50) /\ digit(51) /\ digit(53) /\ digit(54)
        BY <1>5
    <2> QED
        BY <1>4, <1>8, <2>1 DEF modifiableKeys, namedKeys, tilde, digit
<1>9. CASE t \in {"F5", "F6", "F7", "F8", "F9", "F10", "F11", "F12"}
    <2> DEFINE entry(a, b) == /\ namedKeys[t] = CSI(<<a, b, 126>>)
                              /\ modifiableKeys[t] = tilde(<<a, b>>)
    <2>1. \/ entry(49, 53) \/ entry(49, 55) \/ entry(49, 56) \/ entry(49, 57)
          \/ entry(50, 48) \/ entry(50, 49) \/ entry(50, 51) \/ entry(50, 52)
        BY <1>9 DEF modifiableKeys, namedKeys
    <2>2. PICK a \in Nat, b \in Nat : entry(a, b)
        <3> HIDE DEF entry
        <3> QED
            BY <2>1
    <2>3. two(a, b)
        BY <1>5
    <2> QED
        BY <1>4, <2>2, <2>3 DEF two, tilde
<1> QED
    BY <1>6, <1>7, <1>8, <1>9 DEF modifiableKeys

-----------------------------------------------------------------------------
(* The modifiers *)

\* parseModifiers and KeyBytes find the same prefixes.
LEMMA PrefixCount ==
    ASSUME NEW S, NEW w \in Seq(S)
    PROVE  \E n \in 0..Len(w) :
               /\ n = Max({k \in 0..Len(w) : \A j \in 1..k : w[j] \in ModifierPrefixes})
               /\ n + 1 = SelectInSeq(w \o <<"">>, LAMBDA t : t \notin ModifierPrefixes)
               /\ \A j \in 1..n : w[j] \in ModifierPrefixes
               /\ n < Len(w) => w[n + 1] \notin ModifierPrefixes
<1> DEFINE A == {k \in 0..Len(w) : \A j \in 1..k : w[j] \in ModifierPrefixes}
           v == w \o <<"">>
           B == {k \in 1..Len(v) : v[k] \notin ModifierPrefixes}
           N == Len(w)
           n == Max(A)
<1>1. N \in Nat
    OBVIOUS
<1>2. Len(v) = N + 1 /\ v[N + 1] = "" /\ \A k \in 1..N : v[k] = w[k]
    <2> DEFINE R == S \cup {""}
               e == <<"">>
    <2>1. w \in Seq(R)
        BY SeqMonotonic
    <2>2. e \in Seq(R) /\ Len(e) = 1 /\ e[1] = ""
        OBVIOUS
    <2> HIDE DEF R, e
    <2>3. Len(w \o e) = N + 1 /\ \A k \in 1..(N + 1) :
                (w \o e)[k] = IF k <= Len(w) THEN w[k] ELSE e[k - Len(w)]
        <3>1. Len(w \o e) = Len(w) + Len(e) /\ \A k \in 1..(Len(w) + Len(e)) :
                  (w \o e)[k] = IF k <= Len(w) THEN w[k] ELSE e[k - Len(w)]
            BY <2>1, <2>2, ConcatProperties
        <3>2. Len(w) + Len(e) = N + 1
            BY <2>2
        <3> QED
            BY <3>1, <3>2
    <2> HIDE DEF N
    <2>4. (w \o e)[N + 1] = e[1] /\ \A k \in 1..N : (w \o e)[k] = w[k]
        <3>1. N + 1 \in 1..(N + 1) /\ ~(N + 1 <= N) /\ (N + 1) - N = 1
            BY <1>1
        <3>2. \A k \in 1..N : k \in 1..(N + 1) /\ k <= N
            BY <1>1
        <3>3. Len(w) = N
            BY DEF N
        <3> QED
            BY <2>3, <3>1, <3>2, <3>3
    <2> QED
        BY <2>2, <2>3, <2>4 DEF e
<1>3. 0 \in A /\ A \subseteq 0..N
    OBVIOUS
<1>4. N + 1 \in B /\ B \subseteq 1..(N + 1)
    <2> HIDE DEF v, N
    <2>1. N + 1 \in 1..(N + 1) /\ "" \notin ModifierPrefixes
        BY <1>1 DEF ModifierPrefixes
    <2> QED
        BY <1>2, <2>1
<1>5. n \in A /\ \A k \in A : n >= k
    <2> HIDE DEF A, N
    <2> QED
        BY <1>1, <1>3, MaxFacts
<1>6. Min(B) \in B /\ \A k \in B : Min(B) <= k
    <2> HIDE DEF B, N
    <2>1. B \subseteq Nat /\ B # {}
        BY <1>1, <1>4
    <2> QED
        BY <2>1, MinFacts
<1>7. SelectInSeq(w \o <<"">>, LAMBDA t : t \notin ModifierPrefixes) = Min(B)
    <2>1. SelectInSeq(w \o <<"">>, LAMBDA t : t \notin ModifierPrefixes)
              = IF B # {} THEN Min(B) ELSE 0
        BY DEF SelectInSeq
    <2> QED
        BY <1>4, <2>1
<1> HIDE DEF v, n
<1>8. n \in 0..N /\ (\A j \in 1..n : w[j] \in ModifierPrefixes)
    BY <1>5
<1>9. n < N => w[n + 1] \notin ModifierPrefixes
    <2> SUFFICES ASSUME n < N, w[n + 1] \in ModifierPrefixes
                 PROVE  FALSE
        OBVIOUS
    <2>1. n + 1 \in A
        BY <1>1, <1>8
    <2>2. n \in Nat
        BY <1>8
    <2> QED
        BY <1>5, <2>1, <2>2
<1>10. n + 1 \in B
    <2>1. CASE n < N
        <3>1. n + 1 \in 1..N /\ n + 1 \in 1..(N + 1)
            BY <1>1, <1>8, <2>1
        <3> HIDE DEF N
        <3> QED
            BY <1>2, <1>9, <2>1, <3>1
    <2>2. CASE n = N
        BY <1>4, <2>2
    <2> QED
        BY <1>1, <1>8, <2>1, <2>2
<1>11. \A k \in B : n + 1 <= k
    <2> SUFFICES ASSUME NEW k \in B, k <= n
                 PROVE  FALSE
        BY <1>1, <1>4, <1>8
    <2>1. k \in 1..n /\ k \in 1..N
        BY <1>1, <1>4, <1>8
    <2> QED
        BY <1>2, <1>8, <2>1
<1>12. Min(B) = n + 1
    <2> HIDE DEF B
    <2>1. Min(B) \in Nat /\ n \in Nat
        <3> HIDE DEF N
        <3>1. Min(B) \in 1..(N + 1)
            BY <1>4, <1>6, Zenon
        <3> QED
            BY <1>1, <1>8, <3>1
    <2> QED
        BY <1>6, <1>10, <1>11, <2>1
<1> QED
    BY <1>7, <1>8, <1>9, <1>12 DEF n

\* Words of one or two tokens, put together.
LEMMA ShortWords ==
    ASSUME NEW S, NEW a \in S, NEW b \in S, NEW c \in S
    PROVE  <<a>> \o <<b>> = <<a, b>> /\ <<a, b>> \o <<c>> = <<a, b, c>>
<1> DEFINE x == <<a>>
           y == <<b>>
           z == <<c>>
           xy == <<a, b>>
           xyz == <<a, b, c>>
<1>1. /\ x \in Seq(S) /\ Len(x) = 1 /\ x[1] = a
      /\ y \in Seq(S) /\ Len(y) = 1 /\ y[1] = b
      /\ z \in Seq(S) /\ Len(z) = 1 /\ z[1] = c
    OBVIOUS
<1>2. xy \in Seq(S) /\ Len(xy) = 2 /\ xy[1] = a /\ xy[2] = b
    OBVIOUS
<1>3. xyz \in Seq(S) /\ Len(xyz) = 3 /\ xyz[1] = a /\ xyz[2] = b /\ xyz[3] = c
    OBVIOUS
<1> HIDE DEF x, y, z, xy, xyz
<1>4. x \o y = xy
    <2>1. x \o y \in Seq(S) /\ Len(x \o y) = 2 /\ (x \o y)[1] = a /\ (x \o y)[2] = b
        <3>1. /\ x \o y \in Seq(S) /\ Len(x \o y) = 1 + 1
              /\ \A k \in 1..1 : (x \o y)[k] = x[k]
              /\ \A k \in 1..1 : (x \o y)[1 + k] = y[k]
            BY <1>1, Joined
        <3> QED
            BY <1>1, <3>1
    <2>2. \A k \in 1..2 : (x \o y)[k] = xy[k]
        BY <1>2, <2>1
    <2> QED
        BY <1>2, <2>1, <2>2, SeqEqual
<1>5. xy \o z = xyz
    <2>1. /\ xy \o z \in Seq(S) /\ Len(xy \o z) = 3
          /\ (xy \o z)[1] = a /\ (xy \o z)[2] = b /\ (xy \o z)[3] = c
        <3>1. PICK n \in Nat, m \in Nat : n = 2 /\ m = 1
            OBVIOUS
        <3>2. xy \in Seq(S) /\ z \in Seq(S) /\ Len(xy) = n /\ Len(z) = m
            BY <1>1, <1>2, <3>1
        <3>3. /\ xy \o z \in Seq(S) /\ Len(xy \o z) = n + m
              /\ \A k \in 1..n : (xy \o z)[k] = xy[k]
              /\ \A k \in 1..m : (xy \o z)[n + k] = z[k]
            BY <3>2, Joined
        <3>4. /\ 1 \in 1..n /\ 2 \in 1..n /\ 1 \in 1..m
              /\ n + 1 = 3 /\ n + m = 3
            BY <3>1
        <3> QED
            BY <1>1, <1>2, <3>3, <3>4
    <2>2. \A k \in 1..3 : (xy \o z)[k] = xyz[k]
        BY <1>3, <2>1
    <2> QED
        BY <1>3, <2>1, <2>2, SeqEqual
<1> QED
    BY <1>4, <1>5 DEF x, y, z, xy, xyz

\* The parameter is the sum of the modifiers' weights, and the canonical prefixes are
\* those of the modifiers, Ctrl before Meta before Shift.
LEMMA ParamFacts ==
    ASSUME NEW mods, mods \subseteq {"C", "M", "S"}
    PROVE  /\ XtermParam(mods) = 1 + (IF "S" \in mods THEN 1 ELSE 0)
                 + (IF "M" \in mods THEN 2 ELSE 0) + (IF "C" \in mods THEN 4 ELSE 0)
           /\ CanonicalPrefixes[XtermParam(mods)] =
                 (IF "C" \in mods THEN <<"C-">> ELSE <<>>)
                     \o (IF "M" \in mods THEN <<"M-">> ELSE <<>>)
                     \o (IF "S" \in mods THEN <<"S-">> ELSE <<>>)
<1> DEFINE p == 1 + (IF "S" \in mods THEN 1 ELSE 0)
                 + (IF "M" \in mods THEN 2 ELSE 0) + (IF "C" \in mods THEN 4 ELSE 0)
<1>1. ASSUME NEW k \in 1..8
      PROVE  /\ XtermModifiers[k] \subseteq {"C", "M", "S"}
             /\ "S" \in XtermModifiers[k] <=> k \in {2, 4, 6, 8}
             /\ "M" \in XtermModifiers[k] <=> k \in {3, 4, 7, 8}
             /\ "C" \in XtermModifiers[k] <=> k \in {5, 6, 7, 8}
    <2>1. k \in {1, 2, 3, 4, 5, 6, 7, 8}
        OBVIOUS
    <2> QED
        BY <2>1 DEF XtermModifiers
<1>2. /\ p \in 1..8
      /\ "S" \in mods <=> p \in {2, 4, 6, 8}
      /\ "M" \in mods <=> p \in {3, 4, 7, 8}
      /\ "C" \in mods <=> p \in {5, 6, 7, 8}
    OBVIOUS
<1> HIDE DEF p
<1>3. XtermModifiers[p] = mods
    <2>1. \A x \in {"C", "M", "S"} : x \in XtermModifiers[p] <=> x \in mods
        BY <1>1, <1>2
    <2>2. XtermModifiers[p] \subseteq {"C", "M", "S"}
        BY <1>1, <1>2
    <2> DEFINE X == XtermModifiers[p]
    <2> HIDE DEF X
    <2>3. \A x : x \in X <=> x \in mods
        BY <2>1, <2>2 DEF X
    <2>4. X = mods
        BY <2>3
    <2> QED
        BY <2>4 DEF X
<1>4. ASSUME NEW k \in 1..8, XtermModifiers[k] = mods
      PROVE  k = p
    BY <1>1, <1>2, <1>4
<1>5. XtermParam(mods) = p
    <2>1. XtermParam(mods) \in 1..8 /\ XtermModifiers[XtermParam(mods)] = mods
        BY <1>2, <1>3, Zenon DEF XtermParam
    <2> QED
        BY <1>4, <2>1
<1> DEFINE c == IF "C" \in mods THEN <<"C-">> ELSE <<>>
           m == IF "M" \in mods THEN <<"M-">> ELSE <<>>
           s == IF "S" \in mods THEN <<"S-">> ELSE <<>>
<1>6. CanonicalPrefixes[p] = (c \o m) \o s
    <2> DEFINE Cs == <<"C-">>
               Ms == <<"M-">>
               Ss == <<"S-">>
               CM == <<"C-", "M-">>
               P  == {"C-", "M-", "S-"}
    <2>1. /\ Cs \in Seq(P) /\ Ms \in Seq(P) /\ Ss \in Seq(P)
          /\ CM \in Seq(P) /\ <<>> \in Seq(P)
        OBVIOUS
    <2>2. /\ Cs \o Ms = CM /\ CM \o Ss = <<"C-", "M-", "S-">>
          /\ Cs \o Ss = <<"C-", "S-">> /\ Ms \o Ss = <<"M-", "S-">>
        <3>1. "C-" \in P /\ "M-" \in P /\ "S-" \in P
            OBVIOUS
        <3> HIDE DEF P
        <3> QED
            BY <3>1, ShortWords
    <2>3. \A x \in {Cs, Ms, Ss, CM, <<>>} : x \o <<>> = x /\ <<>> \o x = x
        <3> HIDE DEF Cs, Ms, Ss, CM, P
        <3> QED
            BY <2>1, ConcatEmptySeq
    <2>4. /\ "C" \in mods => c = Cs
          /\ "C" \notin mods => c = <<>>
          /\ "M" \in mods => m = Ms
          /\ "M" \notin mods => m = <<>>
          /\ "S" \in mods => s = Ss
          /\ "S" \notin mods => s = <<>>
        OBVIOUS
    <2>5. /\ p = 1 => CanonicalPrefixes[p] = <<>>
          /\ p = 2 => CanonicalPrefixes[p] = Ss
          /\ p = 3 => CanonicalPrefixes[p] = Ms
          /\ p = 4 => CanonicalPrefixes[p] = <<"M-", "S-">>
          /\ p = 5 => CanonicalPrefixes[p] = Cs
          /\ p = 6 => CanonicalPrefixes[p] = <<"C-", "S-">>
          /\ p = 7 => CanonicalPrefixes[p] = CM
          /\ p = 8 => CanonicalPrefixes[p] = <<"C-", "M-", "S-">>
        BY DEF CanonicalPrefixes
    <2> HIDE DEF c, m, s, Cs, Ms, Ss, CM
    <2>6. p \in {1, 2, 3, 4, 5, 6, 7, 8}
        BY <1>2
    <2>7. CASE "C" \in mods /\ "M" \in mods
        <3>1. CASE "S" \in mods
            <4>1. p = 8
                BY <1>2, <2>6, <2>7, <3>1
            <4> QED
                BY <2>2, <2>4, <2>5, <2>7, <3>1, <4>1
        <3>2. CASE "S" \notin mods
            <4>1. p = 7
                BY <1>2, <2>6, <2>7, <3>2
            <4> QED
                BY <2>2, <2>3, <2>4, <2>5, <2>7, <3>2, <4>1
        <3> QED
            BY <3>1, <3>2
    <2>8. CASE "C" \in mods /\ "M" \notin mods
        BY <1>2, <2>2, <2>3, <2>4, <2>5, <2>6, <2>8
    <2>9. CASE "C" \notin mods
        BY <1>2, <2>2, <2>3, <2>4, <2>5, <2>6, <2>9
    <2> QED
        BY <2>7, <2>8, <2>9
<1> QED
    BY <1>5, <1>6 DEF p

-----------------------------------------------------------------------------
(* The expansion *)

\* The bytes of a word are bytes.
LEMMA BytesType ==
    ASSUME NEW w \in Seq(DOMAIN Spelling)
    PROVE  Bytes(w) \in Seq(0..255)
<1> DEFINE s == [k \in DOMAIN w |-> Spelling[w[k]]]
<1>1. s \in Seq(Seq(0..255))
    <2>1. Len(w) \in Nat /\ DOMAIN w = 1..Len(w)
        OBVIOUS
    <2>2. \A k \in DOMAIN w : Spelling[w[k]] \in Seq(0..255)
        BY SpellingAssumption
    <2> QED
        BY <2>1, <2>2
<1> HIDE DEF s
<1>2. FlattenSeq(s) \in Seq(0..255)
    BY <1>1, FlattenType
<1> QED
    BY <1>2 DEF Bytes, s

\* Ctrl and Shift on one character, by arithmetic.
CharOf(mods, b) == IF "C" \in mods /\ b \in (64..90) \cup (97..122) THEN b % 32
                   ELSE IF "S" \in mods /\ b \in 97..122 THEN b - 32 ELSE b

\* modifiedChar is that.
LEMMA ModifiedCharFacts ==
    ASSUME NEW b \in 0..255, NEW m, NEW mods, m.ctrl <=> "C" \in mods, m.shift <=> "S" \in mods
    PROVE  modifiedChar(m, b) = CharOf(mods, b)
<1>1. b \in 64..90 => b % 32 = b - 64
    OBVIOUS
<1>2. b \in 97..122 => b % 32 = b - 96
    OBVIOUS
<1>3. toUpper(b) = IF b \in 97..122 THEN b - 32 ELSE b
    BY DEF toUpper
<1>4. b \in 97..122 => toUpper(b - 32) = b - 32
    BY DEF toUpper
<1>5. CASE b \in 97..122
    <2>1. modifiedChar(m, b) = IF ~m.ctrl THEN (IF m.shift THEN b - 32 ELSE b) ELSE b - 96
        BY <1>3, <1>4, <1>5 DEF modifiedChar
    <2> QED
        BY <1>2, <1>5, <2>1 DEF CharOf
<1>6. CASE b \in 64..90
    <2>1. b \notin 97..122 /\ toUpper(b) = b
        BY <1>3, <1>6
    <2>2. modifiedChar(m, b) = IF ~m.ctrl THEN b ELSE b - 64
        BY <1>6, <2>1 DEF modifiedChar
    <2> QED
        BY <1>1, <1>6, <2>1, <2>2 DEF CharOf
<1>7. CASE b \notin 97..122 /\ b \notin 64..90
    BY <1>3, <1>7 DEF modifiedChar, CharOf
<1> QED
    BY <1>5, <1>6, <1>7

\* What parseModifiers finds, as a set of modifiers and the rest of the word.
LEMMA ParseModifiersFacts ==
    ASSUME NEW S, NEW w \in Seq(S)
    PROVE  \E n \in 0..Len(w), mods \in SUBSET {"C", "M", "S"} :
               /\ KeyBytes(w) = ModifiedKey(SubSeq(w, n + 1, Len(w)), mods)
               /\ parseModifiers(w).base = SubSeq(w, n + 1, Len(w))
               /\ parseModifiers(w).ctrl <=> "C" \in mods
               /\ parseModifiers(w).meta <=> "M" \in mods
               /\ parseModifiers(w).shift <=> "S" \in mods
               /\ n = 0 <=> mods = {}
               /\ n > 0 => w[1] \in ModifierPrefixes
<1>1. PICK n \in 0..Len(w) :
          /\ n = Max({k \in 0..Len(w) : \A j \in 1..k : w[j] \in ModifierPrefixes})
          /\ n + 1 = SelectInSeq(w \o <<"">>, LAMBDA t : t \notin ModifierPrefixes)
          /\ \A j \in 1..n : w[j] \in ModifierPrefixes
          /\ n < Len(w) => w[n + 1] \notin ModifierPrefixes
    BY PrefixCount
<1> DEFINE base == SubSeq(w, n + 1, Len(w))
           mods == {ModifierName(w[k]) : k \in 1..n}
           given(ps) == \E j \in 1..n : w[j] \in ps
<1>2. KeyBytes(w) = ModifiedKey(base, mods)
    <2>1. (n + 1) - 1 = n
        OBVIOUS
    <2> QED
        BY <1>1, <2>1 DEF KeyBytes
<1>3. parseModifiers(w) = [ctrl |-> given({"C-", "c-"}), meta |-> given({"M-", "m-"}),
                           shift |-> given({"S-", "s-"}), base |-> base]
    BY <1>1 DEF parseModifiers
<1>4. \A j \in 1..n : /\ w[j] \in {"C-", "c-"} <=> ModifierName(w[j]) = "C"
                      /\ w[j] \in {"M-", "m-"} <=> ModifierName(w[j]) = "M"
                      /\ w[j] \in {"S-", "s-"} <=> ModifierName(w[j]) = "S"
                      /\ ModifierName(w[j]) \in {"C", "M", "S"}
    BY <1>1 DEF ModifierName, ModifierPrefixes
<1>5. /\ given({"C-", "c-"}) <=> "C" \in mods
      /\ given({"M-", "m-"}) <=> "M" \in mods
      /\ given({"S-", "s-"}) <=> "S" \in mods
      /\ mods \in SUBSET {"C", "M", "S"}
    BY <1>4
<1>6. n = 0 <=> mods = {}
    <2>1. n # 0 => 1 \in 1..n
        OBVIOUS
    <2> QED
        BY <2>1
<1>7. n > 0 => w[1] \in ModifierPrefixes
    <2>1. n > 0 => 1 \in 1..n
        OBVIOUS
    <2> QED
        BY <1>1, <2>1
<1>8. /\ parseModifiers(w).base = base
      /\ parseModifiers(w).ctrl <=> given({"C-", "c-"})
      /\ parseModifiers(w).meta <=> given({"M-", "m-"})
      /\ parseModifiers(w).shift <=> given({"S-", "s-"})
    <2> HIDE DEF base, given
    <2>1. /\ parseModifiers(w).base = base
          /\ parseModifiers(w).ctrl = given({"C-", "c-"})
          /\ parseModifiers(w).meta = given({"M-", "m-"})
          /\ parseModifiers(w).shift = given({"S-", "s-"})
        BY <1>3
    <2> QED
        BY <2>1, Zenon
<1> HIDE DEF base, mods, given
<1>9. /\ parseModifiers(w).ctrl <=> "C" \in mods
      /\ parseModifiers(w).meta <=> "M" \in mods
      /\ parseModifiers(w).shift <=> "S" \in mods
    BY <1>5, <1>8, Zenon
<1> QED
    BY <1>2, <1>5, <1>6, <1>7, <1>8, <1>9, Zenon DEF base

\* For every word, ExpandSpecialKey computes what KeyBytes says: the order, the case
\* and the number of the prefixes do not matter, the table of the modifiable keys
\* repeats the numbers and final bytes of the plain sequences, and the parameter is
\* xterm's (keys.go:163).
THEOREM ExpansionFollowsXterm ==
    ASSUME NEW w \in Seq(DOMAIN Spelling)
    PROVE  ExpandSpecialKey(w) = KeyBytes(w)
<1>1. PICK n \in 0..Len(w), mods \in SUBSET {"C", "M", "S"} :
               /\ KeyBytes(w) = ModifiedKey(SubSeq(w, n + 1, Len(w)), mods)
               /\ parseModifiers(w).base = SubSeq(w, n + 1, Len(w))
               /\ parseModifiers(w).ctrl <=> "C" \in mods
               /\ parseModifiers(w).meta <=> "M" \in mods
               /\ parseModifiers(w).shift <=> "S" \in mods
               /\ n = 0 <=> mods = {}
               /\ n > 0 => w[1] \in ModifierPrefixes
    BY ParseModifiersFacts
<1> DEFINE base == SubSeq(w, n + 1, Len(w))
           m == parseModifiers(w)
           meta(s) == IF "M" \in mods THEN <<ESC>> \o s ELSE s
           prefixes == CanonicalPrefixes[XtermParam(mods)]
<1>2. base \in Seq(DOMAIN Spelling)
    <2>1. n + 1 \in Int /\ Len(w) \in Int /\ \A k \in (n + 1)..Len(w) : w[k] \in DOMAIN Spelling
        OBVIOUS
    <2> QED
        BY <2>1, SubSeqProperties
<1>3. n = 0 => base = w
    BY SubSeqFull
<1>4. /\ m.base = base /\ (m.ctrl <=> "C" \in mods) /\ (m.meta <=> "M" \in mods)
      /\ (m.shift <=> "S" \in mods)
    BY <1>1, Zenon
<1>5. (m.ctrl \/ m.meta \/ m.shift) <=> mods # {}
    BY <1>4
<1>6. KeyBytes(w) = IF In(base, modifiableKeys) /\ mods # {}
                    THEN XtermSequence(specialKeys[base[1]], mods)
                    ELSE IF In(base, specialKeys) THEN meta(specialKeys[base[1]])
                    ELSE IF Len(Bytes(base)) = 1 THEN meta(<<CharOf(mods, Bytes(base)[1])>>)
                    ELSE Bytes(prefixes \o base)
    BY <1>1 DEF ModifiedKey, CharOf
<1> HIDE DEF base, m
<1>7. CASE In(w, specialKeys)
    <2>1. n = 0
        BY <1>1, <1>7, NamesAreNoPrefixes DEF In
    <2>2. base = w /\ mods = {}
        BY <1>1, <1>3, <2>1
    <2> QED
        BY <1>6, <1>7, <2>2 DEF ExpandSpecialKey
<1>8. CASE ~In(w, specialKeys) /\ mods = {}
    <2>1. base = w
        BY <1>1, <1>3, <1>8
    <2>2. ExpandSpecialKey(w) = Bytes(w)
        BY <1>5, <1>8 DEF ExpandSpecialKey, m
    <2>3. Bytes(w) \in Seq(0..255)
        BY BytesType
    <2>4. Len(Bytes(w)) = 1 => <<Bytes(w)[1]>> = Bytes(w)
        BY <2>3
    <2>5. prefixes \o w = w
        <3>1. XtermParam(mods) = 1
            BY <1>8, ParamFacts
        <3> QED
            BY <3>1, ConcatEmptySeq DEF CanonicalPrefixes
    <2>6. CharOf(mods, Bytes(w)[1]) = Bytes(w)[1]
        BY <1>8 DEF CharOf
    <2> QED
        BY <1>6, <1>8, <2>1, <2>2, <2>4, <2>5, <2>6
<1>9. CASE ~In(w, specialKeys) /\ mods # {} /\ In(base, modifiableKeys)
    <2> DEFINE t == base[1]
               info == modifiableKeys[t]
    <2>1. t \in DOMAIN modifiableKeys
        BY <1>9 DEF In
    <2>2. /\ specialKeys[t] = namedKeys[t]
          /\ info.final = Final(specialKeys[t])
          /\ info.num = Number(specialKeys[t])
        <3> HIDE DEF t
        <3> QED
            BY <2>1, TablesAgree, NamedKeysFirst
    <2>3. ExpandSpecialKey(w) = buildModifiedSequence(info, xtermModParam(m))
        BY <1>4, <1>5, <1>9 DEF ExpandSpecialKey, m
    <2>4. KeyBytes(w) = XtermSequence(specialKeys[t], mods)
        BY <1>6, <1>9
    <2>5. xtermModParam(m) = XtermParam(mods)
        BY <1>4, ParamFacts DEF xtermModParam
    <2> QED
        BY <2>2, <2>3, <2>4, <2>5
           DEF buildModifiedSequence, XtermSequence, Final, Number
<1>10. CASE ~In(w, specialKeys) /\ mods # {} /\ ~In(base, modifiableKeys)
    <2>1. ExpandSpecialKey(w) = expandBaseKey(m)
        BY <1>4, <1>5, <1>10 DEF ExpandSpecialKey, m
    <2>2. CASE In(base, specialKeys)
        BY <1>4, <1>6, <1>10, <2>1, <2>2 DEF expandBaseKey
    <2>3. CASE ~In(base, specialKeys) /\ Len(Bytes(base)) = 1
        <3> DEFINE b == Bytes(base)[1]
        <3>1. b \in 0..255
            <4>1. Bytes(base) \in Seq(0..255)
                BY <1>2, BytesType
            <4>2. 1 \in 1..Len(Bytes(base))
                BY <2>3
            <4> QED
                BY <4>1, <4>2, ElementOfSeq
        <3> HIDE DEF b
        <3>2. modifiedChar(m, b) = CharOf(mods, b)
            BY <1>4, <3>1, ModifiedCharFacts
        <3> QED
            BY <1>4, <1>6, <1>10, <2>1, <2>3, <3>2 DEF expandBaseKey, b
    <2>4. CASE ~In(base, specialKeys) /\ Len(Bytes(base)) # 1
        <3>1. rebuildKeyName(m) = Bytes(prefixes \o base)
            BY <1>4, ParamFacts DEF rebuildKeyName
        <3> QED
            BY <1>4, <1>6, <1>10, <2>1, <2>4, <3>1 DEF expandBaseKey
    <2> QED
        BY <2>2, <2>3, <2>4
<1> QED
    BY <1>7, <1>8, <1>9, <1>10

\* The tables hold sequences of numbers.
LEMMA SpecialKeysType == \A t \in DOMAIN specialKeys : specialKeys[t] \in Seq(Nat)
<1> DEFINE typed(table) == \A t \in DOMAIN table : table[t] \in Seq(Nat)
<1>1. ASSUME NEW f, NEW g, typed(f), typed(g)
      PROVE  typed(f ++ g)
    BY <1>1 DEF ++
<1>2. \A s \in Seq(Nat) : CSI(s) \in Seq(Nat) /\ SS3(s) \in Seq(Nat)
    <2>1. <<27, 91>> \in Seq(Nat) /\ <<27, 79>> \in Seq(Nat)
        OBVIOUS
    <2> QED
        BY <2>1 DEF CSI, SS3, ESC
<1>3. typed(namedKeys)
    <2> SUFFICES ASSUME NEW t \in DOMAIN namedKeys
                 PROVE  namedKeys[t] \in Seq(Nat)
        OBVIOUS
    <2>1. ASSUME NEW a \in Nat
          PROVE  <<a>> \in Seq(Nat) /\ CSI(<<a>>) \in Seq(Nat) /\ SS3(<<a>>) \in Seq(Nat)
        <3>1. <<a>> \in Seq(Nat)
            OBVIOUS
        <3> QED
            BY <1>2, <3>1, Zenon
    <2>2. ASSUME NEW a \in Nat
          PROVE  CSI(<<a, 126>>) \in Seq(Nat)
        <3>1. <<a, 126>> \in Seq(Nat)
            OBVIOUS
        <3> QED
            BY <1>2, <3>1, Zenon
    <2>3. ASSUME NEW a \in Nat, NEW b \in Nat
          PROVE  CSI(<<a, b, 126>>) \in Seq(Nat)
        <3>1. <<a, b, 126>> \in Seq(Nat)
            OBVIOUS
        <3> QED
            BY <1>2, <3>1, Zenon
    <2> DEFINE char(a)   == namedKeys[t] = <<a>>
               one(a)    == namedKeys[t] = CSI(<<a>>)
               shift(a)  == namedKeys[t] = SS3(<<a>>)
               digit(a)  == namedKeys[t] = CSI(<<a, 126>>)
               two(a, b) == namedKeys[t] = CSI(<<a, b, 126>>)
    <2>4. \/ char(13) \/ char(27) \/ char(9) \/ char(32) \/ char(127)
          \/ one(90) \/ one(65) \/ one(66) \/ one(67) \/ one(68) \/ one(70) \/ one(72)
          \/ digit(50) \/ digit(51) \/ digit(53) \/ digit(54)
          \/ shift(80) \/ shift(81) \/ shift(82) \/ shift(83)
          \/ two(49, 53) \/ two(49, 55) \/ two(49, 56) \/ two(49, 57)
          \/ two(50, 48) \/ two(50, 49) \/ two(50, 51) \/ two(50, 52)
        BY SMTT(30) DEF namedKeys, ESC
    <2>5. /\ \A a \in Nat : char(a) \/ one(a) \/ shift(a) \/ digit(a) => namedKeys[t] \in Seq(Nat)
          /\ \A a, b \in Nat : two(a, b) => namedKeys[t] \in Seq(Nat)
        BY <2>1, <2>2, <2>3, ZenonT(30)
    <2> HIDE DEF char, one, shift, digit, two
    <2> QED
        BY <2>4, <2>5
<1>4. ASSUME NEW first \in Nat, NEW names, \A j \in DOMAIN names : j \in Nat /\ j >= 1
      PROVE  typed(Characters(first, names))
    <2> SUFFICES ASSUME NEW x \in ToSet(names)
                 PROVE  Characters(first, names)[x] \in Seq(Nat)
        BY DEF Characters
    <2> DEFINE k == CHOOSE k \in DOMAIN names : names[k] = x
    <2>1. k \in DOMAIN names
        BY Zenon DEF ToSet
    <2>2. Characters(first, names)[x] = <<first - 1 + k>>
        BY DEF Characters
    <2>3. k \in Nat /\ k >= 1
        <3> HIDE DEF k
        <3> QED
            BY <1>4, <2>1
    <2> HIDE DEF k
    <2>4. first - 1 + k \in Nat
        BY <2>3
    <2> QED
        BY <2>2, <2>4
<1> DEFINE N1 == <<"[NUL]", "[SOH]", "[STX]", "[ETX]", "[EOT]", "[ENQ]", "[ASC]", "[BEL]",
                   "[BS]">>
           N2 == <<"[LF]", "[VT]", "[FF]">>
           N3 == <<"[SO]", "[SI]", "[DLE]", "[DC1]", "[DC2]", "[DC3]", "[DC4]", "[NAK]",
                   "[SYN]", "[ETB]", "[CAN]", "[EM]", "[SUB]">>
           N4 == <<"[FS]", "[GS]", "[RS]", "[US]">>
           N5 == <<"KP*", "KP+">>
           N6 == <<"KP-", "KP.", "KP/", "KP0", "KP1", "KP2", "KP3", "KP4", "KP5", "KP6",
                   "KP7", "KP8", "KP9">>
           numbered(names) == \A j \in DOMAIN names : j \in Nat /\ j >= 1
<1>5. /\ numbered(N1) /\ numbered(N2) /\ numbered(N3)
      /\ numbered(N4) /\ numbered(N5) /\ numbered(N6)
    OBVIOUS
<1>6. specialKeys = namedKeys ++ Characters(0, N1) ++ Characters(10, N2)
                        ++ Characters(14, N3) ++ Characters(28, N4) ++ Characters(42, N5)
                        ++ Characters(45, N6)
    BY DEF specialKeys
<1> HIDE DEF N1, N2, N3, N4, N5, N6, typed
<1>7. /\ typed(Characters(0, N1)) /\ typed(Characters(10, N2)) /\ typed(Characters(14, N3))
      /\ typed(Characters(28, N4)) /\ typed(Characters(42, N5)) /\ typed(Characters(45, N6))
    BY <1>4, <1>5
<1>8. typed(specialKeys)
    BY <1>1, <1>3, <1>6, <1>7, Zenon
<1> QED
    BY <1>8 DEF typed

\* Every key gives a sequence of numbers.
LEMMA KeyBytesType ==
    ASSUME NEW w \in Seq(DOMAIN Spelling)
    PROVE  KeyBytes(w) \in Seq(Nat)
<1>1. PICK n \in 0..Len(w), mods \in SUBSET {"C", "M", "S"} :
               KeyBytes(w) = ModifiedKey(SubSeq(w, n + 1, Len(w)), mods)
    BY ParseModifiersFacts
<1> DEFINE base == SubSeq(w, n + 1, Len(w))
           meta(s) == IF "M" \in mods THEN <<ESC>> \o s ELSE s
           p == XtermParam(mods)
           prefixes == CanonicalPrefixes[p]
<1>2. base \in Seq(DOMAIN Spelling)
    <2>1. n + 1 \in Int /\ Len(w) \in Int /\ \A k \in (n + 1)..Len(w) : w[k] \in DOMAIN Spelling
        OBVIOUS
    <2> QED
        BY <2>1, SubSeqProperties
<1>3. KeyBytes(w) = IF In(base, modifiableKeys) /\ mods # {}
                    THEN XtermSequence(specialKeys[base[1]], mods)
                    ELSE IF In(base, specialKeys) THEN meta(specialKeys[base[1]])
                    ELSE IF Len(Bytes(base)) = 1 THEN meta(<<CharOf(mods, Bytes(base)[1])>>)
                    ELSE Bytes(prefixes \o base)
    BY <1>1 DEF ModifiedKey, CharOf
<1> HIDE DEF base
<1>4. p \in 1..8
    <2>1. p = 1 + (IF "S" \in mods THEN 1 ELSE 0) + (IF "M" \in mods THEN 2 ELSE 0)
                + (IF "C" \in mods THEN 4 ELSE 0)
        BY ParamFacts
    <2> HIDE DEF p
    <2> QED
        BY <2>1
<1>5. \A s \in Seq(Nat) : meta(s) \in Seq(Nat)
    <2>1. <<ESC>> \in Seq(Nat)
        BY DEF ESC
    <2> QED
        BY <2>1
<1>6. CASE In(base, modifiableKeys)
    <2> DEFINE t == base[1]
               info == modifiableKeys[t]
               tail == <<59, 48 + p, info.final>>
    <2>1. t \in DOMAIN modifiableKeys
        BY <1>6 DEF In
    <2>2. /\ t \in DOMAIN specialKeys
          /\ info.final = Final(specialKeys[t]) /\ info.num = Number(specialKeys[t])
        <3> HIDE DEF t
        <3> QED
            BY <2>1, TablesAgree, NamedKeysFirst
    <2>3. info.final \in Nat /\ info.num \in Seq(Nat)
        <3> DEFINE one(a)    == info = letter(a)
                   digit(a)  == info = tilde(<<a>>)
                   two(a, b) == info = tilde(<<a, b>>)
        <3> HIDE DEF t
        <3>1. \/ one(65) \/ one(66) \/ one(67) \/ one(68) \/ one(70) \/ one(72)
              \/ one(80) \/ one(81) \/ one(82) \/ one(83)
              \/ digit(50) \/ digit(51) \/ digit(53) \/ digit(54)
              \/ two(49, 53) \/ two(49, 55) \/ two(49, 56) \/ two(49, 57)
              \/ two(50, 48) \/ two(50, 49) \/ two(50, 51) \/ two(50, 52)
            BY <2>1, SMTT(30) DEF modifiableKeys
        <3> HIDE DEF info
        <3>2. \A a \in Nat : one(a) \/ digit(a) => info.final \in Nat /\ info.num \in Seq(Nat)
            <4> SUFFICES ASSUME NEW a \in Nat, one(a) \/ digit(a)
                         PROVE  info.final \in Nat /\ info.num \in Seq(Nat)
                OBVIOUS
            <4>1. <<a>> \in Seq(Nat) /\ <<49>> \in Seq(Nat) /\ 126 \in Nat
                OBVIOUS
            <4>2. \/ info.final = a /\ info.num = <<49>>
                  \/ info.final = 126 /\ info.num = <<a>>
                BY DEF letter, tilde
            <4> QED
                BY <4>1, <4>2, Zenon
        <3>3. \A a, b \in Nat : two(a, b) => info.final \in Nat /\ info.num \in Seq(Nat)
            BY DEF tilde
        <3> HIDE DEF one, digit, two
        <3> QED
            BY <3>1, <3>2, <3>3
    <2>4. XtermSequence(specialKeys[t], mods) = CSI(info.num \o tail)
        BY <2>2 DEF XtermSequence, Final, Number
    <2> HIDE DEF info, t, p
    <2>5. tail \in Seq(Nat)
        BY <1>4, <2>3
    <2> HIDE DEF tail
    <2>6. info.num \o tail \in Seq(Nat)
        BY <2>3, <2>5
    <2>7. XtermSequence(specialKeys[t], mods) \in Seq(Nat)
        <3>1. <<27, 91>> \in Seq(Nat)
            OBVIOUS
        <3> QED
            BY <2>4, <2>6, <3>1 DEF CSI, ESC
    <2>8. meta(specialKeys[t]) \in Seq(Nat) /\ In(base, specialKeys)
        <3>1. In(base, specialKeys)
            BY <1>6, <2>2 DEF In, t
        <3> QED
            BY <1>5, <2>2, <3>1, SpecialKeysType
    <2> QED
        BY <1>3, <1>6, <2>7, <2>8 DEF t
<1>7. CASE ~In(base, modifiableKeys) /\ In(base, specialKeys)
    BY <1>3, <1>5, <1>7, SpecialKeysType DEF In
<1>8. CASE ~In(base, modifiableKeys) /\ ~In(base, specialKeys) /\ Len(Bytes(base)) = 1
    <2> DEFINE b == Bytes(base)[1]
    <2>1. b \in 0..255
        <3>1. Bytes(base) \in Seq(0..255)
            BY <1>2, BytesType
        <3>2. 1 \in 1..Len(Bytes(base))
            BY <1>8
        <3> QED
            BY <3>1, <3>2, ElementOfSeq
    <2> HIDE DEF b
    <2>2. CharOf(mods, b) \in Nat
        BY <2>1 DEF CharOf
    <2>3. <<CharOf(mods, b)>> \in Seq(Nat)
        BY <2>2
    <2> QED
        BY <1>3, <1>5, <1>8, <2>3 DEF b
<1>9. CASE ~In(base, modifiableKeys) /\ ~In(base, specialKeys) /\ Len(Bytes(base)) # 1
    <2>1. prefixes \in Seq(DOMAIN Spelling)
        <3>1. p \in {1, 2, 3, 4, 5, 6, 7, 8}
            BY <1>4
        <3> HIDE DEF p
        <3>2. CanonicalPrefixes[p] \in Seq(ModifierPrefixes)
            <4> DEFINE T == ModifierPrefixes
            <4>1. /\ <<>> \in Seq(T) /\ <<"S-">> \in Seq(T) /\ <<"M-">> \in Seq(T)
                  /\ <<"M-", "S-">> \in Seq(T) /\ <<"C-">> \in Seq(T)
                  /\ <<"C-", "S-">> \in Seq(T) /\ <<"C-", "M-">> \in Seq(T)
                  /\ <<"C-", "M-", "S-">> \in Seq(T)
                BY DEF ModifierPrefixes
            <4> HIDE DEF T
            <4>2. CanonicalPrefixes[p] \in
                      {<<>>, <<"S-">>, <<"M-">>, <<"M-", "S-">>, <<"C-">>, <<"C-", "S-">>,
                       <<"C-", "M-">>, <<"C-", "M-", "S-">>}
                BY <3>1 DEF CanonicalPrefixes
            <4>3. CanonicalPrefixes[p] \in Seq(T)
                BY <4>1, <4>2, Zenon
            <4> QED
                BY <4>3 DEF T
        <3> QED
            BY <3>2, SpellingAssumption, SeqMonotonic
    <2> HIDE DEF prefixes
    <2>2. prefixes \o base \in Seq(DOMAIN Spelling)
        BY <1>2, <2>1
    <2>3. Bytes(prefixes \o base) \in Seq(0..255)
        BY <2>2, BytesType
    <2>4. Bytes(prefixes \o base) \in Seq(Nat)
        <3>1. 0..255 \subseteq Nat
            OBVIOUS
        <3> QED
            BY <2>3, <3>1, SeqMonotonic
    <2> QED
        BY <1>3, <1>9, <2>4
<1> QED
    BY <1>6, <1>7, <1>8, <1>9

=================================================================================
