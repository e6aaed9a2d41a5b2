--------------------------- MODULE PaneManagerProofs ---------------------------
(***************************************************************************)
(* Proofs about PaneManager, for any set of workers and any bound.         *)
(***************************************************************************)
EXTENDS PaneManager, SequenceTheorems, TLAPS

-----------------------------------------------------------------------------
(* The inductive invariant *)

\* A list of panes names at most one active pane.
OneActive(ps) == \A i, j \in 1..Len(ps) : ps[i].active /\ ps[j].active => i = j

\* The ids in the table were given out by the counter.
IDsBelowNext == \A id \in DOMAIN panes : id < nextPaneID

\* A Save that marshals still refers to the objects of a well-formed table: it
\* has copied a proper prefix of them, and their ids have not changed since.
Marshalling(w) ==
    LET refs == call[w].refs
        doc  == call[w].doc
    IN  /\ Len(doc) < Len(refs)
        /\ \A i \in 1..Len(doc) : doc[i].id = heap[refs[i]].id
        /\ \A i \in 1..Len(refs) : heap[refs[i]].id < call[w].next
        /\ \A i, j \in 1..Len(refs) : heap[refs[i]].id = heap[refs[j]].id => i = j
        /\ ~torn => /\ \A i \in 1..Len(doc) : doc[i] = heap[refs[i]]
                    /\ \A i, j \in 1..Len(refs) :
                          heap[refs[i]].active /\ heap[refs[j]].active => i = j

\* A document a Save has marshalled, or a Load has read, is well-formed.
Documented(w) ==
    /\ Wellformed(call[w].doc, call[w].next)
    /\ ~torn => OneActive(call[w].doc)

CallsOK ==
    \A w \in Workers :
        /\ call[w].pc = "marshal" => Marshalling(w)
        /\ call[w].pc \in {"create", "write", "close", "rename", "install"} => Documented(w)

FilesOK(f) ==
    /\ Wellformed(f.panes, f.next_id)
    /\ ~torn => OneActive(f.panes)

TempsOK ==
    \A w \in Workers :
        /\ FilesOK(tmp[w])
        /\ call[w].pc \in {"close", "rename"} => tmp[w].kind = "state"

IInv ==
    /\ TypeOK
    /\ TableCoherent
    /\ IDsBelowNext
    /\ CallsOK
    /\ TempsOK
    /\ NoTempLeft
    /\ stateFile.kind # "partial"
    /\ FilesOK(stateFile)
    /\ OneActiveUnlessTorn

-----------------------------------------------------------------------------
(* Facts about the operators *)

\* What RemoveAt returns, element by element.
LEMMA RemoveAtFacts ==
    ASSUME NEW S, NEW s \in Seq(S), NEW k \in 1..Len(s)
    PROVE  /\ RemoveAt(s, k) \in Seq(S)
           /\ Len(RemoveAt(s, k)) = Len(s) - 1
           /\ \A i \in 1..(Len(s) - 1) :
                 RemoveAt(s, k)[i] = IF i < k THEN s[i] ELSE s[i + 1]
<1>1. PICK n \in Nat : Len(s) = n /\ DOMAIN s = 1..n /\ \A i \in 1..n : s[i] \in S
    BY LenProperties
<1>2. PICK a : a = SubSeq(s, 1, k - 1)
    OBVIOUS
<1>3. PICK b : b = SubSeq(s, k + 1, n)
    OBVIOUS
<1>4. a \in Seq(S) /\ Len(a) = k - 1 /\ \A i \in 1..(k - 1) : a[i] = s[i]
    <2>1. \A i \in 1..(k - 1) : s[i] \in S
        BY <1>1
    <2>2. k - 1 \in Int /\ 1 \in Int
        BY <1>1
    <2>3. /\ SubSeq(s, 1, k - 1) \in Seq(S)
          /\ Len(SubSeq(s, 1, k - 1)) = IF 1 <= k - 1 THEN (k - 1) - 1 + 1 ELSE 0
          /\ \A i \in 1..((k - 1) - 1 + 1) : SubSeq(s, 1, k - 1)[i] = s[1 + i - 1]
        BY ONLY <2>1, <2>2, SubSeqProperties
    <2> QED
        BY <1>1, <1>2, <2>3
<1>5. b \in Seq(S) /\ Len(b) = n - k /\ \A i \in 1..(n - k) : b[i] = s[k + i]
    <2>1. \A i \in (k + 1)..n : s[i] \in S
        BY <1>1
    <2>2. k + 1 \in Int /\ n \in Int
        BY <1>1
    <2>3. /\ SubSeq(s, k + 1, n) \in Seq(S)
          /\ Len(SubSeq(s, k + 1, n)) = IF k + 1 <= n THEN n - (k + 1) + 1 ELSE 0
          /\ \A i \in 1..(n - (k + 1) + 1) : SubSeq(s, k + 1, n)[i] = s[(k + 1) + i - 1]
        BY ONLY <2>1, <2>2, SubSeqProperties
    <2> QED
        BY <1>1, <1>3, <2>3
<1>6. /\ a \o b \in Seq(S)
      /\ Len(a \o b) = Len(a) + Len(b)
      /\ \A i \in 1..(Len(a) + Len(b)) : (a \o b)[i] = IF i <= Len(a) THEN a[i] ELSE b[i - Len(a)]
    BY ONLY <1>4, <1>5, ConcatProperties
<1>7. RemoveAt(s, k) = a \o b
    BY <1>1, <1>2, <1>3 DEF RemoveAt
<1>8. Len(a) + Len(b) = n - 1
    BY <1>1, <1>4, <1>5
<1>9. ASSUME NEW i \in 1..(n - 1)
      PROVE  (a \o b)[i] = IF i < k THEN s[i] ELSE s[i + 1]
    <2>1. CASE i < k
        BY <1>1, <1>4, <1>6, <1>8, <2>1
    <2>2. CASE ~(i < k)
        <3>1. i - Len(a) \in 1..(n - k) /\ k + (i - Len(a)) = i + 1 /\ ~(i <= Len(a))
            BY <1>1, <1>4, <2>2
        <3>2. b[i - Len(a)] = s[i + 1]
            BY <1>5, <3>1
        <3> QED
            BY <1>6, <1>8, <2>2, <3>1, <3>2
    <2> QED
        BY <2>1, <2>2
<1> QED
    BY <1>1, <1>6, <1>7, <1>8, <1>9

\* t is the list s of length n without its position k.
Drops(s, t, n, k) ==
    /\ n \in Nat /\ k \in 1..n
    /\ DOMAIN s = 1..n /\ DOMAIN t = 1..(n - 1)
    /\ \A i \in 1..(n - 1) : t[i] = IF i < k THEN s[i] ELSE s[i + 1]

\* Dropping position k of a list without repetitions keeps the other
\* elements and repeats none.
LEMMA DropOne ==
    ASSUME NEW s, NEW t, NEW n, NEW k, Drops(s, t, n, k), IsInjective(s)
    PROVE  IsInjective(t) /\ ToSet(t) = ToSet(s) \ {s[k]}
<1>0. n \in Nat /\ k \in 1..n
    BY DEF Drops
<1>1. IsInjective(t)
    BY DEF IsInjective, Drops
<1>2. ASSUME NEW i \in 1..(n - 1)
      PROVE  t[i] \in ToSet(s) /\ t[i] # s[k]
    <2>1. PICK j \in 1..n : j # k /\ t[i] = s[j]
        BY <1>0, i \in 1..n, i + 1 \in 1..n DEF Drops
    <2> QED
        BY <1>0, <2>1 DEF IsInjective, ToSet, Drops
<1>3. ASSUME NEW m \in 1..n, m # k
      PROVE  s[m] \in ToSet(t)
    <2>1. CASE m < k
        BY <2>1 DEF ToSet, Drops
    <2>2. CASE m > k
        <3>1. m - 1 \in 1..(n - 1) /\ t[m - 1] = s[m]
            BY <2>2 DEF Drops
        <3> QED
            BY <3>1 DEF ToSet, Drops
    <2> QED
        BY <1>0, <1>3, <2>1, <2>2
<1> QED
    BY <1>1, <1>2, <1>3 DEF ToSet, Drops

\* Removing the only occurrence of an element from a sequence without
\* repetitions leaves a sequence without repetitions of the other elements.
LEMMA RemoveFirstFacts ==
    ASSUME NEW s \in Seq(Nat), IsInjective(s), NEW e \in ToSet(s)
    PROVE  /\ RemoveFirst(s, e) \in Seq(Nat)
           /\ IsInjective(RemoveFirst(s, e))
           /\ ToSet(RemoveFirst(s, e)) = ToSet(s) \ {e}
<1>0. DOMAIN s = 1..Len(s) /\ Len(s) \in Nat
    BY LenProperties
<1>1. PICK k \in 1..Len(s) : s[k] = e
    BY <1>0 DEF ToSet
<1>2. {i \in 1..Len(s) : s[i] = e} = {k}
    BY <1>0, <1>1 DEF IsInjective
<1>3. Min({k}) = k
    BY <1>0 DEF Min
<1>4. RemoveFirst(s, e) = RemoveAt(s, k)
    BY <1>1, <1>2, <1>3 DEF RemoveFirst, SelectInSeq
<1>5. /\ RemoveAt(s, k) \in Seq(Nat)
      /\ Len(RemoveAt(s, k)) = Len(s) - 1
      /\ \A i \in 1..(Len(s) - 1) :
            RemoveAt(s, k)[i] = IF i < k THEN s[i] ELSE s[i + 1]
    BY RemoveAtFacts
<1>6. PICK t \in Seq(Nat) : t = RemoveAt(s, k)
    BY <1>5
<1>7. Len(t) = Len(s) - 1 /\ DOMAIN t = 1..Len(t)
    BY <1>5, <1>6, LenProperties
<1>8. Drops(s, t, Len(s), k)
    BY <1>0, <1>5, <1>6, <1>7 DEF Drops
<1>9. IsInjective(t) /\ ToSet(t) = ToSet(s) \ {s[k]}
    BY <1>8, DropOne, Zenon
<1> QED
    BY <1>1, <1>4, <1>6, <1>9

\* Appending a new element.
LEMMA AppendFacts ==
    ASSUME NEW s \in Seq(Nat), IsInjective(s), NEW e \in Nat, e \notin ToSet(s)
    PROVE  /\ Append(s, e) \in Seq(Nat)
           /\ IsInjective(Append(s, e))
           /\ ToSet(Append(s, e)) = ToSet(s) \cup {e}
<1>1. PICK n \in Nat : n = Len(s) /\ DOMAIN s = 1..n
    BY LenProperties
<1>2. PICK t \in Seq(Nat) : t = Append(s, e)
    BY AppendProperties
<1>3. /\ DOMAIN t = 1..(n + 1)
      /\ \A i \in 1..n : t[i] = s[i]
      /\ t[n + 1] = e
    BY <1>1, <1>2
<1>4. IsInjective(t)
    BY <1>1, <1>3 DEF IsInjective, ToSet
<1>5. ToSet(t) = ToSet(s) \cup {e}
    BY <1>1, <1>3 DEF ToSet
<1> QED
    BY <1>2, <1>4, <1>5

-----------------------------------------------------------------------------
(* Every step preserves the invariant *)

\* The table of a new manager, no file and no call.
LEMMA InitIInv == Init => IInv
<1> SUFFICES ASSUME Init
             PROVE  IInv
    OBVIOUS
<1> USE DEF Init, NewManager, NoFile, Idle
<1>1. TypeOK
    <2>1. NoFile \in File /\ Idle \in Call
        BY DEF File, Call, PCs
    <2>2. heap \in [Ref -> Pane]
        BY DEF Pane
    <2>3. DOMAIN panes = {} /\ panes \in [DOMAIN panes -> Ref]
        OBVIOUS
    <2>4. order \in Seq(Nat) /\ nextPaneID \in Nat
        BY EmptySeq
    <2>5. tmp \in [Workers -> File] /\ call \in [Workers -> Call] /\ stateFile \in File
        BY <2>1
    <2> QED
        BY <2>2, <2>3, <2>4, <2>5 DEF TypeOK
<1>2. TableCoherent
    BY DEF TableCoherent, IsInjective, ToSet
<1>3. IDsBelowNext /\ OneActiveUnlessTorn
    BY DEF IDsBelowNext, OneActiveUnlessTorn, AtMostOneActive, GetActive
<1>4. CallsOK
    BY DEF CallsOK
<1>5. \A f : f = NoFile => FilesOK(f)
    BY DEF FilesOK, Wellformed, OneActive
<1>6. TempsOK /\ NoTempLeft /\ stateFile.kind # "partial" /\ FilesOK(stateFile)
    BY <1>5 DEF TempsOK, NoTempLeft
<1> QED
    BY <1>1, <1>2, <1>3, <1>4, <1>6 DEF IInv

\* A call's snapshot is untouched by a step that leaves the call alone and
\* keeps the objects it refers to, up to the active flag once torn.
SnapshotKept(w) ==
    /\ call'[w] = call[w]
    /\ torn => torn'
    /\ \A i \in 1..Len(call[w].refs) :
          /\ heap'[call[w].refs[i]].id = heap[call[w].refs[i]].id
          /\ ~torn' => heap'[call[w].refs[i]] = heap[call[w].refs[i]]

LEMMA SnapshotKeptOK ==
    ASSUME NEW w \in Workers, TypeOK, CallsOK, SnapshotKept(w), torn' \in BOOLEAN
    PROVE  /\ call'[w].pc = "marshal" => Marshalling(w)'
           /\ call'[w].pc \in {"create", "write", "close", "rename", "install"}
                => Documented(w)'
<1>1. call[w] \in Call /\ call'[w] = call[w]
    BY DEF TypeOK, SnapshotKept
<1>2. ASSUME call[w].pc = "marshal"
      PROVE  Marshalling(w)'
    <2>1. Marshalling(w)
        BY <1>2 DEF CallsOK
    <2>2. Len(call[w].doc) \in Nat /\ Len(call[w].refs) \in Nat
        BY <1>1, LenProperties DEF Call
    <2> QED
        BY <1>1, <2>1, <2>2 DEF Marshalling, SnapshotKept
<1>3. ASSUME call[w].pc \in {"create", "write", "close", "rename", "install"}
      PROVE  Documented(w)'
    BY <1>1, <1>3 DEF CallsOK, Documented, SnapshotKept, Wellformed, OneActive
<1> QED
    BY <1>1, <1>2, <1>3

LEMMA RegisterIInv == IInv /\ Register => IInv'
<1> SUFFICES ASSUME IInv, Register
             PROVE  IInv'
    OBVIOUS
<1>1. PICK r \in FreshRefs :
        /\ heap' = [heap EXCEPT ![r] = [id |-> nextPaneID, active |-> DOMAIN panes = {}]]
        /\ panes' = [id \in DOMAIN panes \cup {nextPaneID} |->
                        IF id = nextPaneID THEN r ELSE panes[id]]
        /\ order' = Append(order, nextPaneID)
        /\ nextPaneID' = nextPaneID + 1
        /\ UNCHANGED <<stateFile, tmp, call, torn>>
    BY DEF Register
<1>2. TypeOK /\ TableCoherent /\ IDsBelowNext
    BY DEF IInv
<1>3. nextPaneID \in Nat /\ nextPaneID \notin DOMAIN panes
    BY <1>2 DEF TypeOK, IDsBelowNext
<1>4. /\ order' \in Seq(Nat)
      /\ IsInjective(order')
      /\ ToSet(order') = ToSet(order) \cup {nextPaneID}
    BY <1>1, <1>2, <1>3, AppendFacts DEF TypeOK, TableCoherent
<1>5. /\ r \in Ref
      /\ \A id \in DOMAIN panes : panes[id] # r
      /\ \A w \in Workers : r \notin ToSet(call[w].refs)
    BY DEF FreshRefs, ObjectsInUse
<1>6. TypeOK'
    <2>1. heap' \in [Ref -> Pane]
        BY <1>1, <1>2, <1>3, <1>5 DEF TypeOK, Pane
    <2> QED
        BY <1>1, <1>2, <1>3, <1>4, <1>5, <2>1 DEF TypeOK
<1>7. /\ DOMAIN panes' = DOMAIN panes \cup {nextPaneID}
      /\ panes'[nextPaneID] = r
      /\ \A id \in DOMAIN panes : panes'[id] = panes[id] /\ heap'[panes[id]] = heap[panes[id]]
      /\ heap'[r] = [id |-> nextPaneID, active |-> DOMAIN panes = {}]
    BY <1>1, <1>2, <1>3, <1>5 DEF TypeOK
<1>8. TableCoherent'
    <2>1. IsInjective(panes')
        BY <1>2, <1>5, <1>7 DEF TableCoherent, IsInjective
    <2> QED
        BY <1>2, <1>4, <1>7, <2>1 DEF TableCoherent
<1>9. IDsBelowNext'
    BY <1>1, <1>2, <1>3, <1>7 DEF IDsBelowNext, TypeOK
<1>10. CallsOK'
    <2>1. ASSUME NEW w \in Workers
          PROVE  SnapshotKept(w)
        <3>1. call[w].refs \in Seq(Ref)
            BY <1>2 DEF TypeOK, Call
        <3>2. \A i \in 1..Len(call[w].refs) : call[w].refs[i] \in Ref \ {r}
            BY <1>5, <3>1, LenProperties DEF ToSet
        <3> QED
            BY <1>1, <1>2, <3>2 DEF SnapshotKept, TypeOK
    <2> QED
        BY <1>2, <1>6, <2>1, SnapshotKeptOK DEF CallsOK, IInv, TypeOK
<1>11. (TempsOK /\ NoTempLeft /\ stateFile.kind # "partial" /\ FilesOK(stateFile))'
    BY <1>1 DEF IInv, TempsOK, NoTempLeft, FilesOK
<1>12. OneActiveUnlessTorn'
    <2>1. torn \/ AtMostOneActive
        BY DEF IInv, OneActiveUnlessTorn
    <2>2. CASE DOMAIN panes = {}
        BY <1>1, <1>7, <2>2 DEF OneActiveUnlessTorn, AtMostOneActive, GetActive
    <2>3. CASE DOMAIN panes # {}
        <3>1. ~heap'[r].active
            <4>1. heap'[r].active = (DOMAIN panes = {})
                BY <1>7
            <4> QED
                BY <2>3, <4>1, Zenon
        <3>2. ASSUME NEW p \in GetActive'
              PROVE  p \in GetActive
            BY <1>7, <3>1 DEF GetActive
        <3> QED
            BY <1>1, <2>1, <3>2 DEF OneActiveUnlessTorn, AtMostOneActive
    <2> QED
        BY <2>2, <2>3
<1> QED
    BY <1>6, <1>8, <1>9, <1>10, <1>11, <1>12 DEF IInv

LEMMA NextIDIInv == IInv /\ NextID => IInv'
<1> SUFFICES ASSUME IInv, NextID
             PROVE  IInv'
    OBVIOUS
<1> USE DEF NextID
<1>1. (TypeOK /\ IDsBelowNext)'
    BY DEF IInv, TypeOK, IDsBelowNext
<1>2. (TableCoherent /\ OneActiveUnlessTorn)'
    BY DEF IInv, TableCoherent, OneActiveUnlessTorn, AtMostOneActive, GetActive
<1>3. CallsOK'
    BY DEF IInv, CallsOK, Marshalling, Documented
<1>4. (TempsOK /\ NoTempLeft /\ stateFile.kind # "partial" /\ FilesOK(stateFile))'
    BY DEF IInv, TempsOK, NoTempLeft, FilesOK
<1> QED
    BY <1>1, <1>2, <1>3, <1>4 DEF IInv

LEMMA UnregisterIInv ==
    ASSUME NEW id \in DOMAIN panes, IInv, Unregister(id)
    PROVE  IInv'
<1> USE DEF Unregister
<1>1. TypeOK /\ TableCoherent /\ IDsBelowNext
    BY DEF IInv
<1>2. /\ order' \in Seq(Nat)
      /\ IsInjective(order')
      /\ ToSet(order') = ToSet(order) \ {id}
    BY <1>1, RemoveFirstFacts DEF TypeOK, TableCoherent
<1>3. /\ DOMAIN panes' = DOMAIN panes \ {id}
      /\ \A i \in DOMAIN panes' : panes'[i] = panes[i]
    OBVIOUS
<1>4. TypeOK'
    BY <1>1, <1>2, <1>3 DEF TypeOK
<1>5. TableCoherent'
    BY <1>1, <1>2, <1>3 DEF TableCoherent, IsInjective
<1>6. IDsBelowNext'
    BY <1>1, <1>3 DEF IDsBelowNext
<1>7. CallsOK'
    BY DEF IInv, CallsOK, Marshalling, Documented
<1>8. (TempsOK /\ NoTempLeft /\ stateFile.kind # "partial" /\ FilesOK(stateFile))'
    BY DEF IInv, TempsOK, NoTempLeft, FilesOK
<1>9. OneActiveUnlessTorn'
    <2>1. ASSUME NEW p \in GetActive'
          PROVE  p \in GetActive
        BY <1>3 DEF GetActive
    <2> QED
        BY <2>1 DEF IInv, OneActiveUnlessTorn, AtMostOneActive
<1> QED
    BY <1>4, <1>5, <1>6, <1>7, <1>8, <1>9 DEF IInv

LEMMA SetActiveIInv ==
    ASSUME NEW id \in DOMAIN panes, IInv, SetActive(id)
    PROVE  IInv'
<1>1. TypeOK /\ TableCoherent /\ IDsBelowNext
    BY DEF IInv
<1>2. /\ UNCHANGED <<panes, order, nextPaneID, stateFile, tmp, call>>
      /\ torn' \in BOOLEAN
      /\ torn => torn'
      /\ \A w \in Workers : call[w].pc = "marshal" => torn'
    BY DEF SetActive
<1>3. \A r \in Ref : /\ heap'[r] \in Pane
                    /\ heap'[r].id = heap[r].id
    BY <1>1 DEF SetActive, TypeOK, Pane
<1>4. \A i \in DOMAIN panes : panes[i] \in Ref /\ (heap'[panes[i]].active <=> i = id)
    <2>1. ASSUME NEW i \in DOMAIN panes
          PROVE  panes[i] \in Ref /\ heap'[panes[i]] = [heap[panes[i]] EXCEPT !.active = (heap[panes[i]].id = id)]
        BY <1>1 DEF SetActive, TypeOK
    <2>2. ASSUME NEW i \in DOMAIN panes
          PROVE  heap'[panes[i]].active = (i = id)
        <3>1. heap[panes[i]] \in Pane /\ heap[panes[i]].id = i
            BY <1>1, <2>1 DEF TypeOK, TableCoherent
        <3> QED
            BY <2>1, <3>1 DEF Pane
    <2>3. ASSUME NEW i \in DOMAIN panes
          PROVE  panes[i] \in Ref /\ (heap'[panes[i]].active <=> i = id)
        BY <2>1, <2>2, Zenon
    <2> QED
        BY <2>3
<1>5. TypeOK'
    <2>1. heap' \in [Ref -> Pane]
        BY <1>3 DEF SetActive
    <2> QED
        BY <1>1, <1>2, <2>1 DEF TypeOK
<1>6. TableCoherent' /\ IDsBelowNext'
    BY <1>1, <1>2, <1>3, <1>4 DEF TableCoherent, IDsBelowNext, TypeOK
<1>7. CallsOK'
    <2>1. ASSUME NEW w \in Workers
          PROVE  /\ call'[w].pc = "marshal" => Marshalling(w)'
                 /\ call'[w].pc \in {"create", "write", "close", "rename", "install"}
                      => Documented(w)'
        <3>1. CASE call[w].pc = "marshal"
            <4>1. call[w].refs \in Seq(Ref) /\ torn'
                BY <1>1, <1>2, <3>1 DEF TypeOK, Call
            <4>2. \A i \in 1..Len(call[w].refs) :
                     heap'[call[w].refs[i]].id = heap[call[w].refs[i]].id
                BY <1>3, <4>1, ElementOfSeq
            <4>3. SnapshotKept(w)
                BY <1>2, <4>1, <4>2 DEF SnapshotKept
            <4> QED
                BY <1>1, <1>2, <4>3, SnapshotKeptOK DEF IInv
        <3>2. CASE call[w].pc # "marshal"
            BY <1>2, <3>2 DEF IInv, CallsOK, Documented
        <3> QED
            BY <3>1, <3>2
    <2> QED
        BY <2>1 DEF CallsOK
<1>8. (TempsOK /\ NoTempLeft /\ stateFile.kind # "partial" /\ FilesOK(stateFile))'
    BY <1>2 DEF IInv, TempsOK, NoTempLeft, FilesOK
<1>9. OneActiveUnlessTorn'
    BY <1>2, <1>4 DEF OneActiveUnlessTorn, AtMostOneActive, GetActive
<1> QED
    BY <1>5, <1>6, <1>7, <1>8, <1>9 DEF IInv

\* The steps of Save and the first step of Load leave the table alone and
\* touch only one worker's call.
LEMMA MemoryKept ==
    ASSUME NEW w \in Workers, IInv, UNCHANGED <<memory, torn>>,
           \A v \in Workers \ {w} : call'[v] = call[v]
    PROVE  /\ TableCoherent' /\ IDsBelowNext' /\ OneActiveUnlessTorn'
           /\ \A v \in Workers \ {w} :
                /\ call'[v].pc = "marshal" => Marshalling(v)'
                /\ call'[v].pc \in {"create", "write", "close", "rename", "install"}
                      => Documented(v)'
<1>1. TableCoherent' /\ IDsBelowNext' /\ OneActiveUnlessTorn'
    BY DEF IInv, memory, TableCoherent, IDsBelowNext, OneActiveUnlessTorn,
           AtMostOneActive, GetActive
<1>2. ASSUME NEW v \in Workers \ {w}
      PROVE  /\ call'[v].pc = "marshal" => Marshalling(v)'
             /\ call'[v].pc \in {"create", "write", "close", "rename", "install"}
                  => Documented(v)'
    <2>1. SnapshotKept(v) /\ torn' \in BOOLEAN
        BY <1>2 DEF IInv, TypeOK, memory, SnapshotKept
    <2> QED
        BY <1>2, <2>1, SnapshotKeptOK DEF IInv
<1> QED
    BY <1>1, <1>2

\* The snapshot Save takes under the read lock is the whole table.
LEMMA SaveSnapshotIInv ==
    ASSUME NEW w \in Workers, IInv, SaveSnapshot(w)
    PROVE  IInv'
<1>1. TypeOK /\ TableCoherent /\ IDsBelowNext
    BY DEF IInv
<1>2. PICK n \in Nat : n = Len(order) /\ DOMAIN order = 1..n /\ order \in [1..n -> Nat]
    BY <1>1, LenProperties DEF TypeOK
<1>3. KnownIDs = order
    BY <1>1 DEF KnownIDs, TableCoherent
<1>4. PICK refs : refs = [i \in 1..n |-> panes[order[i]]]
    OBVIOUS
<1>5. \A i \in 1..n : order[i] \in DOMAIN panes /\ refs[i] = panes[order[i]] /\ refs[i] \in Ref
    BY <1>1, <1>2, <1>4 DEF TableCoherent, TypeOK, ToSet
<1>6. refs \in Seq(Ref) /\ Len(refs) = n
    BY <1>2, <1>4, <1>5
<1>7. /\ UNCHANGED <<memory, stateFile, tmp, torn>>
      /\ call[w].pc = "idle"
      /\ call' = [call EXCEPT ![w] = [pc   |-> IF order = <<>> THEN "create" ELSE "marshal",
                                     refs |-> refs, next |-> nextPaneID, doc |-> <<>>]]
    BY <1>2, <1>3, <1>4 DEF SaveSnapshot
<1>8. /\ call'[w] = [pc   |-> IF order = <<>> THEN "create" ELSE "marshal",
                     refs |-> refs, next |-> nextPaneID, doc |-> <<>>]
      /\ \A v \in Workers \ {w} : call'[v] = call[v]
    BY <1>1, <1>7 DEF TypeOK
<1>9. TypeOK'
    <2>1. call'[w] \in Call
        <3>1. <<>> \in Seq(Pane)
            BY EmptySeq
        <3> QED
            BY <1>1, <1>6, <1>8, <3>1 DEF Call, PCs, TypeOK
    <2> QED
        BY <1>1, <1>7, <2>1 DEF TypeOK, memory
<1>10. TableCoherent' /\ IDsBelowNext' /\ OneActiveUnlessTorn'
    BY <1>7, <1>8, MemoryKept
<1>11. CallsOK'
    <2>1. ASSUME call'[w].pc = "marshal"
          PROVE  Marshalling(w)'
        <3>1. Len(call'[w].doc) = 0 /\ call'[w].refs = refs /\ call'[w].next = nextPaneID
            BY <1>8, EmptySeq
        <3>2. n > 0
            BY <1>1, <1>2, <1>8, <2>1, EmptySeq DEF TypeOK
        <3>3. \A i \in 1..n : heap[refs[i]].id = order[i]
            BY <1>1, <1>5 DEF TableCoherent
        <3>4. \A i, j \in 1..n : order[i] = order[j] => i = j
            BY <1>1, <1>2 DEF TableCoherent, IsInjective
        <3>5. \A i \in 1..n : order[i] < nextPaneID
            BY <1>1, <1>5 DEF IDsBelowNext
        <3>6. ~torn => \A i, j \in 1..n : heap[refs[i]].active /\ heap[refs[j]].active => i = j
            <4>1. SUFFICES ASSUME ~torn, NEW i \in 1..n, NEW j \in 1..n,
                                  heap[refs[i]].active, heap[refs[j]].active
                           PROVE  i = j
                OBVIOUS
            <4>2. heap[refs[i]] \in GetActive /\ heap[refs[j]] \in GetActive
                BY <1>5, <4>1 DEF GetActive
            <4>3. heap[refs[i]] = heap[refs[j]]
                BY <4>1, <4>2 DEF IInv, OneActiveUnlessTorn, AtMostOneActive
            <4> QED
                BY <3>3, <3>4, <4>3
        <3>7. heap' = heap /\ torn' = torn
            BY <1>7 DEF memory
        <3> QED
            BY <1>6, <3>1, <3>2, <3>3, <3>4, <3>5, <3>6, <3>7 DEF Marshalling
    <2>2. Documented(w)'
        BY <1>8, EmptySeq DEF Documented, Wellformed, OneActive
    <2> QED
        BY <1>7, <1>8, <2>1, <2>2, MemoryKept DEF CallsOK
<1>12. (TempsOK /\ NoTempLeft /\ stateFile.kind # "partial" /\ FilesOK(stateFile))'
    BY <1>7, <1>8 DEF IInv, TempsOK, NoTempLeft, FilesOK
<1> QED
    BY <1>9, <1>10, <1>11, <1>12 DEF IInv

\* Marshalling copies one more object; the last one completes the document.
LEMMA SaveMarshalPaneIInv ==
    ASSUME NEW w \in Workers, IInv, SaveMarshalPane(w)
    PROVE  IInv'
<1>1. TypeOK /\ Marshalling(w) /\ call[w].pc = "marshal"
    BY DEF IInv, CallsOK, SaveMarshalPane
<1>2. PICK refs \in Seq(Ref), old \in Seq(Pane), next \in Nat :
         refs = call[w].refs /\ old = call[w].doc /\ next = call[w].next
    BY <1>1 DEF TypeOK, Call
<1>3. PICK m \in Nat, n \in Nat : m = Len(old) /\ n = Len(refs)
    BY LenProperties
<1>4. /\ m < n
      /\ \A i \in 1..m : old[i].id = heap[refs[i]].id
      /\ \A i \in 1..n : heap[refs[i]].id < next
      /\ \A i, j \in 1..n : heap[refs[i]].id = heap[refs[j]].id => i = j
      /\ ~torn => /\ \A i \in 1..m : old[i] = heap[refs[i]]
                  /\ \A i, j \in 1..n : heap[refs[i]].active /\ heap[refs[j]].active => i = j
    BY <1>1, <1>2, <1>3 DEF Marshalling
<1>5. heap[refs[m + 1]] \in Pane
    <2>1. refs[m + 1] \in Ref
        BY <1>3, <1>4, ElementOfSeq
    <2> QED
        BY <1>1, <2>1 DEF TypeOK
<1>6. PICK doc \in Seq(Pane) : doc = Append(old, heap[refs[m + 1]])
    BY <1>5, AppendProperties
<1>7. /\ Len(doc) = m + 1
      /\ \A i \in 1..m : doc[i] = old[i]
      /\ doc[m + 1] = heap[refs[m + 1]]
    BY <1>3, <1>5, <1>6, AppendProperties
<1>8. /\ UNCHANGED <<memory, stateFile, tmp, torn>>
      /\ call'[w] = [call[w] EXCEPT !.doc  = doc,
                                    !.pc   = IF m + 1 = n THEN "create" ELSE "marshal",
                                    !.refs = IF m + 1 = n THEN <<>> ELSE refs]
      /\ \A v \in Workers \ {w} : call'[v] = call[v]
      /\ call' \in [Workers -> Call]
    <2>1. UNCHANGED <<memory, stateFile, tmp, torn>>
        BY DEF SaveMarshalPane
    <2>2. call' = [call EXCEPT ![w] = [call[w] EXCEPT !.doc  = doc,
                                    !.pc   = IF m + 1 = n THEN "create" ELSE "marshal",
                                    !.refs = IF m + 1 = n THEN <<>> ELSE refs]]
        BY <1>1, <1>2, <1>3, <1>6, <1>7 DEF SaveMarshalPane, TypeOK, Call
    <2>3. [call[w] EXCEPT !.doc  = doc,
                          !.pc   = IF m + 1 = n THEN "create" ELSE "marshal",
                          !.refs = IF m + 1 = n THEN <<>> ELSE refs] \in Call
        BY <1>1, <1>2, EmptySeq DEF TypeOK, Call, PCs
    <2> QED
        BY <1>1, <2>1, <2>2, <2>3 DEF TypeOK
<1>9. call'[w].doc = doc /\ call'[w].next = next /\ torn' = torn /\ heap' = heap
    BY <1>1, <1>2, <1>8 DEF TypeOK, Call, memory
<1>10. /\ \A i \in 1..(m + 1) : doc[i].id = heap[refs[i]].id
       /\ ~torn => \A i \in 1..(m + 1) : doc[i] = heap[refs[i]]
    BY <1>4, <1>7
<1>11. CASE m + 1 = n
    <2>1. call'[w].pc = "create"
        BY <1>1, <1>8, <1>11 DEF TypeOK, Call
    <2>2. Documented(w)'
        <3>1. Wellformed(doc, next)
            BY <1>4, <1>7, <1>10, <1>11 DEF Wellformed
        <3>2. ASSUME ~torn
              PROVE  OneActive(doc)
            <4>1. SUFFICES ASSUME NEW i \in 1..n, NEW j \in 1..n, doc[i].active, doc[j].active
                           PROVE  i = j
                BY <1>7, <1>11 DEF OneActive
            <4>2. doc[i] = heap[refs[i]] /\ doc[j] = heap[refs[j]]
                BY <1>10, <1>11, <3>2
            <4> QED
                BY <1>4, <3>2, <4>1, <4>2
        <3> QED
            BY <1>9, <3>1, <3>2 DEF Documented
    <2> QED
        <3>1. CallsOK'
            BY <1>8, <2>1, <2>2, MemoryKept DEF CallsOK
        <3>2. (TempsOK /\ NoTempLeft /\ stateFile.kind # "partial" /\ FilesOK(stateFile))'
            BY <1>1, <1>8, <2>1 DEF IInv, TempsOK, NoTempLeft, FilesOK
        <3>3. TypeOK'
            BY <1>1, <1>8 DEF TypeOK, memory
        <3> QED
            BY <1>8, <3>1, <3>2, <3>3, MemoryKept DEF IInv
<1>12. CASE m + 1 # n
    <2>1. call'[w].pc = "marshal" /\ call'[w].refs = refs
        BY <1>1, <1>2, <1>8, <1>12 DEF TypeOK, Call
    <2>2. m + 1 < n
        BY <1>4, <1>12
    <2>3. Marshalling(w)'
        BY <1>3, <1>4, <1>7, <1>9, <1>10, <2>1, <2>2 DEF Marshalling
    <2> QED
        <3>1. CallsOK'
            BY <1>8, <2>1, <2>3, MemoryKept DEF CallsOK
        <3>2. (TempsOK /\ NoTempLeft /\ stateFile.kind # "partial" /\ FilesOK(stateFile))'
            BY <1>1, <1>8, <2>1 DEF IInv, TempsOK, NoTempLeft, FilesOK
        <3>3. TypeOK'
            BY <1>1, <1>8 DEF TypeOK, memory
        <3> QED
            BY <1>8, <3>1, <3>2, <3>3, MemoryKept DEF IInv
<1> QED
    BY <1>11, <1>12

\* The file steps of Save and the first step of Load: the worker's call is
\* idle, or moves on with the document it has.
LEMMA FileStepIInv ==
    ASSUME NEW w \in Workers, IInv, UNCHANGED <<memory, torn>>,
           NEW c \in Call, call' = [call EXCEPT ![w] = c],
           NEW f \in File, tmp' = [tmp EXCEPT ![w] = f],
           c.pc # "marshal",
           c.pc # "idle" => Wellformed(c.doc, c.next) /\ (~torn => OneActive(c.doc)),
           FilesOK(f),
           c.pc \in {"close", "rename"} => f.kind = "state",
           f.kind # "none" => c.pc \in {"write", "close", "rename"},
           stateFile' \in File, stateFile'.kind # "partial", FilesOK(stateFile')
    PROVE  IInv'
<1>1. TypeOK /\ torn' = torn
    BY DEF IInv
<1>2. /\ call'[w] = c /\ \A v \in Workers \ {w} : call'[v] = call[v]
      /\ tmp'[w] = f /\ \A v \in Workers \ {w} : tmp'[v] = tmp[v]
    BY <1>1 DEF TypeOK
<1>3. TypeOK'
    BY <1>1 DEF TypeOK, memory
<1>4. CallsOK'
    <2>1. c.pc \in {"create", "write", "close", "rename", "install"} => Documented(w)'
        BY <1>1, <1>2 DEF Documented
    <2> QED
        BY <1>2, <2>1, MemoryKept DEF CallsOK
<1>5. \A g : FilesOK(g)' <=> FilesOK(g)
    BY <1>1 DEF FilesOK
<1>6. TempsOK' /\ NoTempLeft'
    BY <1>2, <1>1 DEF IInv, TempsOK, NoTempLeft, FilesOK
<1>7. (stateFile.kind # "partial" /\ FilesOK(stateFile))'
    BY <1>1 DEF FilesOK
<1> QED
    BY <1>2, <1>3, <1>4, <1>6, <1>7, MemoryKept DEF IInv

\* No file, and a cut-off one, hold no panes.
LEMMA EmptyFiles ==
    /\ NoFile \in File /\ NoFile.kind = "none" /\ FilesOK(NoFile)
    /\ Partial \in File /\ Partial.kind = "partial" /\ FilesOK(Partial)
    /\ Idle \in Call /\ Idle.pc = "idle"
BY EmptySeq DEF NoFile, Partial, Idle, File, Call, PCs, FilesOK, Wellformed, OneActive

LEMMA SaveFileIInv ==
    ASSUME NEW w \in Workers, IInv,
           SaveCreateTemp(w) \/ SaveWrite(w) \/ SaveClose(w) \/ SaveRename(w)
    PROVE  IInv'
<1>1. TypeOK /\ call[w] \in Call /\ tmp[w] \in File /\ stateFile \in File
    BY DEF IInv, TypeOK
<1>2. /\ FilesOK(tmp[w]) /\ stateFile.kind # "partial" /\ FilesOK(stateFile)
      /\ call[w].pc \in {"close", "rename"} => tmp[w].kind = "state"
    BY DEF IInv, TempsOK
<1>3. call[w].pc \in {"create", "write", "close", "rename"}
    BY DEF SaveCreateTemp, SaveWrite, SaveClose, SaveRename
<1>4. Wellformed(call[w].doc, call[w].next) /\ (~torn => OneActive(call[w].doc))
    BY <1>3 DEF IInv, CallsOK, Documented
<1>5. UNCHANGED <<memory, torn>>
    BY DEF SaveCreateTemp, SaveWrite, SaveClose, SaveRename
<1>6. ASSUME NEW p \in {"write", "close", "rename"}
      PROVE  /\ [call[w] EXCEPT !.pc = p] \in Call
             /\ [call[w] EXCEPT !.pc = p].pc = p
             /\ [call[w] EXCEPT !.pc = p].doc = call[w].doc
             /\ [call[w] EXCEPT !.pc = p].next = call[w].next
    BY <1>1 DEF Call, PCs
<1>7. CASE /\ Return(w) /\ tmp' = [tmp EXCEPT ![w] = NoFile]
           /\ stateFile' = stateFile \/ (stateFile' = tmp[w] /\ call[w].pc = "rename")
    <2>1. call' = [call EXCEPT ![w] = Idle]
        BY <1>7 DEF Return
    <2>2. stateFile' \in File /\ stateFile'.kind # "partial" /\ FilesOK(stateFile')
        BY <1>1, <1>2, <1>7
    <2> QED
        BY <1>5, <1>7, <2>1, <2>2, EmptyFiles, FileStepIInv
<1>8. CASE SaveCreateTemp(w)
    <2>1. CASE tmp' = [tmp EXCEPT ![w] = Partial] /\ Goto(w, "write")
        <3>1. call' = [call EXCEPT ![w] = [call[w] EXCEPT !.pc = "write"]] /\ stateFile' = stateFile
            BY <1>1, <1>8, <2>1 DEF Goto, SaveCreateTemp, TypeOK
        <3> QED
            BY <1>1, <1>2, <1>4, <1>5, <1>6, <2>1, <3>1, EmptyFiles, FileStepIInv
    <2>2. CASE UNCHANGED tmp /\ Return(w)
        <3>1. tmp[w].kind = "none"
            BY <1>1, <1>8 DEF IInv, NoTempLeft, SaveCreateTemp
        <3>2. /\ call' = [call EXCEPT ![w] = Idle] /\ stateFile' = stateFile
              /\ tmp' = [tmp EXCEPT ![w] = tmp[w]]
            BY <1>1, <1>8, <2>2 DEF Return, SaveCreateTemp, TypeOK
        <3> QED
            BY <1>1, <1>2, <1>5, <3>1, <3>2, EmptyFiles, FileStepIInv
    <2> QED
        BY <1>8, <2>1, <2>2 DEF SaveCreateTemp
<1>9. CASE SaveWrite(w)
    <2> DEFINE f == managerState(call[w].doc, call[w].next)
    <2>1. CASE tmp' = [tmp EXCEPT ![w] = f] /\ Goto(w, "close")
        <3>1. call' = [call EXCEPT ![w] = [call[w] EXCEPT !.pc = "close"]] /\ stateFile' = stateFile
            BY <1>1, <1>9, <2>1 DEF Goto, SaveWrite, TypeOK
        <3>2. f \in File /\ f.kind = "state" /\ FilesOK(f)
            BY <1>1, <1>4 DEF managerState, File, Call, FilesOK
        <3> QED
            BY <1>1, <1>2, <1>4, <1>5, <1>6, <2>1, <3>1, <3>2, FileStepIInv
    <2>2. CASE tmp' = [tmp EXCEPT ![w] = NoFile] /\ Return(w)
        BY <1>7, <1>9, <2>2 DEF SaveWrite
    <2> QED
        BY <1>9, <2>1, <2>2 DEF SaveWrite
<1>10. CASE SaveClose(w)
    <2>1. CASE UNCHANGED tmp /\ Goto(w, "rename")
        <3>1. /\ call' = [call EXCEPT ![w] = [call[w] EXCEPT !.pc = "rename"]]
              /\ tmp' = [tmp EXCEPT ![w] = tmp[w]] /\ stateFile' = stateFile
            BY <1>1, <1>10, <2>1 DEF Goto, SaveClose, TypeOK
        <3>2. tmp[w].kind = "state"
            BY <1>2, <1>10 DEF SaveClose
        <3> QED
            BY <1>1, <1>2, <1>4, <1>5, <1>6, <3>1, <3>2, FileStepIInv
    <2>2. CASE tmp' = [tmp EXCEPT ![w] = NoFile] /\ Return(w)
        BY <1>7, <1>10, <2>2 DEF SaveClose
    <2> QED
        BY <1>10, <2>1, <2>2 DEF SaveClose
<1>11. CASE SaveRename(w)
    BY <1>7, <1>11 DEF SaveRename
<1> QED
    BY <1>8, <1>9, <1>10, <1>11

LEMMA LoadReadIInv ==
    ASSUME NEW w \in Workers, IInv, LoadRead(w)
    PROVE  IInv'
<1> DEFINE c == [pc |-> "install", refs |-> <<>>, next |-> stateFile.next_id,
                 doc |-> stateFile.panes]
<1>1. TypeOK /\ tmp[w] \in File /\ stateFile \in File
    BY DEF IInv, TypeOK
<1>2. c \in Call
    BY <1>1, EmptySeq DEF Call, PCs, File
<1>3. Wellformed(c.doc, c.next) /\ (~torn => OneActive(c.doc))
    BY DEF IInv, FilesOK
<1>4. tmp[w].kind = "none" /\ FilesOK(tmp[w])
    BY <1>1 DEF IInv, NoTempLeft, TempsOK, LoadRead
<1>5. /\ call' = [call EXCEPT ![w] = c] /\ tmp' = [tmp EXCEPT ![w] = tmp[w]]
      /\ stateFile' = stateFile /\ UNCHANGED <<memory, torn>>
    BY <1>1 DEF LoadRead, TypeOK
<1>6. stateFile.kind # "partial" /\ FilesOK(stateFile) /\ c.pc = "install"
    BY DEF IInv
<1> HIDE DEF c
<1> QED
    BY <1>1, <1>2, <1>3, <1>4, <1>5, <1>6, FileStepIInv

\* The objects LoadInstall allocates are new, and hold what the file said.
LEMMA LoadInstallIInv ==
    ASSUME NEW w \in Workers, IInv, LoadInstall(w)
    PROVE  IInv'
<1>1. TypeOK /\ call[w].pc = "install" /\ Documented(w)
    BY DEF IInv, CallsOK, LoadInstall
<1>2. PICK doc \in Seq(Pane), n \in Nat, next \in Nat :
         doc = call[w].doc /\ n = Len(doc) /\ next = call[w].next
    <2>1. call[w].doc \in Seq(Pane) /\ call[w].next \in Nat
        BY <1>1 DEF TypeOK, Call
    <2> QED
        BY <2>1, LenProperties
<1>3. /\ \A i \in 1..n : doc[i] \in Pane
      /\ \A i \in 1..n : doc[i].id \in Nat /\ doc[i].id < next
      /\ \A i, j \in 1..n : doc[i].id = doc[j].id => i = j
      /\ ~torn => \A i, j \in 1..n : doc[i].active /\ doc[j].active => i = j
    <2>1. \A i \in 1..n : doc[i] \in Pane
        BY <1>2, ElementOfSeq
    <2> QED
        BY <1>1, <1>2, <2>1 DEF Documented, Wellformed, OneActive, Pane
<1>4. PICK new \in [1..n -> FreshRefs] : IsInjective(new) /\ Install(doc, new)
    BY <1>2 DEF LoadInstall
<1>5. /\ nextPaneID' = next /\ call' = [call EXCEPT ![w] = Idle]
      /\ UNCHANGED <<stateFile, tmp, torn>>
    BY <1>2 DEF LoadInstall, LoadedNextID, Return
<1>6. /\ \A i \in 1..n : new[i] \in Ref
      /\ \A i, j \in 1..n : new[i] = new[j] => i = j
      /\ \A v \in Workers : \A i \in 1..n : new[i] \notin ToSet(call[v].refs)
    BY <1>4 DEF FreshRefs, ObjectsInUse, IsInjective
<1>7. \A i \in 1..n : heap'[new[i]] = doc[i]
    <2>1. ASSUME NEW i \in 1..n
          PROVE  heap'[new[i]] = doc[i]
        <3>1. (CHOOSE k \in 1..Len(doc) : new[k] = new[i]) = i
            BY <1>2, <1>6
        <3> QED
            BY <1>2, <1>4, <1>6, <3>1 DEF Install
    <2> QED
        BY <2>1
<1>8. \A r \in Ref : (\A i \in 1..n : new[i] # r) => heap'[r] = heap[r]
    BY <1>2, <1>4 DEF Install
<1>9. DOMAIN panes' = {doc[i].id : i \in 1..n}
    BY <1>2, <1>4 DEF Install
<1>10. \A i \in 1..n : panes'[doc[i].id] = new[i]
    <2>1. ASSUME NEW i \in 1..n
          PROVE  panes'[doc[i].id] = new[i]
        <3>1. (CHOOSE k \in 1..Len(doc) :
                 /\ doc[k].id = doc[i].id
                 /\ \A j \in 1..Len(doc) : doc[j].id = doc[i].id => j <= k) = i
            BY <1>2, <1>3
        <3> QED
            BY <1>2, <1>4, <3>1 DEF Install
    <2> QED
        BY <2>1
<1>11. /\ order' \in Seq(Nat)
       /\ DOMAIN order' = 1..n
       /\ \A i \in 1..n : order'[i] = doc[i].id
    BY <1>2, <1>3, <1>4 DEF Install
<1>12. TypeOK'
    <2>1. heap' \in [Ref -> Pane]
        <3>1. \A r \in Ref : heap'[r] \in Pane
            BY <1>1, <1>3, <1>7, <1>8 DEF TypeOK
        <3> QED
            BY <1>4, <3>1 DEF Install
    <2>2. DOMAIN panes' \subseteq Nat
        BY <1>3, <1>9
    <2>3. panes' \in [DOMAIN panes' -> Ref]
        <3>1. \A id \in DOMAIN panes' : panes'[id] \in Ref
            BY <1>6, <1>9, <1>10
        <3> QED
            BY <1>4, <3>1 DEF Install
    <2> QED
        BY <1>1, <1>5, <1>11, <2>1, <2>2, <2>3, EmptyFiles DEF TypeOK
<1>13. TableCoherent'
    <2>1. ToSet(order') = DOMAIN panes'
        BY <1>9, <1>11 DEF ToSet
    <2>2. IsInjective(order')
        BY <1>3, <1>11 DEF IsInjective
    <2>3. \A id \in DOMAIN panes' : heap'[panes'[id]].id = id
        BY <1>7, <1>9, <1>10
    <2>4. IsInjective(panes')
        BY <1>6, <1>9, <1>10 DEF IsInjective
    <2> QED
        BY <2>1, <2>2, <2>3, <2>4 DEF TableCoherent
<1>14. IDsBelowNext'
    BY <1>3, <1>5, <1>9 DEF IDsBelowNext
<1>15. CallsOK'
    <2>1. ASSUME NEW v \in Workers, v # w
          PROVE  SnapshotKept(v)
        <3>1. call[v].refs \in Seq(Ref)
            BY <1>1 DEF TypeOK, Call
        <3>2. \A i \in 1..Len(call[v].refs) :
                 /\ call[v].refs[i] \in Ref
                 /\ call[v].refs[i] \in ToSet(call[v].refs)
            BY <3>1, LenProperties DEF ToSet
        <3>3. \A i \in 1..Len(call[v].refs) : heap'[call[v].refs[i]] = heap[call[v].refs[i]]
            BY <1>6, <1>8, <3>2
        <3>4. call'[v] = call[v]
            BY <1>1, <1>5, <2>1 DEF TypeOK
        <3> QED
            BY <1>5, <3>3, <3>4 DEF SnapshotKept
    <2>2. call'[w].pc = "idle" /\ torn' \in BOOLEAN
        BY <1>1, <1>5, EmptyFiles DEF TypeOK
    <2> QED
        BY <1>1, <2>1, <2>2, SnapshotKeptOK DEF CallsOK, IInv
<1>16. (TempsOK /\ NoTempLeft /\ stateFile.kind # "partial" /\ FilesOK(stateFile))'
    <2>1. call'[w].pc = "idle" /\ \A v \in Workers \ {w} : call'[v] = call[v]
        BY <1>1, <1>5, EmptyFiles DEF TypeOK
    <2> QED
        BY <1>1, <1>5, <2>1 DEF IInv, TempsOK, NoTempLeft, FilesOK
<1>17. OneActiveUnlessTorn'
    <2>1. ASSUME NEW p \in GetActive'
          PROVE  \E i \in 1..n : p = doc[i] /\ doc[i].active
        BY <1>7, <1>9, <1>10 DEF GetActive
    <2> QED
        BY <1>3, <1>5, <2>1 DEF OneActiveUnlessTorn, AtMostOneActive
<1> QED
    BY <1>12, <1>13, <1>14, <1>15, <1>16, <1>17 DEF IInv

LEMMA CrashIInv == IInv /\ Crash => IInv'
<1> SUFFICES ASSUME IInv, Crash
             PROVE  IInv'
    OBVIOUS
<1>1. /\ heap' = [r \in Ref |-> [id |-> 0, active |-> FALSE]]
      /\ panes' = [id \in {} |-> 0] /\ order' = <<>> /\ nextPaneID' = 0
      /\ call' = [w \in Workers |-> Idle] /\ tmp' = [w \in Workers |-> NoFile]
      /\ UNCHANGED <<stateFile, torn>>
    BY DEF Crash, NewManager
<1>2. TypeOK'
    <2>1. heap' \in [Ref -> Pane]
        BY <1>1 DEF Pane
    <2>2. DOMAIN panes' = {} /\ panes' \in [DOMAIN panes' -> Ref]
        BY <1>1
    <2>3. order' \in Seq(Nat) /\ nextPaneID' \in Nat
        BY <1>1, EmptySeq
    <2> QED
        BY <1>1, <2>1, <2>2, <2>3, EmptyFiles DEF IInv, TypeOK
<1>3. TableCoherent' /\ IDsBelowNext' /\ OneActiveUnlessTorn'
    BY <1>1 DEF TableCoherent, IsInjective, ToSet, IDsBelowNext, OneActiveUnlessTorn,
                AtMostOneActive, GetActive
<1>4. CallsOK'
    BY <1>1, EmptyFiles DEF CallsOK
<1>5. (stateFile.kind # "partial" /\ FilesOK(stateFile))'
    BY <1>1 DEF IInv, FilesOK
<1>6. TempsOK' /\ NoTempLeft'
    <2>1. FilesOK(NoFile)'
        BY EmptySeq DEF NoFile, FilesOK, Wellformed, OneActive
    <2> QED
        BY <1>1, <2>1, EmptyFiles DEF TempsOK, NoTempLeft, FilesOK
<1> QED
    BY <1>2, <1>3, <1>4, <1>5, <1>6 DEF IInv

LEMMA NextIInv == IInv /\ [Next]_vars => IInv'
<1> SUFFICES ASSUME IInv, [Next]_vars
             PROVE  IInv'
    OBVIOUS
<1>1. CASE Next
    BY <1>1, RegisterIInv, NextIDIInv, UnregisterIInv, SetActiveIInv, SaveSnapshotIInv,
       SaveMarshalPaneIInv, SaveFileIInv, LoadReadIInv, LoadInstallIInv, CrashIInv DEF Next
<1>2. CASE UNCHANGED vars
    BY <1>2 DEF vars, IInv, TypeOK, TableCoherent, IDsBelowNext, CallsOK, Marshalling,
       Documented, TempsOK, NoTempLeft, FilesOK, OneActiveUnlessTorn, AtMostOneActive, GetActive
<1> QED
    BY <1>1, <1>2

-----------------------------------------------------------------------------
(* The theorems *)

\* The invariant holds in every reachable state, for any number of goroutines
\* using one Manager and any number of process crashes.
THEOREM Invariance == Spec => []IInv
<1> QED
    BY InitIInv, NextIInv, PTL DEF Spec

\* Every variable keeps its type.
THEOREM TypeCorrect == Spec => []TypeOK
<1>1. IInv => TypeOK
    BY DEF IInv
<1> QED
    BY <1>1, Invariance, PTL

\* Map and order slice stay two views of one table under every interleaving
\* of Register, Unregister, SetActive, Save and Load.
THEOREM TableStaysCoherent == Spec => []TableCoherent
<1>1. IInv => TableCoherent
    BY DEF IInv
<1> QED
    BY <1>1, Invariance, PTL

\* Register never overwrites a registered pane.
THEOREM RegisterIsFresh == Spec => []NextIDIsFree
<1>1. IInv => NextIDIsFree
    BY DEF IInv, TypeOK, IDsBelowNext, NextIDIsFree
<1> QED
    BY <1>1, Invariance, PTL

\* The state file is never cut off and is always a table a manager could
\* have had, whatever Saves fail or are interrupted by a crash.
THEOREM StateFileStaysUsable == Spec => []StateFileUsable
<1>1. IInv => StateFileUsable
    BY DEF IInv, FilesOK, StateFileUsable
<1> QED
    BY <1>1, Invariance, PTL

\* No path out of Save leaves its temporary file behind.
THEOREM SaveCleansUp == Spec => []NoTempLeft
<1>1. IInv => NoTempLeft
    BY DEF IInv
<1> QED
    BY <1>1, Invariance, PTL

\* Only a SetActive that overlaps a Save's marshalling can lead to two active
\* panes, in memory now or after any later Load.
THEOREM OneActiveWithoutTearing == Spec => []OneActiveUnlessTorn
<1>1. IInv => OneActiveUnlessTorn
    BY DEF IInv
<1> QED
    BY <1>1, Invariance, PTL

\* The search IndexOf makes finds an element of a sequence without repetitions
\* at its only position.
LEMMA IndexOfFacts ==
    ASSUME NEW s \in Seq(Nat), IsInjective(s), NEW k \in 1..Len(s)
    PROVE  SelectInSeq(s, LAMBDA e : e = s[k]) = k
<1>0. DOMAIN s = 1..Len(s) /\ Len(s) \in Nat
    BY LenProperties
<1>1. {i \in 1..Len(s) : s[i] = s[k]} = {k}
    BY <1>0 DEF IsInjective
<1>2. Min({k}) = k
    BY <1>0 DEF Min
<1> QED
    BY <1>1, <1>2 DEF SelectInSeq

\* List shows every registered pane, at the position IndexOf gives for its id:
\* nothing is skipped, because the order slice names registered panes only, and
\* the search ends at the right place, because it names each once.
THEOREM ListAgreesWithIndexOf == Spec => []ListMatchesIndex
<1>1. IInv => ListMatchesIndex
    <2> SUFFICES ASSUME IInv
                 PROVE  ListMatchesIndex
        OBVIOUS
    <2>1. /\ order \in Seq(Nat)
          /\ IsInjective(order)
          /\ ToSet(order) = DOMAIN panes
          /\ \A id \in DOMAIN panes : heap[panes[id]].id = id
        BY DEF IInv, TypeOK, TableCoherent
    <2>2. DOMAIN order = 1..Len(order) /\ Len(order) \in Nat
        BY <2>1, LenProperties
    <2>3. KnownIDs = order
        BY <2>1 DEF KnownIDs
    <2>4. List = [i \in 1..Len(order) |-> heap[panes[order[i]]]]
        BY <2>3 DEF List
    <2>5. Len(List) = Len(order)
        BY <2>2, <2>4
    <2>6. ASSUME NEW i \in 1..Len(List)
          PROVE  IndexOf(List[i].id) = i - 1
        <3>1. i \in 1..Len(order)
            BY <2>5
        <3>2. order[i] \in DOMAIN panes
            BY <2>1, <2>2, <3>1 DEF ToSet
        <3>3. List[i].id = order[i]
            BY <2>1, <2>4, <3>1, <3>2
        <3>4. SelectInSeq(order, LAMBDA e : e = order[i]) = i
            BY <2>1, <3>1, IndexOfFacts
        <3> QED
            BY <3>3, <3>4 DEF IndexOf
    <2> QED
        BY <2>5, <2>6 DEF ListMatchesIndex
<1> QED
    BY <1>1, Invariance, PTL

================================================================================
