------------------------------ MODULE PaneManager ------------------------------
(***************************************************************************)
(* The pane table of internal/pane/manager.go: one Manager shared by       *)
(* several goroutines (Workers).                                           *)
(*                                                                         *)
(* Every method but Save and Load runs under m.mu from start to end and is *)
(* one action.  Save holds the read lock only while it collects the        *)
(* POINTERS of the panes; it marshals what they point to after the unlock, *)
(* while SetActive may be writing the same objects.  So panes are objects  *)
(* in a heap, and Save's snapshot is a sequence of references into it.     *)
(* Load reads the file before it takes the lock and installs new objects.  *)
(*                                                                         *)
(* A Pane's tty, size, pid and path are payload no operation reads and are *)
(* left out; its id is the counter's value (the code prints it).           *)
(***************************************************************************)
EXTENDS Naturals, Sequences, FiniteSets, SequencesExt

CONSTANTS Workers,     \* goroutines that use the manager
          Ref,         \* addresses of Pane objects (bounds the live objects)
          MaxPaneID    \* bound: nextPaneID stops here

ASSUME MaxPaneIDAssumption == MaxPaneID \in Nat

VARIABLES
    panes,       \* m.panes: registered id -> reference
    order,       \* m.order: registered ids, oldest first
    nextPaneID,  \* m.nextPaneID
    stateFile,   \* what is at m.stateFile
    tmp,         \* the temporary file of each worker's Save
    call,        \* the Save or Load each worker is inside
    torn,        \* history: a SetActive ran while some Save was marshalling
    heap         \* Ref -> Pane object

memory == <<heap, panes, order, nextPaneID>>
vars   == <<heap, panes, order, nextPaneID, stateFile, tmp, call, torn>>

-----------------------------------------------------------------------------
(* Types and initial state *)

Pane == [id : Nat, active : BOOLEAN]

\* A file is absent, cut off in the middle, or holds a managerState.
File    == [kind : {"none", "partial", "state"}, panes : Seq(Pane), next_id : Nat]
NoFile  == [kind |-> "none", panes |-> <<>>, next_id |-> 0]
Partial == [kind |-> "partial", panes |-> <<>>, next_id |-> 0]
managerState(ps, n) == [kind |-> "state", panes |-> ps, next_id |-> n]

\* Where a worker is: idle, inside Save (marshal .. rename) or inside Load.
PCs  == {"idle", "marshal", "create", "write", "close", "rename", "install"}
Call == [pc : PCs, refs : Seq(Ref), next : Nat, doc : Seq(Pane)]
Idle == [pc |-> "idle", refs |-> <<>>, next |-> 0, doc |-> <<>>]

ObjectsInUse == {panes[id] : id \in DOMAIN panes}
                    \cup UNION {ToSet(call[w].refs) : w \in Workers}
FreshRefs    == Ref \ ObjectsInUse

\* What NewManager makes.
NewManager == [heap  |-> [r \in Ref |-> [id |-> 0, active |-> FALSE]],
               panes |-> [id \in {} |-> 0],
               order |-> <<>>,
               nextPaneID |-> 0]

Init ==
    /\ heap = NewManager.heap
    /\ panes = NewManager.panes
    /\ order = NewManager.order
    /\ nextPaneID = NewManager.nextPaneID
    /\ stateFile = NoFile
    /\ tmp = [w \in Workers |-> NoFile]
    /\ call = [w \in Workers |-> Idle]
    /\ torn = FALSE

-----------------------------------------------------------------------------
(* The methods that hold m.mu throughout *)

\* Mutant of Register: every new pane is made active.
RegisterAlwaysActive ==
    \E r \in FreshRefs :
        /\ nextPaneID < MaxPaneID
        /\ heap' = [heap EXCEPT ![r] = [id |-> nextPaneID, active |-> TRUE]]
        /\ panes' = [id \in DOMAIN panes \cup {nextPaneID} |->
                        IF id = nextPaneID THEN r ELSE panes[id]]
        /\ order' = Append(order, nextPaneID)
        /\ nextPaneID' = nextPaneID + 1
        /\ UNCHANGED <<stateFile, tmp, call, torn>>

Register ==
    \E r \in FreshRefs :
        /\ nextPaneID < MaxPaneID
        /\ heap' = [heap EXCEPT ![r] = [id |-> nextPaneID, active |-> DOMAIN panes = {}]]
        /\ panes' = [id \in DOMAIN panes \cup {nextPaneID} |->
                        IF id = nextPaneID THEN r ELSE panes[id]]
        /\ order' = Append(order, nextPaneID)
        /\ nextPaneID' = nextPaneID + 1
        /\ UNCHANGED <<stateFile, tmp, call, torn>>

\* Mutant of Unregister: the id stays in the order slice.
UnregisterKeepsOrder(id) ==
    /\ id \in DOMAIN panes
    /\ panes' = [i \in DOMAIN panes \ {id} |-> panes[i]]
    /\ UNCHANGED <<order, heap, nextPaneID, stateFile, tmp, call, torn>>

\* An unknown id returns an error and changes nothing.
Unregister(id) ==
    /\ id \in DOMAIN panes
    /\ panes' = [i \in DOMAIN panes \ {id} |-> panes[i]]
    /\ order' = RemoveFirst(order, id)
    /\ UNCHANGED <<heap, nextPaneID, stateFile, tmp, call, torn>>

\* An unknown id returns an error.  The objects are written one by one; what a
\* marshalling Save can read in between, some old flags and some new ones, it
\* can also read between several calls of SetActive, so one step is enough.
SetActive(id) ==
    /\ id \in DOMAIN panes
    /\ heap' = [r \in Ref |->
                  IF \E i \in DOMAIN panes : panes[i] = r
                  THEN [heap[r] EXCEPT !.active = (heap[r].id = id)]
                  ELSE heap[r]]
    /\ torn' = (torn \/ \E w \in Workers : call[w].pc = "marshal")
    /\ UNCHANGED <<panes, order, nextPaneID, stateFile, tmp, call>>

NextID ==
    /\ nextPaneID < MaxPaneID
    /\ nextPaneID' = nextPaneID + 1
    /\ UNCHANGED <<heap, panes, order, stateFile, tmp, call, torn>>

\* The ids List and Save go through: the order, without ids that have no pane.
\* (When every id has one, nothing is skipped.)
KnownIDs == IF ToSet(order) \subseteq DOMAIN panes
            THEN order
            ELSE SelectSeq(order, LAMBDA id : id \in DOMAIN panes)

\* The readers, as functions of the state they lock.
List == [i \in 1..Len(KnownIDs) |-> heap[panes[KnownIDs[i]]]]
\* Mutant of IndexOf: the position counted from one.
IndexOfFromOne(id) == SelectInSeq(order, LAMBDA oid : oid = id)
IndexOf(id) == SelectInSeq(order, LAMBDA oid : oid = id) - 1
GetActive == {heap[panes[id]] : id \in {i \in DOMAIN panes : heap[panes[i]].active}}

-----------------------------------------------------------------------------
(* Save *)

Goto(w, pc) == call' = [call EXCEPT ![w].pc = pc]
Return(w)   == call' = [call EXCEPT ![w] = Idle]

\* Lines 184-195: pointers and counter are read under the read lock.
SaveSnapshot(w) ==
    /\ call[w].pc = "idle"
    /\ call' = [call EXCEPT ![w] =
                  [pc   |-> IF KnownIDs = <<>> THEN "create" ELSE "marshal",
                   refs |-> [i \in 1..Len(KnownIDs) |-> panes[KnownIDs[i]]],
                   next |-> nextPaneID,
                   doc  |-> <<>>]]
    /\ UNCHANGED <<memory, stateFile, tmp, torn>>

\* Line 197: json.MarshalIndent reads the objects one by one, without the lock.
SaveMarshalPane(w) ==
    /\ call[w].pc = "marshal"
    /\ LET doc == Append(call[w].doc, heap[call[w].refs[Len(call[w].doc) + 1]])
           done == Len(doc) = Len(call[w].refs)
       IN call' = [call EXCEPT ![w].doc  = doc,
                               ![w].pc   = IF done THEN "create" ELSE "marshal",
                               ![w].refs = IF done THEN <<>> ELSE @]
    /\ UNCHANGED <<memory, stateFile, tmp, torn>>

\* Line 203: the temporary file has a fresh name, so workers never share one.
SaveCreateTemp(w) ==
    /\ call[w].pc = "create"
    /\ \/ /\ tmp' = [tmp EXCEPT ![w] = Partial]
          /\ Goto(w, "write")
       \/ /\ UNCHANGED tmp
          /\ Return(w)
    /\ UNCHANGED <<memory, stateFile, torn>>

\* Mutant of SaveWrite: a failed write is not noticed.
SaveWriteUnchecked(w) ==
    /\ call[w].pc = "write"
    /\ \/ tmp' = [tmp EXCEPT ![w] = managerState(call[w].doc, call[w].next)]
       \/ UNCHANGED tmp
    /\ Goto(w, "close")
    /\ UNCHANGED <<memory, stateFile, torn>>

\* Lines 209-213: a failed write closes and removes the file.
SaveWrite(w) ==
    /\ call[w].pc = "write"
    /\ \/ /\ tmp' = [tmp EXCEPT ![w] = managerState(call[w].doc, call[w].next)]
          /\ Goto(w, "close")
       \/ /\ tmp' = [tmp EXCEPT ![w] = NoFile]
          /\ Return(w)
    /\ UNCHANGED <<memory, stateFile, torn>>

\* Lines 214-217.
SaveClose(w) ==
    /\ call[w].pc = "close"
    /\ \/ /\ UNCHANGED tmp
          /\ Goto(w, "rename")
       \/ /\ tmp' = [tmp EXCEPT ![w] = NoFile]
          /\ Return(w)
    /\ UNCHANGED <<memory, stateFile, torn>>

\* Mutant of SaveRename: a failed rename leaves the temporary file behind.
SaveRenameNoRemove(w) ==
    /\ call[w].pc = "rename"
    /\ \/ stateFile' = tmp[w] /\ tmp' = [tmp EXCEPT ![w] = NoFile]
       \/ UNCHANGED <<stateFile, tmp>>
    /\ Return(w)
    /\ UNCHANGED <<memory, torn>>

\* Lines 219-223: rename replaces the state file in one step, or fails and
\* the temporary file is removed.
SaveRename(w) ==
    /\ call[w].pc = "rename"
    /\ stateFile' \in {tmp[w], stateFile}
    /\ tmp' = [tmp EXCEPT ![w] = NoFile]
    /\ Return(w)
    /\ UNCHANGED <<memory, torn>>

-----------------------------------------------------------------------------
(* Load *)

\* Lines 228-236: no lock is held.  A missing or malformed file is an error
\* that changes nothing.
LoadRead(w) ==
    /\ call[w].pc = "idle"
    /\ stateFile.kind = "state"
    /\ call' = [call EXCEPT ![w] = [pc |-> "install", refs |-> <<>>,
                                    next |-> stateFile.next_id, doc |-> stateFile.panes]]
    /\ UNCHANGED <<memory, stateFile, tmp, torn>>

\* Mutants of the counter LoadInstall restores: the number of panes loaded; the
\* last id given out instead of the next.
LoadedNextIDByCount(w) == Len(call[w].doc)
LoadedLastID(w) == call[w].next - 1
LoadedNextID(w) == call[w].next

\* The table of the objects Unmarshal made: doc[i] at the address new[i].  Were
\* an id listed twice, the later object would stay in the map.
Install(doc, new) ==
    /\ heap' = [r \in Ref |-> IF \E i \in 1..Len(doc) : new[i] = r
                              THEN doc[CHOOSE i \in 1..Len(doc) : new[i] = r]
                              ELSE heap[r]]
    /\ panes' = [id \in {doc[i].id : i \in 1..Len(doc)} |->
                   new[CHOOSE i \in 1..Len(doc) :
                         /\ doc[i].id = id
                         /\ \A j \in 1..Len(doc) : doc[j].id = id => j <= i]]
    /\ order' = [i \in 1..Len(doc) |-> doc[i].id]

\* Lines 238-247: the whole table is replaced.
LoadInstall(w) ==
    /\ call[w].pc = "install"
    /\ \E new \in [1..Len(call[w].doc) -> FreshRefs] :
          IsInjective(new) /\ Install(call[w].doc, new)
    /\ nextPaneID' = LoadedNextID(w)
    /\ Return(w)
    /\ UNCHANGED <<stateFile, tmp, torn>>

-----------------------------------------------------------------------------
(* The process dies at any point and a new one starts with NewManager: the  *)
(* memory and the calls are gone, the files stay (a temporary file under a  *)
(* name nobody uses again).                                                 *)

Crash ==
    /\ heap' = NewManager.heap
    /\ panes' = NewManager.panes
    /\ order' = NewManager.order
    /\ nextPaneID' = NewManager.nextPaneID
    /\ call' = [w \in Workers |-> Idle]
    /\ tmp' = [w \in Workers |-> NoFile]
    /\ UNCHANGED <<stateFile, torn>>

Next ==
    \/ Register
    \/ NextID
    \/ \E id \in DOMAIN panes : Unregister(id)
    \/ \E id \in DOMAIN panes : SetActive(id)
    \/ \E w \in Workers : SaveSnapshot(w)
    \/ \E w \in Workers : SaveMarshalPane(w)
    \/ \E w \in Workers : SaveCreateTemp(w)
    \/ \E w \in Workers : SaveWrite(w)
    \/ \E w \in Workers : SaveClose(w)
    \/ \E w \in Workers : SaveRename(w)
    \/ \E w \in Workers : LoadRead(w)
    \/ \E w \in Workers : LoadInstall(w)
    \/ Crash

Spec == Init /\ [][Next]_vars

-----------------------------------------------------------------------------
(* Properties *)

TypeOK ==
    /\ heap \in [Ref -> Pane]
    /\ DOMAIN panes \subseteq Nat
    /\ panes \in [DOMAIN panes -> Ref]
    /\ order \in Seq(Nat)
    /\ nextPaneID \in Nat
    /\ stateFile \in File
    /\ tmp \in [Workers -> File]
    /\ call \in [Workers -> Call]
    /\ torn \in BOOLEAN

\* The map and the order slice stay two views of one table: every registered
\* id is listed exactly once, under its own object, whatever Register,
\* Unregister and Load do to the two of them.
TableCoherent ==
    /\ ToSet(order) = DOMAIN panes
    /\ IsInjective(order)
    /\ \A id \in DOMAIN panes : heap[panes[id]].id = id
    /\ IsInjective(panes)

\* nextPaneID is never the id of a registered pane, so Register never
\* overwrites one -- even though Load may set the counter back.
NextIDIsFree == nextPaneID \notin DOMAIN panes

\* A reader that lists the panes sees all of them, each at the position
\* IndexOf gives it.
ListMatchesIndex ==
    /\ Len(List) = Len(order)
    /\ \A i \in 1..Len(List) : IndexOf(List[i].id) = i - 1

\* The state file is never a cut-off document, and what it holds could have
\* been the table of a manager: distinct ids, all below next_id.
Wellformed(ps, n) ==
    /\ \A i \in 1..Len(ps) : ps[i].id < n
    /\ \A i, j \in 1..Len(ps) : ps[i].id = ps[j].id => i = j

StateFileUsable ==
    /\ stateFile.kind # "partial"
    /\ Wellformed(stateFile.panes, stateFile.next_id)

\* A Save that has returned, on any of its paths, left no temporary file.
NoTempLeft ==
    \A w \in Workers : tmp[w].kind # "none" => call[w].pc \in {"write", "close", "rename"}

\* GetActive walks the map and returns the first active pane it meets: its
\* answer depends on the map's iteration order unless there is at most one.
AtMostOneActive == \A p, q \in GetActive : p = q

\* Two active panes can only come from a SetActive that ran in the middle of
\* a Save's marshalling: without one, GetActive has at most one answer.
OneActiveUnlessTorn == torn \/ AtMostOneActive

================================================================================
