-------------------------- MODULE TmuxSessionProofs --------------------------
(***************************************************************************)
(* Proofs of TmuxSession's safety properties, for any number of tmux       *)
(* processes, surfaces, pane ids and key presses in flight.                *)
(*                                                                         *)
(* The invariant has two independent halves: what the wrapper has on disk  *)
(* and whether a child runs at each of its stages, and what one tmux       *)
(* process has done at each of its own.                                    *)
(***************************************************************************)
EXTENDS TmuxSession, SequenceTheorems, TLAPS

-----------------------------------------------------------------------------
(* The inductive invariant *)

WrapperTypeOK ==
    /\ wrapper \in WrapperPC
    /\ deferred \in BOOLEAN
    /\ tmpDir \in {"none", "empty", "linked"}
    /\ table \in Seq(Nat)
    /\ child \in {"none", "running", "gone"}
    /\ agents \subseteq PaneIDs

TerminalTypeOK ==
    /\ keys \in Seq(KeyPress) /\ Len(keys) <= MaxKeys
    /\ surfaces \subseteq Surfaces
    /\ focus \in surfaces \cup {NoFocus}

\* The directory and the child at each stage of Run.
WrapperStages ==
    /\ wrapper \in {"main", "mkdir", "symlink", "register", "start"} => child = "none"
    /\ wrapper \in {"main", "mkdir", "symlink"} => ~deferred
    /\ wrapper \in {"register", "start", "wait", "cleanup"} => tmpDir = "linked"
    /\ wrapper \in {"cleanup", "returned"} => child # "running"
    /\ wrapper = "returned" /\ deferred => tmpDir = "none"
    /\ child = "running" => tmpDir = "linked"

\* Before it has exited a process has registered, printed and typed nothing, and
\* has posted a key press exactly between the two halves of a handler.
Underway(q) ==
    q.pc # "exited" =>
        /\ q.own = <<>>
        /\ q.out = <<>>
        /\ q.typed = NoPane
        /\ q.posted <=> q.pc \in {"register", "unregister"}

Dispatched(q) ==
    /\ q.pc = "register" => q.cmd.op = "split-window"
    /\ q.pc = "unregister" => q.cmd.op = "kill-pane"
    /\ q.pc = "killed" => q.cmd = Nothing

\* What the three properties say of a process that has exited.
Exited(q) ==
    q.pc = "exited" =>
        /\ q.cmd.op = "split-window" => (q.posted <=> q.exit = 0)
        /\ q.cmd.op = "split-window" => ToSet(q.out) \subseteq {0}
        /\ q.cmd.op = "kill-pane" => (q.exit = 0 => q.posted)
        /\ q.cmd.op = "kill-pane" /\ q.cmd.target # NoPane => q.exit = 1
        /\ q.cmd.op = "send-keys" => (q.typed # NoPane <=> q.exit = 0 /\ ~q.cmd.empty)
        /\ q.cmd.op = "send-keys" => q.typed \in {NoPane, q.cmd.target}
        /\ q.cmd.op \notin {"split-window", "kill-pane"} => ~q.posted
        /\ q.cmd.op = "list-panes" => q.out = <<>>

ProcOK(q) == q \in Proc /\ Underway(q) /\ Dispatched(q) /\ Exited(q)

ProcInv == /\ proc \in [Procs -> Proc]
           /\ \A p \in Procs : ProcOK(proc[p])

IInv == WrapperTypeOK /\ TerminalTypeOK /\ WrapperStages /\ ProcInv

-----------------------------------------------------------------------------
(* Facts about commands and process records *)

\* The options a command of each kind has.
LEMMA CommandFields ==
    ASSUME NEW c \in Commands
    PROVE  /\ c.op = "split-window" => c.dir \in Directions /\ c.print \in BOOLEAN
           /\ c.op = "send-keys" => c.empty \in BOOLEAN /\ c.target \in Targets
           /\ c.op = "kill-pane" => c.target \in Targets
  BY DEF Commands, Targets

\* A process that replaces its record by a good one keeps the invariant.
LEMMA ProcUpdate ==
    ASSUME ProcInv, NEW p \in Procs, NEW q, ProcOK(q), proc' = [proc EXCEPT ![p] = q]
    PROVE  ProcInv'
  <1>1. q \in Proc
    BY DEF ProcOK
  <1>2. proc' \in [Procs -> Proc]
    BY <1>1 DEF ProcInv
  <1>3. \A r \in Procs : proc'[r] = IF r = p THEN q ELSE proc[r]
    BY DEF ProcInv
  <1> QED
    BY <1>2, <1>3 DEF ProcInv

\* A process that has not started, whatever command it is given.
LEMMA FreshIsOK ==
    /\ Nothing \in Commands
    /\ ProcOK(Fresh)
    /\ ProcOK([Fresh EXCEPT !.pc = "killed"])
  <1>1. Nothing \in Commands
    BY DEF Nothing, Commands
  <1>2. <<>> \in Seq(Nat) /\ <<>> \in Seq(Nat \cup {NoPane})
    BY EmptySeq
  <1>3. Fresh \in Proc
    BY <1>1, <1>2 DEF Fresh, Proc, ProcPC, Targets
  <1>4. Fresh.pc = "free" /\ [Fresh EXCEPT !.pc = "killed"] \in Proc
    BY <1>3 DEF Fresh, Proc, ProcPC
  <1>5. /\ Underway(Fresh) /\ Dispatched(Fresh) /\ Exited(Fresh)
        /\ Underway([Fresh EXCEPT !.pc = "killed"])
        /\ Dispatched([Fresh EXCEPT !.pc = "killed"])
        /\ Exited([Fresh EXCEPT !.pc = "killed"])
    BY DEF Fresh, Underway, Dispatched, Exited
  <1> QED
    BY <1>1, <1>3, <1>4, <1>5 DEF ProcOK

\* The record of a process that exits without having typed or printed anything.
LEMMA ExitIsTyped ==
    ASSUME NEW p, proc[p] \in Proc, NEW code \in {0, 1}
    PROVE  /\ Exits(p, code) \in Proc
           /\ Exits(p, code).pc = "exited" /\ Exits(p, code).exit = code
           /\ Exits(p, code).cmd = proc[p].cmd /\ Exits(p, code).own = proc[p].own
           /\ Exits(p, code).out = proc[p].out /\ Exits(p, code).typed = proc[p].typed
           /\ Exits(p, code).posted = proc[p].posted
  BY DEF Exits, Proc, ProcPC

-----------------------------------------------------------------------------
(* The steps of a tmux process *)

\* A key press is posted, or osascript fails.
LEMMA ScriptKeepsTerminal ==
    ASSUME TerminalTypeOK, NEW k \in {"split", "close"}, NEW t \in Targets,
           NEW done, NEW failed, execScript(k, t, done, failed),
           UNCHANGED <<surfaces, focus>>
    PROVE  TerminalTypeOK' /\ proc' \in {done, failed}
  <1>1. CASE UNCHANGED keys /\ proc' = failed
    BY <1>1 DEF TerminalTypeOK
  <1>2. CASE /\ Len(keys) < MaxKeys
             /\ keys' = Append(keys, [key |-> k, target |-> t])
             /\ proc' = done
    <2>1. [key |-> k, target |-> t] \in KeyPress
      BY DEF KeyPress
    <2>2. /\ Append(keys, [key |-> k, target |-> t]) \in Seq(KeyPress)
          /\ Len(Append(keys, [key |-> k, target |-> t])) = Len(keys) + 1
      BY <2>1, AppendProperties DEF TerminalTypeOK
    <2>3. Len(keys) \in Nat /\ MaxKeys \in Nat
      BY LenProperties, SessionAssumption DEF TerminalTypeOK
    <2> QED
      BY <1>2, <2>2, <2>3 DEF TerminalTypeOK
  <1> QED
    BY <1>1, <1>2 DEF execScript

LEMMA SplitKeepsIInv ==
    ASSUME IInv, NEW p \in Procs, handleSplitWindow(p)
    PROVE  TerminalTypeOK' /\ ProcInv'
  <1> DEFINE q == [proc[p] EXCEPT !.pc = "register", !.posted = TRUE]
  <1>1. /\ proc[p] \in Proc /\ proc[p].pc = "execute" /\ proc[p].cmd.op = "split-window"
        /\ proc \in [Procs -> Proc] /\ ProcOK(proc[p])
    BY DEF IInv, ProcInv, handleSplitWindow, Executing
  <1>2. [proc EXCEPT ![p].pc = "register", ![p].posted = TRUE] = [proc EXCEPT ![p] = q]
    BY <1>1 DEF Proc
  <1>3. ProcOK(q)
    <2>1. q \in Proc
      BY <1>1 DEF Proc, ProcPC
    <2>2. /\ q.pc = "register" /\ q.posted = TRUE /\ q.own = proc[p].own
          /\ q.cmd = proc[p].cmd /\ q.out = proc[p].out /\ q.typed = proc[p].typed
      BY <1>1 DEF Proc
    <2> HIDE DEF q
    <2> QED
      BY <1>1, <2>1, <2>2 DEF ProcOK, Underway, Dispatched, Exited
  <1>4. ProcOK(Exits(p, 1))
    <2>1. ToSet(<<>>) \subseteq {0}
      BY EmptySeq DEF ToSet
    <2>2. 1 # 0
      OBVIOUS
    <2> QED
      BY <1>1, <2>1, <2>2, ExitIsTyped DEF ProcOK, Underway, Dispatched, Exited
  <1>5. proc' \in {[proc EXCEPT ![p] = q], [proc EXCEPT ![p] = Exits(p, 1)]} /\ TerminalTypeOK'
    <2> HIDE DEF q
    <2>1. CASE proc[p].cmd.dir \in keySplit
      <3>1. execScript("split", NoPane, [proc EXCEPT ![p] = q], [proc EXCEPT ![p] = Exits(p, 1)])
        BY <1>2, <2>1 DEF handleSplitWindow
      <3>2. NoPane \in Targets /\ UNCHANGED <<surfaces, focus>> /\ TerminalTypeOK
        BY DEF Targets, handleSplitWindow, IInv
      <3> QED
        BY <3>1, <3>2, ScriptKeepsTerminal
    <2>2. CASE proc[p].cmd.dir \notin keySplit
      BY <2>2 DEF handleSplitWindow, IInv, TerminalTypeOK
    <2> QED
      BY <2>1, <2>2
  <1> QED
    BY <1>3, <1>4, <1>5, ProcUpdate DEF IInv

LEMMA SplitRegistersKeepsIInv ==
    ASSUME IInv, NEW p \in Procs, SplitRegisters(p)
    PROVE  ProcInv'
  <1> DEFINE id == Len(proc[p].own)
             out == IF proc[p].cmd.print THEN <<id>> ELSE <<>>
             q == [Exits(p, 0) EXCEPT !.own = Append(proc[p].own, id), !.out = out]
  <1>1. /\ proc[p] \in Proc /\ proc[p].pc = "register" /\ proc[p].cmd.op = "split-window"
        /\ proc[p].own = <<>> /\ proc[p].posted /\ proc' = [proc EXCEPT ![p] = q]
    BY DEF IInv, ProcInv, ProcOK, Underway, Dispatched, SplitRegisters
  <1>2. id = 0 /\ id \in Nat
    BY <1>1, EmptySeq
  <1>3. Append(proc[p].own, id) \in Seq(Nat)
    BY <1>1, <1>2, AppendProperties DEF Proc
  <1>4. out \in Seq(Nat \cup {NoPane}) /\ ToSet(out) \subseteq {0}
    <2>1. <<>> \in Seq(Nat \cup {NoPane}) /\ ToSet(<<>>) \subseteq {0}
      BY EmptySeq DEF ToSet
    <2>2. <<0>> \in Seq(Nat \cup {NoPane}) /\ ToSet(<<0>>) \subseteq {0}
      BY DEF ToSet
    <2> QED
      BY <1>2, <2>1, <2>2
  <1>5. /\ q \in Proc /\ q.pc = "exited" /\ q.exit = 0 /\ q.cmd = proc[p].cmd
        /\ q.posted = proc[p].posted /\ q.out = out
    BY <1>1, <1>3, <1>4, ExitIsTyped DEF Proc
  <1> HIDE DEF q, out
  <1>6. ProcOK(q)
    BY <1>1, <1>4, <1>5 DEF ProcOK, Underway, Dispatched, Exited
  <1> QED
    BY <1>1, <1>6, ProcUpdate DEF IInv

LEMMA SendKeysKeepsIInv ==
    ASSUME IInv, NEW p \in Procs, handleSendKeys(p)
    PROVE  ProcInv'
  <1>1. /\ proc[p] \in Proc /\ proc[p].pc = "execute" /\ proc[p].cmd.op = "send-keys"
        /\ ProcOK(proc[p])
    BY DEF IInv, ProcInv, handleSendKeys, Executing
  <1>2. /\ proc[p].own = <<>> /\ proc[p].typed = NoPane /\ ~proc[p].posted
        /\ proc[p].cmd \in Commands
    BY <1>1 DEF ProcOK, Underway, Proc
  <1>3. paneOf(p) = proc[p].cmd.target
    BY <1>2 DEF paneOf, GetActive
  <1>4. CASE proc[p].cmd.empty /\ proc' = [proc EXCEPT ![p] = Exits(p, 0)]
    <2>1. ProcOK(Exits(p, 0))
      BY <1>1, <1>2, <1>4, ExitIsTyped DEF ProcOK, Underway, Dispatched, Exited
    <2> QED
      BY <1>4, <2>1, ProcUpdate DEF IInv
  <1>5. CASE ~proc[p].cmd.empty /\ proc' = [proc EXCEPT ![p] = Exits(p, 1)]
    <2>1. ProcOK(Exits(p, 1))
      BY <1>1, <1>2, <1>5, ExitIsTyped DEF ProcOK, Underway, Dispatched, Exited
    <2> QED
      BY <1>5, <2>1, ProcUpdate DEF IInv
  <1>6. CASE /\ ~proc[p].cmd.empty /\ paneOf(p) \in agents
             /\ proc' = [proc EXCEPT ![p] = [Exits(p, 0) EXCEPT !.typed = paneOf(p)]]
    <2> DEFINE q == [Exits(p, 0) EXCEPT !.typed = paneOf(p)]
    <2>1. paneOf(p) \in Targets /\ paneOf(p) # NoPane
      BY <1>6, SessionAssumption DEF IInv, WrapperTypeOK, Targets
    <2>2. /\ q \in Proc /\ q.pc = "exited" /\ q.exit = 0 /\ q.cmd = proc[p].cmd
          /\ q.posted = proc[p].posted /\ q.typed = proc[p].cmd.target
      BY <1>1, <1>3, <2>1, ExitIsTyped DEF Proc
    <2>3. proc' = [proc EXCEPT ![p] = q]
      BY <1>6
    <2> HIDE DEF q
    <2>4. ProcOK(q)
      BY <1>1, <1>2, <1>3, <1>6, <2>1, <2>2 DEF ProcOK, Underway, Dispatched, Exited
    <2> QED
      BY <2>3, <2>4, ProcUpdate DEF IInv
  <1> QED
    BY <1>4, <1>5, <1>6 DEF handleSendKeys

LEMMA KillKeepsIInv ==
    ASSUME IInv, NEW p \in Procs, handleKillPane(p)
    PROVE  TerminalTypeOK' /\ ProcInv'
  <1> DEFINE q == [proc[p] EXCEPT !.pc = "unregister", !.posted = TRUE]
  <1>1. /\ proc[p] \in Proc /\ proc[p].pc = "execute" /\ proc[p].cmd.op = "kill-pane"
        /\ proc \in [Procs -> Proc] /\ ProcOK(proc[p])
    BY DEF IInv, ProcInv, handleKillPane, Executing
  <1>2. [proc EXCEPT ![p].pc = "unregister", ![p].posted = TRUE] = [proc EXCEPT ![p] = q]
    BY <1>1 DEF Proc
  <1>3. ProcOK(q)
    <2>1. q \in Proc
      BY <1>1 DEF Proc, ProcPC
    <2>2. /\ q.pc = "unregister" /\ q.posted = TRUE /\ q.own = proc[p].own
          /\ q.cmd = proc[p].cmd /\ q.out = proc[p].out /\ q.typed = proc[p].typed
      BY <1>1 DEF Proc
    <2> HIDE DEF q
    <2> QED
      BY <1>1, <2>1, <2>2 DEF ProcOK, Underway, Dispatched, Exited
  <1>4. ProcOK(Exits(p, 1))
    BY <1>1, 1 # 0, ExitIsTyped DEF ProcOK, Underway, Dispatched, Exited
  <1>5. proc[p].cmd \in Commands /\ proc[p].cmd.target \in Targets
    BY <1>1, CommandFields DEF Proc
  <1> HIDE DEF q
  <1>6. /\ execScript("close", proc[p].cmd.target,
                      [proc EXCEPT ![p] = q], [proc EXCEPT ![p] = Exits(p, 1)])
        /\ UNCHANGED <<surfaces, focus>> /\ TerminalTypeOK
    BY <1>2 DEF handleKillPane, IInv
  <1>7. proc' \in {[proc EXCEPT ![p] = q], [proc EXCEPT ![p] = Exits(p, 1)]} /\ TerminalTypeOK'
    BY <1>5, <1>6, ScriptKeepsTerminal
  <1> QED
    BY <1>3, <1>4, <1>7, ProcUpdate DEF IInv

\* The table is empty, so only a kill-pane without target finds nothing missing.
LEMMA KillUnregistersKeepsIInv ==
    ASSUME IInv, NEW p \in Procs, KillUnregisters(p)
    PROVE  ProcInv'
  <1> DEFINE id == proc[p].cmd.target
             known == id = NoPane \/ id \in ToSet(proc[p].own)
             own == IF known THEN RemoveFirst(proc[p].own, id) ELSE proc[p].own
             code == IF known THEN 0 ELSE 1
             q == [Exits(p, code) EXCEPT !.own = own]
  <1>1. /\ proc[p] \in Proc /\ proc[p].pc = "unregister" /\ proc[p].cmd.op = "kill-pane"
        /\ proc[p].own = <<>> /\ proc[p].posted
    BY DEF IInv, ProcInv, ProcOK, Underway, Dispatched, KillUnregisters
  <1>2. proc' = [proc EXCEPT ![p] = q]
    BY DEF KillUnregisters
  <1>3. ToSet(proc[p].own) = {}
    BY <1>1, EmptySeq DEF ToSet
  <1>4. own = <<>> /\ own \in Seq(Nat)
    BY <1>1, EmptySeq DEF RemoveFirst
  <1>5. code \in {0, 1} /\ (id # NoPane => code = 1)
    BY <1>3
  <1> HIDE DEF own, code
  <1>6. /\ q \in Proc /\ q.pc = "exited" /\ q.exit = code /\ q.cmd = proc[p].cmd
        /\ q.posted = proc[p].posted
    BY <1>1, <1>4, <1>5, ExitIsTyped DEF Proc
  <1> HIDE DEF q
  <1>7. ProcOK(q)
    BY <1>1, <1>5, <1>6 DEF ProcOK, Underway, Dispatched, Exited
  <1> QED
    BY <1>2, <1>7, ProcUpdate DEF IInv

\* The commands that only look at the process's own table, or at nothing.
LEMMA PrintersKeepIInv ==
    ASSUME IInv, NEW p \in Procs,
           \/ handleListPanes(p) \/ handleDisplayMessage(p)
           \/ handleHasSession(p) \/ handleQuiet(p)
    PROVE  ProcInv'
  <1> DEFINE line == IF proc[p].cmd.print THEN <<GetActive(proc[p].own)>> ELSE <<>>
             q(code, out) == [Exits(p, code) EXCEPT !.out = out]
  <1>1. proc[p] \in Proc /\ proc[p].pc = "execute" /\ ProcOK(proc[p])
    BY DEF IInv, ProcInv, handleListPanes, handleDisplayMessage, handleHasSession,
           handleQuiet, Executing
  <1>2. proc[p].own = <<>> /\ proc[p].typed = NoPane /\ ~proc[p].posted
    BY <1>1 DEF ProcOK, Underway
  <1>3. line \in Seq(Nat \cup {NoPane}) /\ <<>> \in Seq(Nat \cup {NoPane})
    <2>1. <<NoPane>> \in Seq(Nat \cup {NoPane}) /\ <<>> \in Seq(Nat \cup {NoPane})
      BY EmptySeq
    <2> QED
      BY <1>2, <2>1 DEF GetActive
  <1> HIDE DEF line
  <1>4. ASSUME NEW code \in {0, 1}, NEW out \in Seq(Nat \cup {NoPane}),
               proc[p].cmd.op \notin {"split-window", "kill-pane", "send-keys"},
               proc[p].cmd.op = "list-panes" => out = <<>>,
               proc' = [proc EXCEPT ![p] = q(code, out)]
        PROVE  ProcInv'
    <2>1. /\ q(code, out) \in Proc /\ q(code, out).pc = "exited"
          /\ q(code, out).cmd = proc[p].cmd /\ q(code, out).posted = proc[p].posted
          /\ q(code, out).out = out
      BY <1>1, ExitIsTyped DEF Proc
    <2> HIDE DEF q
    <2>2. ProcOK(q(code, out))
      BY <1>2, <1>4, <2>1 DEF ProcOK, Underway, Dispatched, Exited
    <2> QED
      BY <1>4, <2>2, ProcUpdate DEF IInv
  <1>5. ASSUME NEW code \in {0, 1},
               proc[p].cmd.op \in {"has-session", "quiet"},
               proc' = [proc EXCEPT ![p] = Exits(p, code)]
        PROVE  ProcInv'
    <2>1. ProcOK(Exits(p, code))
      BY <1>1, <1>2, <1>5, ExitIsTyped DEF ProcOK, Underway, Dispatched, Exited
    <2> QED
      BY <1>5, <2>1, ProcUpdate DEF IInv
  <1>6. CASE handleListPanes(p)
    <2>1. proc' = [proc EXCEPT ![p] = q(0, <<>>)] /\ proc[p].cmd.op = "list-panes"
      BY <1>2, <1>6 DEF handleListPanes, Executing
    <2> HIDE DEF q
    <2> QED
      BY <1>3, <1>4, <2>1
  <1>7. CASE handleDisplayMessage(p)
    <2>1. proc' = [proc EXCEPT ![p] = q(0, line)] /\ proc[p].cmd.op = "display-message"
      BY <1>7 DEF handleDisplayMessage, Executing, line
    <2> HIDE DEF q
    <2> QED
      BY <1>3, <1>4, <2>1
  <1>8. CASE handleHasSession(p)
    BY <1>5, <1>8 DEF handleHasSession, Executing
  <1>9. CASE handleQuiet(p)
    BY <1>5, <1>9 DEF handleQuiet, Executing
  <1> QED
    BY <1>6, <1>7, <1>8, <1>9

LEMMA StartKeepsIInv ==
    ASSUME IInv, NEW p \in Procs, NEW c \in Commands, runTmuxMode(p, c)
    PROVE  ProcInv'
  <1> DEFINE pc == IF c.op = "bad" THEN "exited" ELSE "execute"
             code == IF c.op = "bad" THEN 1 ELSE 0
             q == [Fresh EXCEPT !.cmd = c, !.pc = pc, !.exit = code]
  <1>1. Fresh \in Proc
    BY FreshIsOK DEF ProcOK
  <1>2. pc \in ProcPC /\ code \in {0, 1}
    BY DEF ProcPC
  <1>3. q \in Proc
    BY <1>1, <1>2 DEF Proc
  <1>4. /\ q.cmd = c /\ q.pc = pc /\ q.own = <<>> /\ q.out = <<>> /\ q.typed = NoPane
        /\ q.posted = FALSE
    BY DEF Fresh
  <1>5. proc' = [proc EXCEPT ![p] = q]
    BY DEF runTmuxMode
  <1> HIDE DEF q
  <1>6. ProcOK(q)
    BY <1>3, <1>4 DEF ProcOK, Underway, Dispatched, Exited
  <1> QED
    BY <1>5, <1>6, ProcUpdate DEF IInv

LEMMA ProcStepsKeepIInv ==
    ASSUME IInv, NEW p \in Procs,
           \/ ProcKilled(p) \/ Execute(p) \/ \E c \in Commands : runTmuxMode(p, c)
    PROVE  IInv'
  <1>1. UNCHANGED wrapperVars /\ UNCHANGED agents
    BY DEF ProcKilled, Execute, runTmuxMode, handleSplitWindow, SplitRegisters, handleSendKeys,
           handleKillPane, KillUnregisters, handleListPanes, handleDisplayMessage,
           handleHasSession, handleQuiet
  <1>2. WrapperTypeOK' /\ WrapperStages'
    BY <1>1 DEF IInv, WrapperTypeOK, WrapperStages, wrapperVars
  <1>3. CASE handleSplitWindow(p) \/ handleKillPane(p)
    BY <1>2, <1>3, SplitKeepsIInv, KillKeepsIInv DEF IInv
  <1>4. CASE ~(handleSplitWindow(p) \/ handleKillPane(p))
    <2>1. TerminalTypeOK'
      <3>1. UNCHANGED terminal
        BY <1>4 DEF ProcKilled, Execute, runTmuxMode, SplitRegisters, handleSendKeys,
               KillUnregisters, handleListPanes, handleDisplayMessage,
               handleHasSession, handleQuiet
      <3> QED
        BY <3>1 DEF terminal, TerminalTypeOK, IInv
    <2>2. CASE ProcKilled(p)
      BY <1>2, <2>1, <2>2, FreshIsOK, ProcUpdate DEF ProcKilled, IInv
    <2> QED
      BY <1>2, <1>4, <2>1, <2>2, StartKeepsIInv, SplitRegistersKeepsIInv, SendKeysKeepsIInv,
         KillUnregistersKeepsIInv, PrintersKeepIInv DEF Execute, IInv
  <1> QED
    BY <1>3, <1>4

-----------------------------------------------------------------------------
(* The other steps *)

\* The wrapper, its child, signals and agents.
LEMMA WrapperStepsKeepIInv ==
    ASSUME IInv,
           WrapperStep \/ ChildEnds \/ WrapperSignalled \/ AgentStarts \/ AgentEnds
    PROVE  IInv'
  <1>1. UNCHANGED proc /\ UNCHANGED terminal
    BY DEF WrapperStep, ChildEnds, WrapperSignalled, AgentStarts, AgentEnds, runShimuxMode,
           MkdirTemp, Symlink, RegisterInitial, StartChild, WaitChild, Cleanup
  <1>2. TerminalTypeOK' /\ ProcInv'
    BY <1>1 DEF IInv, TerminalTypeOK, ProcInv, terminal
  <1>3. WrapperTypeOK'
    <2>1. CASE RegisterInitial
      <3>1. Append(table, Len(table)) \in Seq(Nat)
        BY AppendProperties, LenProperties DEF IInv, WrapperTypeOK
      <3> QED
        BY <2>1, <3>1 DEF RegisterInitial, IInv, WrapperTypeOK, WrapperPC
    <2>2. CASE AgentStarts \/ AgentEnds
      BY <2>2, SessionAssumption DEF AgentStarts, AgentEnds, SHIMUX_PANE_ID, wrapperVars,
         IInv, WrapperTypeOK
    <2>3. CASE Symlink
      <3>1. deferred' \in BOOLEAN
        BY <2>3, Zenon DEF Symlink, IInv, WrapperTypeOK
      <3> QED
        BY <2>3, <3>1 DEF Symlink, IInv, WrapperTypeOK, WrapperPC
    <2>4. CASE runShimuxMode \/ MkdirTemp \/ StartChild \/ WaitChild \/ Cleanup
               \/ ChildEnds \/ WrapperSignalled
      BY <2>4 DEF IInv, WrapperTypeOK, WrapperPC, runShimuxMode, MkdirTemp, StartChild,
         WaitChild, Cleanup, ChildEnds, WrapperSignalled
    <2> QED
      BY <2>1, <2>2, <2>3, <2>4 DEF WrapperStep
  <1>4. WrapperStages'
    BY DEF IInv, WrapperTypeOK, WrapperStages, WrapperPC, WrapperStep, ChildEnds,
       WrapperSignalled, AgentStarts, AgentEnds, wrapperVars, runShimuxMode, MkdirTemp,
       Symlink, RegisterInitial, StartChild, WaitChild, Cleanup
  <1> QED
    BY <1>2, <1>3, <1>4 DEF IInv

\* The user and the terminal.
LEMMA TerminalStepsKeepIInv ==
    ASSUME IInv, UserFocuses \/ TakeKey
    PROVE  IInv'
  <1>1. UNCHANGED <<wrapperVars, agents, proc>>
    BY DEF UserFocuses, TakeKey
  <1>2. WrapperTypeOK' /\ WrapperStages' /\ ProcInv'
    BY <1>1 DEF IInv, WrapperTypeOK, WrapperStages, ProcInv, wrapperVars
  <1>3. CASE UserFocuses
    BY <1>2, <1>3 DEF UserFocuses, IInv, TerminalTypeOK
  <1>4. CASE TakeKey
    <2>1. /\ keys' \in Seq(KeyPress) /\ Len(keys') = Len(keys) - 1
          /\ Len(keys) \in Nat /\ MaxKeys \in Nat
      BY <1>4, HeadTailProperties, LenProperties, SessionAssumption DEF TakeKey, IInv, TerminalTypeOK
    <2>2. surfaces' \subseteq Surfaces /\ focus' \in surfaces' \cup {NoFocus}
      BY <1>4 DEF TakeKey, IInv, TerminalTypeOK, Surfaces
    <2>3. TerminalTypeOK'
      BY <2>1, <2>2 DEF TerminalTypeOK, IInv
    <2> QED
      BY <1>2, <2>3 DEF IInv
  <1> QED
    BY <1>3, <1>4

-----------------------------------------------------------------------------
(* The theorems *)

LEMMA InitIInv == Init => IInv
  <1> SUFFICES ASSUME Init PROVE IInv
    OBVIOUS
  <1>1. \A p \in Procs : proc[p] = Fresh
    BY DEF Init
  <1>2. Fresh \in Proc
    BY FreshIsOK DEF ProcOK
  <1>3. proc \in [Procs -> Proc]
    BY <1>2 DEF Init
  <1>4. ProcInv
    BY <1>1, <1>3, FreshIsOK DEF ProcInv
  <1>5. deferred \in BOOLEAN
    BY Zenon DEF Init
  <1>6. WrapperTypeOK /\ WrapperStages
    BY <1>5, EmptySeq DEF Init, WrapperTypeOK, WrapperStages, WrapperPC
  <1>7. TerminalTypeOK
    BY EmptySeq, SessionAssumption DEF Init, TerminalTypeOK, Surfaces
  <1> QED
    BY <1>4, <1>6, <1>7 DEF IInv

LEMMA NextIInv == IInv /\ [Next]_vars => IInv'
  <1> SUFFICES ASSUME IInv, [Next]_vars PROVE IInv'
    OBVIOUS
  <1>1. CASE UNCHANGED vars
    BY <1>1 DEF vars, wrapperVars, terminal, IInv, WrapperTypeOK, TerminalTypeOK,
       WrapperStages, ProcInv
  <1>2. CASE Next
    BY <1>2, WrapperStepsKeepIInv, TerminalStepsKeepIInv, ProcStepsKeepIInv DEF Next
  <1> QED
    BY <1>1, <1>2

LEMMA Invariance == Spec => []IInv
  BY InitIInv, NextIInv, PTL DEF Spec

\* Wrapper, processes and terminal keep their types.
THEOREM TypeCorrect == Spec => []TypeOK
  <1>1. IInv => TypeOK
    BY DEF IInv, WrapperTypeOK, TerminalTypeOK, ProcInv, TypeOK
  <1> QED
    BY <1>1, Invariance, PTL

\* Cleanup never removes the link under a running child, and a signal that kills
\* the wrapper leaves it in place.
THEOREM LinkOutlivesChild == Spec => []LinkHeldWhileChildRuns
  <1>1. IInv => LinkHeldWhileChildRuns
    BY DEF IInv, WrapperStages, LinkHeldWhileChildRuns
  <1> QED
    BY <1>1, Invariance, PTL

\* Run returns with its directory removed whenever Setup had succeeded.
THEOREM SetupIsAlwaysUndone == Spec => []SetupIsUndone
  <1>1. IInv => SetupIsUndone
    BY DEF IInv, WrapperStages, SetupIsUndone
  <1> QED
    BY <1>1, Invariance, PTL

\* The exit status of every command tells whether it reached terminal or agent.
THEOREM ExitsAreHonest == Spec => []ExitStatusHonest
  <1>1. IInv => ExitStatusHonest
    BY DEF IInv, ProcInv, ProcOK, Exited, ExitStatusHonest
  <1> QED
    BY <1>1, Invariance, PTL

\* Keys are typed in the pane send-keys names, or nowhere.
THEOREM KeysStayInTheirPane == Spec => []KeysReachTheirPane
  <1>1. IInv => KeysReachTheirPane
    BY DEF IInv, ProcInv, ProcOK, Underway, Exited, KeysReachTheirPane
  <1> QED
    BY <1>1, Invariance, PTL

\* No command sees a pane that another process registered.
THEOREM TablesStaySeparate == Spec => []TablesAreNotShared
  <1>1. IInv => TablesAreNotShared
    BY DEF IInv, ProcInv, ProcOK, Exited, TablesAreNotShared
  <1> QED
    BY <1>1, Invariance, PTL

=============================================================================
