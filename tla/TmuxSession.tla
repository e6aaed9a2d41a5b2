------------------------------ MODULE TmuxSession ------------------------------
(***************************************************************************)
(* One run of `shimux -- command`: the wrapper process                     *)
(* (internal/wrapper/wrapper.go and runShimuxMode), the tmux commands its  *)
(* child issues through the tmux -> shimux link (runTmuxMode and           *)
(* internal/tmux/commands.go, each a process of its own), the shimux-agent *)
(* of the initial pane, and the terminal, which the commands drive by      *)
(* posting key presses (internal/ghostty/keysim/keysim.go).                *)
(*                                                                         *)
(* A key press is in flight from the moment osascript returns until the    *)
(* terminal takes it, and it acts on the surface that has the focus then.  *)
(* Every process makes its own pane table, which is never loaded or saved: *)
(* the tables of the wrapper and of two commands share nothing.            *)
(*                                                                         *)
(* Option parsing is abstracted to the options a handler reads, formatting *)
(* to #{pane_id}; the exchange of send-keys with an agent is AgentServer's *)
(* subject and here succeeds or fails.                                     *)
(***************************************************************************)
EXTENDS Naturals, Sequences, SequencesExt

CONSTANTS Procs,       \* processes started as tmux
          Home,        \* the surface the wrapper runs in
          Others,      \* surfaces the terminal can open
          PaneIDs,     \* pane ids a command may name
          Directions,  \* directions a split may name
          NoPane,      \* a target without %N, and no active pane
          NoFocus,     \* the focus when no surface is open
          MaxKeys      \* bound: key presses in flight

ASSUME SessionAssumption ==
    /\ Home \notin Others /\ NoFocus \notin Others \cup {Home}
    /\ 0 \in PaneIDs /\ PaneIDs \subseteq Nat /\ NoPane \notin Nat
    /\ Directions \subseteq {"right", "left", "up", "down"}
    /\ MaxKeys \in Nat \ {0}

VARIABLES
    wrapper,   \* where the shimux process is
    deferred,  \* Run has deferred Cleanup
    tmpDir,    \* the wrapper's directory: "none", "empty" or "linked"
    table,     \* ids in the wrapper's pane manager, in order
    child,     \* the wrapped command: "none", "running" or "gone"
    agents,    \* pane ids on whose socket an agent of this session serves
    proc,      \* the tmux processes
    keys,      \* key presses posted and not yet taken by the terminal
    surfaces,  \* the terminal's open surfaces
    focus      \* the one key presses go to

wrapperVars == <<wrapper, deferred, tmpDir, table, child>>
terminal    == <<keys, surfaces, focus>>
vars        == <<wrapperVars, agents, proc, terminal>>

-----------------------------------------------------------------------------
(* Types and initial state *)

Surfaces == Others \cup {Home}
Targets  == PaneIDs \cup {NoPane}

\* What each handler reads of its options.  "quiet" stands for switch-client,
\* new-session, select-pane, show-options, an unknown command and -V, which exit
\* 0 whatever they are given, "bad" for arguments a parser rejects.
Commands ==
    [op : {"split-window"}, dir : Directions, print : BOOLEAN]
        \cup [op : {"send-keys"}, empty : {FALSE}, target : Targets]
        \cup [op : {"send-keys"}, empty : {TRUE}, target : {NoPane}]
        \cup [op : {"kill-pane"}, target : Targets]
        \cup [op : {"display-message"}, print : BOOLEAN]
        \cup [op : {"has-session"}, match : BOOLEAN]
        \cup [op : {"list-panes", "quiet", "bad"}]

\* What is posted, and (kept for the properties: it is not sent) the target the
\* posting command named.
KeyPress == [key : {"split", "close"}, target : Targets]

\* own: the process's pane manager; out: pane ids printed; posted: its key press
\* was posted; typed: the pane whose agent took its keys.
Nothing == [op |-> "quiet"]
ProcPC  == {"free", "execute", "register", "unregister", "exited", "killed"}
Fresh   == [pc |-> "free", cmd |-> Nothing, own |-> <<>>, out |-> <<>>,
            posted |-> FALSE, typed |-> NoPane, exit |-> 0]
Proc    == [pc : ProcPC, cmd : Commands, own : Seq(Nat), out : Seq(Nat \cup {NoPane}),
            posted : BOOLEAN, typed : Targets, exit : {0, 1}]

WrapperPC == {"main", "mkdir", "symlink", "register", "start", "wait",
              "cleanup", "returned", "killed"}

Init ==
    /\ wrapper = "main"
    /\ deferred = FALSE
    /\ tmpDir = "none"
    /\ table = <<>>
    /\ child = "none"
    /\ agents = {}
    /\ proc = [p \in Procs |-> Fresh]
    /\ keys = <<>>
    /\ surfaces = {Home}
    /\ focus = Home

-----------------------------------------------------------------------------
(* The wrapper *)

\* -V, no command after --, not inside ghostty, or New fails: nothing is done.
runShimuxMode ==
    /\ wrapper = "main"
    /\ wrapper' \in {"mkdir", "returned"}
    /\ UNCHANGED <<deferred, tmpDir, table, child, agents, proc, terminal>>

\* Setup's MkdirTemp.
MkdirTemp ==
    /\ wrapper = "mkdir"
    /\ \/ wrapper' = "symlink" /\ tmpDir' = "empty"
       \/ wrapper' = "returned" /\ UNCHANGED tmpDir
    /\ UNCHANGED <<deferred, table, child, agents, proc, terminal>>

\* Setup's Symlink.  When it fails Run returns before it defers Cleanup.
Symlink ==
    /\ wrapper = "symlink"
    /\ \/ wrapper' = "register" /\ tmpDir' = "linked" /\ deferred' = TRUE
       \/ wrapper' = "returned" /\ UNCHANGED <<tmpDir, deferred>>
    /\ UNCHANGED <<table, child, agents, proc, terminal>>

RegisterInitial ==
    /\ wrapper = "register"
    /\ wrapper' = "start"
    /\ table' = Append(table, Len(table))
    /\ UNCHANGED <<deferred, tmpDir, child, agents, proc, terminal>>

\* Mutant of StartChild: a command that cannot be started ends Run at once.
StartChildSkipsCleanup ==
    /\ wrapper = "start"
    /\ \/ wrapper' = "wait" /\ child' = "running"
       \/ wrapper' = "returned" /\ UNCHANGED child
    /\ UNCHANGED <<deferred, tmpDir, table, agents, proc, terminal>>

\* cmd.Run: the command cannot be started, or is and is waited for.
StartChild ==
    /\ wrapper = "start"
    /\ \/ wrapper' = "wait" /\ child' = "running"
       \/ wrapper' = "cleanup" /\ UNCHANGED child
    /\ UNCHANGED <<deferred, tmpDir, table, agents, proc, terminal>>

\* Mutant of WaitChild: the child is started and not waited for.
WaitChildNot ==
    /\ wrapper = "wait"
    /\ wrapper' = "cleanup"
    /\ UNCHANGED <<deferred, tmpDir, table, child, agents, proc, terminal>>

WaitChild ==
    /\ wrapper = "wait"
    /\ child = "gone"
    /\ wrapper' = "cleanup"
    /\ UNCHANGED <<deferred, tmpDir, table, child, agents, proc, terminal>>

\* Mutant of Cleanup: only the link is removed.
CleanupLinkOnly ==
    /\ wrapper = "cleanup"
    /\ wrapper' = "returned"
    /\ tmpDir' = "empty"
    /\ UNCHANGED <<deferred, table, child, agents, proc, terminal>>

Cleanup ==
    /\ wrapper = "cleanup"
    /\ wrapper' = "returned"
    /\ tmpDir' = "none"
    /\ UNCHANGED <<deferred, table, child, agents, proc, terminal>>

-----------------------------------------------------------------------------
(* The wrapped command and what happens to the processes *)

\* The command exits or dies of a signal; wait sees either.
ChildEnds ==
    /\ child = "running"
    /\ child' = "gone"
    /\ UNCHANGED <<wrapper, deferred, tmpDir, table, agents, proc, terminal>>

\* SIGINT, SIGTERM or SIGHUP: the wrapper handles none, and dies at once without
\* its deferred calls; the child, which has its own disposition, may live on.
\* Closing the surface the session runs in is one way to send it.
WrapperSignalled ==
    /\ wrapper \notin {"returned", "killed"}
    /\ wrapper' = "killed"
    /\ UNCHANGED <<deferred, tmpDir, table, child, agents, proc, terminal>>

\* A tmux process is killed between two of its steps.
ProcKilled(p) ==
    /\ proc[p].pc \in {"execute", "register", "unregister"}
    /\ proc' = [proc EXCEPT ![p] = [Fresh EXCEPT !.pc = "killed"]]
    /\ UNCHANGED <<wrapperVars, agents, terminal>>

\* Env exports SHIMUX_PANE_ID=0, so every shimux-agent below the child serves
\* pane 0; in a surface of the terminal it has no pane id and exits.
SHIMUX_PANE_ID == 0

\* shimux-agent's runWithIO starts, below the child.
AgentStarts ==
    /\ child # "none"
    /\ agents' = agents \cup {SHIMUX_PANE_ID}
    /\ UNCHANGED <<wrapperVars, proc, terminal>>

AgentEnds ==
    /\ \E id \in agents : agents' = agents \ {id}
    /\ UNCHANGED <<wrapperVars, proc, terminal>>

-----------------------------------------------------------------------------
(* The terminal (external) *)

UserFocuses ==
    /\ focus' \in surfaces
    /\ UNCHANGED <<wrapperVars, agents, proc, keys, surfaces>>

\* The terminal takes a key press: it opens or closes a surface, or another
\* program has the keyboard and nothing comes of it.
TakeKey ==
    /\ keys # <<>>
    /\ keys' = Tail(keys)
    /\ \/ /\ Head(keys).key = "split"
          /\ focus # NoFocus
          /\ \E s \in Others \ surfaces :
                surfaces' = surfaces \cup {s} /\ focus' = s
       \/ /\ Head(keys).key = "close"
          /\ focus # NoFocus
          /\ surfaces' = surfaces \ {focus}
          /\ IF surfaces' = {} THEN focus' = NoFocus ELSE focus' \in surfaces'
       \/ UNCHANGED <<surfaces, focus>>
    /\ UNCHANGED <<wrapperVars, agents, proc>>

-----------------------------------------------------------------------------
(* A tmux process *)

\* The child, or something it started, runs tmux and finds the link.  Main sees
\* the name tmux, makes an empty pane manager and parses; an empty command line
\* and arguments no parser takes exit 1.
runTmuxMode(p, c) ==
    /\ proc[p].pc = "free"
    /\ child # "none" /\ tmpDir = "linked"
    /\ proc' = [proc EXCEPT ![p] =
                  [Fresh EXCEPT !.cmd = c,
                                !.pc = IF c.op = "bad" THEN "exited" ELSE "execute",
                                !.exit = IF c.op = "bad" THEN 1 ELSE 0]]
    /\ UNCHANGED <<wrapperVars, agents, terminal>>

Executing(p, op) == proc[p].pc = "execute" /\ proc[p].cmd.op = op

Exits(p, code) == [proc[p] EXCEPT !.pc = "exited", !.exit = code]

\* keySplit has no entry for left and up.
keySplit == {"right", "down"}

\* osascript posts the key press, or fails.
execScript(key, target, done, failed) ==
    \/ /\ Len(keys) < MaxKeys
       /\ keys' = Append(keys, [key |-> key, target |-> target])
       /\ proc' = done
    \/ proc' = failed /\ UNCHANGED keys

\* The first pane of a table that was empty is the active one.
GetActive(own) == IF own = <<>> THEN NoPane ELSE own[1]

\* Mutant of handleSplitWindow: the error of NewSplit is dropped.
handleSplitWindowLenient(p) ==
    /\ Executing(p, "split-window")
    /\ LET after == [proc EXCEPT ![p].pc = "register"]
       IN  IF proc[p].cmd.dir \in keySplit
           THEN execScript("split", NoPane, [after EXCEPT ![p].posted = TRUE], after)
           ELSE proc' = after /\ UNCHANGED keys
    /\ UNCHANGED <<wrapperVars, agents, surfaces, focus>>

\* handleSplitWindow up to NewSplit.
handleSplitWindow(p) ==
    /\ Executing(p, "split-window")
    /\ LET failed == [proc EXCEPT ![p] = Exits(p, 1)]
       IN  IF proc[p].cmd.dir \in keySplit
           THEN execScript("split", NoPane,
                           [proc EXCEPT ![p].pc = "register", ![p].posted = TRUE],
                           failed)
           ELSE proc' = failed /\ UNCHANGED keys
    /\ UNCHANGED <<wrapperVars, agents, surfaces, focus>>

\* Register, which cannot fail, and -P.
SplitRegisters(p) ==
    /\ proc[p].pc = "register"
    /\ LET id == Len(proc[p].own)
       IN  proc' = [proc EXCEPT ![p] =
                      [Exits(p, 0) EXCEPT
                          !.own = Append(proc[p].own, id),
                          !.out = IF proc[p].cmd.print THEN <<id>> ELSE <<>>]]
    /\ UNCHANGED <<wrapperVars, agents, terminal>>

\* Mutant of paneOf: a command without a target means the pane of the environment.
paneOfFromEnv(p) ==
    IF proc[p].cmd.target # NoPane THEN proc[p].cmd.target ELSE SHIMUX_PANE_ID

\* The pane send-keys addresses: extractPaneID, then the active pane.
paneOf(p) ==
    IF proc[p].cmd.target # NoPane THEN proc[p].cmd.target ELSE GetActive(proc[p].own)

\* Mutant of handleSendKeys: the attempts are not limited.
handleSendKeysForEver(p) ==
    /\ Executing(p, "send-keys")
    /\ \/ /\ proc[p].cmd.empty
          /\ proc' = [proc EXCEPT ![p] = Exits(p, 0)]
       \/ /\ ~proc[p].cmd.empty
          /\ paneOf(p) \in agents
          /\ proc' = [proc EXCEPT ![p] = [Exits(p, 0) EXCEPT !.typed = paneOf(p)]]
    /\ UNCHANGED <<wrapperVars, agents, terminal>>

\* Empty text exits 0; no pane is an error; SendKeys needs an agent on the
\* pane's socket and may fail all the same.
handleSendKeys(p) ==
    /\ Executing(p, "send-keys")
    /\ \/ /\ proc[p].cmd.empty
          /\ proc' = [proc EXCEPT ![p] = Exits(p, 0)]
       \/ /\ ~proc[p].cmd.empty
          /\ paneOf(p) \in agents
          /\ proc' = [proc EXCEPT ![p] = [Exits(p, 0) EXCEPT !.typed = paneOf(p)]]
       \/ /\ ~proc[p].cmd.empty
          /\ proc' = [proc EXCEPT ![p] = Exits(p, 1)]
    /\ UNCHANGED <<wrapperVars, agents, terminal>>

\* handleKillPane up to CloseSurface, which closes what has the focus, whatever
\* the target.
handleKillPane(p) ==
    /\ Executing(p, "kill-pane")
    /\ execScript("close", proc[p].cmd.target,
                  [proc EXCEPT ![p].pc = "unregister", ![p].posted = TRUE],
                  [proc EXCEPT ![p] = Exits(p, 1)])
    /\ UNCHANGED <<wrapperVars, agents, surfaces, focus>>

\* Mutant of KillUnregisters: the error of Unregister is dropped.
KillUnregistersLeniently(p) ==
    /\ proc[p].pc = "unregister"
    /\ proc' = [proc EXCEPT ![p] = Exits(p, 0)]
    /\ UNCHANGED <<wrapperVars, agents, terminal>>

\* Unregister of an unknown pane is an error.
KillUnregisters(p) ==
    /\ proc[p].pc = "unregister"
    /\ LET id == proc[p].cmd.target
           known == id = NoPane \/ id \in ToSet(proc[p].own)
       IN  proc' = [proc EXCEPT ![p] =
                      [Exits(p, IF known THEN 0 ELSE 1) EXCEPT
                          !.own = IF known THEN RemoveFirst(proc[p].own, id)
                                  ELSE proc[p].own]]
    /\ UNCHANGED <<wrapperVars, agents, terminal>>

\* The handlers that only print: list-panes every pane of the table,
\* display-message -p the active one, or a line without pane.
handleListPanes(p) ==
    /\ Executing(p, "list-panes")
    /\ proc' = [proc EXCEPT ![p] = [Exits(p, 0) EXCEPT !.out = proc[p].own]]
    /\ UNCHANGED <<wrapperVars, agents, terminal>>

handleDisplayMessage(p) ==
    /\ Executing(p, "display-message")
    /\ proc' = [proc EXCEPT ![p] =
                  [Exits(p, 0) EXCEPT
                      !.out = IF proc[p].cmd.print
                              THEN <<GetActive(proc[p].own)>> ELSE <<>>]]
    /\ UNCHANGED <<wrapperVars, agents, terminal>>

handleHasSession(p) ==
    /\ Executing(p, "has-session")
    /\ proc' = [proc EXCEPT ![p] = Exits(p, IF proc[p].cmd.match THEN 0 ELSE 1)]
    /\ UNCHANGED <<wrapperVars, agents, terminal>>

handleQuiet(p) ==
    /\ Executing(p, "quiet")
    /\ proc' = [proc EXCEPT ![p] = Exits(p, 0)]
    /\ UNCHANGED <<wrapperVars, agents, terminal>>

-----------------------------------------------------------------------------
(* Specification *)

WrapperStep == \/ runShimuxMode \/ MkdirTemp \/ Symlink \/ RegisterInitial
               \/ StartChild \/ WaitChild \/ Cleanup

\* The steps of a tmux process after it has started.
Execute(p) == \/ handleSplitWindow(p) \/ SplitRegisters(p)
              \/ handleSendKeys(p)
              \/ handleKillPane(p) \/ KillUnregisters(p)
              \/ handleListPanes(p) \/ handleDisplayMessage(p)
              \/ handleHasSession(p) \/ handleQuiet(p)

Next ==
    \/ WrapperStep
    \/ ChildEnds \/ WrapperSignalled \/ AgentStarts \/ AgentEnds
    \/ UserFocuses \/ TakeKey
    \/ \E p \in Procs :
          \/ ProcKilled(p)
          \/ Execute(p)
          \/ \E c \in Commands : runTmuxMode(p, c)

\* A process that can run does (osascript is assumed to end); nothing makes the
\* child end, the user type or the terminal take a key press.
Fairness == /\ WF_vars(WrapperStep)
            /\ \A p \in Procs : WF_vars(Execute(p))

Spec == Init /\ [][Next]_vars /\ Fairness

-----------------------------------------------------------------------------
(* Properties *)

TypeOK ==
    /\ wrapper \in WrapperPC
    /\ deferred \in BOOLEAN
    /\ tmpDir \in {"none", "empty", "linked"}
    /\ table \in Seq(Nat)
    /\ child \in {"none", "running", "gone"}
    /\ agents \subseteq PaneIDs
    /\ proc \in [Procs -> Proc]
    /\ keys \in Seq(KeyPress) /\ Len(keys) <= MaxKeys
    /\ surfaces \subseteq Surfaces
    /\ focus \in surfaces \cup {NoFocus}

\* As long as the wrapped command runs, tmux on its PATH is shimux: Cleanup
\* (wrapper.go:130) never removes the link under a running child, whether the
\* wrapper waits, returns or is killed by a signal.
LinkHeldWhileChildRuns == child = "running" => tmpDir = "linked"

\* Run (wrapper.go:96) that got through Setup returns with the directory gone and
\* no child left, also when the command could not be started.  (A Symlink that
\* fails leaves the directory: the defer comes after Setup.)
SetupIsUndone ==
    wrapper = "returned" /\ deferred => tmpDir = "none" /\ child # "running"

\* The exit status of a command tells whether it reached what it acts on: a
\* split-window that exits 0 has posted its key press and one that exits 1 has
\* not (commands.go:126); a kill-pane that exits 0 has, and a send-keys with text
\* that exits 0 was taken by an agent.  No other command touches the terminal.
ExitStatusHonest ==
    \A p \in Procs : proc[p].pc = "exited" =>
        LET q == proc[p] IN
        /\ q.cmd.op = "split-window" => (q.posted <=> q.exit = 0)
        /\ q.cmd.op = "kill-pane" => (q.exit = 0 => q.posted)
        /\ q.cmd.op = "send-keys" => (q.typed # NoPane <=> q.exit = 0 /\ ~q.cmd.empty)
        /\ q.cmd.op \notin {"split-window", "kill-pane"} => ~q.posted

\* Keys sent without a target are never typed anywhere, and keys sent to a pane
\* are typed in that pane or nowhere: no process has an active pane to fall back
\* on (commands.go:164), since none loads the table the wrapper registered the
\* initial pane in.
KeysReachTheirPane ==
    \A p \in Procs : proc[p].cmd.op = "send-keys" =>
        proc[p].typed \in {NoPane, proc[p].cmd.target}

\* No command sees a pane another process registered, the wrapper's initial pane
\* included: list-panes prints nothing, every split-window -P prints the same id
\* 0, and a kill-pane that names a pane fails in Unregister (commands.go:201)
\* when the key press that closes a surface is already posted.
TablesAreNotShared ==
    \A p \in Procs : proc[p].pc = "exited" =>
        LET q == proc[p] IN
        /\ q.cmd.op = "list-panes" => q.out = <<>>
        /\ q.cmd.op = "split-window" => ToSet(q.out) \subseteq {0}
        /\ q.cmd.op = "kill-pane" /\ q.cmd.target # NoPane => q.exit = 1

\* kill-pane -t closes the pane it names: the initial pane's surface is closed by
\* a kill-pane of that pane, or of the current one, only.
KillClosesItsTarget ==
    [][(Home \in surfaces \ surfaces') =>
            Head(keys).target \in {NoPane, SHIMUX_PANE_ID}]_vars

\* Every tmux command ends, whatever the terminal, the agents and the wrapper do.
CommandsEnd ==
    \A p \in Procs : proc[p].pc = "execute" ~> proc[p].pc \in {"exited", "killed"}

\* Once the wrapped command has ended, the wrapper removes its directory and
\* returns, unless a signal killed it first.
ChildEndIsCleanedUp ==
    child = "gone" ~> (wrapper = "returned" /\ tmpDir = "none") \/ wrapper = "killed"

=============================================================================
