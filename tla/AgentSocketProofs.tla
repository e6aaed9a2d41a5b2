--------------------------- MODULE AgentSocketProofs ---------------------------
(***************************************************************************)
(* Proofs about AgentSocket, for any set of agents.                        *)
(*                                                                         *)
(* ServingIsReachable is not inductive: an agent that is about to remove   *)
(* the path could take it from a serving one.  Until a race has happened   *)
(* there is at most one starting agent (OneStarts), an agent that passed   *)
(* the check of CleanStaleSocket has no owner of the path beside it        *)
(* (CheckStillHolds), and the path leads to its owner (OwnersReachable).   *)
(* NeverRefusedAlone needs that nobody lives beside a lone agent and that  *)
(* the path stays free once it has found or made it so.                    *)
(***************************************************************************)
EXTENDS AgentSocket, TLAPS

Owner == {"bound", "serving"}

OwnersReachable == ~raced => \A a \in Agents : pc[a] \in Owner => path = a

OneStarts ==
    ~raced => \A a, b \in Agents : pc[a] \in Starting /\ pc[b] \in Starting => a = b

CheckStillHolds ==
    ~raced => \A a, b \in Agents :
                 pc[a] \in {"remove", "setup", "listen"} => pc[b] \notin Owner

ReachInv == TypeOK /\ OwnersReachable /\ OneStarts /\ CheckStillHolds

LoneInv ==
    \A a \in alone : /\ \A b \in Agents : pc[b] \in Alive => b = a
                     /\ pc[a] \in {"setup", "listen"} => path = NoSocket
                     /\ pc[a] # "refused"

-----------------------------------------------------------------------------

\* Every action of every agent keeps the types.
LEMMA TypeStep == TypeOK /\ [Next]_vars => TypeOK'
  <1> SUFFICES ASSUME TypeOK, [Next]_vars PROVE TypeOK'
    OBVIOUS
  <1> USE DEF TypeOK, PC, Alive, Starting
  <1>1. ASSUME NEW a \in Agents, Stat(a) PROVE TypeOK'
    BY <1>1 DEF Stat
  <1>2. ASSUME NEW a \in Agents, Run(a) PROVE TypeOK'
    <2>1. CASE DialTimeout(a)
      BY <2>1 DEF DialTimeout
    <2>2. CASE Remove(a)
      BY <2>2 DEF Remove
    <2>3. CASE Setup(a)
      BY <2>3 DEF Setup
    <2>4. CASE Bind(a)
      BY <2>4 DEF Bind
    <2>5. CASE ListenFails(a) \/ Listen(a) \/ CloseDescriptor(a)
      BY <2>5 DEF ListenFails, Listen, CloseDescriptor
    <2> QED
      BY <1>2, <2>1, <2>2, <2>3, <2>4, <2>5 DEF Run
  <1>3. ASSUME NEW a \in Agents, CloseUnlinks(a) \/ Crash(a) \/ Renew(a) PROVE TypeOK'
    BY <1>3 DEF CloseUnlinks, Crash, Renew
  <1>4. CASE UNCHANGED vars
    BY <1>4 DEF vars
  <1> QED
    BY <1>1, <1>2, <1>3, <1>4 DEF Next

\* The path leads to every owner until a race happens, whatever step is taken.
LEMMA ReachStep == ReachInv /\ [Next]_vars => ReachInv'
  <1> SUFFICES ASSUME ReachInv, [Next]_vars PROVE ReachInv'
    OBVIOUS
  <1>t. TypeOK /\ TypeOK'
    BY TypeStep DEF ReachInv
  <1>s. SUFFICES (OwnersReachable /\ OneStarts /\ CheckStillHolds)'
    BY <1>t DEF ReachInv
  <1> USE AgentsAssumption
      DEF ReachInv, OwnersReachable, OneStarts, CheckStillHolds, Owner, Starting, TypeOK
  <1>1. ASSUME NEW a \in Agents, Stat(a) PROVE (OwnersReachable /\ OneStarts /\ CheckStillHolds)'
    BY <1>1, <1>t DEF Stat
  <1>2. ASSUME NEW a \in Agents, Run(a) PROVE (OwnersReachable /\ OneStarts /\ CheckStillHolds)'
    <2>1. CASE DialTimeout(a)
      BY <2>1, <1>t DEF DialTimeout, Listening
    <2>2. CASE Remove(a)
      BY <2>2, <1>t DEF Remove
    <2>3. CASE Setup(a)
      BY <2>3, <1>t DEF Setup
    <2>4. CASE Bind(a)
      BY <2>4, <1>t DEF Bind
    <2>5. CASE ListenFails(a)
      BY <2>5, <1>t DEF ListenFails
    <2>6. CASE Listen(a)
      BY <2>6, <1>t DEF Listen
    <2>7. CASE CloseDescriptor(a)
      BY <2>7, <1>t DEF CloseDescriptor
    <2> QED
      BY <1>2, <2>1, <2>2, <2>3, <2>4, <2>5, <2>6, <2>7 DEF Run
  <1>3. ASSUME NEW a \in Agents, CloseUnlinks(a)
        PROVE (OwnersReachable /\ OneStarts /\ CheckStillHolds)'
    BY <1>3, <1>t DEF CloseUnlinks
  <1>4. ASSUME NEW a \in Agents, Crash(a) \/ Renew(a)
        PROVE (OwnersReachable /\ OneStarts /\ CheckStillHolds)'
    BY <1>4, <1>t DEF Crash, Renew, Alive
  <1>5. CASE UNCHANGED vars
    BY <1>5 DEF vars
  <1> QED
    BY <1>1, <1>2, <1>3, <1>4, <1>5 DEF Next

\* Nobody appears beside a lone agent without ending its being alone, and nobody
\* else touches the path it found free.
LEMMA LoneStep == TypeOK /\ LoneInv /\ [Next]_vars => LoneInv'
  <1> SUFFICES ASSUME TypeOK, LoneInv, [Next]_vars PROVE LoneInv'
    OBVIOUS
  <1>t. TypeOK'
    BY TypeStep
  <1> USE <1>t, AgentsAssumption DEF LoneInv, TypeOK, Alive, Starting
  <1>1. ASSUME NEW a \in Agents, Stat(a) PROVE LoneInv'
    BY <1>1 DEF Stat
  <1>2. ASSUME NEW a \in Agents, Run(a) PROVE LoneInv'
    <2>1. CASE DialTimeout(a)
      BY <2>1 DEF DialTimeout, Listening
    <2>2. CASE Remove(a)
      BY <2>2 DEF Remove
    <2>3. CASE Setup(a)
      BY <2>3 DEF Setup
    <2>4. CASE Bind(a)
      BY <2>4 DEF Bind
    <2>5. CASE ListenFails(a) \/ Listen(a) \/ CloseDescriptor(a)
      BY <2>5 DEF ListenFails, Listen, CloseDescriptor
    <2> QED
      BY <1>2, <2>1, <2>2, <2>3, <2>4, <2>5 DEF Run
  <1>3. ASSUME NEW a \in Agents, CloseUnlinks(a) \/ Crash(a) \/ Renew(a) PROVE LoneInv'
    BY <1>3 DEF CloseUnlinks, Crash, Renew
  <1>4. CASE UNCHANGED vars
    BY <1>4 DEF vars
  <1> QED
    BY <1>1, <1>2, <1>3, <1>4 DEF Next

-----------------------------------------------------------------------------

\* The agents' states and the path keep their types, for any set of agents.
THEOREM TypeCorrect == Spec => []TypeOK
  <1>1. Init => TypeOK
    BY DEF Init, TypeOK, PC
  <1> QED
    BY <1>1, TypeStep, PTL DEF Spec

\* Unless starts overlap or a live agent's queue is full, the path leads to every
\* serving agent, for any number of agents, crashes and closes.
THEOREM ServingStaysReachable == Spec => []ServingIsReachable
  <1>1. Init => ReachInv
    BY DEF Init, ReachInv, TypeOK, PC, OwnersReachable, OneStarts, CheckStillHolds,
           Owner, Starting
  <1>2. ReachInv => ServingIsReachable
    BY DEF ReachInv, OwnersReachable, Owner, ServingIsReachable
  <1> QED
    BY <1>1, <1>2, ReachStep, PTL DEF Spec

\* An agent with no other alive beside it is never refused, whatever dead agents
\* left at the path.
THEOREM LoneStartIsAdmitted == Spec => []NeverRefusedAlone
  <1>1. Init => TypeOK /\ LoneInv
    BY DEF Init, TypeOK, PC, LoneInv
  <1>2. LoneInv => NeverRefusedAlone
    BY DEF LoneInv, NeverRefusedAlone
  <1>3. TypeOK /\ LoneInv /\ [Next]_vars => (TypeOK /\ LoneInv)'
    BY TypeStep, LoneStep
  <1> QED
    BY <1>1, <1>2, <1>3, PTL DEF Spec

================================================================================
