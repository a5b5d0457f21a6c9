--------------------------- MODULE LauncherProofs ---------------------------
(***************************************************************************)
(* On one lock file the launcher's owners exclude each other, for any      *)
(* number of invocations, nodes and files.  The invariant says who is      *)
(* entitled to what: an owner holds the lock of the file it has open, and  *)
(* an invocation that is on its way in or out has the file open but no     *)
(* node, so that giving its locks back cannot expose one.                  *)
(***************************************************************************)
EXTENDS Launcher, TLAPS

Launching == {"run", "run_full"}

Passing == {"opened", "trap", "relock", "remove", "close"}

Typed ==
  /\ cmd \in [Sessions -> Commands]
  /\ pc \in [Sessions -> Places]
  /\ file \in Inodes \cup {NoFile}
  /\ fd \in [Sessions -> Inodes \cup {NoFile}]
  /\ lock \in [Inodes -> Sessions \cup {Free}]
  /\ index \in [Sessions -> Nat]
  /\ \A n \in nodes : n.session \in Sessions

\* What holds of one invocation.
Entitled(s) ==
  /\ Active(s) => fd[s] \in Inodes /\ lock[fd[s]] = s
  /\ pc[s] \in Passing => fd[s] \in Inodes
  /\ pc[s] \in {"working", "wait"} \cup Passing => cmd[s] \in Locking
  /\ pc[s] \in {"start", "opened"} => index[s] = 0
  /\ pc[s] = "provision" => cmd[s] # "run"
  /\ NodesOf(s, nodes) # {} =>
       /\ cmd[s] \in Launching /\ index[s] # 0
       /\ pc[s] \notin {"start", "done"} \cup Passing

LockInv == Typed /\ \A s \in Sessions : Entitled(s)

LEMMA ReleasedOthers ==
  ASSUME Typed, NEW s \in Sessions
  PROVE  /\ Released(s) \in [Inodes -> Sessions \cup {Free}]
         /\ \A i \in Inodes, t \in Sessions \ {s} : lock[i] = t => Released(s)[i] = t
  BY DEF Released, Typed

\* The steps of the lock change neither nodes nor counters.
LEMMA LockSteps ==
  ASSUME LockInv, NEW s \in Sessions,
         Prepare(s) \/ Lock(s) \/ Trap(s)
  PROVE  LockInv'
<1> USE DEF LockInv, Entitled, Active, NodesOf, Passing, Launching, Locking, netVars, Goto, Places
<1>1. CASE Prepare(s)
  BY <1>1 DEF Prepare, Typed
<1>2. CASE Lock(s)
  BY <1>2, LauncherAssumption DEF Lock, Typed
<1>3. CASE TrapUnlock(s)
  BY <1>3, ReleasedOthers DEF TrapUnlock, Typed
<1>4. CASE TrapRelock(s)
  BY <1>4, LauncherAssumption DEF TrapRelock, Typed
<1>5. CASE TrapRemove(s)
  BY <1>5 DEF TrapRemove, Typed
<1>6. CASE Close(s)
  BY <1>6, ReleasedOthers DEF Close, Typed
<1> QED
  BY <1>1, <1>2, <1>3, <1>4, <1>5, <1>6 DEF Trap

\* What an owner of the network does under the lock, and how it ends.
LEMMA WorkSteps ==
  ASSUME LockInv, NEW s \in Sessions,
         Clean(s) \/ Abort(s) \/ RunNode(s) \/ ScriptDies(s)
  PROVE  LockInv'
<1> USE DEF LockInv, Entitled, Active, NodesOf, Passing, Launching, Locking, netVars, Goto, Places
<1>1. CASE Clean(s)
  BY <1>1 DEF Clean, Typed
<1>2. CASE Abort(s)
  BY <1>2 DEF Abort, Typed
<1>3. CASE RunNode(s)
  <2>1. cmd[s] \in Launching
    BY <1>3 DEF RunNode
  <2>2. pc'[s] \in {"working", "wait", "provision"} /\ Active(s)
    BY <1>3 DEF RunNode, Typed
  <2>3. Typed'
    BY <1>3 DEF RunNode, Typed
  <2>4. Entitled(s)'
    BY <1>3, <2>1, <2>2 DEF RunNode, Typed
  <2>5. ASSUME NEW t \in Sessions \ {s}  PROVE Entitled(t)'
    BY <1>3 DEF RunNode, Typed
  <2> QED
    BY <2>3, <2>4, <2>5
<1>4. CASE ScriptDies(s)
  BY <1>4, ReleasedOthers DEF ScriptDies, Typed
<1> QED
  BY <1>1, <1>2, <1>3, <1>4

\* The calls of register.py move an invocation on and touch no lock.
LEMMA ProvisionSteps ==
  ASSUME LockInv, NEW s \in Sessions,
         StartUnlocked(s) \/ Call(s) \/ CallFails(s)
  PROVE  LockInv'
<1> USE DEF LockInv, Entitled, Active, NodesOf, Passing, Launching, Locking, netVars, Goto, Places
<1>1. CASE StartUnlocked(s)
  BY <1>1 DEF StartUnlocked, Typed
<1>2. CASE Call(s)
  <2>1. \/ pc' = pc
        \/ cmd[s] = "run_full" /\ pc' = [pc EXCEPT ![s] = "wait"]
        \/ cmd[s] # "run_full" /\ pc' = [pc EXCEPT ![s] = "done"]
    BY <1>2 DEF Call
  <2>2. UNCHANGED <<cmd, file, fd, lock, nodes, index>> /\ pc[s] = "provision"
    BY <1>2 DEF Call
  <2> QED
    BY <2>1, <2>2 DEF Typed
<1>3. CASE CallFails(s)
  BY <1>3 DEF CallFails, Typed
<1> QED
  BY <1>1, <1>2, <1>3

\* A node that ends gives its invocation's lock back only with the last one.
LEMMA NodeSteps ==
  ASSUME LockInv, NEW n \in nodes, NodeEnds(n),
         n.session \in Sessions
  PROVE  LockInv'
<1> USE DEF LockInv, Entitled, Active, NodesOf, Passing, Launching, Locking, Places
<1> DEFINE s == n.session
<1>1. Typed'
  BY ReleasedOthers DEF NodeEnds, Typed
<1>2. ASSUME NEW t \in Sessions \ {s}  PROVE Entitled(t)'
  BY ReleasedOthers DEF NodeEnds, Typed
<1>3. Entitled(s)'
  BY DEF NodeEnds, Typed
<1> QED
  BY <1>1, <1>2, <1>3

\* Every step keeps the invariant.
LEMMA LockStep ==
  ASSUME LockInv, [Next]_vars
  PROVE  LockInv'
<1>1. CASE UNCHANGED vars
  BY <1>1 DEF vars, LockInv, Typed, Entitled, Active, NodesOf
<1>2. ASSUME NEW s \in Sessions, Session(s)  PROVE LockInv'
  BY <1>2, LockSteps, WorkSteps, ProvisionSteps DEF Session
<1>3. ASSUME NEW n \in nodes, NodeEnds(n)  PROVE LockInv'
  BY <1>3, NodeSteps DEF LockInv, Typed
<1>4. ASSUME NEW p \in Paras, Onboard(p)  PROVE LockInv'
  BY <1>4 DEF Onboard, LockInv, Typed, Entitled, Active, NodesOf
<1> QED
  BY <1>1, <1>2, <1>3, <1>4 DEF Next

\* The lock of config.sh: whatever the invocations do, and whenever scripts
\* and nodes die, two owners of the network never share a lock file.
THEOREM LockExcludes == Spec => []ExclusivePerFile
<1>1. Init => LockInv
  BY DEF Init, LockInv, Typed, Entitled, Active, NodesOf, Passing, Launching, Places
<1>2. LockInv /\ [Next]_vars => LockInv'
  BY LockStep
<1>3. LockInv => ExclusivePerFile
  BY DEF LockInv, Entitled, ExclusivePerFile
<1> QED
  BY <1>1, <1>2, <1>3, PTL DEF Spec

-----------------------------------------------------------------------------
(***************************************************************************)
(* The lock file is removed.  Whoever finds the lock taken at the end of   *)
(* its trap leaves the file to the owner of the lock; the owner has the    *)
(* same file open and has not removed it yet, or it was killed.            *)
(***************************************************************************)

\* Where an invocation may own a lock, and where it will still remove the file.
Holding == {"working", "provision", "wait", "trap", "remove", "close", "stopped"}

Caring == {"opened", "working", "provision", "wait", "trap", "relock", "remove"}

\* A lock is that of the file its owner has open, which is no longer LOCKFILE
\* once its owner has removed that.
Holder(s) ==
  \A i \in Inodes : lock[i] = s =>
    fd[s] = i /\ pc[s] \in Holding /\ (pc[s] = "close" => file # i)

\* register and hrmp never open the file.
Unlocked(s) ==
  /\ cmd[s] \notin Locking => fd[s] = NoFile /\ pc[s] \notin Passing
  /\ pc[s] = "provision" => cmd[s] \notin {"run", "clean"}

\* Somebody will remove the file, or was killed.
Cared ==
  file # NoFile =>
    \E s \in Sessions :
      pc[s] = "stopped" \/ (fd[s] = file /\ pc[s] \in Caring)

RemovalInv ==
  /\ LockInv
  /\ \A s \in Sessions : Holder(s) /\ Unlocked(s)
  /\ Cared

\* One invocation moves on with its files and locks as they were.
LEMMA MovesOn ==
  ASSUME RemovalInv, NEW s \in Sessions, NEW place \in Places,
         pc' = pc \/ pc' = [pc EXCEPT ![s] = place],
         UNCHANGED <<cmd, file, fd, lock>>,
         place = "stopped" \/ (pc[s] \in Caring => place \in Caring)
           \/ fd[s] = NoFile,
         \A i \in Inodes : lock[i] = s => place \in Holding \ {"close"},
         cmd[s] \notin Locking => place \notin Passing,
         place = "provision" => cmd[s] \notin {"run", "clean"},
         pc[s] # "stopped"
  PROVE  Cared' /\ \A t \in Sessions : Holder(t)' /\ Unlocked(t)'
<1> USE DEF RemovalInv, LockInv, Typed
<1>1. ASSUME NEW t \in Sessions  PROVE Holder(t)' /\ Unlocked(t)'
  <2>1. CASE t = s /\ pc' # pc
    <3>1. pc'[s] = place
      BY <2>1
    <3> QED
      BY <2>1, <3>1 DEF Holder, Unlocked
  <2>2. CASE t # s \/ pc' = pc
    <3>1. pc'[t] = pc[t]
      BY <2>2
    <3> QED
      BY <3>1 DEF Holder, Unlocked
  <2> QED
    BY <2>1, <2>2
<1>2. Cared'
  BY DEF Cared
<1> QED
  BY <1>1, <1>2

\* Locks given back, and a file closed by an invocation that will not remove
\* it any more or was killed.
LEMMA LetsGo ==
  ASSUME RemovalInv, NEW s \in Sessions, pc[s] \in Holding \cup Caring, NEW place \in {"done", "stopped"},
         pc' = [pc EXCEPT ![s] = place],
         fd' = [fd EXCEPT ![s] = NoFile], lock' = Released(s),
         UNCHANGED <<cmd, file>>,
         place = "done" => pc[s] = "close"
  PROVE  Cared' /\ \A t \in Sessions : Holder(t)' /\ Unlocked(t)'
<1> USE DEF RemovalInv, LockInv, Typed
<1>1. ASSUME NEW t \in Sessions  PROVE Holder(t)' /\ Unlocked(t)'
  <2>1. \A i \in Inodes : lock'[i] # s /\ (lock'[i] \in Sessions => lock'[i] = lock[i])
    BY LauncherAssumption DEF Released
  <2>2. CASE t = s
    BY <2>1, <2>2 DEF Holder, Unlocked, Passing
  <2>3. CASE t # s
    <3>1. pc'[t] = pc[t] /\ fd'[t] = fd[t]
      BY <2>3
    <3> QED
      BY <2>1, <3>1 DEF Holder, Unlocked
  <2> QED
    BY <2>2, <2>3
<1>2. Cared'
  <2>1. CASE place = "stopped"
    BY <2>1 DEF Cared
  <2>2. CASE place = "done"
    <3>1. \A t \in Sessions \ {s} : pc'[t] = pc[t] /\ fd'[t] = fd[t]
      OBVIOUS
    <3>2. pc[s] \notin Caring \cup {"stopped"}
      BY <2>2 DEF Caring
    <3> QED
      BY <3>1, <3>2 DEF Cared
  <2> QED
    BY <2>1, <2>2
<1> QED
  BY <1>1, <1>2

\* The lock and the trap.
LEMMA RemovalLock ==
  ASSUME RemovalInv, NEW s \in Sessions,
         Prepare(s) \/ Lock(s) \/ Trap(s)
  PROVE  Cared' /\ \A t \in Sessions : Holder(t)' /\ Unlocked(t)'
<1>0. LockInv /\ Typed /\ Entitled(s) /\ Holder(s) /\ Unlocked(s)
  BY DEF RemovalInv, LockInv
<1>1. CASE Prepare(s)
  <2>1. PICK i \in Inodes :
          /\ IF file = NoFile THEN i \notin Range(fd) ELSE i = file
          /\ file' = i /\ fd' = [fd EXCEPT ![s] = i]
    BY <1>1 DEF Prepare
  <2>2. /\ pc' = [pc EXCEPT ![s] = "opened"] /\ UNCHANGED <<cmd, lock>>
        /\ pc[s] = "start" /\ cmd[s] \in Locking
    BY <1>1 DEF Prepare, Goto
  <2>3. fd'[s] = i /\ pc'[s] = "opened"
    BY <1>0, <2>1, <2>2 DEF Typed
  <2>4. Cared'
    BY <2>1, <2>3 DEF Cared, Caring
  <2>5. Holder(s)' /\ Unlocked(s)'
    <3>1. \A j \in Inodes : lock[j] # s
      BY <1>0, <2>2 DEF Holder, Holding
    <3> QED
      BY <2>2, <2>3, <3>1 DEF Holder, Unlocked
  <2>6. ASSUME NEW t \in Sessions \ {s}  PROVE Holder(t)' /\ Unlocked(t)'
    <3>1. pc'[t] = pc[t] /\ fd'[t] = fd[t] /\ Holder(t) /\ Unlocked(t)
      BY <1>0, <2>1, <2>2 DEF Typed, RemovalInv
    <3>2. fd[t] \in Range(fd)
      BY <1>0 DEF Range, Typed
    <3>3. Unlocked(t)'
      BY <2>2, <3>1 DEF Unlocked
    <3>4. ASSUME NEW j \in Inodes, lock[j] = t, pc[t] = "close"  PROVE file' # j
      <4>1. fd[t] = j /\ file # j
        BY <3>1, <3>4 DEF Holder
      <4> QED
        BY <2>1, <3>2, <4>1
    <3> QED
      BY <2>2, <3>1, <3>3, <3>4 DEF Holder
  <2> QED
    BY <2>4, <2>5, <2>6
<1>2. ASSUME NEW place \in {"working", "remove"},
             pc[s] = IF place = "working" THEN "opened" ELSE "relock",
             lock[fd[s]] = Free, lock' = [lock EXCEPT ![fd[s]] = s],
             pc' = [pc EXCEPT ![s] = place], UNCHANGED <<cmd, file, fd>>
      PROVE  Cared' /\ \A t \in Sessions : Holder(t)' /\ Unlocked(t)'
  <2>1. fd[s] \in Inodes /\ cmd[s] \in Locking
    BY <1>0, <1>2 DEF Entitled, Passing
  <2>2. \A j \in Inodes : lock[j] # s
    BY <1>0, <1>2 DEF Holder, Holding
  <2>3. pc'[s] = place /\ \A t \in Sessions \ {s} : pc'[t] = pc[t]
    BY <1>0, <1>2 DEF Typed
  <2>4. \A j \in Inodes : lock'[j] = IF j = fd[s] THEN s ELSE lock[j]
    BY <1>0, <1>2, <2>1 DEF Typed
  <2>5. Holder(s)' /\ Unlocked(s)'
    BY <1>2, <2>1, <2>2, <2>3, <2>4 DEF Holder, Unlocked, Holding
  <2>6. ASSUME NEW t \in Sessions \ {s}  PROVE Holder(t)' /\ Unlocked(t)'
    BY <1>2, <2>3, <2>4 DEF RemovalInv, Holder, Unlocked
  <2>7. Cared'
    BY <1>2, <2>3 DEF RemovalInv, Cared, Caring
  <2> QED
    BY <2>5, <2>6, <2>7
<1>3. CASE Lock(s)
  <2>1. CASE lock[fd[s]] = Free
    BY <1>2, <1>3, <2>1 DEF Lock, Goto, netVars
  <2>2. CASE lock[fd[s]] # Free
    <3>1. /\ pc' = [pc EXCEPT ![s] = "trap"] /\ pc[s] = "opened"
          /\ UNCHANGED <<cmd, file, fd, lock>>
      BY <1>3, <2>2 DEF Lock, Goto
    <3>2. cmd[s] \in Locking
      BY <1>0, <3>1 DEF Entitled, Passing
    <3> QED
      BY <3>1, <3>2, MovesOn DEF Places, Caring, Holding
  <2> QED
    BY <2>1, <2>2
<1>4. CASE TrapUnlock(s)
  <2>1. /\ pc[s] = "trap" /\ pc' = [pc EXCEPT ![s] = "relock"]
        /\ lock' = Released(s) /\ UNCHANGED <<cmd, file, fd>>
    BY <1>4 DEF TrapUnlock, Goto
  <2>2. \A i \in Inodes : lock'[i] # s /\ (lock'[i] \in Sessions => lock'[i] = lock[i])
    BY <2>1, LauncherAssumption DEF Released
  <2>3. pc'[s] = "relock" /\ \A t \in Sessions \ {s} : pc'[t] = pc[t]
    BY <1>0, <2>1 DEF Typed
  <2>4. cmd[s] \in Locking
    BY <1>0, <2>1 DEF Entitled, Passing
  <2>5. ASSUME NEW t \in Sessions  PROVE Holder(t)' /\ Unlocked(t)'
    BY <2>1, <2>2, <2>3, <2>4 DEF RemovalInv, Holder, Unlocked
  <2>6. Cared'
    BY <2>1, <2>3 DEF RemovalInv, Cared, Caring
  <2> QED
    BY <2>5, <2>6
<1>5. CASE TrapRelock(s)
  <2>1. CASE lock[fd[s]] = Free
    BY <1>2, <1>5, <2>1 DEF TrapRelock, Goto, netVars
  <2>2. CASE lock[fd[s]] # Free
    <3>1. /\ pc[s] = "relock" /\ pc' = [pc EXCEPT ![s] = "close"]
          /\ UNCHANGED <<cmd, file, fd, lock>>
      BY <1>5, <2>2 DEF TrapRelock, Goto
    <3>2. fd[s] \in Inodes /\ cmd[s] \in Locking
      BY <1>0, <3>1 DEF Entitled, Passing
    <3>3. PICK t \in Sessions : lock[fd[s]] = t
      BY <1>0, <2>2, <3>2 DEF Typed
    <3>4. /\ fd[t] = fd[s] /\ pc[t] \in Holding
          /\ pc[t] = "close" => file # fd[s]
      BY <3>2, <3>3 DEF RemovalInv, Holder
    <3>5. t # s
      BY <3>1, <3>4 DEF Holding
    <3>6. pc'[s] = "close" /\ \A x \in Sessions \ {s} : pc'[x] = pc[x]
      BY <1>0, <3>1 DEF Typed
    <3>7. Cared'
      <4>1. CASE fd[s] = file
        <5>1. pc'[t] \in Caring \cup {"stopped"}
          BY <3>4, <3>5, <3>6, <4>1 DEF Caring, Holding
        <5> QED
          BY <3>1, <3>4, <4>1, <5>1 DEF Cared
      <4>2. CASE fd[s] # file
        BY <3>1, <3>6, <4>2 DEF RemovalInv, Cared
      <4> QED
        BY <4>1, <4>2
    <3>8. ASSUME NEW x \in Sessions  PROVE Holder(x)' /\ Unlocked(x)'
      <4>1. \A j \in Inodes : lock[j] # s
        BY <1>0, <3>1 DEF Holder, Holding
      <4> QED
        BY <3>1, <3>2, <3>6, <4>1 DEF RemovalInv, Holder, Unlocked
    <3> QED
      BY <3>7, <3>8
  <2> QED
    BY <2>1, <2>2
<1>6. CASE TrapRemove(s)
  <2>1. /\ pc[s] = "remove" /\ pc' = [pc EXCEPT ![s] = "close"]
        /\ file' = NoFile /\ UNCHANGED <<cmd, fd, lock>>
    BY <1>6 DEF TrapRemove, Goto
  <2>2. cmd[s] \in Locking
    BY <1>0, <2>1 DEF Entitled, Passing
  <2>3. pc'[s] = "close" /\ \A x \in Sessions \ {s} : pc'[x] = pc[x]
    BY <1>0, <2>1 DEF Typed
  <2>4. ASSUME NEW x \in Sessions  PROVE Holder(x)' /\ Unlocked(x)'
    BY <2>1, <2>2, <2>3, LauncherAssumption DEF RemovalInv, Holder, Unlocked, Holding
  <2> QED
    BY <2>1, <2>4 DEF Cared
<1>7. CASE Close(s)
  BY <1>7, LetsGo DEF Close, Goto, Holding
<1> QED
  BY <1>1, <1>3, <1>4, <1>5, <1>6, <1>7 DEF Trap

\* The commands that hold the lock, and how they are left.
LEMMA RemovalWork ==
  ASSUME RemovalInv, NEW s \in Sessions,
         Clean(s) \/ Abort(s) \/ RunNode(s) \/ ScriptDies(s)
  PROVE  Cared' /\ \A t \in Sessions : Holder(t)' /\ Unlocked(t)'
<1>0. LockInv /\ Typed /\ Entitled(s) /\ Holder(s) /\ Unlocked(s)
  BY DEF RemovalInv, LockInv
<1>1. CASE Clean(s) \/ Abort(s)
  <2>1. /\ pc[s] = "working" /\ pc' = [pc EXCEPT ![s] = "trap"]
        /\ UNCHANGED <<cmd, file, fd, lock>>
    BY <1>1 DEF Clean, Abort, Goto
  <2>2. cmd[s] \in Locking
    BY <1>0, <2>1 DEF Entitled
  <2> QED
    BY <2>1, <2>2, MovesOn DEF Places, Caring, Holding
<1>2. CASE RunNode(s)
  <2>1. /\ pc[s] = "working" /\ cmd[s] # "clean"
        /\ UNCHANGED <<cmd, file, fd, lock>>
        /\ \/ pc' = pc
           \/ cmd[s] = "run" /\ pc' = [pc EXCEPT ![s] = "wait"]
           \/ cmd[s] # "run" /\ pc' = [pc EXCEPT ![s] = "provision"]
    BY <1>2 DEF RunNode, Goto
  <2>2. CASE pc' = pc \/ (cmd[s] = "run" /\ pc' = [pc EXCEPT ![s] = "wait"])
    BY <2>1, <2>2, MovesOn DEF Places, Caring, Holding, Passing
  <2>3. CASE cmd[s] # "run" /\ pc' = [pc EXCEPT ![s] = "provision"]
    BY <2>1, <2>3, MovesOn DEF Places, Caring, Holding, Passing
  <2> QED
    BY <2>1, <2>2, <2>3
<1>3. CASE ScriptDies(s)
  <2>1. /\ pc[s] \notin {"start", "done", "stopped"}
        /\ pc' = [pc EXCEPT ![s] = "stopped"] /\ UNCHANGED <<cmd, file>>
    BY <1>3 DEF ScriptDies, Goto
  <2>2. CASE NodesOf(s, nodes) = {}
    <3>1. pc[s] \in Holding \cup Caring
      BY <1>0, <2>1 DEF Typed, Places, Holding, Caring
    <3>2. lock' = Released(s) /\ fd' = [fd EXCEPT ![s] = NoFile]
      BY <1>3, <2>2 DEF ScriptDies
    <3> QED
      BY <2>1, <3>1, <3>2, LetsGo
  <2>3. CASE NodesOf(s, nodes) # {}
    <3>1. UNCHANGED <<lock, fd>>
      BY <1>3, <2>3 DEF ScriptDies
    <3> QED
      BY <2>1, <3>1, MovesOn DEF Places, Holding, Passing
  <2> QED
    BY <2>2, <2>3
<1> QED
  BY <1>1, <1>2, <1>3

\* The calls of register.py.
LEMMA RemovalProvision ==
  ASSUME RemovalInv, NEW s \in Sessions,
         StartUnlocked(s) \/ Call(s) \/ CallFails(s)
  PROVE  Cared' /\ \A t \in Sessions : Holder(t)' /\ Unlocked(t)'
<1>0. LockInv /\ Typed /\ Entitled(s) /\ Holder(s) /\ Unlocked(s)
  BY DEF RemovalInv, LockInv
<1>1. CASE StartUnlocked(s)
  <2>1. /\ pc[s] = "start" /\ pc' = [pc EXCEPT ![s] = "provision"]
        /\ cmd[s] \notin Locking /\ UNCHANGED <<cmd, file, fd, lock>>
    BY <1>1 DEF StartUnlocked, Goto
  <2> QED
    BY <1>0, <2>1, MovesOn DEF Unlocked, Places, Caring, Holding, Passing, Locking
<1>2. ASSUME pc[s] = "provision", cmd[s] # "run_full",
             pc' = [pc EXCEPT ![s] = "done"], UNCHANGED <<cmd, file, fd, lock>>
      PROVE  Cared' /\ \A t \in Sessions : Holder(t)' /\ Unlocked(t)'
  <2>1. fd[s] = NoFile
    BY <1>0, <1>2 DEF Unlocked, Locking
  <2>2. \A i \in Inodes : lock[i] # s
    BY <1>0, <2>1, LauncherAssumption DEF Holder
  <2> QED
    BY <1>2, <2>1, <2>2, MovesOn DEF Places, Passing
<1>3. CASE Call(s)
  <2>1. /\ pc[s] = "provision" /\ UNCHANGED <<cmd, file, fd, lock>>
        /\ \/ pc' = pc
           \/ cmd[s] = "run_full" /\ pc' = [pc EXCEPT ![s] = "wait"]
           \/ cmd[s] # "run_full" /\ pc' = [pc EXCEPT ![s] = "done"]
    BY <1>3 DEF Call, Goto
  <2>2. CASE pc' = pc \/ (cmd[s] = "run_full" /\ pc' = [pc EXCEPT ![s] = "wait"])
    BY <2>1, <2>2, MovesOn DEF Places, Caring, Holding, Passing
  <2> QED
    BY <1>2, <2>1, <2>2
<1>4. CASE CallFails(s)
  <2>1. /\ pc[s] = "provision" /\ cmd[s] \notin Locking
        /\ pc' = [pc EXCEPT ![s] = "done"] /\ UNCHANGED <<cmd, file, fd, lock>>
    BY <1>4 DEF CallFails, Goto
  <2> QED
    BY <1>2, <2>1 DEF Locking
<1> QED
  BY <1>1, <1>3, <1>4

\* The last node of a killed script closes the file; the killed script stays.
LEMMA RemovalNode ==
  ASSUME RemovalInv, NEW n \in nodes, NodeEnds(n), n.session \in Sessions
  PROVE  Cared' /\ \A t \in Sessions : Holder(t)' /\ Unlocked(t)'
<1> DEFINE s == n.session
<1>0. LockInv /\ Typed
  BY DEF RemovalInv, LockInv
<1>1. UNCHANGED <<cmd, pc, file>>
  BY DEF NodeEnds
<1>2. CASE UNCHANGED <<lock, fd>>
  BY <1>1, <1>2 DEF RemovalInv, Holder, Unlocked, Cared
<1>3. CASE pc[s] = "stopped" /\ lock' = Released(s) /\ fd' = [fd EXCEPT ![s] = NoFile]
  <2>1. \A i \in Inodes : lock'[i] # s /\ (lock'[i] \in Sessions => lock'[i] = lock[i])
    BY <1>3, LauncherAssumption DEF Released
  <2>2. fd'[s] = NoFile /\ \A t \in Sessions \ {s} : fd'[t] = fd[t]
    BY <1>0, <1>3 DEF Typed
  <2>3. \A t \in Sessions : Holder(t)' /\ Unlocked(t)'
    BY <1>1, <2>1, <2>2 DEF RemovalInv, Holder, Unlocked
  <2> QED
    BY <1>1, <1>3, <2>3 DEF Cared
<1> QED
  BY <1>2, <1>3 DEF NodeEnds

\* Every step keeps the invariant.
LEMMA RemovalStep ==
  ASSUME RemovalInv, [Next]_vars
  PROVE  RemovalInv'
<1>0. LockInv /\ LockInv'
  BY LockStep DEF RemovalInv
<1> SUFFICES Cared' /\ \A t \in Sessions : Holder(t)' /\ Unlocked(t)'
  BY <1>0 DEF RemovalInv
<1>1. CASE UNCHANGED vars
  BY <1>1 DEF vars, RemovalInv, Cared, Holder, Unlocked
<1>2. ASSUME NEW s \in Sessions, Session(s)
      PROVE  Cared' /\ \A t \in Sessions : Holder(t)' /\ Unlocked(t)'
  BY <1>2, RemovalLock, RemovalWork, RemovalProvision DEF Session
<1>3. ASSUME NEW n \in nodes, NodeEnds(n)
      PROVE  Cared' /\ \A t \in Sessions : Holder(t)' /\ Unlocked(t)'
  BY <1>0, <1>3, RemovalNode DEF LockInv, Typed
<1>4. ASSUME NEW p \in Paras, Onboard(p)
      PROVE  Cared' /\ \A t \in Sessions : Holder(t)' /\ Unlocked(t)'
  BY <1>4 DEF Onboard, RemovalInv, Cared, Holder, Unlocked
<1> QED
  BY <1>1, <1>2, <1>3, <1>4 DEF Next

\* Nothing is open and nothing locked at first.
LEMMA RemovalInit == Init => RemovalInv
<1> SUFFICES ASSUME Init  PROVE RemovalInv
  OBVIOUS
<1>1. LockInv
  BY DEF Init, LockInv, Typed, Entitled, Active, NodesOf, Passing, Launching, Places
<1>2. Cared /\ \A t \in Sessions : Holder(t) /\ Unlocked(t)
  BY LauncherAssumption DEF Init, Cared, Holder, Unlocked, Passing
<1> QED
  BY <1>1, <1>2 DEF RemovalInv

\* The EXIT trap of _no_more_locking: once every invocation is through it, the
\* lock file is gone, however their attempts and removals interleaved.
THEOREM LockFileGoes == Spec => []LockFileRemoved
<1>1. RemovalInv /\ [Next]_vars => RemovalInv'
  BY RemovalStep
<1>2. RemovalInv => LockFileRemoved
  BY DEF RemovalInv, Cared, LockFileRemoved, Caring
<1> QED
  BY RemovalInit, <1>1, <1>2, PTL DEF Spec

-----------------------------------------------------------------------------
(***************************************************************************)
(* The counters and the relay chain.  A launch counts its nodes up to the  *)
(* relay nodes and two collators; the calls of register.py are those of    *)
(* its command, and they name the two parachains only.                     *)
(***************************************************************************)
Counted(s) ==
  /\ index[s] \in 0 .. RelayNames + 2 /\ step[s] \in 0 .. 5
  /\ pc[s] = "working" => index[s] <= RelayNames + 1
  /\ pc[s] \in {"start", "opened", "working"} => step[s] = 0
  /\ pc[s] = "provision" => step[s] < Len(Calls(cmd[s]))

RelayRecords ==
  [endowed : SUBSET Paras, scheduled : SUBSET Paras,
   live : SUBSET Paras, channels : SUBSET (Paras \X Paras)]

RelayTyped == relay \in RelayRecords

CountInv ==
  /\ RemovalInv
  /\ index \in [Sessions -> Int] /\ step \in [Sessions -> Int]
  /\ \A s \in Sessions : Counted(s)
  /\ nodes \subseteq [session : Sessions, index : NodeIds]
  /\ dbs \subseteq NodeIds
  /\ RelayTyped

\* What the calls of each command are.
LEMMA CallsOf ==
  /\ Len(Calls("run_full")) = 5 /\ Len(Calls("register")) = 3 /\ Len(Calls("hrmp")) = 2
  /\ \A c \in Commands : \A k \in 1 .. Len(Calls(c)) :
       /\ Calls(c)[k][1] \in {"endow", "endow_para", "register", "hrmp_open"}
       /\ Calls(c)[k][1] = "register" => Calls(c)[k][2] \in Paras
       /\ Calls(c)[k][1] = "hrmp_open" /\ Len(Calls(c)[k]) = 3 =>
            Calls(c)[k][2] \in Paras /\ Calls(c)[k][3] \in Paras
<1>1. /\ Len(Calls("register")) = 3
      /\ Calls("register")[1] = <<"endow">>
      /\ Calls("register")[2] = <<"register", ClientPara>>
      /\ Calls("register")[3] = <<"register", ServicePara>>
  BY DEF Calls, RegisterParachain
<1>2. /\ Len(Calls("hrmp")) = 2
      /\ Calls("hrmp")[1] = <<"endow_para">>
      /\ Calls("hrmp")[2] = <<"hrmp_open", ClientPara>>
  BY DEF Calls
<1>3. /\ Len(Calls("run_full")) = 5
      /\ Calls("run_full")[1] = <<"endow">>
      /\ Calls("run_full")[2] = <<"register", ClientPara>>
      /\ Calls("run_full")[3] = <<"register", ServicePara>>
      /\ Calls("run_full")[4] = Channel
      /\ Calls("run_full")[5] = ChannelBack
  BY DEF Calls, RegisterParachain
<1>4. \A c : c \notin {"run_full", "register", "hrmp"} => Len(Calls(c)) = 0
  BY DEF Calls
<1>5. /\ \A k \in 1 .. 5 : k \in {1, 2, 3, 4, 5}
      /\ \A k \in 1 .. 3 : k \in {1, 2, 3}
      /\ \A k \in 1 .. 2 : k \in {1, 2}
      /\ \A k : k \notin 1 .. 0
  OBVIOUS
<1>6. ASSUME NEW c \in Commands, NEW k \in 1 .. Len(Calls(c))
      PROVE  LET call == Calls(c)[k] IN
             /\ call[1] \in {"endow", "endow_para", "register", "hrmp_open"}
             /\ call[1] = "register" => call[2] \in Paras
             /\ call[1] = "hrmp_open" /\ Len(call) = 3 => call[2] \in Paras /\ call[3] \in Paras
  <2>1. CASE c = "register"
    <3>1. k \in {1, 2, 3}
      BY <1>1, <1>5, <2>1
    <3> QED
      BY <1>1, <2>1, <3>1 DEF Paras
  <2>2. CASE c = "hrmp"
    <3>1. k \in {1, 2}
      BY <1>2, <1>5, <2>2
    <3>2. Len(<<"hrmp_open", ClientPara>>) = 2
      OBVIOUS
    <3> QED
      BY <1>2, <2>2, <3>1, <3>2
  <2>3. CASE c = "run_full"
    <3>1. k \in {1, 2, 3, 4, 5}
      BY <1>3, <1>5, <2>3
    <3> QED
      BY <1>3, <2>3, <3>1 DEF Channel, ChannelBack, Paras
  <2>4. CASE c \notin {"run_full", "register", "hrmp"}
    BY <1>4, <1>5, <2>4
  <2> QED
    BY <2>1, <2>2, <2>3, <2>4
<1> QED
  BY <1>1, <1>2, <1>3, <1>6

\* Losing the chain, and a call that is answered, keep it a relay chain.
LEMMA RelayKept ==
  ASSUME RelayTyped
  PROVE  /\ \A ns, ds : RelayLeft(ns, ds) \in RelayRecords
         /\ \A s \in Sessions :
              cmd[s] \in Commands /\ step[s] \in Nat /\ step[s] < Len(Calls(cmd[s]))
                /\ Answered(NextCall(s)) => Applied(NextCall(s)) \in RelayRecords
<1>1. \A ns, ds : RelayLeft(ns, ds) \in RelayRecords
  BY DEF RelayLeft, RelayTyped, RelayRecords, FreshRelay
<1>2. ASSUME NEW s \in Sessions, cmd[s] \in Commands, step[s] \in Nat,
             step[s] < Len(Calls(cmd[s])), Answered(NextCall(s))
      PROVE  Applied(NextCall(s)) \in RelayRecords
  <2> DEFINE call == NextCall(s)
  <2>0. relay \in RelayRecords
    BY DEF RelayTyped, RelayRecords
  <2>1. /\ call[1] \in {"endow", "endow_para", "register", "hrmp_open"}
        /\ call[1] = "register" => call[2] \in Paras
        /\ call[1] = "hrmp_open" /\ Len(call) = 3 => call[2] \in Paras /\ call[3] \in Paras
    <3>1. Len(Calls(cmd[s])) \in Nat
      BY CallsOf DEF Calls
    <3>2. step[s] + 1 \in 1 .. Len(Calls(cmd[s]))
      BY <1>2, <3>1
    <3> QED
      BY <1>2, <3>2, CallsOf DEF NextCall
  <2>2. call[1] = "hrmp_open" => Len(call) = 3
    BY <1>2 DEF Answered
  <2> HIDE DEF call
  <2>3. Applied(call) \in RelayRecords
    <3>1. CASE call[1] = "endow"
      BY <2>0, <3>1 DEF Applied, RelayRecords
    <3>2. CASE call[1] = "register"
      BY <2>0, <2>1, <3>2 DEF Applied, RelayRecords
    <3>3. CASE call[1] = "hrmp_open"
      <4>1. <<call[2], call[3]>> \in Paras \X Paras
        BY <2>1, <2>2, <3>3
      <4>2. [relay EXCEPT !.channels = @ \cup {<<call[2], call[3]>>}] \in RelayRecords
        BY <2>0, <4>1 DEF RelayRecords
      <4> QED
        BY <2>0, <3>3, <4>2 DEF Applied
    <3>4. CASE call[1] = "endow_para"
      BY <2>0, <3>4 DEF Applied
    <3> QED
      BY <2>1, <3>1, <3>2, <3>3, <3>4
  <2> QED
    BY <2>3 DEF call
<1> QED
  BY <1>1, <1>2

\* One invocation moves on, having counted no node and made no call.
LEMMA CountStays ==
  ASSUME CountInv, NEW s \in Sessions, NEW place \in Places,
         pc' = [pc EXCEPT ![s] = place], UNCHANGED <<cmd, index, step>>,
         place \in {"opened", "working"} => pc[s] \in {"start", "opened"} /\ index[s] = 0,
         place # "start",
         place = "provision" => pc[s] = "start" /\ cmd[s] \in {"register", "hrmp"}
  PROVE  \A t \in Sessions : Counted(t)'
<1>1. Typed /\ Counted(s) /\ pc'[s] = place
  BY DEF CountInv, RemovalInv, LockInv, Typed
<1>2. Counted(s)'
  <2>1. place = "provision" => step[s] = 0 /\ step[s] < Len(Calls(cmd[s]))
    <3>1. Len(Calls("register")) = 3 /\ Len(Calls("hrmp")) = 2
      BY CallsOf
    <3>2. place = "provision" => step[s] = 0
      BY <1>1 DEF Counted
    <3>3. cmd[s] \in {"register", "hrmp"} => Len(Calls(cmd[s])) \in {2, 3}
      BY <3>1
    <3>4. \A n \in {2, 3} : 0 < n
      OBVIOUS
    <3> QED
      BY <3>2, <3>3, <3>4
  <2>2. place = "working" => 0 <= RelayNames + 1
    BY LauncherAssumption
  <2> QED
    BY <1>1, <2>1, <2>2 DEF Counted
<1>3. ASSUME NEW t \in Sessions \ {s}  PROVE Counted(t)'
  <2>1. pc'[t] = pc[t] /\ Counted(t)
    BY <1>1 DEF Typed, CountInv
  <2> QED
    BY <2>1 DEF Counted
<1> QED
  BY <1>2, <1>3

\* What CountInv says beyond the lock and its file.
CountTyped ==
  /\ index \in [Sessions -> Int] /\ step \in [Sessions -> Int]
  /\ \A s \in Sessions : Counted(s)
  /\ nodes \subseteq [session : Sessions, index : NodeIds]
  /\ dbs \subseteq NodeIds
  /\ RelayTyped

\* The lock, the trap and the ways out of a command.
LEMMA CountMoves ==
  ASSUME CountInv, NEW s \in Sessions,
         \/ Prepare(s) \/ Lock(s) \/ Trap(s)
         \/ Clean(s) \/ Abort(s) \/ ScriptDies(s)
         \/ StartUnlocked(s) \/ CallFails(s)
  PROVE  CountTyped'
<1>0. Typed /\ Entitled(s) /\ Unlocked(s) /\ Counted(s)
  BY DEF CountInv, RemovalInv, LockInv
<1>1. /\ UNCHANGED <<cmd, nodes, index, step>>
      /\ dbs' \subseteq NodeIds /\ relay' \in RelayRecords
  <2>1. CASE Clean(s)
    BY <2>1, RelayKept DEF Clean, CountInv, RelayTyped
  <2>2. CASE ~Clean(s)
    BY <2>2 DEF Prepare, Lock, Trap, TrapUnlock, TrapRelock, TrapRemove, Close, Abort,
                ScriptDies, StartUnlocked, CallFails, netVars, CountInv, RelayTyped
  <2> QED
    BY <2>1, <2>2
<1>2. \A t \in Sessions : Counted(t)'
  <2>1. CASE Prepare(s)
    BY <1>0, <1>1, <2>1, CountStays DEF Prepare, Goto, Entitled, Places
  <2>2. CASE Lock(s)
    BY <1>0, <1>1, <2>2, CountStays DEF Lock, Goto, Entitled, Places
  <2>3. CASE Trap(s)
    BY <1>0, <1>1, <2>3, CountStays
    DEF Trap, TrapUnlock, TrapRelock, TrapRemove, Close, Goto, Places
  <2>4. CASE Clean(s) \/ Abort(s) \/ ScriptDies(s) \/ CallFails(s)
    BY <1>0, <1>1, <2>4, CountStays DEF Clean, Abort, ScriptDies, CallFails, Goto, Places
  <2>5. CASE StartUnlocked(s)
    <3>1. cmd[s] \in {"register", "hrmp"}
      BY <1>0, <2>5, LauncherAssumption DEF StartUnlocked, Typed
    <3> QED
      BY <1>1, <2>5, <3>1, CountStays DEF StartUnlocked, Goto, Places
  <2> QED
    BY <2>1, <2>2, <2>3, <2>4, <2>5
<1> QED
  BY <1>1, <1>2 DEF CountTyped, CountInv, RelayTyped

\* The next node of a launch.
LEMMA CountNode ==
  ASSUME CountInv, NEW s \in Sessions, RunNode(s)
  PROVE  CountTyped'
<1>0. Typed /\ Entitled(s) /\ Unlocked(s) /\ Counted(s)
  BY DEF CountInv, RemovalInv, LockInv
<1>1. /\ pc[s] = "working" /\ cmd[s] # "clean"
      /\ nodes' = nodes \cup {[session |-> s, index |-> index[s]]}
      /\ dbs' = IF Persistent THEN dbs \cup {index[s]} ELSE dbs
      /\ index' = [index EXCEPT ![s] = index[s] + 1]
      /\ UNCHANGED <<cmd, step, relay>>
      /\ \/ index[s] < RelayNames + 1 /\ pc' = pc
         \/ index[s] >= RelayNames + 1 /\ cmd[s] = "run" /\ pc' = [pc EXCEPT ![s] = "wait"]
         \/ index[s] >= RelayNames + 1 /\ cmd[s] # "run" /\ pc' = [pc EXCEPT ![s] = "provision"]
  <2>1. index[s] < RelayNames + 1 \/ index[s] >= RelayNames + 1
    BY <1>0, LauncherAssumption DEF Typed
  <2> QED
    BY <2>1, <1>0, LauncherAssumption DEF RunNode, Goto, Typed
<1>2. index[s] \in NodeIds /\ index[s] \in Int /\ step[s] = 0
  BY <1>0, <1>1, LauncherAssumption DEF Counted, NodeIds
<1>3. nodes' \subseteq [session : Sessions, index : NodeIds] /\ dbs' \subseteq NodeIds
  BY <1>1, <1>2 DEF CountInv
<1>4. index' \in [Sessions -> Int] /\ step' \in [Sessions -> Int]
  BY <1>1, <1>2 DEF CountInv
<1>5. Counted(s)'
  <2>1. index'[s] = index[s] + 1 /\ step'[s] = 0
    BY <1>1, <1>2 DEF CountInv
  <2>2. index[s] + 1 \in 0 .. RelayNames + 2
    BY <1>2, LauncherAssumption DEF NodeIds
  <2>3. CASE pc' = pc
    <3>0. index[s] < RelayNames + 1
      BY <1>0, <1>1, <2>3 DEF Typed
    <3>1. index[s] + 1 <= RelayNames + 1
      BY <1>2, <3>0, LauncherAssumption
    <3> QED
      BY <1>0, <1>1, <2>1, <2>2, <2>3, <3>1 DEF Counted
  <2>4. CASE pc' = [pc EXCEPT ![s] = "wait"]
    <3>1. pc'[s] = "wait"
      BY <1>0, <2>4 DEF Typed
    <3> QED
      BY <2>1, <2>2, <3>1 DEF Counted
  <2>5. CASE cmd[s] # "run" /\ pc' = [pc EXCEPT ![s] = "provision"]
    <3>1. pc'[s] = "provision"
      BY <1>0, <2>5 DEF Typed
    <3>2. cmd'[s] = "run_full"
      BY <1>0, <1>1, <2>5 DEF Entitled, Locking
    <3>3. Len(Calls("run_full")) = 5
      BY CallsOf
    <3>4. step'[s] < Len(Calls(cmd'[s]))
      <4>1. 0 < Len(Calls("run_full"))
        BY <3>3
      <4> QED
        BY <2>1, <3>2, <4>1
    <3> QED
      BY <2>1, <2>2, <3>1, <3>4 DEF Counted
  <2> QED
    BY <1>1, <2>3, <2>4, <2>5
<1>6. ASSUME NEW t \in Sessions \ {s}  PROVE Counted(t)'
  <2>1. pc'[t] = pc[t] /\ index'[t] = index[t] /\ Counted(t)
    BY <1>0, <1>1 DEF Typed, CountInv
  <2> QED
    BY <1>1, <2>1 DEF Counted
<1> QED
  BY <1>1, <1>3, <1>4, <1>5, <1>6 DEF CountTyped, CountInv, RelayTyped

\* A call of register.py that is answered.
LEMMA CountCall ==
  ASSUME CountInv, NEW s \in Sessions, Call(s)
  PROVE  CountTyped'
<1>0. Typed /\ Unlocked(s) /\ Counted(s) /\ step \in [Sessions -> Int]
  BY DEF CountInv, RemovalInv, LockInv
<1>1. /\ pc[s] = "provision" /\ Answered(NextCall(s))
      /\ relay' = Applied(NextCall(s))
      /\ step' = [step EXCEPT ![s] = step[s] + 1]
      /\ UNCHANGED <<cmd, nodes, index, dbs>>
      /\ \/ step[s] + 1 < Len(Calls(cmd[s])) /\ pc' = pc
         \/ pc' = [pc EXCEPT ![s] = "wait"]
         \/ pc' = [pc EXCEPT ![s] = "done"]
  BY DEF Call, Goto
<1>2. cmd[s] \in {"run_full", "register", "hrmp"}
  BY <1>0, <1>1, LauncherAssumption DEF Typed, Unlocked, Locking
<1>3. Len(Calls(cmd[s])) \in 1 .. 5 /\ step[s] \in 0 .. 5 /\ step[s] < Len(Calls(cmd[s]))
  <2>1. Len(Calls("run_full")) = 5 /\ Len(Calls("register")) = 3 /\ Len(Calls("hrmp")) = 2
    BY CallsOf
  <2>2. Len(Calls(cmd[s])) \in 1 .. 5
    BY <1>2, <2>1
  <2> QED
    BY <1>0, <1>1, <2>2 DEF Counted
<1>4. step[s] + 1 \in 0 .. 5 /\ step[s] \in Nat
  <2>1. \A a \in 0 .. 5, b \in 1 .. 5 : a < b => a + 1 \in 0 .. 5 /\ a \in Nat
    OBVIOUS
  <2> QED
    BY <1>3, <2>1
<1>5. relay' \in RelayRecords
  BY <1>0, <1>1, <1>3, <1>4, RelayKept DEF CountInv, Typed
<1>6. step' \in [Sessions -> Int] /\ step'[s] = step[s] + 1
  BY <1>0, <1>1, <1>4
<1>7. Counted(s)'
  <2>1. pc'[s] \in {"wait", "done"} \/ (pc'[s] = "provision" /\ step[s] + 1 < Len(Calls(cmd[s])))
    BY <1>0, <1>1 DEF Typed
  <2> QED
    BY <1>0, <1>1, <1>4, <1>6, <2>1 DEF Counted
<1>8. ASSUME NEW t \in Sessions \ {s}  PROVE Counted(t)'
  <2>1. pc'[t] = pc[t] /\ step'[t] = step[t] /\ Counted(t)
    BY <1>0, <1>1 DEF Typed, CountInv
  <2> QED
    BY <1>1, <2>1 DEF Counted
<1> QED
  BY <1>1, <1>5, <1>6, <1>7, <1>8 DEF CountTyped, CountInv, RelayTyped

\* Every step keeps the invariant.
LEMMA CountStep ==
  ASSUME CountInv, [Next]_vars
  PROVE  CountInv'
<1>0. RemovalInv'
  BY RemovalStep DEF CountInv
<1> SUFFICES CountTyped'
  BY <1>0 DEF CountInv, CountTyped
<1>1. CASE UNCHANGED vars
  BY <1>1 DEF vars, CountInv, CountTyped, Counted, RelayTyped
<1>2. ASSUME NEW s \in Sessions, Session(s)  PROVE CountTyped'
  BY <1>2, CountMoves, CountNode, CountCall DEF Session
<1>3. ASSUME NEW n \in nodes, NodeEnds(n)  PROVE CountTyped'
  <2>1. /\ nodes' \subseteq nodes /\ relay' \in RelayRecords
        /\ UNCHANGED <<cmd, pc, index, dbs, step>>
    BY <1>3, RelayKept DEF NodeEnds, CountInv
  <2> QED
    BY <2>1 DEF CountInv, CountTyped, Counted, RelayTyped
<1>4. ASSUME NEW p \in Paras, Onboard(p)  PROVE CountTyped'
  <2>1. relay' \in RelayRecords /\ UNCHANGED <<cmd, pc, nodes, index, dbs, step>>
    BY <1>4 DEF Onboard, CountInv, RelayTyped, RelayRecords
  <2> QED
    BY <2>1 DEF CountInv, CountTyped, Counted, RelayTyped
<1> QED
  BY <1>1, <1>2, <1>3, <1>4 DEF Next

\* Every state of the launcher has its type: no launch counts past its two
\* collators (run_node), and no command makes a call it does not have.
THEOREM TypeCorrect == Spec => []TypeOK
<1>1. Init => CountInv
  <2> SUFFICES ASSUME Init  PROVE CountInv
    OBVIOUS
  <2>1. RemovalInv
    BY RemovalInit
  <2>2. \A s \in Sessions : Counted(s)
    BY LauncherAssumption DEF Init, Counted
  <2>3. RelayTyped
    BY DEF Init, RelayTyped, RelayRecords, FreshRelay
  <2> QED
    BY <2>1, <2>2, <2>3 DEF Init, CountInv
<1>2. CountInv /\ [Next]_vars => CountInv'
  BY CountStep
<1>3. CountInv => TypeOK
  <2> SUFFICES ASSUME CountInv  PROVE TypeOK
    OBVIOUS
  <2>1. index \in [Sessions -> 0 .. RelayNames + 2] /\ step \in [Sessions -> 0 .. 5]
    BY DEF CountInv, Counted
  <2> QED
    BY <2>1 DEF CountInv, RemovalInv, LockInv, Typed, TypeOK, RelayTyped, RelayRecords
<1> QED
  BY <1>1, <1>2, <1>3, PTL DEF Spec

=============================================================================
