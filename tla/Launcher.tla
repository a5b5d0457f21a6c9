------------------------------ MODULE Launcher ------------------------------
(***************************************************************************)
(* scripts/init.sh and scripts/config.sh: several invocations of the       *)
(* launcher on one machine, and the calls of scripts/register.py it makes. *)
(* A `run` or `run_full` starts the relay nodes and the two collators,     *)
(* `run_full` and `register` then set the relay chain up, `clean` deletes  *)
(* node databases.  run, run_full and clean exclude each other with flock  *)
(* on LOCKFILE, through file descriptor LOCKFD; register and hrmp do not.  *)
(*                                                                         *)
(* A lock belongs to an open file, not to a process or a path: it lives as *)
(* long as the script or one of the nodes, which inherit the descriptor,   *)
(* and a file that was removed and created again is another file (inode).  *)
(*                                                                         *)
(* The build at the top of the script is in Build.  Of a network that runs *)
(* only the relay chain's registrations are here; the relay chain itself   *)
(* is not in the repository.                                               *)
(***************************************************************************)
EXTENDS Integers, Sequences, FiniteSets, Functions

CONSTANTS Sessions, Commands,
          Inodes,      \* the files that LOCKFILE may name over time
          NoFile, Free,
          RelayNames,  \* the names run_chain's loop goes over, four in the code
          Validators,  \* VALIDATORS
          Persistent   \* PERSISTENT = 1

ClientPara == 100
ServicePara == 200
Paras == {ClientPara, ServicePara}

Locking == {"run", "run_full", "clean"}

ASSUME LauncherAssumption ==
  /\ Commands \subseteq Locking \cup {"register", "hrmp"}
  /\ NoFile \notin Inodes
  /\ Free \notin Sessions
  /\ RelayNames \in Nat \ {0} /\ Validators \in Nat \ {0}
  /\ Persistent \in BOOLEAN

VARIABLES
  cmd,    \* the command of each invocation
  pc,     \* where each invocation is
  file,   \* what LOCKFILE names
  fd,     \* what LOCKFD of each invocation, or of its nodes, is open on
  lock,   \* who holds the lock of each file
  nodes,  \* the nodes that run: [session, index]
  index,  \* node_index: how many nodes each invocation has started
  dbs,    \* the node databases in var/
  step,   \* how many calls of register.py each invocation has made
  relay   \* what those calls have achieved on the relay chain

vars == <<cmd, pc, file, fd, lock, nodes, index, dbs, step, relay>>

Places == {"start", "opened", "working", "provision", "wait",
           "trap", "relock", "remove", "close", "done", "stopped"}

\* A chain of which nothing has been asked yet.
FreshRelay == [endowed |-> {}, scheduled |-> {}, live |-> {}, channels |-> {}]

\* var/<node_id> of the nodes one launch starts.
NodeIds == 0 .. RelayNames + 1

TypeOK ==
  /\ cmd \in [Sessions -> Commands]
  /\ pc \in [Sessions -> Places]
  /\ file \in Inodes \cup {NoFile}
  /\ fd \in [Sessions -> Inodes \cup {NoFile}]
  /\ lock \in [Inodes -> Sessions \cup {Free}]
  /\ nodes \subseteq [session : Sessions, index : NodeIds]
  /\ index \in [Sessions -> 0 .. RelayNames + 2]
  /\ dbs \subseteq NodeIds
  /\ step \in [Sessions -> 0 .. 5]
  /\ relay \in [endowed : SUBSET Paras, scheduled : SUBSET Paras,
               live : SUBSET Paras, channels : SUBSET (Paras \X Paras)]

Init ==
  /\ cmd \in [Sessions -> Commands]
  /\ pc = [s \in Sessions |-> "start"]
  /\ file = NoFile
  /\ fd = [s \in Sessions |-> NoFile]
  /\ lock = [i \in Inodes |-> Free]
  /\ nodes = {}
  /\ index = [s \in Sessions |-> 0]
  /\ dbs = {}
  /\ step = [s \in Sessions |-> 0]
  /\ relay = FreshRelay

-----------------------------------------------------------------------------
(***************************************************************************)
(* The lock.                                                               *)
(***************************************************************************)
Goto(s, place) == pc' = [pc EXCEPT ![s] = place]

netVars == <<nodes, index, dbs, step, relay>>

NodesOf(s, ns) == {n \in ns : n.session = s}

\* The lock of s ends with the last process that has the file open.
Released(s) == [i \in Inodes |-> IF lock[i] = s THEN Free ELSE lock[i]]

\* _prepare_locking opens LOCKFILE, creating it when it is not there.
Prepare(s) ==
  /\ pc[s] = "start" /\ cmd[s] \in Locking
  /\ \E i \in Inodes :
       /\ IF file = NoFile THEN i \notin Range(fd) ELSE i = file
       /\ file' = i /\ fd' = [fd EXCEPT ![s] = i]
  /\ Goto(s, "opened")
  /\ UNCHANGED <<cmd, lock, netVars>>

\* _lock xn || exit 1
Lock(s) ==
  /\ pc[s] = "opened"
  /\ IF lock[fd[s]] = Free
       THEN lock' = [lock EXCEPT ![fd[s]] = s] /\ Goto(s, "working")
       ELSE UNCHANGED lock /\ Goto(s, "trap")
  /\ UNCHANGED <<cmd, file, fd, netVars>>

\* _no_more_locking, the EXIT trap: unlock, lock again, remove, exit.
TrapUnlock(s) ==
  /\ pc[s] = "trap"
  /\ lock' = Released(s)
  /\ Goto(s, "relock")
  /\ UNCHANGED <<cmd, file, fd, netVars>>

TrapRelock(s) ==
  /\ pc[s] = "relock"
  /\ IF lock[fd[s]] = Free
       THEN lock' = [lock EXCEPT ![fd[s]] = s] /\ Goto(s, "remove")
       ELSE UNCHANGED lock /\ Goto(s, "close")
  /\ UNCHANGED <<cmd, file, fd, netVars>>

\* Variant: the file is looked after by whoever finds the lock taken.
TrapRemoveNothing(s) ==
  /\ pc[s] = "remove"
  /\ Goto(s, "close")
  /\ UNCHANGED <<cmd, file, fd, lock, netVars>>

\* rm -f removes whatever LOCKFILE names by now.
TrapRemove(s) ==
  /\ pc[s] = "remove"
  /\ file' = NoFile
  /\ Goto(s, "close")
  /\ UNCHANGED <<cmd, fd, lock, netVars>>

Close(s) ==
  /\ pc[s] = "close"
  /\ fd' = [fd EXCEPT ![s] = NoFile]
  /\ lock' = Released(s)
  /\ Goto(s, "done")
  /\ UNCHANGED <<cmd, file, netVars>>

-----------------------------------------------------------------------------
(***************************************************************************)
(* The commands that hold it.                                              *)
(***************************************************************************)

\* The state of a chain is lost with its last node, unless it is on disk.
RelayLeft(ns, ds) ==
  IF (\E n \in ns : n.index < RelayNames) \/ ds \cap (0 .. RelayNames - 1) # {}
    THEN relay ELSE FreshRelay

\* clean: `seq 1 $VALIDATORS`.
Clean(s) ==
  /\ pc[s] = "working" /\ cmd[s] = "clean"
  /\ dbs' = dbs \ (1 .. Validators)
  /\ relay' = RelayLeft(nodes, dbs')
  /\ Goto(s, "trap")
  /\ UNCHANGED <<cmd, file, fd, lock, nodes, index, step>>

\* Ctrl+C at the prompt of run_chain, or an export of the genesis that fails.
Abort(s) ==
  /\ pc[s] = "working" /\ cmd[s] # "clean" /\ index[s] = 0
  /\ Goto(s, "trap")
  /\ UNCHANGED <<cmd, file, fd, lock, netVars>>

\* Variant: the loop over the names starts over instead of ending.
RunNodeAgain(s) ==
  /\ pc[s] = "working" /\ cmd[s] # "clean"
  /\ nodes' = nodes \cup {[session |-> s, index |-> index[s]]}
  /\ index' = [index EXCEPT ![s] = index[s] + 1]
  /\ UNCHANGED <<cmd, pc, file, fd, lock, dbs, step, relay>>

\* run_node: the loop of run_chain goes over all the names, since `((i+1))`
\* leaves i at 0; then come the two collators.  From here on the EXIT trap
\* is cleanup.
RunNode(s) ==
  /\ pc[s] = "working" /\ cmd[s] # "clean"
  /\ nodes' = nodes \cup {[session |-> s, index |-> index[s]]}
  /\ dbs' = IF Persistent THEN dbs \cup {index[s]} ELSE dbs
  /\ index' = [index EXCEPT ![s] = index[s] + 1]
  /\ IF index[s] < RelayNames + 1 THEN UNCHANGED pc
     ELSE Goto(s, IF cmd[s] = "run" THEN "wait" ELSE "provision")
  /\ UNCHANGED <<cmd, file, fd, lock, step, relay>>

\* Variant: nodes that are started with LOCKFD closed.
NodeEndsUnlocked(n) ==
  /\ n \in nodes
  /\ nodes' = nodes \ {n}
  /\ lock' = Released(n.session)
  /\ relay' = RelayLeft(nodes', dbs)
  /\ UNCHANGED <<cmd, pc, file, fd, index, dbs, step>>

\* A node ends, on a signal or by itself.
NodeEnds(n) ==
  LET s == n.session
      last == pc[s] = "stopped" /\ NodesOf(s, nodes) = {n}
  IN  /\ n \in nodes
      /\ nodes' = nodes \ {n}
      /\ IF last THEN lock' = Released(s) /\ fd' = [fd EXCEPT ![s] = NoFile]
         ELSE UNCHANGED <<lock, fd>>
      /\ relay' = RelayLeft(nodes', dbs)
      /\ UNCHANGED <<cmd, pc, file, index, dbs, step>>

\* The script dies without _no_more_locking: killed, or by the `pkill -g $$`
\* with which cleanup signals its own process group, script included.
ScriptDies(s) ==
  /\ pc[s] \notin {"start", "done", "stopped"}
  /\ Goto(s, "stopped")
  /\ IF NodesOf(s, nodes) = {}
       THEN lock' = Released(s) /\ fd' = [fd EXCEPT ![s] = NoFile]
       ELSE UNCHANGED <<lock, fd>>
  /\ UNCHANGED <<cmd, file, netVars>>

-----------------------------------------------------------------------------
(***************************************************************************)
(* The calls of register.py.  What an extrinsic came to is not looked at;  *)
(* a node that does not answer, or an exit code, ends the script (set -e). *)
(***************************************************************************)
StartUnlocked(s) ==
  /\ pc[s] = "start" /\ cmd[s] \notin Locking
  /\ Goto(s, "provision")
  /\ UNCHANGED <<cmd, file, fd, lock, netVars>>

Channel == <<"hrmp_open", ClientPara, ServicePara>>
ChannelBack == <<"hrmp_open", ServicePara, ClientPara>>

RegisterParachain ==
  << <<"endow">>, <<"register", ClientPara>>, <<"register", ServicePara>> >>

\* The hrmp command passes no --paraid to hrmp_open, whose default is [100].
Calls(c) ==
  CASE c = "run_full" -> RegisterParachain \o <<Channel, ChannelBack>>
    [] c = "register" -> RegisterParachain
    [] c = "hrmp" -> << <<"endow_para">>, <<"hrmp_open", ClientPara>> >>
    [] OTHER -> <<>>

NextCall(s) == Calls(cmd[s])[step[s] + 1]

\* The node a call connects to: --ws_url less the ports in front of it.
Target(call) == IF call[1] = "endow_para" THEN Validators + 1 ELSE 0

Answered(call) ==
  /\ \E n \in nodes : n.index = Target(call)
  /\ call[1] = "hrmp_open" => Len(call) = 3

\* What the relay chain makes of a call: a channel needs two parachains that
\* are live and a deposit.
Applied(call) ==
  CASE call[1] = "endow" -> [relay EXCEPT !.endowed = Paras]
    [] call[1] = "register" -> [relay EXCEPT !.scheduled = @ \cup {call[2]}]
    [] call[1] = "hrmp_open" ->
         IF {call[2], call[3]} \subseteq relay.live /\ call[2] \in relay.endowed
           THEN [relay EXCEPT !.channels = @ \cup {<<call[2], call[3]>>}]
           ELSE relay
    [] OTHER -> relay

Call(s) ==
  /\ pc[s] = "provision"
  /\ Answered(NextCall(s))
  /\ relay' = Applied(NextCall(s))
  /\ step' = [step EXCEPT ![s] = step[s] + 1]
  /\ IF step[s] + 1 < Len(Calls(cmd[s])) THEN UNCHANGED pc
     ELSE Goto(s, IF cmd[s] = "run_full" THEN "wait" ELSE "done")
  /\ UNCHANGED <<cmd, file, fd, lock, nodes, index, dbs>>

\* register and hrmp have no trap; run_full dies in its own cleanup.
CallFails(s) ==
  /\ pc[s] = "provision" /\ cmd[s] \notin Locking
  /\ ~Answered(NextCall(s))
  /\ Goto(s, "done")
  /\ UNCHANGED <<cmd, file, fd, lock, netVars>>

\* A scheduled parachain becomes one at a change of session.
Onboard(p) ==
  /\ p \in relay.scheduled \ relay.live
  /\ \E n \in nodes : n.index < RelayNames
  /\ relay' = [relay EXCEPT !.live = @ \cup {p}]
  /\ UNCHANGED <<cmd, pc, file, fd, lock, nodes, index, dbs, step>>

Trap(s) == TrapUnlock(s) \/ TrapRelock(s) \/ TrapRemove(s) \/ Close(s)

Session(s) ==
  \/ Prepare(s) \/ Lock(s) \/ Trap(s)
  \/ Clean(s) \/ Abort(s) \/ RunNode(s) \/ ScriptDies(s)
  \/ StartUnlocked(s) \/ Call(s) \/ CallFails(s)

Next ==
  \/ \E s \in Sessions : Session(s)
  \/ \E n \in nodes : NodeEnds(n)
  \/ \E p \in Paras : Onboard(p)

Spec == Init /\ [][Next]_vars

-----------------------------------------------------------------------------
(***************************************************************************)
(* What the lock promises.                                                 *)
(***************************************************************************)

\* An invocation that owns the network: it works under the lock, or nodes it
\* started still run, be the script itself alive or not.
Active(s) ==
  \/ pc[s] \in {"working", "provision", "wait"} /\ cmd[s] \in Locking
  \/ NodesOf(s, nodes) # {}

\* On one lock file, no launch and no clean ever overlaps a network that
\* still has a node, not even one whose script was killed (_lock, run_node).
ExclusivePerFile ==
  \A s, t \in Sessions : Active(s) /\ Active(t) /\ fd[s] = fd[t] => s = t

\* Whichever way ends and attempts interleave, the last invocation that gets
\* to finish its EXIT trap leaves no lock file behind (_no_more_locking).
LockFileRemoved ==
  (\A s \in Sessions : pc[s] = "done") => file = NoFile

\* config.sh, "exclusive": there is at most one owner of the network.
Exclusive == \A s, t \in Sessions : Active(s) /\ Active(t) => s = t

=============================================================================
