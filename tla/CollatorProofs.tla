--------------------------- MODULE CollatorProofs ---------------------------
(***************************************************************************)
(* A node of the collator binary runs on the genesis of its own            *)
(* specification, for the parachain in it, when its directory has served   *)
(* nothing else since it was purged: for any number of processes, builds,  *)
(* parachain ids and relay chain arguments.                                *)
(*                                                                         *)
(* The invariant ties three things together: a directory that served one   *)
(* genesis holds that genesis, an open database is the one in the          *)
(* directory, and a node's record is what its arguments make it.           *)
(***************************************************************************)
EXTENDS Collator, TLAPS

NodeSteps == {"configured", "partial", "running"}

Bases == {"polkadot"} \cup {relay.base : relay \in RelayArgs}

Chains == {"rococo-dev", "rococo-local"} \cup {relay.chain : relay \in RelayArgs}

Paths == [base : Bases, chain : Chains]

NodeRecord ==
  [step : NodeSteps, chain : ChainArgs, pid : ParaIds \cup {None},
   spec : ChainSpec, id : Nat, dir : ChainIds, open : BOOLEAN,
   genesis : Genesis \cup {None}, relayDir : Paths, relayOpen : BOOLEAN]

OfflineRecord ==
  [step : {"offline"}, dir : ChainIds, open : BOOLEAN, genesis : Genesis,
   relayDir : {None}, relayOpen : BOOLEAN]

Typed ==
  /\ file \in ChainSpec \cup {None}
  /\ db \in [ChainIds -> Genesis \cup {None}]
  /\ used \in [ChainIds -> Genesis \cup {None, Several}]
  /\ proc \in [Processes -> NodeRecord \cup OfflineRecord \cup {Idle}]

\* A directory holds what it served, if that was one genesis.
Served(c) ==
  /\ used[c] = None => db[c] = None
  /\ used[c] \in Genesis => db[c] = used[c]

\* An open database is the one in the directory.
Attached(r) == r.open => r.genesis = db[r.dir]

\* A node's record follows from its arguments.
Configured(r) ==
  /\ r.dir = r.spec.id
  /\ r.id = ParaId(r.spec, r.pid)
  /\ r.chain # "file" /\ r.pid # None => r.spec.genesis.para = r.pid

CollatorInv ==
  /\ Typed
  /\ \A c \in ChainIds : Served(c)
  /\ \A p \in Busy : Attached(proc[p])
  /\ \A p \in Busy : proc[p].step \in NodeSteps => Configured(proc[p])

-----------------------------------------------------------------------------
\* A specification that loads is one, and is for the parachain asked for
\* unless it comes from a file.
LEMMA SpecLoads ==
  ASSUME Typed, NEW code \in Codes, NEW chain \in ChainArgs,
         NEW pid \in ParaIds \cup {None}, Loads(chain)
  PROVE  /\ CliSpec(code, chain, pid) \in ChainSpec
         /\ chain # "file" /\ pid # None =>
              CliSpec(code, chain, pid).genesis.para = pid
<1>1. OrElse(pid, DefaultPara) \in ParaIds \cup {DefaultPara}
  BY DEF OrElse
<1>2. CASE chain = "dev"
  <2>1. CliSpec(code, chain, pid) = development_config(code, OrElse(pid, DefaultPara))
    BY <1>2 DEF CliSpec, LoadSpec
  <2> QED
    BY <1>1, <2>1 DEF development_config, ChainSpec, ChainIds, Genesis, OrElse
<1>3. CASE chain = "local"
  <2>1. CliSpec(code, chain, pid) = local_testnet_config(code, OrElse(pid, DefaultPara))
    BY <1>3 DEF CliSpec, LoadSpec
  <2> QED
    BY <1>1, <2>1 DEF local_testnet_config, ChainSpec, ChainIds, Genesis, OrElse
<1>4. CASE chain = "file"
  BY <1>4 DEF CliSpec, LoadSpec, Loads, Typed
<1> QED
  BY <1>2, <1>3, <1>4 DEF ChainArgs

\* A database that was opened holds a genesis, and its directory is accounted
\* for: the heart of OwnGenesis.
LEMMA OpenServes ==
  ASSUME Typed, \A c \in ChainIds : Served(c),
         NEW spec \in ChainSpec, NewPartial(spec)
  PROVE  /\ db' \in [ChainIds -> Genesis \cup {None}]
         /\ used' \in [ChainIds -> Genesis \cup {None, Several}]
         /\ \A c \in ChainIds : Served(c)'
         /\ Opened(spec) \in Genesis /\ db'[spec.id] = Opened(spec)
         /\ \A c \in ChainIds \ {spec.id} : db'[c] = db[c]
<1>1. spec.id \in ChainIds /\ spec.genesis \in Genesis
  BY DEF ChainSpec
<1>2. Opened(spec) \in Genesis
  BY <1>1 DEF Opened, Typed
<1>3. db' = [db EXCEPT ![spec.id] = Opened(spec)]
  BY DEF NewPartial
<1>4. used' = [used EXCEPT ![spec.id] =
                IF used[spec.id] \in {None, spec.genesis} THEN spec.genesis ELSE Several]
  BY DEF NewPartial, UsedFor
<1>5. Served(spec.id)'
  <2>1. CASE used[spec.id] = None
    BY <1>1, <1>3, <1>4, <2>1, MarkersAssumption DEF Served, Opened, Typed
  <2>2. CASE used[spec.id] = spec.genesis
    BY <1>1, <1>3, <1>4, <2>2, MarkersAssumption DEF Served, Opened, Typed
  <2>3. CASE used[spec.id] \notin {None, spec.genesis}
    BY <1>1, <1>3, <1>4, <2>3, MarkersAssumption DEF Served, Typed
  <2> QED
    BY <2>1, <2>2, <2>3
<1>6. ASSUME NEW c \in ChainIds \ {spec.id}
      PROVE  Served(c)'
  BY <1>1, <1>3, <1>4, <1>6 DEF Served, Typed
<1> QED
  BY <1>1, <1>2, <1>3, <1>4, <1>5, <1>6 DEF Typed

\* Opening a database disturbs no process that has one open.
LEMMA OpenAttached ==
  ASSUME CollatorInv, NEW spec \in ChainSpec, NewPartial(spec),
         NEW p \in Busy
  PROVE  proc[p].open => proc[p].genesis = db'[proc[p].dir]
<1>1. proc[p].open => proc[p].dir \in Held
  BY DEF Held
<1>2. proc[p].dir \in ChainIds
  BY DEF CollatorInv, Typed, Busy, NodeRecord, OfflineRecord
<1>3. proc[p].open => proc[p].dir # spec.id
  BY <1>1 DEF NewPartial
<1> QED
  BY <1>2, <1>3, OpenServes DEF CollatorInv, Attached

-----------------------------------------------------------------------------
\* When one process turns to r, the others keep the databases they have open
\* and r accounts for its own, the invariant is kept.
LEMMA OneTurns ==
  ASSUME CollatorInv, NEW p \in Processes,
         NEW r \in NodeRecord \cup OfflineRecord \cup {Idle},
         proc' = [proc EXCEPT ![p] = r],
         file' \in ChainSpec \cup {None},
         db' \in [ChainIds -> Genesis \cup {None}],
         used' \in [ChainIds -> Genesis \cup {None, Several}],
         \A c \in ChainIds : Served(c)',
         \A q \in Busy \ {p} : proc[q].open => proc[q].genesis = db'[proc[q].dir],
         r # Idle /\ r.open => r.genesis = db'[r.dir],
         r # Idle /\ r.step \in NodeSteps => Configured(r)
  PROVE  CollatorInv'
<1>1. \A q \in Processes : proc'[q] = IF q = p THEN r ELSE proc[q]
  BY DEF CollatorInv, Typed
<1>2. Typed'
  BY <1>1 DEF CollatorInv, Typed
<1>3. ASSUME NEW q \in Busy'
      PROVE  /\ Attached(proc[q])'
             /\ proc'[q].step \in NodeSteps => Configured(proc[q])'
  <2>1. q \in Processes /\ proc'[q] # Idle
    BY <1>3 DEF Busy
  <2>2. CASE q = p
    <3>1. proc'[q] = r /\ r # Idle
      BY <1>1, <2>1, <2>2
    <3> QED
      BY <3>1 DEF Attached, Configured
  <2>3. CASE q # p
    <3>1. proc'[q] = proc[q] /\ q \in Busy \ {p}
      BY <1>1, <2>1, <2>3 DEF Busy
    <3>2. proc[q].step \in NodeSteps => Configured(proc[q])
      BY <3>1 DEF CollatorInv
    <3> QED
      BY <3>1, <3>2 DEF Attached, Configured
  <2> QED
    BY <2>2, <2>3
<1> QED
  BY <1>2, <1>3 DEF CollatorInv

\* Nothing is open, and no directory was used, at the start.
LEMMA InitHolds == Init => CollatorInv
<1> SUFFICES ASSUME Init PROVE CollatorInv
  OBVIOUS
<1>1. Typed
  BY DEF Init, Typed
<1>2. \A c \in ChainIds : Served(c)
  BY MarkersAssumption DEF Init, Served
<1>3. Busy = {}
  BY DEF Init, Busy
<1> QED
  BY <1>1, <1>2, <1>3 DEF CollatorInv

\* A new specification file is nobody's database.
LEMMA BuildSpecKeeps ==
  ASSUME CollatorInv, NEW code \in Codes, NEW chain \in ChainArgs,
         BuildSpec(code, chain)
  PROVE  CollatorInv'
<1>1. file' \in ChainSpec
  BY SpecLoads DEF BuildSpec, CollatorInv
<1> QED
  BY <1>1 DEF BuildSpec, CollatorInv, Typed, Served, Attached, Configured, Busy

\* A subcommand opens the database as a node would.
LEMMA OfflineKeeps ==
  ASSUME CollatorInv, NEW p \in Processes,
         NEW code \in Codes, NEW chain \in ChainArgs,
         Offline(p, code, chain)
  PROVE  CollatorInv'
<1> DEFINE spec == CliSpec(code, chain, None)
           r == [step |-> "offline", dir |-> spec.id, open |-> TRUE,
                 genesis |-> Opened(spec), relayDir |-> None, relayOpen |-> FALSE]
<1>1. spec \in ChainSpec
  BY SpecLoads DEF Offline, CollatorInv
<1>2. NewPartial(spec) /\ proc' = [proc EXCEPT ![p] = r] /\ file' = file
  BY DEF Offline
<1>3. /\ db' \in [ChainIds -> Genesis \cup {None}]
      /\ used' \in [ChainIds -> Genesis \cup {None, Several}]
      /\ \A c \in ChainIds : Served(c)'
      /\ Opened(spec) \in Genesis /\ db'[spec.id] = Opened(spec)
  BY <1>1, <1>2, OpenServes DEF CollatorInv
<1>4. \A q \in Busy \ {p} : proc[q].open => proc[q].genesis = db'[proc[q].dir]
  BY <1>1, <1>2, OpenAttached
<1> HIDE DEF spec
<1>5. r \in OfflineRecord
  BY <1>1, <1>3 DEF OfflineRecord, ChainSpec
<1>6. r.genesis = db'[r.dir] /\ r.step \notin NodeSteps
  BY <1>3 DEF NodeSteps
<1>7. file' \in ChainSpec \cup {None}
  BY <1>2 DEF CollatorInv, Typed
<1> HIDE DEF r
<1> QED
  BY <1>2, <1>3, <1>4, <1>5, <1>6, <1>7, OneTurns

\* What a node is configured for follows from its arguments.
LEMMA ConfigureKeeps ==
  ASSUME CollatorInv, NEW p \in Processes,
         NEW code \in Codes, NEW chain \in ChainArgs,
         NEW pid \in ParaIds \cup {None}, NEW relay \in RelayArgs,
         Configure(p, code, chain, pid, relay)
  PROVE  CollatorInv'
<1> DEFINE spec == CliSpec(code, chain, pid)
           r == [step |-> "configured", chain |-> chain, pid |-> pid,
                 spec |-> spec, id |-> ParaId(spec, pid),
                 dir |-> spec.id, open |-> FALSE, genesis |-> None,
                 relayDir |-> RelayPath(spec, relay), relayOpen |-> FALSE]
<1>1. /\ spec \in ChainSpec
      /\ chain # "file" /\ pid # None => spec.genesis.para = pid
  BY SpecLoads DEF Configure, CollatorInv
<1>2. /\ proc' = [proc EXCEPT ![p] = r]
      /\ UNCHANGED <<file, db, relayDb, used>>
  BY DEF Configure
<1> HIDE DEF spec
<1>3. RelayPath(spec, relay) \in Paths
  <2>1. spec.relay \in {"rococo-dev", "rococo-local"}
    BY <1>1 DEF ChainSpec
  <2> QED
    BY <2>1 DEF RelayPath, OrElse, Paths, Bases, Chains
<1>4. ParaId(spec, pid) \in Nat
  <2>1. spec.genesis.para \in ParaIds \/ spec.genesis.para = 200
    BY <1>1 DEF ChainSpec, Genesis, DefaultPara
  <2>2. spec.genesis.para \in Nat
    <3>1. CASE spec.genesis.para \in ParaIds
      BY <3>1, CollatorAssumption
    <3>2. CASE spec.genesis.para = 200
      BY <3>2
    <3> QED
      BY <2>1, <3>1, <3>2
  <2>3. pid = None \/ pid \in Nat
    BY CollatorAssumption
  <2> QED
    BY <2>2, <2>3 DEF ParaId, OrElse
<1>5. r \in NodeRecord
  BY <1>1, <1>3, <1>4 DEF NodeRecord, NodeSteps, ChainSpec
<1>6. Configured(r) /\ ~r.open
  BY <1>1 DEF Configured
<1>7. /\ file' \in ChainSpec \cup {None}
      /\ db' \in [ChainIds -> Genesis \cup {None}]
      /\ used' \in [ChainIds -> Genesis \cup {None, Several}]
      /\ \A c \in ChainIds : Served(c)'
      /\ \A q \in Busy \ {p} : proc[q].open => proc[q].genesis = db'[proc[q].dir]
  BY <1>2 DEF CollatorInv, Typed, Served, Attached
<1> HIDE DEF r
<1> QED
  BY <1>2, <1>5, <1>6, <1>7, OneTurns

\* The steps of a start keep the record of the node but for what they open.
LEMMA OpenDatabaseKeeps ==
  ASSUME CollatorInv, NEW p \in Processes, OpenDatabase(p)
  PROVE  CollatorInv'
<1> DEFINE spec == proc[p].spec
           r == [proc[p] EXCEPT !.step = "partial", !.open = TRUE,
                                !.genesis = Opened(spec)]
<1>1. proc[p] \in NodeRecord /\ p \in Busy /\ Configured(proc[p])
  BY DEF OpenDatabase, CollatorInv, Typed, OfflineRecord, Idle, Busy, NodeSteps
<1>2. spec \in ChainSpec
  BY <1>1 DEF NodeRecord
<1>3. NewPartial(spec) /\ file' = file
  BY DEF OpenDatabase
<1>4. proc' = [proc EXCEPT ![p] = r]
  BY <1>1 DEF OpenDatabase, CollatorInv, Typed
<1>5. /\ db' \in [ChainIds -> Genesis \cup {None}]
      /\ used' \in [ChainIds -> Genesis \cup {None, Several}]
      /\ \A c \in ChainIds : Served(c)'
      /\ Opened(spec) \in Genesis /\ db'[spec.id] = Opened(spec)
  BY <1>2, <1>3, OpenServes DEF CollatorInv
<1>6. \A q \in Busy \ {p} : proc[q].open => proc[q].genesis = db'[proc[q].dir]
  BY <1>2, <1>3, OpenAttached
<1>7. r \in NodeRecord
  BY <1>1, <1>5 DEF NodeRecord, NodeSteps
<1>8. /\ r.dir = proc[p].dir /\ r.spec = spec /\ r.id = proc[p].id
      /\ r.pid = proc[p].pid /\ r.chain = proc[p].chain
      /\ r.genesis = Opened(spec)
  BY <1>1 DEF NodeRecord
<1>9. Configured(r) /\ r.genesis = db'[r.dir]
  BY <1>1, <1>5, <1>8 DEF Configured
<1>10. file' \in ChainSpec \cup {None}
  BY <1>3 DEF CollatorInv, Typed
<1> HIDE DEF r, spec
<1> QED
  BY <1>4, <1>5, <1>6, <1>7, <1>9, <1>10, OneTurns

\* The relay chain part opens a database of its own.
LEMMA JoinRelayChainKeeps ==
  ASSUME CollatorInv, NEW p \in Processes, JoinRelayChain(p)
  PROVE  CollatorInv'
<1> DEFINE r == [proc[p] EXCEPT !.step = "running", !.relayOpen = TRUE]
<1>1. proc[p] \in NodeRecord /\ p \in Busy /\ Configured(proc[p])
  BY DEF JoinRelayChain, CollatorInv, Typed, OfflineRecord, Idle, Busy, NodeSteps
<1>2. proc' = [proc EXCEPT ![p] = r] /\ UNCHANGED <<file, db, used>>
  BY <1>1 DEF JoinRelayChain, CollatorInv, Typed
<1>3. r \in NodeRecord
  BY <1>1 DEF NodeRecord, NodeSteps
<1>4. /\ r.dir = proc[p].dir /\ r.spec = proc[p].spec /\ r.id = proc[p].id
      /\ r.pid = proc[p].pid /\ r.chain = proc[p].chain
      /\ r.genesis = proc[p].genesis /\ r.open = proc[p].open
  BY <1>1 DEF NodeRecord
<1>5. Configured(r) /\ (r.open => r.genesis = db'[r.dir])
  BY <1>1, <1>2, <1>4 DEF Configured, CollatorInv, Attached
<1>6. /\ file' \in ChainSpec \cup {None}
      /\ db' \in [ChainIds -> Genesis \cup {None}]
      /\ used' \in [ChainIds -> Genesis \cup {None, Several}]
      /\ \A c \in ChainIds : Served(c)'
      /\ \A q \in Busy \ {p} : proc[q].open => proc[q].genesis = db'[proc[q].dir]
  BY <1>2 DEF CollatorInv, Typed, Served, Attached
<1> HIDE DEF r
<1> QED
  BY <1>2, <1>3, <1>5, <1>6, OneTurns

\* A process that ends closes what it had open.
LEMMA ExitKeeps ==
  ASSUME CollatorInv, NEW p \in Processes, Exit(p)
  PROVE  CollatorInv'
<1>1. proc' = [proc EXCEPT ![p] = Idle] /\ UNCHANGED <<file, db, used>>
  BY DEF Exit
<1>2. /\ file' \in ChainSpec \cup {None}
      /\ db' \in [ChainIds -> Genesis \cup {None}]
      /\ used' \in [ChainIds -> Genesis \cup {None, Several}]
      /\ \A c \in ChainIds : Served(c)'
      /\ \A q \in Busy \ {p} : proc[q].open => proc[q].genesis = db'[proc[q].dir]
  BY <1>1 DEF CollatorInv, Typed, Served, Attached
<1> QED
  BY <1>1, <1>2, OneTurns

\* A purge takes the directory from every process that has it open: what it
\* goes on with is no longer the database of that name.
LEMMA PurgeChainKeeps ==
  ASSUME CollatorInv, NEW code \in Codes, NEW chain \in ChainArgs,
         NEW relay \in RelayArgs, PurgeChain(code, chain, relay)
  PROVE  CollatorInv'
<1> DEFINE spec == CliSpec(code, chain, None)
           path == RelayPath(spec, relay)
           left(q) == [proc[q] EXCEPT
                         !.open = proc[q].open /\ proc[q].dir # spec.id,
                         !.relayOpen = proc[q].relayOpen /\ proc[q].relayDir # path]
<1>1. spec \in ChainSpec
  BY SpecLoads DEF PurgeChain, CollatorInv
<1>2. /\ db' = [db EXCEPT ![spec.id] = None] /\ file' = file
      /\ used' = [used EXCEPT ![spec.id] = None]
      /\ proc' = [q \in Processes |-> IF q \notin Busy THEN Idle ELSE left(q)]
  BY DEF PurgeChain, Purged
<1> HIDE DEF spec, path
<1>3. spec.id \in ChainIds
  BY <1>1 DEF ChainSpec
<1>4. ASSUME NEW c \in ChainIds
      PROVE  Served(c)'
  <2>1. CASE c = spec.id
    BY <1>2, <1>3, <2>1, MarkersAssumption DEF Served, CollatorInv, Typed
  <2>2. CASE c # spec.id
    BY <1>2, <1>3, <2>2 DEF Served, CollatorInv, Typed
  <2> QED
    BY <2>1, <2>2
<1>5. ASSUME NEW q \in Busy
      PROVE  /\ left(q) \in NodeRecord \cup OfflineRecord
             /\ left(q).step = proc[q].step /\ left(q).dir = proc[q].dir
             /\ left(q).genesis = proc[q].genesis
             /\ left(q).open <=> proc[q].open /\ proc[q].dir # spec.id
             /\ Configured(proc[q]) /\ proc[q].step \in NodeSteps
                  => Configured(left(q))
  <2>1. proc[q] \in NodeRecord \cup OfflineRecord
    BY <1>5 DEF CollatorInv, Typed, Busy
  <2>2. CASE proc[q] \in NodeRecord
    <3>1. /\ left(q) \in NodeRecord
          /\ left(q).step = proc[q].step /\ left(q).dir = proc[q].dir
          /\ left(q).genesis = proc[q].genesis
          /\ left(q).open = (proc[q].open /\ proc[q].dir # spec.id)
      BY <2>2 DEF NodeRecord
    <3>2. /\ left(q).spec = proc[q].spec /\ left(q).id = proc[q].id
          /\ left(q).pid = proc[q].pid /\ left(q).chain = proc[q].chain
      BY <2>2 DEF NodeRecord
    <3> HIDE DEF left
    <3> QED
      BY <3>1, <3>2 DEF Configured
  <2>3. CASE proc[q] \in OfflineRecord
    <3>1. proc[q].step \notin NodeSteps
      BY <2>3 DEF OfflineRecord, NodeSteps
    <3>2. /\ left(q) \in OfflineRecord
          /\ left(q).step = proc[q].step /\ left(q).dir = proc[q].dir
          /\ left(q).genesis = proc[q].genesis
          /\ left(q).open = (proc[q].open /\ proc[q].dir # spec.id)
      BY <2>3 DEF OfflineRecord
    <3> QED
      BY <3>1, <3>2
  <2> QED
    BY <2>1, <2>2, <2>3
<1> HIDE DEF left
<1>6. Typed'
  <2>1. proc' \in [Processes -> NodeRecord \cup OfflineRecord \cup {Idle}]
    BY <1>2, <1>5
  <2> QED
    BY <1>2, <1>3, <2>1 DEF CollatorInv, Typed
<1>7. ASSUME NEW q \in Busy'
      PROVE  /\ Attached(proc[q])'
             /\ proc'[q].step \in NodeSteps => Configured(proc[q])'
  <2>1. q \in Busy /\ proc'[q] = left(q)
    BY <1>2, <1>7 DEF Busy
  <2>2. proc[q].dir \in ChainIds
    BY <2>1 DEF CollatorInv, Typed, Busy, NodeRecord, OfflineRecord
  <2>3. proc[q].dir # spec.id => db'[proc[q].dir] = db[proc[q].dir]
    BY <1>2, <1>3, <2>2 DEF CollatorInv, Typed
  <2>4. Attached(proc[q])'
    BY <1>5, <2>1, <2>3 DEF CollatorInv, Attached
  <2>5. proc[q].step \in NodeSteps => Configured(left(q))
    BY <1>5, <2>1 DEF CollatorInv
  <2> QED
    BY <1>5, <2>1, <2>4, <2>5 DEF Configured
<1> QED
  BY <1>4, <1>6, <1>7 DEF CollatorInv

-----------------------------------------------------------------------------
\* The invariant of every behaviour of the collator's processes.
THEOREM CollatorInvariant == Spec => []CollatorInv
<1>1. CollatorInv /\ [Next]_vars => CollatorInv'
  <2> SUFFICES ASSUME CollatorInv, [Next]_vars PROVE CollatorInv'
    OBVIOUS
  <2>1. ASSUME NEW code \in Codes, NEW chain \in ChainArgs, BuildSpec(code, chain)
        PROVE  CollatorInv'
    BY <2>1, BuildSpecKeeps
  <2>2. ASSUME NEW code \in Codes, NEW chain \in ChainArgs, NEW p \in Processes,
               Offline(p, code, chain)
        PROVE  CollatorInv'
    BY <2>2, OfflineKeeps
  <2>3. ASSUME NEW code \in Codes, NEW chain \in ChainArgs, NEW relay \in RelayArgs,
               PurgeChain(code, chain, relay)
        PROVE  CollatorInv'
    BY <2>3, PurgeChainKeeps
  <2>4. ASSUME NEW code \in Codes, NEW chain \in ChainArgs, NEW relay \in RelayArgs,
               NEW p \in Processes, NEW pid \in ParaIds \cup {None},
               Configure(p, code, chain, pid, relay)
        PROVE  CollatorInv'
    BY <2>4, ConfigureKeeps
  <2>5. ASSUME NEW p \in Processes, Start(p) \/ Exit(p)
        PROVE  CollatorInv'
    BY <2>5, OpenDatabaseKeeps, JoinRelayChainKeeps, ExitKeeps DEF Start
  <2>6. CASE UNCHANGED vars
    BY <2>6 DEF vars, CollatorInv, Typed, Served, Attached, Configured, Busy
  <2> QED
    BY <2>1, <2>2, <2>3, <2>4, <2>5, <2>6 DEF Next
<1> QED
  BY <1>1, InitHolds, PTL DEF Spec

\* A running node whose directory served its specification alone runs on it.
LEMMA NodeFacts ==
  ASSUME CollatorInv, NEW p \in Nodes, proc[p].open, SoleUse(p)
  PROVE  /\ proc[p] \in NodeRecord /\ Configured(proc[p])
         /\ proc[p].genesis = proc[p].spec.genesis
<1>1. proc[p] \in NodeRecord /\ p \in Busy /\ Configured(proc[p])
  BY DEF Nodes, CollatorInv, Typed, OfflineRecord, Idle, Busy, NodeSteps
<1>2. proc[p].spec.genesis \in Genesis /\ proc[p].dir \in ChainIds
  BY <1>1 DEF NodeRecord, ChainSpec
<1>3. proc[p].genesis = db[proc[p].dir]
  BY <1>1 DEF CollatorInv, Attached
<1> QED
  BY <1>1, <1>2, <1>3 DEF CollatorInv, Served, SoleUse

\* A node runs on the genesis of its own specification when its directory has
\* served nothing else since it was purged, whatever was started, failed, was
\* killed or purged before (new_partial and the purge-chain of run).
THEOREM OwnGenesisKept == Spec => []OwnGenesis
<1>1. CollatorInv => OwnGenesis
  BY NodeFacts DEF OwnGenesis
<1> QED
  BY <1>1, CollatorInvariant, PTL

\* A node collates for the parachain in its genesis, unless its arguments
\* overrule a specification file (para_id and id of run).
THEOREM CollatesForIt == Spec => []CollatesForItsGenesis
<1>1. CollatorInv => CollatesForItsGenesis
  <2> SUFFICES ASSUME CollatorInv, NEW p \in Nodes, proc[p].open, SoleUse(p),
                      proc[p].chain = "file" => proc[p].pid = None
               PROVE  proc[p].id = proc[p].genesis.para
    BY DEF CollatesForItsGenesis
  <2>1. /\ Configured(proc[p])
        /\ proc[p].genesis = proc[p].spec.genesis
    BY NodeFacts
  <2> QED
    BY <2>1 DEF Configured, ParaId, OrElse
<1> QED
  BY <1>1, CollatorInvariant, PTL

-----------------------------------------------------------------------------
(***************************************************************************)
(* Directories and the processes in them: one process at a time has a      *)
(* directory open, and a relay chain database that is open is on disk.     *)
(***************************************************************************)
SoleOpen ==
  \A p, q \in Busy : p # q /\ proc[p].open /\ proc[q].open => proc[p].dir # proc[q].dir

RelayThere ==
  \A p \in Busy : proc[p].relayOpen => proc[p].relayDir \in relayDb

DirInv == CollatorInv /\ SoleOpen /\ RelayThere

\* One process goes on: what it has open it had before, or nobody had.
LEMMA OneHolds ==
  ASSUME DirInv, CollatorInv', NEW p \in Processes, NEW r,
         proc' = [proc EXCEPT ![p] = r], relayDb \subseteq relayDb',
         r # Idle /\ r.open =>
           r.dir \notin Held \/ (p \in Busy /\ proc[p].open /\ proc[p].dir = r.dir),
         r # Idle /\ r.relayOpen =>
           r.relayDir \in relayDb' \/ (p \in Busy /\ proc[p].relayOpen /\ proc[p].relayDir = r.relayDir)
  PROVE  DirInv'
<1>1. proc'[p] = r /\ \A q \in Processes \ {p} : proc'[q] = proc[q]
  BY DEF DirInv, CollatorInv, Typed
<1>2. \A q \in Busy' \ {p} : q \in Busy
  BY <1>1 DEF Busy
<1>3. \A q \in Busy' \ {p} : p \in Busy' /\ r.open /\ proc[q].open => proc[q].dir # r.dir
  <2> SUFFICES ASSUME NEW q \in Busy' \ {p}, p \in Busy', r.open, proc[q].open
               PROVE  proc[q].dir # r.dir
    OBVIOUS
  <2>1. q \in Busy /\ r # Idle
    BY <1>1, <1>2 DEF Busy
  <2>2. CASE r.dir \notin Held
    BY <2>1, <2>2 DEF Held
  <2>3. CASE p \in Busy /\ proc[p].open /\ proc[p].dir = r.dir
    BY <2>1, <2>3 DEF DirInv, SoleOpen
  <2> QED
    BY <2>1, <2>2, <2>3
<1>4. SoleOpen'
  <2> SUFFICES ASSUME NEW x \in Busy', NEW y \in Busy', x # y, proc'[x].open, proc'[y].open
               PROVE  proc'[x].dir # proc'[y].dir
    BY DEF SoleOpen
  <2>1. CASE x = p
    BY <1>1, <1>3, <2>1 DEF Busy
  <2>2. CASE y = p
    BY <1>1, <1>3, <2>2 DEF Busy
  <2>3. CASE x # p /\ y # p
    BY <1>1, <1>2, <2>3 DEF DirInv, SoleOpen, Busy
  <2> QED
    BY <2>1, <2>2, <2>3
<1>5. RelayThere'
  <2> SUFFICES ASSUME NEW x \in Busy', proc'[x].relayOpen
               PROVE  proc'[x].relayDir \in relayDb'
    BY DEF RelayThere
  <2>1. CASE x = p
    BY <1>1, <2>1 DEF Busy, DirInv, RelayThere
  <2>2. CASE x # p
    BY <1>1, <1>2, <2>2 DEF DirInv, RelayThere, Busy
  <2> QED
    BY <2>1, <2>2
<1> QED
  BY <1>4, <1>5 DEF DirInv

\* A purge closes the directories it removes.
LEMMA PurgeHolds ==
  ASSUME DirInv, CollatorInv', NEW code \in Codes, NEW chain \in ChainArgs,
         NEW relay \in RelayArgs, PurgeChain(code, chain, relay)
  PROVE  DirInv'
<1> DEFINE spec == CliSpec(code, chain, None)
           path == RelayPath(spec, relay)
           left(q) == [proc[q] EXCEPT
                         !.open = proc[q].open /\ proc[q].dir # spec.id,
                         !.relayOpen = proc[q].relayOpen /\ proc[q].relayDir # path]
<1>1. /\ relayDb' = relayDb \ {path}
      /\ proc' = [q \in Processes |-> IF q \notin Busy THEN Idle ELSE left(q)]
  BY DEF PurgeChain
<1> HIDE DEF spec, path
<1>2. ASSUME NEW q \in Busy
      PROVE  /\ left(q).dir = proc[q].dir /\ left(q).relayDir = proc[q].relayDir
             /\ left(q).open => proc[q].open
             /\ left(q).relayOpen => proc[q].relayOpen /\ proc[q].relayDir # path
  <2>1. proc[q] \in NodeRecord \/ proc[q] \in OfflineRecord
    BY <1>2 DEF DirInv, CollatorInv, Typed, Busy
  <2> QED
    BY <2>1 DEF NodeRecord, OfflineRecord
<1> HIDE DEF left
<1>3. \A q \in Busy' : q \in Busy /\ proc'[q] = left(q)
  BY <1>1 DEF Busy
<1>4. SoleOpen' /\ RelayThere'
  BY <1>1, <1>2, <1>3 DEF DirInv, SoleOpen, RelayThere
<1> QED
  BY <1>4 DEF DirInv

\* Every step keeps the invariant.
LEMMA DirStep ==
  ASSUME DirInv, CollatorInv', [Next]_vars
  PROVE  DirInv'
<1>0. Typed
  BY DEF DirInv, CollatorInv
<1>1. ASSUME NEW code \in Codes, NEW chain \in ChainArgs, BuildSpec(code, chain)
      PROVE  DirInv'
  BY <1>1 DEF BuildSpec, DirInv, SoleOpen, RelayThere, Busy
<1>2. ASSUME NEW code \in Codes, NEW chain \in ChainArgs, NEW p \in Processes,
             Offline(p, code, chain)
      PROVE  DirInv'
  <2> DEFINE spec == CliSpec(code, chain, None)
             r == [step |-> "offline", dir |-> spec.id, open |-> TRUE,
                   genesis |-> Opened(spec), relayDir |-> None, relayOpen |-> FALSE]
  <2>1. /\ proc' = [proc EXCEPT ![p] = r] /\ relayDb' = relayDb
        /\ spec.id \notin Held
    BY <1>2 DEF Offline, NewPartial
  <2>2. r.dir = spec.id /\ ~r.relayOpen
    OBVIOUS
  <2> HIDE DEF r, spec
  <2> QED
    BY <2>1, <2>2, OneHolds
<1>3. ASSUME NEW code \in Codes, NEW chain \in ChainArgs, NEW relay \in RelayArgs,
             PurgeChain(code, chain, relay)
      PROVE  DirInv'
  BY <1>3, PurgeHolds
<1>4. ASSUME NEW code \in Codes, NEW chain \in ChainArgs, NEW relay \in RelayArgs,
             NEW p \in Processes, NEW pid \in ParaIds \cup {None},
             Configure(p, code, chain, pid, relay)
      PROVE  DirInv'
  <2> DEFINE spec == CliSpec(code, chain, pid)
             r == [step |-> "configured", chain |-> chain, pid |-> pid,
                   spec |-> spec, id |-> ParaId(spec, pid),
                   dir |-> spec.id, open |-> FALSE, genesis |-> None,
                   relayDir |-> RelayPath(spec, relay), relayOpen |-> FALSE]
  <2>1. proc' = [proc EXCEPT ![p] = r] /\ relayDb' = relayDb
    BY <1>4 DEF Configure
  <2>2. ~r.open /\ ~r.relayOpen
    OBVIOUS
  <2> HIDE DEF r, spec
  <2> QED
    BY <2>1, <2>2, OneHolds
<1>5. ASSUME NEW p \in Processes, OpenDatabase(p)
      PROVE  DirInv'
  <2> DEFINE spec == proc[p].spec
             r == [proc[p] EXCEPT !.step = "partial", !.open = TRUE,
                                  !.genesis = Opened(spec)]
  <2>1. proc[p] \in NodeRecord /\ p \in Busy /\ Configured(proc[p])
    BY <1>5 DEF OpenDatabase, DirInv, CollatorInv, Typed, OfflineRecord, Idle, Busy, NodeSteps
  <2>2. /\ proc' = [proc EXCEPT ![p] = r] /\ relayDb' = relayDb
        /\ spec.id \notin Held
    BY <1>0, <1>5, <2>1 DEF OpenDatabase, NewPartial, Typed
  <2>3. /\ r.dir = spec.id
        /\ r.relayDir = proc[p].relayDir /\ r.relayOpen = proc[p].relayOpen
    BY <2>1 DEF NodeRecord, Configured
  <2> HIDE DEF r, spec
  <2> QED
    BY <2>1, <2>2, <2>3, OneHolds
<1>6. ASSUME NEW p \in Processes, JoinRelayChain(p)
      PROVE  DirInv'
  <2> DEFINE r == [proc[p] EXCEPT !.step = "running", !.relayOpen = TRUE]
  <2>1. proc[p] \in NodeRecord /\ p \in Busy
    BY <1>6 DEF JoinRelayChain, DirInv, CollatorInv, Typed, OfflineRecord, Idle, Busy
  <2>2. /\ proc' = [proc EXCEPT ![p] = r]
        /\ relayDb' = relayDb \cup {proc[p].relayDir}
    BY <1>0, <1>6, <2>1 DEF JoinRelayChain, Typed
  <2>3. /\ r.dir = proc[p].dir /\ r.open = proc[p].open
        /\ r.relayDir = proc[p].relayDir
    BY <2>1 DEF NodeRecord
  <2> HIDE DEF r
  <2> QED
    BY <2>1, <2>2, <2>3, OneHolds
<1>7. ASSUME NEW p \in Processes, Exit(p)
      PROVE  DirInv'
  BY <1>7, OneHolds DEF Exit
<1>8. CASE UNCHANGED vars
  BY <1>8 DEF vars, DirInv, SoleOpen, RelayThere, Busy
<1> QED
  BY <1>1, <1>2, <1>3, <1>4, <1>5, <1>6, <1>7, <1>8 DEF Next, Start

\* Every state of the collator's processes has its type, and the lock of a
\* database holds: an open directory is that of one process, which runs on the
\* genesis in it, and an open relay chain database is on disk (new_partial and
\* build_polkadot_full_node against purge-chain).
THEOREM TypeCorrect == Spec => []TypeOK
<1>1. Init => DirInv
  BY InitHolds DEF Init, DirInv, SoleOpen, RelayThere, Busy
<1>2. DirInv /\ CollatorInv' /\ [Next]_vars => DirInv'
  BY DirStep
<1>3. DirInv => TypeOK
  <2> SUFFICES ASSUME DirInv  PROVE TypeOK
    OBVIOUS
  <2>1. ASSUME NEW p \in Busy
        PROVE  /\ proc[p].step \in Steps /\ proc[p].dir \in ChainIds
               /\ proc[p].genesis \in Genesis \cup {None}
               /\ proc[p].open => db[proc[p].dir] = proc[p].genesis
    <3>1. proc[p] \in NodeRecord \/ proc[p] \in OfflineRecord
      BY <2>1 DEF DirInv, CollatorInv, Typed, Busy
    <3> QED
      BY <2>1, <3>1 DEF NodeRecord, OfflineRecord, NodeSteps, Steps, DirInv, CollatorInv, Attached
  <2>2. ASSUME NEW p \in Busy, NEW q \in Busy \ {p}, proc[p].open
        PROVE  ~(proc[q].open /\ proc[q].dir = proc[p].dir)
    BY <2>2 DEF DirInv, SoleOpen
  <2> QED
    BY <2>1, <2>2 DEF TypeOK, DirInv, RelayThere, CollatorInv, Typed
<1> QED
  BY <1>1, <1>2, <1>3, CollatorInvariant, PTL DEF Spec

=============================================================================
