------------------------------ MODULE Collator ------------------------------
(***************************************************************************)
(* The collator binary (node/src): invocations of it that share one base   *)
(* path, what they leave on disk, and what genesis a node then runs on.    *)
(*                                                                         *)
(* The database of the parachain lies in a directory named by the id of    *)
(* the chain specification alone, and gets its genesis block from the      *)
(* first specification that opens it; the relay chain part of the node has *)
(* a database of its own, next to it or where the arguments after `--` say.*)
(* Subcommands take no options of the node (ArgsNegateSubcommands): they   *)
(* load their specification for parachain 200.                             *)
(*                                                                         *)
(* A collator and a full node differ in nothing of this; a light client is *)
(* refused before it opens anything.                                       *)
(*                                                                         *)
(* export-genesis-state and export-genesis-wasm print a function of their  *)
(* arguments and write nothing a node reads.  They are left out, as are    *)
(* blocks after the genesis, keys, telemetry, RPC, the network, and        *)
(* `--tmp`, whose base path no other invocation ever sees.                 *)
(***************************************************************************)
EXTENDS Naturals, FiniteSets

CONSTANTS Processes,
          Codes,     \* the runtimes of the binaries in use: client, service, ...
          ParaIds,   \* what --parachain-id is given, besides nothing
          RelayArgs, \* the arguments after `--`: [base, chain], or None in each
          None,
          Several    \* the use of a directory for more than one genesis

ASSUME CollatorAssumption == ParaIds \subseteq Nat /\ None \notin ParaIds

VARIABLES
  file,    \* the one chain specification in a file
  db,      \* the genesis in the parachain database of each chain id
  relayDb, \* the relay chain databases: [base, chain]
  proc,    \* what each process is doing
  used     \* history: the genesis each directory was used for since its purge

vars == <<file, db, relayDb, proc, used>>

-----------------------------------------------------------------------------
(***************************************************************************)
(* Chain specifications.                                                   *)
(***************************************************************************)
ChainIds == {"dev", "local_testnet"}

\* The default of Cli::load_spec.
DefaultPara == 200

OrElse(x, y) == IF x = None THEN y ELSE x

Genesis == [para : ParaIds \cup {DefaultPara}, code : Codes]

ASSUME MarkersAssumption == None # Several /\ {None, Several} \cap Genesis = {}

ChainSpec == [id : ChainIds, relay : {"rococo-dev", "rococo-local"},
              genesis : Genesis]

\* The para_id of the extensions is the one of the genesis.
development_config(code, para) ==
  [id |-> "dev", relay |-> "rococo-dev",
   genesis |-> [para |-> para, code |-> code]]

local_testnet_config(code, para) ==
  [id |-> "local_testnet", relay |-> "rococo-local",
   genesis |-> [para |-> para, code |-> code]]

\* The values of --chain that load_spec tells apart.
ChainArgs == {"dev", "local", "file"}

Loads(chain) == chain = "file" => file # None

\* A file keeps the parachain and the code it was written with.
LoadSpec(code, chain, para) ==
  CASE chain = "dev" -> development_config(code, para)
    [] chain = "local" -> local_testnet_config(code, para)
    [] chain = "file" -> file

\* Cli::load_spec
CliSpec(code, chain, pid) == LoadSpec(code, chain, OrElse(pid, DefaultPara))

\* RelayChainCli: where the relay chain part keeps its database.
RelayPath(spec, relay) ==
  [base |-> OrElse(relay.base, "polkadot"), chain |-> OrElse(relay.chain, spec.relay)]

\* Variant: what --parachain-id was not given is 100, whatever the chain.
ParaIdHundred(spec, pid) == OrElse(pid, 100)

\* The parachain a node runs for: every specification here has extensions, so
\* the last default of the code, 100, is never reached.
ParaId(spec, pid) == OrElse(pid, spec.genesis.para)

-----------------------------------------------------------------------------
(***************************************************************************)
(* Databases.  A database is open in one process at a time; a directory    *)
(* that is purged under a process goes on without its name.                *)
(***************************************************************************)
Idle == [step |-> "none"]

Steps == {"configured", "partial", "running", "offline"}

Busy == {p \in Processes : proc[p] # Idle}

Held == {proc[p].dir : p \in {q \in Busy : proc[q].open}}

RelayHeld == {proc[p].relayDir : p \in {q \in Busy : proc[q].relayOpen}}

\* The genesis a database has once it is opened with spec.
Opened(spec) ==
  IF db[spec.id] = None THEN spec.genesis ELSE db[spec.id]

UsedFor(spec) ==
  [used EXCEPT ![spec.id] =
    IF @ \in {None, spec.genesis} THEN spec.genesis ELSE Several]

\* Variant: a database that several processes may have open.
NewPartialShared(spec) ==
  /\ db' = [db EXCEPT ![spec.id] = Opened(spec)]
  /\ used' = UsedFor(spec)

\* new_partial: opens the database, writing a genesis into a new one.
NewPartial(spec) ==
  /\ spec.id \notin Held
  /\ db' = [db EXCEPT ![spec.id] = Opened(spec)]
  /\ used' = UsedFor(spec)

TypeOK ==
  /\ file \in ChainSpec \cup {None}
  /\ db \in [ChainIds -> Genesis \cup {None}]
  /\ used \in [ChainIds -> Genesis \cup {None, Several}]
  /\ \A p \in Busy :
       /\ proc[p].step \in Steps /\ proc[p].dir \in ChainIds
       /\ proc[p].genesis \in Genesis \cup {None}
       /\ proc[p].open => /\ db[proc[p].dir] = proc[p].genesis
                          /\ \A q \in Busy \ {p} :
                               ~(proc[q].open /\ proc[q].dir = proc[p].dir)
       /\ proc[p].relayOpen => proc[p].relayDir \in relayDb

Init ==
  /\ file = None
  /\ db = [c \in ChainIds |-> None]
  /\ relayDb = {}
  /\ proc = [p \in Processes |-> Idle]
  /\ used = [c \in ChainIds |-> None]

-----------------------------------------------------------------------------
(***************************************************************************)
(* Subcommands.                                                            *)
(***************************************************************************)

\* build-spec, its output written to the file.
BuildSpec(code, chain) ==
  /\ Loads(chain)
  /\ file' = CliSpec(code, chain, None)
  /\ UNCHANGED <<db, relayDb, proc, used>>

\* check-block, export-blocks, export-state, import-blocks and revert all open
\* the database as a node would.
Offline(p, code, chain) ==
  LET spec == CliSpec(code, chain, None)
  IN  /\ proc[p] = Idle /\ Loads(chain)
      /\ NewPartial(spec)
      /\ proc' = [proc EXCEPT ![p] =
           [step |-> "offline", dir |-> spec.id, open |-> TRUE,
            genesis |-> Opened(spec), relayDir |-> None, relayOpen |-> FALSE]]
      /\ UNCHANGED <<file, relayDb>>

\* Variant: the configuration of the relay chain is passed for both.
PurgedRelayOnly(dir) == db

\* The parachain databases that are left.
Purged(dir) == [db EXCEPT ![dir] = None]

\* purge-chain looks at no lock: a process that has one of the databases open
\* is left with files that have no name.
PurgeChain(code, chain, relay) ==
  LET spec == CliSpec(code, chain, None)
      path == RelayPath(spec, relay)
  IN  /\ Loads(chain)
      /\ db' = Purged(spec.id)
      /\ relayDb' = relayDb \ {path}
      /\ used' = [used EXCEPT ![spec.id] = None]
      /\ proc' = [p \in Processes |->
           IF p \notin Busy THEN Idle
           ELSE [proc[p] EXCEPT !.open = @ /\ proc[p].dir # spec.id,
                                !.relayOpen = @ /\ proc[p].relayDir # path]]
      /\ UNCHANGED file

-----------------------------------------------------------------------------
(***************************************************************************)
(* A node: `run` without a subcommand, then start_node_impl.               *)
(***************************************************************************)

\* The configurations of both chains.
Configure(p, code, chain, pid, relay) ==
  LET spec == CliSpec(code, chain, pid)
  IN  /\ proc[p] = Idle /\ Loads(chain)
      /\ proc' = [proc EXCEPT ![p] =
           [step |-> "configured", chain |-> chain, pid |-> pid,
            spec |-> spec, id |-> ParaId(spec, pid),
            dir |-> spec.id, open |-> FALSE, genesis |-> None,
            relayDir |-> RelayPath(spec, relay), relayOpen |-> FALSE]]
      /\ UNCHANGED <<file, db, relayDb, used>>

OpenDatabase(p) ==
  /\ proc[p].step = "configured"
  /\ NewPartial(proc[p].spec)
  /\ proc' = [proc EXCEPT ![p].step = "partial", ![p].open = TRUE,
                          ![p].genesis = Opened(proc[p].spec)]
  /\ UNCHANGED <<file, relayDb>>

\* build_polkadot_full_node.  What follows, the network, the tasks and the
\* collator or full node, writes nothing more: it may only fail (Exit).
JoinRelayChain(p) ==
  /\ proc[p].step = "partial"
  /\ proc[p].relayDir \notin RelayHeld
  /\ relayDb' = relayDb \cup {proc[p].relayDir}
  /\ proc' = [proc EXCEPT ![p].step = "running", ![p].relayOpen = TRUE]
  /\ UNCHANGED <<file, db, used>>

\* Any step of a start may fail, a subcommand comes to its end and a process
\* may be killed: it leaves what it wrote.
Exit(p) ==
  /\ p \in Busy
  /\ proc' = [proc EXCEPT ![p] = Idle]
  /\ UNCHANGED <<file, db, relayDb, used>>

Start(p) == OpenDatabase(p) \/ JoinRelayChain(p)

Next ==
  \/ \E code \in Codes, chain \in ChainArgs :
       \/ BuildSpec(code, chain)
       \/ \E p \in Processes : Offline(p, code, chain)
       \/ \E relay \in RelayArgs :
            \/ PurgeChain(code, chain, relay)
            \/ \E p \in Processes, pid \in ParaIds \cup {None} :
                 Configure(p, code, chain, pid, relay)
  \/ \E p \in Processes : Start(p) \/ Exit(p)

Spec == Init /\ [][Next]_vars

-----------------------------------------------------------------------------
(***************************************************************************)
(* What a node runs on.                                                    *)
(***************************************************************************)
Nodes == {p \in Busy : proc[p].step = "running"}

\* Every use of the node's directory since its purge, the node's own included,
\* was with the node's specification.
SoleUse(p) == used[proc[p].dir] = proc[p].spec.genesis

\* A directory that served one specification only since it was last purged
\* gives a node the genesis of that specification, the one it logs at its
\* start: neither starts that failed half way nor subcommands nor a purge that
\* loads the chain for another parachain leave anything else in the way
\* (new_partial, PurgeChain).
OwnGenesis ==
  \A p \in Nodes : proc[p].open /\ SoleUse(p) => proc[p].genesis = proc[p].spec.genesis

\* The parachain a node collates for is the one in the genesis of its chain
\* (parachain_info), unless an explicit --parachain-id overrules a file
\* (para_id, id and load_spec of run).
CollatesForItsGenesis ==
  \A p \in Nodes :
    /\ proc[p].open /\ SoleUse(p)
    /\ proc[p].chain = "file" => proc[p].pid = None
    => proc[p].id = proc[p].genesis.para

=============================================================================
