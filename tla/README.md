# Verification of the robobank order system

TLA+ models, TLC runs and TLAPS proofs for the repository
`airalab/xcm-robobank-prototype`. Two Substrate parachains take orders for
devices: clients live on one, the devices on the other, and the two exchange
messages over HRMP channels of a relay chain. A script builds, starts and
provisions the network of relay chain and parachains.

Every definition follows the source. `PROJECT.json` ("map") names for each the
lines it stands for; names are the source's where TLA+ allows.

## 1. Inventory

### Service pallet (`pallets/service/src/lib.rs`)
* State: `Device` (state, penalty, wcd for each registered device), `Orders`
  (at most one open order for each device), the chain's balances.
* Operations: `order`, `cancel`, `accept` (which also rejects), `done`,
  `register`, `set_state`; the message handler `handle_blob_message`; the hook
  `OnReceived` that picks the state of a device that got an order.
* A local order reserves the client's fee and the device's collateral. A remote
  one (a `NewOrder` message) reserves nothing; its outcome is sent back.
* Hard: dispatchables are not wrapped in a storage transaction, so an error
  after a write leaves that write; `unreserve` and `repatriate_reserved` move what
  there is and succeed; one account can be client of many orders and a device at
  once and has one reserve for all; deadline races between `cancel` and the
  device; u64 sums of moments.
* Correct when: the reserve always covers what open orders hold, a settlement
  pays in full and touches nothing else, a device with an order stays busy, a
  client can always get out after the deadline, and a remote outcome is reported.

### Client pallet (`pallets/client/src/lib.rs`)
* State: the same two maps, a profile also naming the device's parachain.
* Operations: `order`, `cancel`, `register`, `test`; messages `OrderAccept`,
  `OrderReject`, `OrderDone`.
* Both amounts are reserved here. `order` reserves, stores, sends, marks the
  device Busy, in this order, and can fail between any two of these.
* Hard: verdicts come at any time, late, twice, after a cancel, or about the
  order of another client; nothing ties a verdict to an order but its device.
* Correct when: no verdict locks funds in, and what was sent is what is stored.

### Shared types (`pallets/common/src/lib.rs`)
Device states, order records and their conversions, messages. No state.

### Cross-chain transport and runtime (`runtime/src/lib.rs`)
The runtime gives each chain its pallet as `XcmpMessageHandlers` and
`ParachainSystem` as sender, the timestamp, the balances configuration and, on the
service chain, `AcceptOnReceive`. Channels are opened by `register.py hrmp_open`,
one direction at a time.
* Hard: messages in flight while both chains move on; a cancel on one chain
  that the other never hears of; a send that fails before a channel is open.
* Correct when: an order and what became of it stay one thing on the two chains
  until a client cancels one whose job has not come to rest.

### Launcher (`scripts/init.sh`, `scripts/config.sh`) and provisioning (`scripts/register.py`)
* State: the lock file, an open descriptor and an flock for each invocation, the
  nodes in the background, their databases, and what the relay chain knows.
* Operations: the commands `run`, `run_full`, `clean`, `register`, `hrmp`; the
  exit traps; the calls `endow`, `endow_para`, `register`, `hrmp_open`.
* Hard: invocations overlap; a trap unlocks, locks and removes the file in three
  steps; scripts and nodes die at any point, and nodes inherit the lock.
* Correct when: two launches never share a network, and no lock file is left.

* Before any of that every command but `help` builds the two collators, without
  the lock: it compares modification times, moves an old binary to `*.bak` and
  runs `cargo install`. Hard: invocations build side by side and next to a launch,
  and the sources are edited meanwhile. Correct when: a launch runs what the
  sources were when it began, and a failure leaves some build to run.

### Collator node (`node/src`)
* State: a base path with a database of the parachain for each chain id and the
  databases of the embedded relay chain node; a chain specification in a file.
* Operations: `build-spec`, `purge-chain`, the commands on blocks, and the start of
  a node; `export-genesis-state` and `export-genesis-wasm` only print.
* Hard: a database keeps the genesis it was created with, whatever parachain id,
  runtime or file it is opened with later; a start writes it before its relay
  chain part may fail; a purge looks at no lock; three defaults of the parachain
  id (100, 200, 100) and subcommands that cannot be given one.
* Correct when: a node extends the genesis of the specification it was started
  with, and collates for the parachain in that genesis.

### The rest
`keytool/` prints addresses and keeps no state.

## 2. Modules

| module | models | composes |
|---|---|---|
| `Balances` | the `ReservableCurrency` operations the pallets use (external) | |
| `PalletCommon` | `pallets/common`: states, orders, messages, the rush test | `Balances` |
| `ServicePallet` | `pallets/service` and the service chain around it | `PalletCommon` |
| `ClientPallet` | `pallets/client` and the client chain around it | `PalletCommon` |
| `OrderEscrow` | abstract: one escrow for each order | implemented by `ServicePallet` |
| `CrossChain` | both chains, their two channels, one clock | instances of the two pallets |
| `RemoteOrder` | abstract: one job for each device, whichever chain it is on | implemented by `CrossChain` |
| `Launcher` | `init.sh`, `config.sh`, the calls of `register.py` | |
| `Build` | the build of the collators in `init.sh` | |
| `Collator` | `node/src`: specifications, databases, starts | |
| `MC*` | instances for TLC | |
| `LedgerProofs` | what the currency operators keep and take; fees counted in units | `PalletCommon` |
| `ServicePalletProofs` | types, busy devices, reports, the accounting of the reserve | `ServicePallet`, `LedgerProofs` |
| `ServiceEscrowProofs` | the escrow refinement, holds of other orders | `ServicePalletProofs` |
| `ClientPalletProofs` | types, registered devices, what is sent, holds and reserve | `ClientPallet`, `LedgerProofs` |
| `CrossChainProofs` | both chains as pallets, the order as one token and one job, the funds | `CrossChain`, instances of the two pallets' proofs |
| `LauncherProofs` | the lock and its file | `Launcher` |
| `BuildProofs` | what a launch runs | `Build` |
| `CollatorProofs` | the genesis a node runs on | `Collator` |

### State and actions
In both pallets `devices[d]` and `orders[d]` are the storage maps `Device` and
`Orders`, with `NoDevice` and `NoOrder` for an absent key, and `ledger[a]` holds the
free and reserved balance. `now` is the block's timestamp, `open` the parachains
to which a channel is open, `outbox[p]` the messages on their way to `p`.

A dispatchable is an action with the whole of its effect, calls included. Where
the code can fail after a write, the failing path is an action of its own:

| action | the error |
|---|---|
| service `OrderStranding`, client `OrderStranding` | the collateral is reserved, then the fee of the same account is not there |
| service `DoneStranding` | the fee is paid, then the late collateral cannot reach a reaped client |
| service `DoneUnreported` | the order is taken, then the send fails |
| client `OrderUnsent` | all is reserved and stored, then the send fails |
| client `OnRejectStuck`, `OnDoneStuck` | half of a settlement is written, then the other half fails |

Errors in front of the first write change nothing and are the absence of a step;
for messages, which are taken off the channel even when refused, they are the
`ELSE UNCHANGED vars` of `HandleBlobMessage`.

`Balances` is not in the repository. Its operators state what the pallets rely on:
saturation, `DeadAccount` on repatriation to an account that does not exist, and
accounts below the existential deposit that are reaped, their reserve included
(`runtime/src/lib.rs` sets `ExistentialDeposit` and drops the dust).

In `CrossChain` the outbox of one pallet is the channel to the other: `DeliverOrder`
and `DeliverVerdict` take the head of the queue and run the handler in one step,
as the chain does in one block. Two variables are history. `cancelled` holds the
devices of which something of a cancelled order may still be under way: a cancel puts
its device in unless nothing is (`Traces`), and an order for the device that meets
nothing of an earlier one takes it out (`ClientOrder`). `drawnOn` holds the accounts a
verdict took money of without settling an order of theirs.

In `Launcher` a lock file has an identity (`Inodes`), since a file that was removed
and created anew under the same name is another file to flock. `fd[s]` is what
descriptor 99 of an invocation, or of its nodes, is open on. `lock[i]` is the owner.
The three steps of the EXIT trap are three actions. `NodeEnds` frees a lock only
when the script is gone and the last node with it. `ScriptDies` covers a kill as
well as `cleanup`, whose `pkill -TERM -g $$` signals the script's own process group,
so `_no_more_locking` behind it is not reached. `Calls` lists what each command asks
of `register.py`, `Answered` what such a call needs, `Applied` what it leaves on the
relay chain.

In `Collator` a process takes the steps that write something, one action each:
`Configure` (both configurations), `OpenDatabase` (`new_partial`), `JoinRelayChain`.
`Exit` is a start that fails at any point, a subcommand that is over, or a kill.
A database in use has a lock that goes with the directory, not the path, so after
`PurgeChain` the process keeps files without a name (`open` becomes FALSE) and
another process may create the directory again. `used` is history: whether a directory served one genesis since its purge, or several.

In `Build` a modification time is the number of edits and builds so far; a binary
is the pair of the time its sources were read (`of`) and its own (`time`). The two
tests `-x` and the `mv` are three steps, as other invocations act in between; cargo's
own lock is `builder`.

## 3. Runs

| run | question | result |
|---|---|---|
| `service_runtime` | three accounts, two of them devices, the runtime's hook: does one reserve per account implement an escrow per order? | holds, 227 thousand states |
| `service_review` | the tests' hook, re-registration, set_state, deadlines, penalties 0 and 2, dust; liveness | holds, 67 thousand |
| `client` | every verdict at any time, two devices that order from each other | holds, 76 thousand |
| `cross_chain` | two clients, a device, channels in both directions; liveness | holds, 123 thousand |
| `launcher` | three invocations of every command, persistent databases; scripts and nodes die anywhere | holds, 5.1 million |
| `build` | three invocations that build, fail or are interrupted anywhere, two edits | holds, 8 million |
| `collator` | two processes, two builds, every subcommand, on one base path | holds, 2.6 million |
| `service_late_done` | does a late done cost the collateral? | violated |
| `service_rush` | is a rushed order refused? | violated |
| `client_unsent` | is a Ready device free? | violated |
| `cross_chain_stale` | does a verdict settle only its client's order? | violated |
| `launcher_lock` | is the launcher exclusive? | violated |

### What they show
* `ImplementsEscrow` (refinement): the service pallet implements `OrderEscrow`, where
  each local order has an escrow of its own that takes fee and collateral together
  and gives each back once, to the right side of the deadline. The mapping reads the
  escrow off `orders` and `devices` and funds off the free balances; remote orders map
  to nothing, the reserve does not occur. The pallet has no escrows: it has
  one reserve for each account and calls that saturate, so the refinement holds only
  because no step ever takes another order's money. The two failing calls that lose
  a collateral are steps of the abstraction too (`Strand`, `Forfeit`), with the
  conditions under which they happen.
* `Backed`: the reserve of an account covers its holds. `OthersHoldsUntouched`: a
  settlement moves only its own order's holds, of the service pallet always, of the
  client pallet until a verdict names the wrong client or fails half way.
* `OrderedDevicesAreBusy`: no `register` or `set_state` frees a device under an
  order. `CancelNeverBlocked`: from the deadline on no error of `cancel` keeps a
  living client from its funds. `SettlementReported`: a remote order leaves the table
  with the one message about it, or through `DoneUnreported`.
* `LocalOrdersEnd` (liveness): a local order is off the table in the end. It expects
  nothing of the device, and so says nothing of the state the device is left in.
* `OrderedDevicesKnown`, `CancelNeverBlocked`, `SentAsStored` say the same kind of
  thing of the client pallet, where verdicts are arbitrary: the run does not
  assume a well-behaved service chain.
* `OneTrace`, `SameOrder`, `EarlyEndNeedsVerdict` relate the chains: outside `cancelled`
  an order is one token, in flight, open there, or on its way back, and always the
  order that the client's funds are held for.
* `ImplementsRemoteOrder` (refinement): the two chains, queues and handlers together
  implement `RemoteOrder`, in which a device has one job with a stage: offered, taken,
  done or rejected, and free again. A step moves one job, by one stage, on the terms the
  funds are held for. The mapping reads the stage off the place of the token. What
  can go wrong is in the abstraction, with its conditions: a job is `stranded`, so that
  only its client can end it and only after the deadline, when it could not be sent, was
  refused, or could not be reported, or when its verdict could not be carried out, which
  happens to a rejection only if it is late. It is `withdrawn`, and the promise ends,
  when a client takes it back before that.
* `ClientFundsBacked`: through any interleaving of cancels, new orders and stale
  verdicts the reserve on the client chain stays sufficient, but for accounts in
  `drawnOn`, from which a verdict took money for an order that was not theirs or that
  it then failed to settle.
* `ClientOrdersEnd` (liveness): whatever became of its messages, an order leaves the
  client chain, though channels may never open. It excepts orders whose client is in
  `drawnOn`, and the exception is needed: a late `done` that pays the fee reaps its
  client, fails on the collateral (client 299-305) and leaves an order that nobody can
  cancel, a device Busy and its collateral reserved, for ever.
* `ServiceDevicesIdleAgain` (liveness): a device that took an order on the service chain
  is without one, and Ready or Off, again. That the order goes is not enough: `cancel`
  takes it and leaves the device Busy2 (service 217, and `order_cancel` of tests.rs),
  where `done` and `set_state` refuse it; it gets out because `accept(reject)` works
  without an order.
* `ExclusivePerFile`: on one file the lock works, also for nodes that outlive
  their script. `LockFileRemoved`: when every invocation finished its trap, no file
  is left.
* `EditsAreBuilt`: an invocation that is past the build finds binaries with every edit
  made before it began, whoever built them last and whenever they are replaced,
  except edits that hide in a build: made after cargo read the sources, older than
  the binary, never built. `SomeBuildKept`: no failure leaves neither binary nor copy.
* `OwnGenesis`: a directory used for one genesis since its purge gives a node that
  genesis, past failed starts, subcommands and purges that load the chain for
  another parachain. `CollatesForItsGenesis`: the id it collates for is the one in
  the genesis, unless `--parachain-id` is given with a file, which ignores it.

### Fairness
* `NextBlock` is weakly fair on both chains: blocks are produced all the time.
* `DeliverOrder`, `DeliverVerdict`: collators take what the channel holds.
* `Cancel(who, d)`: for each client and device, a client that may cancel for long
  enough does so. It is the only fairness on users of the service pallet, and the
  point of the call (`cancel` exists for devices that do not answer).
* `Finish(d)`: a device that is Busy2 ends its job, by `done` while it has an order and
  by `accept(reject)` when `done` would find none. Without the second a device that was
  cancelled would stay Busy2 until it registers anew; no other call gets it out.
* Nothing is assumed of `OpenChannels`, `order`, `accept`, `register` or transfers.

The clock is bounded by `MaxNow`, above the latest deadline, so that a fair clock
passes every deadline and then stops; nothing compares `now` to anything later.

### Disagreements with what the repository says
Checked by a run that expects a violation:
1. `done` of a late order can pay the fee, fail on the collateral and keep both
   changes: the order is gone, the collateral stays reserved (service 383-389).
2. `now + wcd` wraps in a release build (service 338).
3. An order that could not be sent stays open with its device Ready (client 208).
4. A verdict settles whatever order its device has (client 280, 295, both
   marked TODO).
5. The exit trap of an invocation that did not get the lock can remove the file
   of one that did; the next invocation owns a second network (config.sh 40).

In the models, with no run of their own:
* `hrmp` calls `hrmp_open` with one parachain, which exits with 1 (init.sh 404).
* `clean` removes `var/1` to `var/4`; nodes are numbered from 0 to 5 (init.sh 389).
* An edit made during a build is not built by the next launch (README.md 176).
* `export-genesis-state` without `--parachain-id` exports parachain 100, the node
  without it runs 200 (cli.rs 62, command.rs 69); with a file the option is ignored.

### Bounds, and why they are enough
* Accounts: three on the service chain suffice for a device, a client and an
  account that is both; in `service_review` two with two deadlines and two
  penalties, so that a re-registration changes the collateral. `CrossChain` needs
  two clients for a verdict to meet the wrong one. `client` has two accounts that are
  both devices, each a client of the other and of itself.
* Amounts: a client can pay for one order and is then empty, or nearly so, which
  is where saturation and reaping bite. In `service_review` the existential
  deposit is 2, so a balance of 1 is dust. `MaxBalance` bounds the amounts users
  choose, not what an account holds.
* Time: `MaxNow` lets the clock pass the latest deadline; deadlines 1 and 2
  give orders that are too near, in time and late. `MomentMod` is the width of a
  moment: 16 keeps sums from wrapping, 8 in `service_rush` lets them wrap.
* Channels: `MaxInFlight` bounds messages in flight, two in each direction in
  `cross_chain`, enough for a verdict and a newer order to pass each other. It
  bounds the send as well, which therefore waits where the code would not.
* Launcher: `RelayNames` and `Validators` are 1 where the code has four: the
  properties distinguish only the first node, the last one and the ones between.
  Three invocations are needed for the one that fails, the one that holds an
  orphan file and the one that creates a new file; three inodes are enough, as
  at most three are open. Invocations are symmetric. Commands stop, so the run does
  not check for deadlock.
* Build: three invocations, for one to build, one to wait for cargo and one to run
  what the two leave; `MaxEdits` is 2, an edit of each of two files, or of one twice.
  Each invocation builds a binary at most once, so time is bounded by the edits and
  the builds. Invocations end: no check for deadlock.
* Collator: two processes, for a purge under one and a second use of its directory;
  two builds; `--parachain-id 100` or none, which is 200; both chains and a file; the
  relay chain of `init.sh` (`-- --chain config/spec.json`), which the two chains of
  one base path contend for.

## 4. Proofs

Every invariant and action property of the runs and both refinements are theorems, for
every value of the constants, but for two forms named at the end. TLC checks them on
the instances of section 3; the proofs say that nothing depends on the sizes chosen
there.

Assumptions on constants are those of the modules: finite accounts, amounts within
`MaxBalance`, a positive existential deposit, genesis balances that are zero or alive,
parachain ids and markers that differ from what they are told apart from. TLC
evaluates them in the runs. One more is a hypothesis of the theorems that need it:
`AmountsCoverDeposit`, no fee and no penalty below the existential deposit. The pallets
do not check it. An account whose free funds are spent is reaped together with a
reserve smaller than the deposit, so below it the accounting is false, not just
unproved.

### The ledger (`LedgerProofs`)
One lemma for each currency operator and question: its result has a type
(`RepatriateType`), keeps a reserve sufficient for what it must still cover
(`RepatriateKeeps`; this is where a reserve above the deposit keeps its account from
being reaped), takes no more than asked for (`RepatriateTakes`), leaves the dead dead
and the living alive (`DeadStaysDead`, `UnreserveKeepsAlive`). Sums of fees need
induction, which is out of reach, so fees are counted: `Units` of a table of fees has
one element for each unit of each fee, and storing an order is a disjoint union
(`UnitsInsert`). The abstraction of amounts to units is only in the property; the
ledger counts.

### Service pallet
* `TypeCorrect`, `OrderedDevicesBusy` from `BusyInv`, which adds the types to the property:
  that the state after `accept` or a message is one of the two needs the profile to
  be one. `RemoteSettlementReported` (`SettlementReported`) uses the same invariant.
* `ReservesBacked`: with `AmountsCoverDeposit` every reserve covers the open orders.
  `BackedInv` conjoins `BusyInv`, without which a `register` might change a penalty
  under an order. `HeldInsert` and `HeldRemove` relate an order to what is held.
* `EscrowImplemented`: each step is a step of `OrderEscrow` or a stutter. `BackedInv` makes
  the saturating calls exact: what they move is what was asked for, so taking an order,
  paying, returning and forfeiting it map to the four escrow actions; `OthersUntouched`
  is the action property that goes with it. Both need `AmountsCoverDeposit`.
* `CancelHasNoError`: `CancelUnhindered`, the checks that `cancel` and `order_reject` make,
  hold from the deadline on of every order whose client is alive.

### Client pallet
* `TypeCorrect`, `OrderedDevicesRegistered` (`KnownInv`), `OrdersSentAsStored`,
  `CancelHasNoError`, under arbitrary verdicts.
* `OthersUntouched` needs no assumption on amounts: it compares the surplus of a
  reserve over its holds before and after (`SurplusKept`), and excepts accounts that
  are short already or reaped in the step. `HoldTaken` is the heart: of a client that is
  not confused with another the two halves of a settlement take its hold exactly.
* `FundedVerdict` and `FundedCall` say of one account what keeps its reserve
  sufficient; `CrossChainProofs` uses them.

### The two chains
* `ClientChainIsPallet`, `ServiceChainIsPallet`: in `CrossChain` each chain takes steps of
  its pallet only, so whatever is proved of a pallet holds of its chain. The proof and
  that of `TypeCorrect` go together, as a message must have its type to be one the
  other pallet takes. The proofs of the pallets come in as instances (`CP`, `SP`) and
  the lemmas `...Same` state that an instance of the pallet and the instance of its
  proofs define the same, action by action (`ClientActionsSame`, `ServiceActionsSame`).
* `OrderIsOneToken` (`OneTrace`) and `OrderStaysTheSame` (`SameOrder`) follow from one
  invariant, `TraceInv`, and neither is inductive without the other: that the two chains
  have the same order is what a delivered message turns into, and that nothing else of
  the order is around is what keeps a second message from finding another one. `Good`
  is the invariant as a predicate on two orders and two queues, with a lemma for
  each way it changes; then there is one lemma for each step that says which way.
  A device leaves `cancelled` with an order that finds no trace, so its trace begins
  afresh (`BeginsAfresh`).
* `RemoteOrderImplemented` (`ImplementsRemoteOrder`): each step is a step of `RemoteOrder` or
  a stutter. Under a good trace the stage of a job is a function of the two orders and of
  three counts of messages (`JobsAreCounted`), so that the lemmas on queues decide what a
  message that comes or goes does to it; `TraceInv` makes at most one count matter. One
  lemma for each step names the job and the abstract action (`OrderMovesJob` to
  `VerdictMovesJob`) and shows the other jobs unmoved, cancelled ones included. That a
  rejection in time always settles needs that the device of an open order is registered
  (`ClientKnown`, `OnlyLateSticks`).
* `VerdictEndsEarly` (`EarlyEndNeedsVerdict`).
* `ClientReservesBacked` (`ClientFundsBacked`), with `AmountsCoverDeposit`: outside `drawnOn`
  no interleaving of cancels, new orders and stale verdicts makes a reserve short.

### Launcher, build, node
* `LockExcludes`: two owners of the network never share a lock file, for any number
  of invocations, nodes and files. `LockInv` says who is entitled: an owner holds the
  lock of the file it has open; an invocation on its way in or out has no node. The
  second half is what makes `Released` harmless. `LockFileGoes` (`LockFileRemoved`) needs
  to know who still has a file to remove (`RemovalInv`), and the types need that the
  provisioning calls stay within their list (`CountInv`).
* `LaunchesRunEdits` (`EditsAreBuilt`), `BuildsAreKept` (`SomeBuildKept`) and the types of
  `Build`, for any number of invocations and edits: `BuildInv` relates the time of a
  binary, of the sources it was built from and of the invocations that saw it.
* `OwnGenesisKept` and `CollatesForIt` state the two properties of `Collator` for any
  number of processes, builds, parachain ids and relay chain arguments. `CollatorInv` says that a directory that served one genesis holds
  it (`Served`), that what a process has open is what is in the directory (`Attached`),
  which a purge keeps by taking the directory from the process, and that a node's
  record follows from its arguments (`Configured`). None of the three is inductive
  without the other two; `NodeFacts` is where they meet. The types need that a process
  with a database open has it to itself (`DirInv`).

### Only model-checked
* `CancelNeverBlocked` in the form the runs check, which contains ENABLED. The prover has
  no rule for it; `CancelHasNoError` proves its content, the guards, of either pallet.
* `LocalOrdersEnd`, `ClientOrdersEnd`, `ServiceDevicesIdleAgain`: liveness under fairness.

## 5. Not modelled

* The order's payload, which is stored and forwarded and never read; events;
  weights and transaction fees. `Signed` keeps that the signer is alive; a signer also
  needs free funds for the fee (`SignedExtra`, `runtime/src/lib.rs` 442-450), so that
  "can cancel" and "cancels" here mean a client that has them.
* In `CrossChain`, orders that are placed on the service chain itself (service 184-202),
  and transfers there. `ServicePallet` has both, mixed with messages from outside; in the
  composition a message that finds a local order would be refused, as it is here when it
  finds an older remote one, and `OneTrace` and `SameOrder` would have to speak of remote
  orders only.
* `on_killed_account` of both pallets: the runtime has `OnKilledAccount = ()`
  (`runtime/src/lib.rs:227`), so it never runs. `handle_xcm_message`: an event.
* Channel capacity and message size; channels that close.
* Of `init.sh`, the installation of tools, the relay chain's binary and the link to
  its specification, each made once; the walkthrough commands of `register.py`, which
  submit single calls of the pallets, or of a `TemplateModule` no runtime here has.
* Of the node, `export-genesis-state` and `export-genesis-wasm`, which print a function of
  their arguments and touch no database; blocks after the genesis, keys (a collator's
  is new at every start, `command.rs:273`), telemetry, RPC, the network, and the options
  that `RelayChainCli` hands through; `--tmp`, whose directory no other process sees; the
  flags of `purge-chain` that spare one of the databases.
* The mock runtimes of the pallets' tests; the key tool.

## 6. Plan

Done: all operations of the two pallets and their composition, the launcher, its
build, the node; the abstract escrow, the abstract remote order and their refinements;
liveness on both chains.

Proved: all safety and action properties of the runs and both refinements (section 4).

What is left:
1. Proofs: the sum of all balances of a chain, which settlements conserve but for dust,
   once counted in units as fees are; the converse of `AmountsCoverDeposit`, which orders
   are safe when an amount is below the deposit.
2. `Launcher` and `Collator` together: which databases a launch on persistent storage
   finds, and what genesis its relay chain was told of.
