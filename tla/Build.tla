------------------------------- MODULE Build --------------------------------
(***************************************************************************)
(* The build at the top of scripts/init.sh, which every command but help   *)
(* goes through before it asks for the lock; a launch then uses the two    *)
(* binaries, to export the genesis of each chain and to start its node.    *)
(*                                                                         *)
(* Invocations build next to each other and next to a launch, and somebody *)
(* edits the sources at any time.  What make would call a dependency is    *)
(* the source file that was the newest when the invocation began; a binary *)
(* is rebuilt when its time is older than that file's.                     *)
(*                                                                         *)
(* Left out: the tools, the relay chain's binary and the link to its       *)
(* specification, each made once.  The lock is Launcher's: here launches   *)
(* do not even exclude each other.                                         *)
(***************************************************************************)
EXTENDS Naturals, Sequences, FiniteSets

CONSTANTS Sessions, Sources, None,
          Backup,   \* BACKUP = 1
          MaxEdits  \* a bound: how many edits there are

ASSUME BuildAssumption ==
  /\ Sources # {} /\ IsFiniteSet(Sources) /\ IsFiniteSet(Sessions)
  /\ MaxEdits \in Nat
  /\ None \notin Sources \cup Sessions \cup [of : Nat, time : Nat]
  /\ Backup \in BOOLEAN

Binaries == <<"client", "service">>

VARIABLES
  clock,   \* the number of edits and builds: their modification times
  edited,  \* the modification time of each source file
  bin,     \* each binary: the time its sources were read, its own time
  bak,     \* its copy in *.bak
  builder, \* the invocation that has cargo's lock
  reading, \* when it read the sources
  pc,      \* where each invocation is
  at,      \* which binary it is at
  newest,  \* MODIFIED
  began,   \* history: when each invocation began
  edits    \* history: the times of all edits

vars == <<clock, edited, bin, bak, builder, reading, pc, at, newest, began, edits>>

Names == {"client", "service"}

\* Each invocation builds each binary at most once.
MaxTime == MaxEdits + 2 * Cardinality(Sessions)

Built == [of : 0 .. MaxTime, time : 0 .. MaxTime]

TypeOK ==
  /\ clock \in 0 .. MaxTime
  /\ edited \in [Sources -> 0 .. MaxTime]
  /\ bin \in [Names -> Built \cup {None}]
  /\ bak \in [Names -> Built \cup {None}]
  /\ builder \in Sessions \cup {None} /\ reading \in 0 .. MaxTime
  /\ pc \in [Sessions -> {"start", "check", "backup", "move", "build", "building", "use", "end"}]
  /\ at \in [Sessions -> 1 .. Len(Binaries)]
  /\ \A s \in Sessions : pc[s] \in {"check", "backup", "move", "build", "building"} =>
       newest[s] \in Sources
  /\ \A s \in Sessions : pc[s] = "building" <=> builder = s

\* A checkout that was never built, or built before.
Init ==
  /\ clock = 0
  /\ edited = [f \in Sources |-> 0]
  /\ \E build \in {None, [of |-> 0, time |-> 0]} : bin = [b \in Names |-> build]
  /\ bak = [b \in Names |-> None]
  /\ builder = None /\ reading = 0
  /\ pc = [s \in Sessions |-> "start"]
  /\ at = [s \in Sessions |-> 1]
  /\ newest = [s \in Sessions |-> None]
  /\ began = [s \in Sessions |-> 0]
  /\ edits = {}

-----------------------------------------------------------------------------
Goto(s, place) == pc' = [pc EXCEPT ![s] = place]

Binary(s) == Binaries[at[s]]

\* The tests of the second binary follow those of the first; then comes the
\* command.
NextBinary(s) ==
  IF at[s] < Len(Binaries)
    THEN at' = [at EXCEPT ![s] = @ + 1] /\ Goto(s, "check")
    ELSE at' = [at EXCEPT ![s] = 1] /\ Goto(s, "use")

Edit(f) ==
  /\ Cardinality(edits) < MaxEdits
  /\ clock' = clock + 1
  /\ edited' = [edited EXCEPT ![f] = clock + 1]
  /\ edits' = edits \cup {clock + 1}
  /\ UNCHANGED <<bin, bak, builder, reading, pc, at, newest, began>>

\* Variant: sort without -r.
NewestOldest == {f \in Sources : \A g \in Sources : edited[f] <= edited[g]}

\* find | sort -nr | head -1
Newest == {f \in Sources : \A g \in Sources : edited[f] >= edited[g]}

Begin(s) ==
  /\ pc[s] = "start"
  /\ \E f \in Newest : newest' = [newest EXCEPT ![s] = f]
  /\ began' = [began EXCEPT ![s] = clock]
  /\ Goto(s, "check")
  /\ UNCHANGED <<clock, edited, bin, bak, builder, reading, at, edits>>

\* [ ! -x bin ] || [ bin -ot MODIFIED ]
Stale(s) ==
  bin[Binary(s)] # None => bin[Binary(s)].time < edited[newest[s]]

UpToDate(s) ==
  /\ pc[s] = "check" /\ ~Stale(s)
  /\ NextBinary(s)
  /\ UNCHANGED <<clock, edited, bin, bak, builder, reading, newest, began, edits>>

Outdated(s) ==
  /\ pc[s] = "check" /\ Stale(s)
  /\ Goto(s, "backup")
  /\ UNCHANGED <<clock, edited, bin, bak, builder, reading, at, newest, began, edits>>

\* [ $BACKUP -eq 1 ] && [ -x bin ], looked at a second time.
ToBackup(s) ==
  /\ pc[s] = "backup"
  /\ Goto(s, IF Backup /\ bin[Binary(s)] # None THEN "move" ELSE "build")
  /\ UNCHANGED <<clock, edited, bin, bak, builder, reading, at, newest, began, edits>>

\* Variant: the old binary is removed.
MoveRemoving(s) ==
  /\ pc[s] = "move" /\ bin[Binary(s)] # None
  /\ bin' = [bin EXCEPT ![Binary(s)] = None]
  /\ Goto(s, "build")
  /\ UNCHANGED <<clock, edited, bak, builder, reading, at, newest, began, edits>>

\* mv, which ends the script (Ends) when another one was faster.
Move(s) ==
  /\ pc[s] = "move" /\ bin[Binary(s)] # None
  /\ bak' = [bak EXCEPT ![Binary(s)] = bin[Binary(s)]]
  /\ bin' = [bin EXCEPT ![Binary(s)] = None]
  /\ Goto(s, "build")
  /\ UNCHANGED <<clock, edited, builder, reading, at, newest, began, edits>>

\* Variant: two builds into one target directory.
CargoUnlocked(s) ==
  /\ pc[s] = "build"
  /\ builder' = s /\ reading' = clock
  /\ Goto(s, "building")
  /\ UNCHANGED <<clock, edited, bin, bak, at, newest, began, edits>>

\* cargo install: one at a time; what is edited from here on is not built.
Cargo(s) ==
  /\ pc[s] = "build" /\ builder = None
  /\ builder' = s /\ reading' = clock
  /\ Goto(s, "building")
  /\ UNCHANGED <<clock, edited, bin, bak, at, newest, began, edits>>

Install(s) ==
  /\ pc[s] = "building"
  /\ clock' = clock + 1
  /\ bin' = [bin EXCEPT ![Binary(s)] = [of |-> reading, time |-> clock + 1]]
  /\ builder' = None
  /\ reading' = 0
  /\ NextBinary(s)
  /\ UNCHANGED <<edited, bak, newest, began, edits>>

\* A build or a mv that fails ends the script (set -e), as does an interrupt;
\* or its command comes to its end.
Ends(s) ==
  /\ pc[s] \notin {"start", "end"}
  /\ Goto(s, "end")
  /\ IF builder = s THEN builder' = None /\ reading' = 0
     ELSE UNCHANGED <<builder, reading>>
  /\ UNCHANGED <<clock, edited, bin, bak, at, newest, began, edits>>

Next ==
  \/ \E f \in Sources : Edit(f)
  \/ \E s \in Sessions :
       \/ Begin(s) \/ UpToDate(s) \/ Outdated(s) \/ ToBackup(s) \/ Move(s)
       \/ Cargo(s) \/ Install(s) \/ Ends(s)

Spec == Init /\ [][Next]_vars

-----------------------------------------------------------------------------
(***************************************************************************)
(* What a launch runs.                                                     *)
(***************************************************************************)

\* An edit hides in a build: it was made after cargo read the sources and is
\* older than the binary.
Hides(e, build) == build.of < e /\ e < build.time

\* Invocations that get past the build find, of each binary that is there, one
\* with every edit made before they began, whoever built it and whenever it is
\* replaced, unless an edit hides in it (src/README.md, "will rebuild project
\* and update collator node before start").  Two uses of a binary by a launch,
\* the export of a genesis and the start of its node, then differ in later
\* edits and hidden ones only.
EditsAreBuilt ==
  \A s \in Sessions, b \in Names :
    pc[s] = "use" /\ bin[b] # None =>
      \A e \in edits : e <= began[s] /\ ~Hides(e, bin[b]) => e <= bin[b].of

\* Whatever invocations fail or are interrupted, a binary that was built once
\* is there or in its *.bak (config.sh, BACKUP).
SomeBuildKept ==
  [][\A b \in Names : bin[b] # None \/ bak[b] # None =>
       bin'[b] # None \/ bak'[b] # None]_vars

=============================================================================
