---------------------------- MODULE BuildProofs ----------------------------
(***************************************************************************)
(* What a launch finds after the build of scripts/init.sh, for any number  *)
(* of invocations, source files and edits.                                 *)
(*                                                                         *)
(* An invocation compares binaries with one file, the newest when it       *)
(* began.  That this file stands for all edits made by then (Represents),  *)
(* and that what an invocation once saw up to date may only be replaced by *)
(* something newer (Passes), is the argument.                              *)
(***************************************************************************)
EXTENDS Build, FiniteSetTheorems, TLAPS

Places == {"start", "check", "backup", "move", "build", "building", "use", "end"}

AtWork == {"check", "backup", "move", "build", "building"}

\* The types without the bound of time.
Typed ==
  /\ clock \in Nat /\ reading \in Nat /\ reading <= clock
  /\ edited \in [Sources -> Nat]
  /\ bin \in [Names -> [of : Nat, time : Nat] \cup {None}]
  /\ bak \in [Names -> [of : Nat, time : Nat] \cup {None}]
  /\ builder \in Sessions \cup {None}
  /\ pc \in [Sessions -> Places]
  /\ at \in [Sessions -> {1, 2}]
  /\ \A s \in Sessions : pc[s] = "start" => at[s] = 1
  /\ newest \in [Sessions -> Sources \cup {None}]
  /\ began \in [Sessions -> Nat]
  /\ edits \in SUBSET Nat

\* Every point of time is an edit's or a build's.
Times ==
  /\ \A e \in edits : 0 < e /\ e <= clock
  /\ \A f \in Sources : edited[f] <= clock
  /\ \A b \in Names : bin[b] # None =>
       /\ bin[b].of <= clock /\ bin[b].time <= clock
       /\ bin[b].time \notin edits
  /\ \A b \in Names : bak[b] # None => bak[b].of <= clock /\ bak[b].time <= clock
  /\ \A s \in Sessions : began[s] <= clock

\* One invocation has cargo's lock, and it is the one that builds.
OneBuilder == \A s \in Sessions : pc[s] = "building" <=> builder = s

\* A file's time is that of its last edit.
Edited == \A e \in edits : \E f \in Sources : e <= edited[f]

\* The file an invocation compares with is no older than any edit made before
\* it began.
Represents(s) ==
  pc[s] \in AtWork =>
    /\ newest[s] \in Sources
    /\ \A e \in edits : e <= began[s] => e <= edited[newest[s]]

\* The binaries that an invocation is done with.
Behind(s) ==
  IF pc[s] = "use" THEN Names
  ELSE IF pc[s] \in AtWork /\ at[s] = 2 THEN {"client"} ELSE {}

\* What it is done with is newer than every edit made before it began.
Passes(s) ==
  \A b \in Behind(s) : bin[b] # None =>
    \A e \in edits : e <= began[s] => e < bin[b].time

BuildInv ==
  /\ Typed /\ Times /\ OneBuilder /\ Edited
  /\ \A s \in Sessions : Represents(s) /\ Passes(s)

-----------------------------------------------------------------------------
LEMMA BinaryType ==
  ASSUME Typed, NEW s \in Sessions
  PROVE  /\ Len(Binaries) = 2 /\ Binary(s) \in Names
         /\ at[s] = 1 => Binary(s) = "client"
         /\ at[s] = 2 => Binary(s) = "service"
  BY DEF Typed, Binaries, Binary, Names

\* The step to the next binary.
LEMMA NextBinaryStep ==
  ASSUME Typed, NEW s \in Sessions, NextBinary(s), pc[s] \in AtWork
  PROVE  /\ at' \in [Sessions -> {1, 2}] /\ pc' \in [Sessions -> Places]
         /\ pc'[s] \in {"check", "use"}
         /\ \A t \in Sessions \ {s} : pc'[t] = pc[t] /\ at'[t] = at[t]
         /\ Behind(s)' = Behind(s) \cup {Binary(s)}
<1>0. Len(Binaries) = 2
  BY BinaryType
<1>1. CASE at[s] = 1
  <2>1. at' = [at EXCEPT ![s] = 2] /\ pc' = [pc EXCEPT ![s] = "check"]
    <3>1. at' = [at EXCEPT ![s] = at[s] + 1] /\ pc' = [pc EXCEPT ![s] = "check"]
      BY <1>0, <1>1 DEF NextBinary, Goto
    <3> QED
      BY <1>1, <3>1
  <2> QED
    BY <1>1, <2>1, BinaryType DEF Typed, Places, Behind, AtWork
<1>2. CASE at[s] = 2
  <2>1. at' = [at EXCEPT ![s] = 1] /\ pc' = [pc EXCEPT ![s] = "use"]
    BY <1>0, <1>2 DEF NextBinary, Goto
  <2> QED
    BY <1>2, <2>1, BinaryType DEF Typed, Places, Behind, AtWork, Names
<1> QED
  BY <1>1, <1>2 DEF Typed

LEMMA InitHolds == Init => BuildInv
<1> SUFFICES ASSUME Init PROVE BuildInv
  OBVIOUS
<1>1. Typed
  BY DEF Init, Typed, Places
<1>2. Times /\ Edited
  BY DEF Init, Times, Edited
<1>3. OneBuilder
  BY BuildAssumption DEF Init, OneBuilder
<1>4. \A s \in Sessions : Represents(s) /\ Passes(s)
  BY DEF Init, Represents, Passes, Behind, AtWork
<1> QED
  BY <1>1, <1>2, <1>3, <1>4 DEF BuildInv

\* An edit is later than anything that was built or has begun.
LEMMA EditKeeps ==
  ASSUME BuildInv, NEW f \in Sources, Edit(f)
  PROVE  BuildInv'
<1> USE DEF BuildInv
<1>1. /\ clock' = clock + 1
      /\ edited' = [edited EXCEPT ![f] = clock + 1]
      /\ edits' = edits \cup {clock + 1}
      /\ UNCHANGED <<bin, bak, builder, reading, pc, at, newest, began>>
  BY DEF Edit
<1>2. Typed'
  BY <1>1 DEF Typed
<1>3. Times'
  BY <1>1 DEF Typed, Times
<1>4. OneBuilder'
  BY <1>1 DEF OneBuilder
<1>5. Edited'
  <2>1. edited'[f] = clock + 1 /\ \A g \in Sources : edited[g] <= edited'[g]
    BY <1>1 DEF Typed, Times
  <2>2. ASSUME NEW e \in edits'  PROVE \E g \in Sources : e <= edited'[g]
    <3>1. CASE e = clock + 1
      BY <1>1, <2>1, <3>1 DEF Typed
    <3>2. CASE e \in edits
      <4>1. PICK g \in Sources : e <= edited[g]
        BY <3>2 DEF Edited
      <4> QED
        BY <1>2, <2>1, <3>2, <4>1 DEF Typed
    <3> QED
      BY <1>1, <3>1, <3>2
  <2> QED
    BY <2>2 DEF Edited
<1>6. ASSUME NEW s \in Sessions  PROVE Represents(s)' /\ Passes(s)'
  <2>1. \A e \in edits' : e <= began[s] => e \in edits
    BY <1>1 DEF Typed, Times
  <2>2. \A g \in Sources : edited[g] <= edited'[g] /\ edited'[g] \in Nat
    BY <1>1, <1>2 DEF Typed, Times
  <2>3. Represents(s)'
    BY <1>1, <2>1, <2>2 DEF Represents, Typed
  <2>4. Passes(s)'
    BY <1>1, <2>1 DEF Passes, Behind
  <2> QED
    BY <2>3, <2>4
<1> QED
  BY <1>2, <1>3, <1>4, <1>5, <1>6

\* The newest file of an invocation stands for every edit so far.
LEMMA BeginKeeps ==
  ASSUME BuildInv, NEW s \in Sessions, Begin(s)
  PROVE  BuildInv'
<1> USE DEF BuildInv
<1>1. PICK f \in Newest : newest' = [newest EXCEPT ![s] = f]
  BY DEF Begin
<1>2. /\ began' = [began EXCEPT ![s] = clock] /\ pc' = [pc EXCEPT ![s] = "check"]
      /\ UNCHANGED <<clock, edited, bin, bak, builder, reading, at, edits>>
      /\ pc[s] = "start"
  BY DEF Begin, Goto
<1>3. f \in Sources /\ \A e \in edits : e <= edited[f]
  <2>1. f \in Sources /\ \A g \in Sources : edited[f] >= edited[g]
    BY DEF Newest
  <2>2. ASSUME NEW e \in edits  PROVE e <= edited[f]
    <3>1. PICK g \in Sources : e <= edited[g]
      BY DEF Edited
    <3> QED
      BY <2>1, <3>1 DEF Typed
  <2> QED
    BY <2>1, <2>2
<1>4. Typed' /\ Times' /\ OneBuilder' /\ Edited'
  BY <1>1, <1>2, <1>3 DEF Typed, Times, OneBuilder, Edited, Places
<1>5. ASSUME NEW t \in Sessions  PROVE Represents(t)' /\ Passes(t)'
  <2>1. CASE t = s
    <3>1. Represents(s)'
      BY <1>1, <1>2, <1>3 DEF Represents, Typed
    <3>2. Behind(s)' = {}
      BY <1>2 DEF Behind, Typed
    <3> QED
      BY <2>1, <3>1, <3>2 DEF Passes
  <2>2. CASE t # s
    BY <1>1, <1>2, <2>2 DEF Represents, Passes, Behind, Typed
  <2> QED
    BY <2>1, <2>2
<1> QED
  BY <1>4, <1>5

\* A binary that is not older than the file is newer than what it stands for.
LEMMA UpToDateKeeps ==
  ASSUME BuildInv, NEW s \in Sessions, UpToDate(s)
  PROVE  BuildInv'
<1> USE DEF BuildInv
<1>1. /\ pc[s] = "check" /\ ~Stale(s) /\ NextBinary(s)
      /\ UNCHANGED <<clock, edited, bin, bak, builder, reading, newest, began, edits>>
  BY DEF UpToDate
<1>2. /\ at' \in [Sessions -> {1, 2}] /\ pc' \in [Sessions -> Places]
      /\ pc'[s] \in {"check", "use"}
      /\ \A t \in Sessions \ {s} : pc'[t] = pc[t] /\ at'[t] = at[t]
      /\ Behind(s)' = Behind(s) \cup {Binary(s)}
  BY <1>1, NextBinaryStep DEF AtWork
<1>3. Typed' /\ Times' /\ OneBuilder' /\ Edited'
  BY <1>1, <1>2 DEF Typed, Times, OneBuilder, Edited
<1>4. Represents(s)'
  BY <1>1, <1>2 DEF Represents, AtWork
<1>5. Passes(s)'
  <2>1. Binary(s) \in Names
    BY BinaryType
  <2>2. ASSUME bin[Binary(s)] # None, NEW e \in edits, e <= began[s]
        PROVE  e < bin[Binary(s)].time
    <3>1. bin[Binary(s)].time \in Nat /\ bin[Binary(s)].time \notin edits
      BY <2>1, <2>2 DEF Typed, Times
    <3>2. newest[s] \in Sources /\ e <= edited[newest[s]]
      BY <1>1, <2>2 DEF Represents, AtWork
    <3>3. ~(bin[Binary(s)].time < edited[newest[s]])
      BY <1>1, <2>2 DEF Stale
    <3>4. e \in Nat /\ edited[newest[s]] \in Nat /\ e # bin[Binary(s)].time
      BY <2>2, <3>1, <3>2 DEF Typed
    <3> HIDE DEF Binary
    <3> QED
      BY <3>1, <3>2, <3>3, <3>4
  <2> HIDE DEF Binary
  <2> QED
    BY <1>1, <1>2, <2>2 DEF Passes
<1>6. ASSUME NEW t \in Sessions \ {s}  PROVE Represents(t)' /\ Passes(t)'
  BY <1>1, <1>2 DEF Represents, Passes, Behind
<1> QED
  BY <1>3, <1>4, <1>5, <1>6

\* The way to a build, which takes a binary away at most.
LEMMA TowardsBuildKeeps ==
  ASSUME BuildInv, NEW s \in Sessions,
         Outdated(s) \/ ToBackup(s) \/ Move(s) \/ Cargo(s)
  PROVE  BuildInv'
<1> USE DEF BuildInv
<1>1. /\ pc[s] \in AtWork \ {"building"} /\ pc'[s] \in AtWork
      /\ pc' \in [Sessions -> Places]
      /\ \A t \in Sessions \ {s} : pc'[t] = pc[t]
      /\ pc'[s] = "building" <=> Cargo(s)
      /\ UNCHANGED <<clock, edited, at, newest, began, edits>>
  BY DEF Outdated, ToBackup, Move, Cargo, Goto, Typed, AtWork, Places
<1>2. /\ bin' \in [Names -> [of : Nat, time : Nat] \cup {None}]
      /\ bak' \in [Names -> [of : Nat, time : Nat] \cup {None}]
      /\ \A b \in Names : bin'[b] # None => bin'[b] = bin[b]
      /\ \A b \in Names : bak'[b] # None => bak'[b] \in {bak[b], bin[b]}
  <2>1. CASE Move(s)
    BY <2>1, BinaryType DEF Move, Typed
  <2>2. CASE ~Move(s)
    BY <2>2 DEF Outdated, ToBackup, Cargo, Typed
  <2> QED
    BY <2>1, <2>2
<1>3. Typed'
  <2>1. reading' \in Nat /\ reading' <= clock' /\ builder' \in Sessions \cup {None}
    BY DEF Outdated, ToBackup, Move, Cargo, Typed
  <2> QED
    BY <1>1, <1>2, <2>1 DEF Typed, AtWork
<1>4. Times'
  BY <1>1, <1>2 DEF Times, Typed
<1>5. OneBuilder'
  <2>1. CASE Cargo(s)
    BY <1>1, <2>1, BuildAssumption DEF Cargo, OneBuilder
  <2>2. CASE ~Cargo(s)
    BY <1>1, <2>2 DEF Outdated, ToBackup, Move, OneBuilder
  <2> QED
    BY <2>1, <2>2
<1>6. ASSUME NEW t \in Sessions  PROVE Represents(t)' /\ Passes(t)'
  <2>1. Behind(t)' = Behind(t) /\ Behind(t) \subseteq Names
    BY <1>1 DEF Behind, AtWork, Names
  <2>2. Represents(t)'
    BY <1>1 DEF Represents
  <2> QED
    BY <1>1, <1>2, <2>1, <2>2 DEF Passes
<1> QED
  BY <1>1, <1>3, <1>4, <1>5, <1>6 DEF Edited

\* What is installed is newer than every edit, whoever looked at what it
\* replaces.
LEMMA InstallKeeps ==
  ASSUME BuildInv, NEW s \in Sessions, Install(s)
  PROVE  BuildInv'
<1> USE DEF BuildInv
<1> DEFINE new == [of |-> reading, time |-> clock + 1]
<1>1. /\ pc[s] = "building" /\ NextBinary(s)
      /\ clock' = clock + 1 /\ builder' = None /\ reading' = 0
      /\ bin' = [bin EXCEPT ![Binary(s)] = new]
      /\ UNCHANGED <<edited, bak, newest, began, edits>>
  BY DEF Install
<1>2. /\ at' \in [Sessions -> {1, 2}] /\ pc' \in [Sessions -> Places]
      /\ pc'[s] \in {"check", "use"}
      /\ \A t \in Sessions \ {s} : pc'[t] = pc[t] /\ at'[t] = at[t]
      /\ Behind(s)' = Behind(s) \cup {Binary(s)}
  BY <1>1, NextBinaryStep DEF AtWork
<1>3. Binary(s) \in Names
  BY BinaryType
<1>4. /\ bin'[Binary(s)] = new
      /\ \A b \in Names \ {Binary(s)} : bin'[b] = bin[b]
  BY <1>1, <1>3 DEF Typed
<1>5. Typed'
  <2>1. bin' \in [Names -> [of : Nat, time : Nat] \cup {None}]
    BY <1>1, <1>3 DEF Typed
  <2> QED
    BY <1>1, <1>2, <2>1 DEF Typed
<1> HIDE DEF Binary
<1>6. Times'
  <2>1. \A b \in Names : bin'[b] # None =>
          bin'[b].of <= clock' /\ bin'[b].time <= clock' /\ bin'[b].time \notin edits
    BY <1>1, <1>3, <1>4 DEF Times, Typed
  <2> QED
    BY <1>1, <2>1 DEF Times, Typed
<1>7. OneBuilder'
  BY <1>1, <1>2, BuildAssumption DEF OneBuilder
<1>8. ASSUME NEW t \in Sessions  PROVE Represents(t)'
  BY <1>1, <1>2 DEF Represents, AtWork
<1>9. ASSUME NEW t \in Sessions  PROVE Passes(t)'
  <2>1. Behind(t)' \subseteq Behind(t) \cup {Binary(s)} /\ Behind(t) \subseteq Names
    BY <1>2 DEF Behind, Names
  <2>2. ASSUME NEW b \in Behind(t)', bin'[b] # None, NEW e \in edits, e <= began[t]
        PROVE  e < bin'[b].time
    <3>1. CASE b = Binary(s)
      BY <1>4, <2>2, <3>1 DEF Times, Typed
    <3>2. CASE b # Binary(s)
      <4>1. b \in Behind(t) /\ bin'[b] = bin[b]
        BY <1>4, <2>1, <2>2, <3>2
      <4> QED
        BY <2>2, <4>1 DEF Passes
    <3> QED
      BY <3>1, <3>2
  <2> QED
    BY <1>1, <2>2 DEF Passes
<1> QED
  BY <1>1, <1>5, <1>6, <1>7, <1>8, <1>9 DEF Edited

\* An invocation that ends gives cargo's lock back.
LEMMA EndsKeeps ==
  ASSUME BuildInv, NEW s \in Sessions, Ends(s)
  PROVE  BuildInv'
<1> USE DEF BuildInv
<1>1. /\ pc' = [pc EXCEPT ![s] = "end"]
      /\ UNCHANGED <<clock, edited, bin, bak, at, newest, began, edits>>
      /\ IF builder = s THEN builder' = None /\ reading' = 0
         ELSE UNCHANGED <<builder, reading>>
  BY DEF Ends, Goto
<1>2. Typed' /\ Times' /\ Edited'
  BY <1>1 DEF Typed, Times, Edited, Places
<1>3. OneBuilder'
  BY <1>1, BuildAssumption DEF OneBuilder, Typed
<1>4. ASSUME NEW t \in Sessions  PROVE Represents(t)' /\ Passes(t)'
  BY <1>1 DEF Represents, Passes, Behind, Typed, AtWork
<1> QED
  BY <1>2, <1>3, <1>4

\* Every step keeps the invariant.
LEMMA BuildStep ==
  ASSUME BuildInv, [Next]_vars
  PROVE  BuildInv'
<1>1. CASE UNCHANGED vars
  BY <1>1 DEF vars, BuildInv, Typed, Times, OneBuilder, Edited, Represents, Passes, Behind
<1>2. CASE \E f \in Sources : Edit(f)
  BY <1>2, EditKeeps
<1>3. ASSUME NEW s \in Sessions, Begin(s) \/ UpToDate(s) \/ Install(s) \/ Ends(s)
      PROVE  BuildInv'
  BY <1>3, BeginKeeps, UpToDateKeeps, InstallKeeps, EndsKeeps
<1>4. ASSUME NEW s \in Sessions, Outdated(s) \/ ToBackup(s) \/ Move(s) \/ Cargo(s)
      PROVE  BuildInv'
  BY <1>4, TowardsBuildKeeps
<1> QED
  BY <1>1, <1>2, <1>3, <1>4 DEF Next

LEMMA BuildInvariant == Spec => []BuildInv
  BY InitHolds, BuildStep, PTL DEF Spec

\* What README.md promises of a start: a launch runs on binaries with every
\* edit made before its invocation began, whoever built them and however the
\* builds of other invocations overlapped its own, but for edits that hide in
\* a build.
THEOREM LaunchesRunEdits == Spec => []EditsAreBuilt
<1>1. BuildInv => EditsAreBuilt
  <2> SUFFICES ASSUME BuildInv, NEW s \in Sessions, NEW b \in Names,
                      pc[s] = "use", bin[b] # None,
                      NEW e \in edits, e <= began[s], ~Hides(e, bin[b])
               PROVE  e <= bin[b].of
    BY DEF EditsAreBuilt
  <2>1. e < bin[b].time
    BY DEF BuildInv, Passes, Behind
  <2>2. bin[b].of \in Nat /\ e \in Nat
    BY DEF BuildInv, Typed
  <2> QED
    BY <2>1, <2>2 DEF Hides
<1> QED
  BY <1>1, BuildInvariant, PTL

\* BACKUP: a binary that was built is there or in its *.bak, however many
\* invocations move, build, fail or are interrupted.
THEOREM BuildsAreKept == Spec => SomeBuildKept
<1>1. BuildInv /\ [Next]_vars =>
        [\A b \in Names : bin[b] # None \/ bak[b] # None =>
           bin'[b] # None \/ bak'[b] # None]_vars
  <2> SUFFICES ASSUME BuildInv, Next, NEW b \in Names, bin[b] # None \/ bak[b] # None
               PROVE  bin'[b] # None \/ bak'[b] # None
    OBVIOUS
  <2>1. Typed
    BY DEF BuildInv
  <2>2. ASSUME NEW s \in Sessions, Move(s)  PROVE bin'[b] # None \/ bak'[b] # None
    BY <2>1, <2>2, BinaryType DEF Move, Typed
  <2>3. ASSUME NEW s \in Sessions, Install(s)  PROVE bin'[b] # None \/ bak'[b] # None
    <3>1. [of |-> reading, time |-> clock + 1] # None
      BY <2>1, BuildAssumption DEF Typed
    <3> QED
      BY <2>1, <2>3, <3>1, BinaryType DEF Install, Typed
  <2>4. CASE UNCHANGED <<bin, bak>>
    BY <2>4
  <2> QED
    BY <2>2, <2>3, <2>4
    DEF Next, Edit, Begin, UpToDate, Outdated, ToBackup, Cargo, Ends
<1> QED
  BY <1>1, BuildInvariant, PTL DEF Spec, SomeBuildKept

-----------------------------------------------------------------------------
(***************************************************************************)
(* Time is bounded: every point of it is an edit's, or the build of one    *)
(* binary by one invocation, which builds each binary at most once.        *)
(***************************************************************************)

\* How many binaries an invocation is done with, one way or another.
Passed(s) == IF pc[s] \in {"use", "end"} THEN 2 ELSE at[s] - 1

Builds == {u \in Sessions \X (1 .. 2) : u[2] <= Passed(u[1])}

Bounded ==
  /\ IsFiniteSet(edits) /\ Cardinality(edits) <= MaxEdits
  /\ clock <= Cardinality(edits) + Cardinality(Builds)

LEMMA BuildsBound ==
  /\ IsFiniteSet(Sessions \X (1 .. 2)) /\ IsFiniteSet(Builds)
  /\ Cardinality(Builds) \in Nat /\ Cardinality(Sessions) \in Nat
  /\ Cardinality(Builds) <= 2 * Cardinality(Sessions)
<1>1. IsFiniteSet(1 .. 2) /\ Cardinality(1 .. 2) = 2
  <2>1. \A n \in Nat : IsFiniteSet(1 .. n) /\ Cardinality(1 .. n) = n
    BY FS_Interval
  <2> QED
    BY <2>1, 2 \in Nat
<1>2. /\ IsFiniteSet(Sessions \X (1 .. 2))
      /\ Cardinality(Sessions \X (1 .. 2)) = Cardinality(Sessions) * Cardinality(1 .. 2)
  BY <1>1, BuildAssumption, FS_Product
<1>3. Builds \subseteq Sessions \X (1 .. 2)
  BY DEF Builds
<1>4. IsFiniteSet(Builds) /\ Cardinality(Builds) <= Cardinality(Sessions \X (1 .. 2))
  BY <1>2, <1>3, FS_Subset
<1>5. Cardinality(Sessions) \in Nat /\ Cardinality(Builds) \in Nat
  BY <1>4, BuildAssumption, FS_CardinalityType
<1> HIDE DEF Builds
<1> QED
  BY <1>1, <1>2, <1>4, <1>5

\* A step that is no edit and no build, and lets nobody fall back.
LEMMA BoundedWhenPassed ==
  ASSUME Bounded, BuildInv, UNCHANGED <<clock, edits>>,
         \A s \in Sessions : Passed(s) <= Passed(s)' /\ Passed(s) \in Int /\ Passed(s)' \in Int
  PROVE  Bounded'
<1>1. IsFiniteSet(Sessions \X (1 .. 2))
  BY BuildsBound
<1>2. Builds \subseteq Builds' /\ Builds' \subseteq Sessions \X (1 .. 2)
  BY DEF Builds
<1>3. IsFiniteSet(Builds')
  BY <1>1, <1>2, FS_Subset
<1>4. Cardinality(Builds) <= Cardinality(Builds')
  BY <1>2, <1>3, FS_Subset
<1>5. Cardinality(Builds) \in Nat /\ Cardinality(Builds') \in Nat /\ Cardinality(edits) \in Nat
  BY <1>3, BuildsBound, FS_CardinalityType DEF Bounded
<1>6. clock \in Nat
  BY DEF BuildInv, Typed
<1> HIDE DEF Builds
<1> QED
  BY <1>4, <1>5, <1>6 DEF Bounded

LEMMA BoundedStep ==
  ASSUME Bounded, BuildInv, BuildInv', [Next]_vars
  PROVE  Bounded'
<1>1. Typed /\ Typed'
  BY DEF BuildInv
<1>2. \A s \in Sessions : Passed(s) \in Int /\ Passed(s)' \in Int
  BY <1>1 DEF Passed, Typed
<1>3. ASSUME NEW f \in Sources, Edit(f)  PROVE Bounded'
  <2>1. /\ clock' = clock + 1 /\ edits' = edits \cup {clock + 1}
        /\ Cardinality(edits) < MaxEdits /\ Builds' = Builds
    BY <1>3 DEF Edit, Builds, Passed
  <2>2. clock + 1 \notin edits /\ clock \in Nat
    BY DEF BuildInv, Typed, Times
  <2>3. IsFiniteSet(edits') /\ Cardinality(edits') = Cardinality(edits) + 1
    BY <2>1, <2>2, FS_AddElement DEF Bounded
  <2>4. Cardinality(edits) \in Nat /\ Cardinality(Builds) \in Nat
    BY BuildsBound, FS_CardinalityType DEF Bounded
  <2> HIDE DEF Builds
  <2> QED
    BY <2>1, <2>2, <2>3, <2>4, BuildAssumption DEF Bounded
<1>4. ASSUME NEW s \in Sessions, Install(s)  PROVE Bounded'
  <2> DEFINE one == <<s, at[s]>>
  <2>1. /\ pc[s] = "building" /\ NextBinary(s)
        /\ clock' = clock + 1 /\ edits' = edits
    BY <1>4 DEF Install
  <2>2. /\ Passed(s) = at[s] - 1 /\ Passed(s)' = at[s]
        /\ \A t \in Sessions \ {s} : Passed(t)' = Passed(t)
    <3>1. Len(Binaries) = 2
      BY <1>1, BinaryType
    <3>2. CASE at[s] = 1
      <4>1. at' = [at EXCEPT ![s] = at[s] + 1] /\ pc' = [pc EXCEPT ![s] = "check"]
        BY <2>1, <3>1, <3>2 DEF NextBinary, Goto
      <4> QED
        BY <1>1, <2>1, <3>2, <4>1 DEF Passed, Typed
    <3>3. CASE at[s] = 2
      <4>1. at' = [at EXCEPT ![s] = 1] /\ pc' = [pc EXCEPT ![s] = "use"]
        BY <2>1, <3>1, <3>3 DEF NextBinary, Goto
      <4> QED
        BY <1>1, <2>1, <3>3, <4>1 DEF Passed, Typed
    <3> QED
      BY <1>1, <3>2, <3>3 DEF Typed
  <2>3. one \in Sessions \X (1 .. 2) /\ one \notin Builds
    BY <1>1, <2>2 DEF Builds, Typed
  <2>4. Builds \cup {one} \subseteq Builds' /\ Builds' \subseteq Sessions \X (1 .. 2)
    BY <1>1, <1>2, <2>2, <2>3 DEF Builds, Typed
  <2>5. /\ IsFiniteSet(Builds \cup {one})
        /\ Cardinality(Builds \cup {one}) = Cardinality(Builds) + 1
    BY <2>3, BuildsBound, FS_AddElement
  <2>6. IsFiniteSet(Builds')
    BY <2>4, BuildsBound, FS_Subset
  <2>7. Cardinality(Builds \cup {one}) <= Cardinality(Builds')
    BY <2>4, <2>6, FS_Subset
  <2>8. /\ Cardinality(edits) \in Nat /\ Cardinality(Builds) \in Nat
        /\ Cardinality(Builds') \in Nat /\ clock \in Nat
    BY <1>1, <2>6, BuildsBound, FS_CardinalityType DEF Bounded, Typed
  <2> HIDE DEF Builds, one
  <2> QED
    BY <2>1, <2>5, <2>7, <2>8 DEF Bounded
<1>5. ASSUME NEW s \in Sessions, UpToDate(s)
      PROVE  \A t \in Sessions : Passed(t) <= Passed(t)'
  <2>1. Len(Binaries) = 2
    BY <1>1, BinaryType
  <2>2. pc[s] = "check" /\ NextBinary(s)
    BY <1>5 DEF UpToDate
  <2>3. CASE at[s] = 1
    <3>1. at' = [at EXCEPT ![s] = at[s] + 1] /\ pc' = [pc EXCEPT ![s] = "check"]
      BY <2>1, <2>2, <2>3 DEF NextBinary, Goto
    <3> QED
      BY <1>1, <2>2, <2>3, <3>1 DEF Passed, Typed
  <2>4. CASE at[s] = 2
    <3>1. at' = [at EXCEPT ![s] = 1] /\ pc' = [pc EXCEPT ![s] = "use"]
      BY <2>1, <2>2, <2>4 DEF NextBinary, Goto
    <3> QED
      BY <1>1, <2>2, <2>4, <3>1 DEF Passed, Typed
  <2> QED
    BY <1>1, <2>3, <2>4 DEF Typed
<1>6. ASSUME NEW s \in Sessions,
             Begin(s) \/ Outdated(s) \/ ToBackup(s) \/ Move(s) \/ Cargo(s) \/ Ends(s)
      PROVE  \A t \in Sessions : Passed(t) <= Passed(t)'
  <2>1. /\ at' = at /\ \A t \in Sessions \ {s} : pc'[t] = pc[t]
        /\ pc[s] \in {"use", "end"} => pc'[s] \in {"use", "end"}
    BY <1>1, <1>6 DEF Begin, Outdated, ToBackup, Move, Cargo, Ends, Goto, Typed
  <2> QED
    BY <1>1, <2>1 DEF Passed, Typed
<1>7. CASE UNCHANGED vars
  BY <1>7 DEF vars, Bounded, Builds, Passed
<1>8. ASSUME NEW s \in Sessions, UpToDate(s)  PROVE Bounded'
  BY <1>2, <1>5, <1>8, BoundedWhenPassed DEF UpToDate
<1>9. ASSUME NEW s \in Sessions,
             Begin(s) \/ Outdated(s) \/ ToBackup(s) \/ Move(s) \/ Cargo(s) \/ Ends(s)
      PROVE  Bounded'
  <2>1. UNCHANGED <<clock, edits>>
    BY <1>9 DEF Begin, Outdated, ToBackup, Move, Cargo, Ends
  <2> QED
    BY <1>2, <1>6, <1>9, <2>1, BoundedWhenPassed
<1> QED
  BY <1>3, <1>4, <1>7, <1>8, <1>9 DEF Next

\* Type correctness: in particular one invocation at a time is in cargo's
\* build, and a binary's times are those of edits and builds, of which there
\* are at most two for each invocation.
THEOREM TypeCorrect == Spec => []TypeOK
<1>1. Init => Bounded
  <2> SUFFICES ASSUME Init PROVE Bounded
    OBVIOUS
  <2>1. edits = {} /\ clock = 0
    BY DEF Init
  <2>2. IsFiniteSet(edits) /\ Cardinality(edits) = 0
    BY <2>1, FS_EmptySet
  <2>3. Cardinality(Builds) \in Nat
    BY BuildsBound
  <2> HIDE DEF Builds
  <2> QED
    BY <2>1, <2>2, <2>3, BuildAssumption DEF Bounded
<1>2. BuildInv /\ Bounded => TypeOK
  <2> SUFFICES ASSUME BuildInv, Bounded PROVE TypeOK
    OBVIOUS
  <2>1. /\ Cardinality(edits) \in Nat /\ Cardinality(Builds) \in Nat
        /\ Cardinality(Sessions) \in Nat
        /\ Cardinality(Builds) <= 2 * Cardinality(Sessions)
    BY BuildsBound, FS_CardinalityType DEF Bounded
  <2>2. MaxTime \in Nat /\ clock <= MaxTime
    BY <2>1, BuildAssumption DEF Bounded, MaxTime, BuildInv, Typed
  <2>3. Typed /\ Times
    BY DEF BuildInv
  <2>4. \A n \in Nat : n <= clock => n \in 0 .. MaxTime
    BY <2>2, <2>3 DEF Typed
  <2>5. clock \in 0 .. MaxTime /\ reading \in 0 .. MaxTime
    BY <2>3, <2>4 DEF Typed
  <2>6. edited \in [Sources -> 0 .. MaxTime]
    BY <2>3, <2>4 DEF Typed, Times
  <2>7. /\ \A b \in Names : bin[b] \in Built \cup {None}
        /\ \A b \in Names : bak[b] \in Built \cup {None}
    BY <2>3, <2>4 DEF Typed, Times, Built
  <2>8. bin \in [Names -> Built \cup {None}] /\ bak \in [Names -> Built \cup {None}]
    BY <2>3, <2>7 DEF Typed
  <2>9. at \in [Sessions -> 1 .. Len(Binaries)]
    <3>1. Len(Binaries) = 2 /\ 1 .. 2 = {1, 2}
      BY DEF Binaries
    <3> QED
      BY <2>3, <3>1 DEF Typed
  <2>10. /\ \A s \in Sessions :
               pc[s] \in {"check", "backup", "move", "build", "building"} => newest[s] \in Sources
         /\ \A s \in Sessions : pc[s] = "building" <=> builder = s
    BY DEF BuildInv, Represents, AtWork, OneBuilder
  <2> QED
    BY <2>3, <2>5, <2>6, <2>8, <2>9, <2>10 DEF TypeOK, Typed, Places
<1>3. BuildInv /\ BuildInv' /\ Bounded /\ [Next]_vars => Bounded'
  BY BoundedStep
<1> QED
  BY <1>1, <1>2, <1>3, BuildInvariant, PTL DEF Spec

=============================================================================
