------------------------ MODULE SnapshotExportProofs -------------------------
(***************************************************************************)
(* What the snapshot export guarantees for any releases, generations and   *)
(* pages, any number of overlapping runs and any number of selections,     *)
(* rotten files, deaths and power losses between them.                     *)
(***************************************************************************)
EXTENDS SnapshotExport, TLAPS, WellFoundedInduction

\* A run is a record with the fields of Idle, and counts the pages it read.
IsRun(x) ==
    /\ x = [ pc |-> x.pc, from |-> x.from, optIn |-> x.optIn, pin |-> x.pin,
             seen |-> x.seen, generation |-> x.generation, states |-> x.states,
             selected |-> x.selected, named |-> x.named, synced |-> x.synced ]
    /\ x.seen \in Nat

Runners ==
    /\ run = [r \in Exporters |-> run[r]]
    /\ \A r \in Exporters : IsRun(run[r])
    /\ config \in Nat

IsSelector(x) == x = [current |-> x.current, whole |-> x.whole]

Over    == {"idle", "refused", "failed", "dead", "completed"}
Reading == {"pages", "truth", "artifacts", "open", "rename", "directory"}

\* From the pointer's check on, the release is one that was selected since
\* the run started, and it stays so whatever is selected later.
FromSelected(x) == IF x.from = Checkout THEN x.optIn ELSE x.from \in x.selected

Admitted(x) ==
    /\ x.pc \in {"pointer", "release"} => x.from # Checkout
    /\ x.pc = "release" => FromSelected(x)
    /\ x.pc = "config" => FromSelected(x)
    /\ x.pc \in Reading => FromSelected(x) /\ (x.from # Checkout => x.pin # None)

\* A run that is not over has noted what is selected now.
Noted(x) == x.pc \notin Over => runtime.current \in x.selected

\* What a run is about to rename over the snapshot is synced and has all pages.
Prepared(x) ==
    /\ x.pc \in {"truth", "artifacts", "open", "rename"} => x.seen = Len(Pages)
    /\ x.pc = "rename" => x.synced

Sound(x) == Admitted(x) /\ Prepared(x)

\* What the path holds, or a power loss may bring back.
Authorised(s) ==
    s # None => IF s.run.from = Checkout THEN s.run.optIn
                ELSE s.run.from \in s.run.selected /\ s.run.pin # None
Complete(s) == s # None => s.whole /\ Len(s.entries) = Len(Pages)
Kept == \A s \in {file} \cup past : Authorised(s) /\ Complete(s)

IInv ==
    /\ Runners
    /\ IsSelector(runtime)
    /\ \A r \in Exporters : Noted(run[r])
    /\ \A r \in Exporters : Sound(run[r])
    /\ Kept

------------------------------------------------------------------------------
LEMMA InitIsSound == ASSUME Init, None \notin Nat PROVE IInv
<1>1. ASSUME NEW r \in Exporters PROVE run[r] = Idle
  BY DEF Init
<1>2. IsRun(Idle) /\ Noted(Idle) /\ Sound(Idle)
  BY DEF Idle, IsRun, Noted, Over, Sound, Admitted, Prepared, Reading
<1>3. Kept
  BY DEF Init, Kept, Authorised, Complete
<1>4. Runners
  <2>1. run = [r \in Exporters |-> run[r]]
    BY DEF Init
  <2>2. config \in Nat
    BY DEF Init
  <2>q. QED
    BY <1>1, <1>2, <2>1, <2>2 DEF Runners
<1>5. IsSelector(runtime)
  BY DEF Init, IsSelector
<1>q. QED
  BY <1>1, <1>2, <1>3, <1>4, <1>5 DEF IInv

\* A run's own step changes that run: what is known of the others stays.
LEMMA OneRunSteps ==
    ASSUME IInv, NEW r \in Exporters, NEW next, Set(r, next),
           IsRun(next), Noted(next), Sound(next),
           UNCHANGED <<runtime, config>>, Kept'
    PROVE  IInv'
<1>1. run[r]' = next /\ \A o \in Exporters \ {r} : run[o]' = run[o]
  BY DEF IInv, Runners, Set
<1>2. Runners'
  <2>1. run' = [o \in Exporters |-> run'[o]]
    BY DEF IInv, Runners, Set
  <2>2. \A o \in Exporters : IsRun(run'[o])
    BY <1>1 DEF IInv, Runners
  <2>q. QED
    BY <2>1, <2>2 DEF IInv, Runners
<1>3. \A o \in Exporters : Noted(run[o])'
  BY <1>1 DEF IInv, Noted
<1>4. \A o \in Exporters : Sound(run[o])'
  BY <1>1 DEF IInv
<1>q. QED
  BY <1>2, <1>3, <1>4 DEF IInv

\* The same for a step that leaves the disk alone.
LEMMA QuietStep ==
    ASSUME IInv, NEW r \in Exporters, NEW next, Set(r, next),
           IsRun(next), Noted(next), Sound(next),
           UNCHANGED <<runtime, config, file, past>>
    PROVE  IInv'
<1>1. Kept'
  BY DEF IInv, Kept, Authorised, Complete
<1>q. QED
  BY <1>1, OneRunSteps

\* Ending is always possible.
LEMMA EndIsSound ==
    ASSUME NEW pc \in Over \ {"idle"}, NEW x, x = [Idle EXCEPT !.pc = pc]
    PROVE  IsRun(x) /\ Noted(x) /\ Sound(x)
<1>1. x = [ pc |-> pc, from |-> None, optIn |-> FALSE, pin |-> None, seen |-> 0,
            generation |-> None, states |-> <<>>, selected |-> {}, named |-> {},
            synced |-> FALSE ]
  BY DEF Idle
<1>2. /\ x.pc = pc /\ x.from = None /\ x.optIn = FALSE /\ x.pin = None /\ x.seen = 0
      /\ x.generation = None /\ x.states = <<>> /\ x.selected = {} /\ x.named = {}
      /\ x.synced = FALSE
  BY <1>1
<1>3. IsRun(x)
  <2>1. x.seen \in Nat
    BY <1>2
  <2>q. QED
    BY <1>1, <1>2, <2>1, Zenon DEF IsRun
<1>q. QED
  BY <1>2, <1>3 DEF Noted, Over, Sound, Admitted, Prepared, Reading

LEMMA Ending ==
    ASSUME IInv, NEW r \in Exporters, NEW pc \in Over \ {"idle"}, End(r, pc),
           UNCHANGED <<runtime, config, file, past>>
    PROVE  IInv'
<1>1. PICK x : x = [Idle EXCEPT !.pc = pc]
  OBVIOUS
<1>2. Set(r, x)
  BY <1>1 DEF End
<1>q. QED
  BY <1>1, <1>2, EndIsSound, QuietStep

\* Going on to another step of the same run keeps every other field.
LEMMA Going ==
    ASSUME IInv, NEW r \in Exporters, NEW pc, NEW x, x = [run[r] EXCEPT !.pc = pc]
    PROVE  /\ IsRun(x) /\ x.pc = pc /\ x.from = run[r].from /\ x.optIn = run[r].optIn
           /\ x.pin = run[r].pin /\ x.seen = run[r].seen /\ x.synced = run[r].synced
           /\ x.selected = run[r].selected
<1>1. IsRun(run[r])
  BY DEF IInv, Runners
<1>q. QED
  BY <1>1 DEF IsRun

\* From one step to another of a run that is not over.
Moved(x, y, pc) ==
    /\ x.pc = pc /\ x.from = y.from /\ x.optIn = y.optIn /\ x.pin = y.pin
    /\ x.seen = y.seen /\ x.synced = y.synced /\ x.selected = y.selected

LEMMA Proceeding ==
    ASSUME IInv, NEW r \in Exporters, run[r].pc \notin Over, NEW pc, Goto(r, pc),
           ASSUME NEW x, Moved(x, run[r], pc) PROVE Sound(x),
           UNCHANGED <<runtime, config, file, past>>
    PROVE  IInv'
<1>1. PICK x : x = [run[r] EXCEPT !.pc = pc]
  OBVIOUS
<1>2. IsRun(x) /\ Moved(x, run[r], pc)
  BY <1>1, Going DEF Moved
<1>3. Noted(x)
  BY <1>2 DEF IInv, Noted, Moved
<1>4. Set(r, x) /\ Sound(x)
  BY <1>1, <1>2 DEF Goto
<1>q. QED
  BY <1>2, <1>3, <1>4, QuietStep

\* The snapshot a run writes from "rename" is authorised and complete.
LEMMA SnapshotIsSound ==
    ASSUME IInv, NEW r \in Exporters, At(r, "rename"), NEW s, s = Snapshot(r)
    PROVE  Authorised(s) /\ Complete(s)
<1>1. IsRun(run[r]) /\ Sound(run[r])
  BY DEF IInv, Runners
<1>2. PICK x : x = [run[r] EXCEPT !.states = <<>>]
  OBVIOUS
<1>3. x.from = run[r].from /\ x.optIn = run[r].optIn /\ x.pin = run[r].pin
      /\ x.selected = run[r].selected
  BY <1>1, <1>2 DEF IsRun
<1>4. s.run = x /\ s.whole = TRUE /\ s.entries = [i \in 1 .. run[r].seen |-> Entry(r, Pages[i])]
  BY <1>2 DEF Snapshot
<1>5. FromSelected(run[r]) /\ (run[r].from # Checkout => run[r].pin # None)
  BY <1>1 DEF At, Sound, Admitted, Reading
<1>6. Authorised(s)
  BY <1>3, <1>4, <1>5 DEF Authorised, FromSelected
<1>7. run[r].seen = Len(Pages) /\ run[r].seen \in Nat
  BY <1>1 DEF At, Sound, Prepared, IsRun
<1>8. Len(s.entries) = Len(Pages)
  BY <1>4, <1>7
<1>q. QED
  BY <1>4, <1>6, <1>8 DEF Complete

LEMMA RenameKeeps == ASSUME IInv, NEW r \in Exporters, Rename(r) PROVE IInv'
<1>1. IsRun(run[r]) /\ Sound(run[r]) /\ Noted(run[r])
  BY DEF IInv, Runners
<1>2. At(r, "rename") /\ run[r].synced
  BY <1>1 DEF Rename, At, Sound, Prepared
<1>3. PICK x : x = [run[r] EXCEPT !.pc = "directory"]
  OBVIOUS
<1>4. /\ IsRun(x) /\ x.pc = "directory" /\ x.from = run[r].from
      /\ x.optIn = run[r].optIn /\ x.pin = run[r].pin /\ x.selected = run[r].selected
  BY <1>3, Going
<1>5. Sound(x) /\ Noted(x)
  BY <1>1, <1>2, <1>4
     DEF At, Noted, Over, Sound, Admitted, Prepared, Reading, FromSelected
<1>6. Kept'
  <2>1. file' = Snapshot(r) /\ past' = past \cup {file}
    BY <1>2 DEF Rename
  <2>2. Authorised(file') /\ Complete(file')
    BY <1>2, <2>1, SnapshotIsSound
  <2>3. \A s \in past' : Authorised(s) /\ Complete(s)
    BY <2>1 DEF IInv, Kept
  <2>q. QED
    BY <2>2, <2>3 DEF Kept, Authorised, Complete
<1>7. Set(r, x) /\ UNCHANGED <<runtime, config>>
  BY <1>3 DEF Rename, Goto, World
<1>q. QED
  BY <1>4, <1>5, <1>6, <1>7, OneRunSteps

LEMMA StartKeeps == ASSUME IInv, NEW r \in Exporters, Start(r) PROVE IInv'
<1>1. PICK launch \in Launches :
        Set(r, [Idle EXCEPT !.pc = "manifest", !.from = launch.from, !.pin = launch.pin,
                            !.optIn = launch.optIn, !.selected = {runtime.current},
                            !.named = {auditor.current}])
  BY DEF Start
<1>2. PICK x : x = [Idle EXCEPT !.pc = "manifest", !.from = launch.from, !.pin = launch.pin,
                                !.optIn = launch.optIn, !.selected = {runtime.current},
                                !.named = {auditor.current}]
  OBVIOUS
<1>3. x = [ pc |-> "manifest", from |-> launch.from, optIn |-> launch.optIn,
            pin |-> launch.pin, seen |-> 0, generation |-> None, states |-> <<>>,
            selected |-> {runtime.current}, named |-> {auditor.current}, synced |-> FALSE ]
  BY <1>2 DEF Idle
<1>4. /\ x.pc = "manifest" /\ x.from = launch.from /\ x.optIn = launch.optIn
      /\ x.pin = launch.pin /\ x.seen = 0 /\ x.generation = None /\ x.states = <<>>
      /\ x.selected = {runtime.current} /\ x.named = {auditor.current} /\ x.synced = FALSE
  BY <1>3
<1>5. IsRun(x)
  <2>1. x.seen \in Nat
    BY <1>4
  <2>q. QED
    BY <1>3, <1>4, <2>1, Zenon DEF IsRun
<1>6. Noted(x) /\ Sound(x)
  BY <1>4 DEF Noted, Sound, Admitted, Prepared, Reading
<1>7. Set(r, x) /\ UNCHANGED <<runtime, config, file, past>>
  BY <1>1, <1>2 DEF Start, Disk
<1>q. QED
  BY <1>5, <1>6, <1>7, QuietStep

LEMMA RunIsSound == ASSUME IInv, NEW r \in Exporters
                    PROVE  IsRun(run[r]) /\ Sound(run[r]) /\ Noted(run[r])
  BY DEF IInv, Runners

LEMMA ManifestKeeps == ASSUME IInv, NEW r \in Exporters, Manifest(r) PROVE IInv'
<1>1. UNCHANGED <<runtime, config, file, past>> /\ run[r].pc \notin Over
  BY DEF Manifest, At, Over, World, Disk
<1>2. CASE Refuse(r)
  BY <1>1, <1>2, Ending DEF Refuse, Over
<1>3. CASE run[r].from = Checkout /\ run[r].optIn /\ Goto(r, "config")
  <2>1. ASSUME NEW x, Moved(x, run[r], "config") PROVE Sound(x)
    BY <1>3, <2>1 DEF Moved, Sound, Admitted, Prepared, Reading, FromSelected
  <2>q. QED
    BY <1>1, <1>3, <2>1, Proceeding
<1>4. CASE run[r].from # Checkout /\ Goto(r, "pointer")
  <2>1. ASSUME NEW x, Moved(x, run[r], "pointer") PROVE Sound(x)
    BY <1>4, <2>1 DEF Moved, Sound, Admitted, Prepared, Reading
  <2>q. QED
    BY <1>1, <1>4, <2>1, Proceeding
<1>q. QED
  BY <1>2, <1>3, <1>4 DEF Manifest, Pass

LEMMA PointerKeeps == ASSUME IInv, NEW r \in Exporters, Pointer(r) PROVE IInv'
<1>1. UNCHANGED <<runtime, config, file, past>> /\ run[r].pc \notin Over
  BY DEF Pointer, At, Over, World, Disk
<1>2. CASE Refuse(r)
  BY <1>1, <1>2, Ending DEF Refuse, Over
<1>3. CASE IsCurrent(r) /\ Goto(r, "release")
  <2>1. run[r].from # Checkout /\ run[r].from \in run[r].selected
    BY <1>1, <1>3, RunIsSound DEF Pointer, At, Sound, Admitted, Noted, IsCurrent
  <2>2. ASSUME NEW x, Moved(x, run[r], "release") PROVE Sound(x)
    BY <2>1, <2>2 DEF Moved, Sound, Admitted, Prepared, Reading, FromSelected
  <2>q. QED
    BY <1>1, <1>3, <2>2, Proceeding
<1>q. QED
  BY <1>2, <1>3 DEF Pointer, Pass

LEMMA ReleaseKeeps == ASSUME IInv, NEW r \in Exporters, Release(r) PROVE IInv'
<1>1. UNCHANGED <<runtime, config, file, past>> /\ run[r].pc \notin Over
  BY DEF Release, At, Over, World, Disk
<1>2. CASE Refuse(r)
  BY <1>1, <1>2, Ending DEF Refuse, Over
<1>3. CASE Goto(r, "config")
  <2>1. FromSelected(run[r])
    BY RunIsSound DEF Release, At, Sound, Admitted
  <2>2. ASSUME NEW x, Moved(x, run[r], "config") PROVE Sound(x)
    BY <2>1, <2>2 DEF Moved, Sound, Admitted, Prepared, Reading, FromSelected
  <2>q. QED
    BY <1>1, <1>3, <2>2, Proceeding
<1>q. QED
  BY <1>2, <1>3 DEF Release, Pass

\* A config has a digest, so a release that got past it had a pin.
LEMMA ConfigKeeps ==
    ASSUME None \notin Nat, IInv, NEW r \in Exporters, Config(r) PROVE IInv'
<1>1. UNCHANGED <<runtime, config, file, past>> /\ run[r].pc \notin Over
  BY DEF Config, At, Over, World, Disk
<1>2. CASE Refuse(r)
  BY <1>1, <1>2, Ending DEF Refuse, Over
<1>3. CASE (run[r].pin = config \/ run[r].from = Checkout) /\ Goto(r, "pages")
  <2>1. FromSelected(run[r])
    BY RunIsSound DEF Config, At, Sound, Admitted
  <2>2. run[r].from # Checkout => run[r].pin # None
    BY <1>3 DEF IInv, Runners
  <2>3. ASSUME NEW x, Moved(x, run[r], "pages") PROVE Sound(x)
    BY <2>1, <2>2, <2>3 DEF Moved, Sound, Admitted, Prepared, Reading, FromSelected
  <2>q. QED
    BY <1>1, <1>3, <2>3, Proceeding
<1>q. QED
  BY <1>2, <1>3 DEF Config, Pass

LEMMA FetchKeeps == ASSUME IInv, NEW r \in Exporters, Fetch(r) PROVE IInv'
<1>1. PICK x : x = [run[r] EXCEPT !.seen = @ + 1,
                    !.pc = IF run[r].seen + 1 = Len(Pages) THEN "truth" ELSE @]
  OBVIOUS
<1>2. IsRun(run[r]) /\ Sound(run[r]) /\ Noted(run[r]) /\ run[r].pc = "pages"
  BY RunIsSound DEF Fetch, At
<1>3. /\ IsRun(x) /\ x.seen = run[r].seen + 1 /\ x.from = run[r].from
      /\ x.optIn = run[r].optIn /\ x.pin = run[r].pin /\ x.selected = run[r].selected
      /\ x.pc = IF run[r].seen + 1 = Len(Pages) THEN "truth" ELSE "pages"
  <2>1. PICK y : y = run[r]
    OBVIOUS
  <2>2. PICK pc : pc = IF run[r].seen + 1 = Len(Pages) THEN "truth" ELSE "pages"
    OBVIOUS
  <2>3. x = [ pc |-> pc, from |-> y.from, optIn |-> y.optIn, pin |-> y.pin,
              seen |-> y.seen + 1, generation |-> y.generation, states |-> y.states,
              selected |-> y.selected, named |-> y.named, synced |-> y.synced ]
    BY <1>1, <1>2, <2>1, <2>2 DEF IsRun
  <2>4. /\ x.pc = pc /\ x.from = y.from /\ x.optIn = y.optIn /\ x.pin = y.pin
        /\ x.seen = y.seen + 1 /\ x.generation = y.generation /\ x.states = y.states
        /\ x.selected = y.selected /\ x.named = y.named /\ x.synced = y.synced
    BY <2>3
  <2>5. x.seen \in Nat
    BY <1>2, <2>1, <2>4 DEF IsRun
  <2>6. IsRun(x)
    BY <2>3, <2>4, <2>5, Zenon DEF IsRun
  <2>q. QED
    BY <2>1, <2>2, <2>4, <2>6
<1>4. Noted(x) /\ Sound(x)
  BY <1>2, <1>3 DEF Noted, Over, Sound, Admitted, Prepared, Reading, FromSelected
<1>5. Set(r, x) /\ UNCHANGED <<runtime, config, file, past>>
  BY <1>1 DEF Fetch, World, Disk
<1>q. QED
  BY <1>3, <1>4, <1>5, QuietStep

\* The portfolio generation leaves the release and the pages alone.
LEMMA TruthKeeps == ASSUME IInv, NEW r \in Exporters, TruthPointer(r) PROVE IInv'
<1>1. PICK x : x = [run[r] EXCEPT !.pc = "artifacts", !.generation = auditor.current]
  OBVIOUS
<1>2. IsRun(run[r]) /\ Sound(run[r]) /\ Noted(run[r]) /\ run[r].pc = "truth"
  BY RunIsSound DEF TruthPointer, At
<1>3. IsRun(x) /\ Moved(x, run[r], "artifacts")
  BY <1>1, <1>2 DEF IsRun, Moved
<1>4. Noted(x) /\ Sound(x)
  BY <1>2, <1>3 DEF Moved, Noted, Over, Sound, Admitted, Prepared, Reading, FromSelected
<1>5. Set(r, x) /\ UNCHANGED <<runtime, config, file, past>>
  BY <1>1 DEF TruthPointer, World, Disk
<1>q. QED
  BY <1>3, <1>4, <1>5, QuietStep

LEMMA ArtifactsKeep == ASSUME IInv, NEW r \in Exporters, Artifacts(r) PROVE IInv'
<1>1. /\ UNCHANGED <<runtime, config, file, past>>
      /\ run[r].pc = "artifacts" /\ run[r].pc \notin Over
  BY DEF Artifacts, At, Over, World, Disk
<1>2. CASE Refuse(r)
  BY <1>1, <1>2, Ending DEF Refuse, Over
<1>3. ASSUME NEW read, Set(r, [run[r] EXCEPT !.pc = "open", !.states = read])
      PROVE  IInv'
  <2>1. PICK x : x = [run[r] EXCEPT !.pc = "open", !.states = read]
    OBVIOUS
  <2>2. IsRun(run[r]) /\ Sound(run[r]) /\ Noted(run[r])
    BY RunIsSound
  <2>3. IsRun(x) /\ Moved(x, run[r], "open")
    BY <2>1, <2>2 DEF IsRun, Moved
  <2>4. Noted(x) /\ Sound(x)
    BY <1>1, <2>2, <2>3
       DEF Moved, Noted, Over, Sound, Admitted, Prepared, Reading, FromSelected
  <2>q. QED
    BY <1>1, <1>3, <2>1, <2>3, <2>4, QuietStep
<1>q. QED
  BY <1>2, <1>3 DEF Artifacts

LEMMA SyncKeeps == ASSUME IInv, NEW r \in Exporters, Sync(r) PROVE IInv'
<1>1. PICK x : x = [run[r] EXCEPT !.pc = "rename", !.synced = TRUE]
  OBVIOUS
<1>2. IsRun(run[r]) /\ Sound(run[r]) /\ Noted(run[r]) /\ run[r].pc = "open"
  BY RunIsSound DEF Sync, At
<1>3. /\ IsRun(x) /\ x.pc = "rename" /\ x.from = run[r].from /\ x.optIn = run[r].optIn
      /\ x.pin = run[r].pin /\ x.seen = run[r].seen /\ x.selected = run[r].selected
      /\ x.synced
  BY <1>1, <1>2 DEF IsRun
<1>4. Noted(x) /\ Sound(x)
  BY <1>2, <1>3 DEF Noted, Over, Sound, Admitted, Prepared, Reading, FromSelected
<1>5. Set(r, x) /\ UNCHANGED <<runtime, config, file, past>>
  BY <1>1 DEF Sync, World, Disk
<1>q. QED
  BY <1>3, <1>4, <1>5, QuietStep

LEMMA CompletionKeeps == ASSUME IInv, NEW r \in Exporters, SyncDirectory(r) PROVE IInv'
<1>1. PICK x : x = [Idle EXCEPT !.pc = "completed"]
  OBVIOUS
<1>2. IsRun(x) /\ Noted(x) /\ Sound(x)
  BY <1>1, EndIsSound DEF Over
<1>3. Kept'
  BY DEF IInv, Kept, SyncDirectory, Authorised, Complete
<1>4. Set(r, x) /\ UNCHANGED <<runtime, config>>
  BY <1>1 DEF SyncDirectory, End, World
<1>q. QED
  BY <1>2, <1>3, <1>4, OneRunSteps

------------------------------------------------------------------------------
\* What happens around the runs: a running one notes what is selected.
LEMMA NotingKeeps ==
    ASSUME IInv, NEW c, NEW g, Noting(c, g), runtime'.current = c, IsSelector(runtime'),
           UNCHANGED <<config, file, past>>
    PROVE  IInv'
<1>1. ASSUME NEW r \in Exporters
      PROVE  IsRun(run'[r]) /\ Sound(run'[r]) /\ Noted(run[r])'
  <2>1. IsRun(run[r]) /\ Sound(run[r]) /\ Noted(run[r])
    BY RunIsSound
  <2>2. CASE ~Running(r)
    <3>1. run'[r] = run[r] /\ run[r].pc \in Over
      BY <2>2 DEF Noting, Running, Over
    <3>q. QED
      BY <2>1, <3>1 DEF Noted
  <2>3. CASE Running(r)
    <3>1. PICK x : x = [run[r] EXCEPT !.selected = @ \cup {c}, !.named = @ \cup {g}]
      OBVIOUS
    <3>2. run'[r] = x
      BY <2>3, <3>1 DEF Noting
    <3>3. /\ IsRun(x) /\ x.pc = run[r].pc /\ x.from = run[r].from
          /\ x.optIn = run[r].optIn /\ x.pin = run[r].pin /\ x.seen = run[r].seen
          /\ x.synced = run[r].synced /\ x.selected = run[r].selected \cup {c}
      BY <2>1, <3>1 DEF IsRun
    <3>4. Sound(x)
      BY <2>1, <3>3 DEF Sound, Admitted, Prepared, Reading, FromSelected
    <3>5. Noted(run[r])'
      BY <3>2, <3>3 DEF Noted
    <3>q. QED
      BY <3>2, <3>3, <3>4, <3>5
  <2>q. QED
    BY <2>2, <2>3
<1>2. run' = [r \in Exporters |-> run'[r]]
  BY DEF Noting
<1>3. Runners'
  BY <1>1, <1>2 DEF IInv, Runners
<1>4. Kept'
  BY DEF IInv, Kept, Authorised, Complete
<1>q. QED
  BY <1>1, <1>3, <1>4 DEF IInv

LEMMA PowerLossKeeps == ASSUME IInv, PowerLoss PROVE IInv'
<1>1. ASSUME NEW r \in Exporters
      PROVE  IsRun(run'[r]) /\ Sound(run'[r]) /\ Noted(run[r])'
  <2>1. CASE ~Running(r)
    <3>1. run'[r] = run[r] /\ run[r].pc \in Over
      BY <2>1 DEF PowerLoss, Running, Over
    <3>q. QED
      BY <3>1, RunIsSound DEF Noted
  <2>2. CASE Running(r)
    <3>1. PICK x : x = [Idle EXCEPT !.pc = "dead"]
      OBVIOUS
    <3>2. run'[r] = x
      BY <2>2, <3>1 DEF PowerLoss
    <3>3. x.pc = "dead"
      BY <3>1 DEF Idle
    <3>q. QED
      BY <3>1, <3>2, <3>3, EndIsSound DEF Over, Noted
  <2>q. QED
    BY <2>1, <2>2
<1>2. run' = [r \in Exporters |-> run'[r]] /\ UNCHANGED config
  BY DEF PowerLoss
<1>3. Runners'
  BY <1>1, <1>2 DEF IInv, Runners
<1>4. Kept'
  BY DEF IInv, Kept, PowerLoss, Authorised, Complete
<1>5. IsSelector(runtime')
  BY DEF IInv, PowerLoss
<1>q. QED
  BY <1>1, <1>3, <1>4, <1>5 DEF IInv

LEMMA AroundKeeps ==
    ASSUME IInv, \/ \E c \in Runtimes : Rots(c)
                 \/ \E g \in Generations : ArtifactRots(g)
                 \/ Saves \/ UNCHANGED vars
    PROVE  IInv'
<1>1. /\ UNCHANGED <<run, file, past, runtime.current>> /\ config' \in Nat
      /\ IsSelector(runtime')
  <2>1. runtime'.current = runtime.current /\ IsSelector(runtime')
    BY DEF IInv, IsSelector, Rots, ArtifactRots, Saves, vars
  <2>q. QED
    BY <2>1 DEF IInv, Runners, Rots, ArtifactRots, Saves, vars, Disk
<1>2. Runners' /\ Kept'
  BY <1>1 DEF IInv, Runners, Kept, Authorised, Complete
<1>3. \A r \in Exporters : Noted(run[r])' /\ Sound(run[r])'
  BY <1>1 DEF IInv, Noted
<1>q. QED
  BY <1>1, <1>2, <1>3 DEF IInv

------------------------------------------------------------------------------
LEMMA NextKeeps == ASSUME IInv, None \notin Nat, [Next]_vars PROVE IInv'
<1>1. ASSUME NEW r \in Exporters,
             \/ Start(r) \/ Manifest(r) \/ Pointer(r) \/ Release(r) \/ Config(r) \/ Fetch(r)
             \/ TruthPointer(r) \/ Artifacts(r) \/ Sync(r) \/ Rename(r) \/ SyncDirectory(r)
      PROVE  IInv'
  BY <1>1, StartKeeps, ManifestKeeps, PointerKeeps, ReleaseKeeps, ConfigKeeps, FetchKeeps,
     TruthKeeps, ArtifactsKeep, SyncKeeps, RenameKeeps, CompletionKeeps
<1>2. ASSUME NEW r \in Exporters, NoTruth(r) \/ Fails(r) \/ Dies(r) PROVE IInv'
  <2>1. UNCHANGED <<runtime, config, file, past>>
    BY <1>2 DEF NoTruth, Fails, Dies, World, Disk
  <2>2. End(r, "refused") \/ End(r, "failed") \/ End(r, "dead")
    BY <1>2 DEF NoTruth, Fails, Dies, Refuse
  <2>q. QED
    BY <2>1, <2>2, Ending DEF Over
<1>3. ASSUME NEW c \in Runtimes, Selects(c) PROVE IInv'
  <2>1. runtime'.current = c /\ IsSelector(runtime')
    BY <1>3 DEF Selects, IInv, IsSelector
  <2>2. Noting(c, auditor.current) /\ UNCHANGED <<config, file, past>>
    BY <1>3 DEF Selects, Disk
  <2>q. QED
    BY <2>1, <2>2, NotingKeeps
<1>4. ASSUME NEW g \in Generations, Publishes(g) PROVE IInv'
  <2>1. /\ Noting(runtime.current, g) /\ UNCHANGED <<runtime, config, file, past>>
        /\ IsSelector(runtime')
    BY <1>4 DEF Publishes, Disk, IInv
  <2>q. QED
    BY <2>1, NotingKeeps
<1>q. QED
  BY <1>1, <1>2, <1>3, <1>4, PowerLossKeeps, AroundKeeps DEF Next

(***************************************************************************)
(* Invariance: the inductive invariant holds in every reachable state: a   *)
(* run past its checks comes from a release selected since it started, or  *)
(* from the checkout by an opt-in, and so do the file and whatever a power *)
(* loss may bring back (verifySnapshotRuntimeSource, writeJsonAtomically). *)
(***************************************************************************)
THEOREM Invariance == ASSUME None \notin Nat PROVE Spec => []IInv
<1>1. Init => IInv
  BY InitIsSound
<1>2. IInv /\ [Next]_vars => IInv'
  BY NextKeeps
<1>q. QED
  BY <1>1, <1>2, PTL DEF Spec

(***************************************************************************)
(* ExportsAreAuthorised: no snapshot on the path, nor one that comes back, *)
(* was written from a release that was not selected during its run, or     *)
(* without the config its launcher pinned (assertCurrentPointer).          *)
(***************************************************************************)
THEOREM ExportsAreAuthorised == ASSUME None \notin Nat PROVE Spec => []ExportedBySelected
<1>1. IInv => ExportedBySelected
  BY DEF IInv, Kept, Authorised, ExportedBySelected
<1>q. QED
  BY <1>1, Invariance, PTL

(***************************************************************************)
(* ExportsAreWhole: whenever a run dies or power fails, the path holds no  *)
(* part of a snapshot: what was renamed had been synced, with every page   *)
(* that was to be read (writeJsonAtomically).                              *)
(***************************************************************************)
THEOREM ExportsAreWhole == ASSUME None \notin Nat PROVE Spec => []SnapshotIsWhole
<1>1. IInv => SnapshotIsWhole
  BY DEF IInv, Kept, Complete, SnapshotIsWhole
<1>q. QED
  BY <1>1, Invariance, PTL

------------------------------------------------------------------------------
(***************************************************************************)
(* One truth: what a run has learned of the portfolio generation.          *)
(***************************************************************************)
\* The auditor classifies every project that it lists.
StatesAreNamed ==
    \A g \in Generations : \E n \in Nat :
        /\ DOMAIN Says[g] = 1 .. n
        /\ \A i \in 1 .. n : Says[g][i].state # None

Informed == {"open", "rename", "directory"}

Learned(x) ==
    /\ x.pc \notin Over => auditor.current \in x.named
    /\ x.pc \in Informed \cup {"artifacts"} =>
         x.generation \in x.named \ {None} /\ x.generation \in Generations
    /\ x.pc \in Informed => x.states = ByTitle(Says[x.generation])

\* A snapshot says of its pages what its generation says of them.
Truthful(s) ==
    s # None =>
        /\ s.generation \in s.run.named \ {None}
        /\ \A e \in Range(s.entries) :
             LET says == Says[s.generation]
                 said == {i \in DOMAIN says : says[i].title = e.title} IN
             IF said = {} THEN e.status = "authority_unavailable"
             ELSE e.state = says[Max(said)].state /\ e.status \in {"aligned", "contradiction"}

TrueKept == \A s \in {file} \cup past : Truthful(s)

TInv ==
    /\ auditor = [current |-> auditor.current, kept |-> auditor.kept, whole |-> auditor.whole]
    /\ auditor.current \in Generations \cup {None}
    /\ \A r \in Exporters : Learned(run[r])
    /\ TrueKept

\* A finite list that is not empty has a last index: the one that is least
\* from behind.
LEMMA LastIndex ==
    ASSUME NEW n \in Nat, NEW S \in SUBSET (1 .. n), S # {}
    PROVE  Max(S) \in S
<1> DEFINE T == {k \in Nat : n - k \in S}
           R == {ss \in Nat \X Nat : ss[1] < ss[2]}
<1>1. IsWellFoundedOn(R, Nat)
  BY NatLessThanWellFounded DEF OpToRel
<1>2. \A x, y \in Nat : <<y, x>> \in R <=> y < x
  OBVIOUS
<1>3. T \in SUBSET Nat /\ T # {}
  <2>1. PICK x \in S : TRUE
    OBVIOUS
  <2>2. n - x \in Nat /\ n - (n - x) = x
    OBVIOUS
  <2>3. n - x \in T
    BY <2>2
  <2>q. QED
    BY <2>3
<1>4. \A k \in T : k \in Nat /\ n - k \in S
  OBVIOUS
<1>5. \A x \in S : n - x \in T
  OBVIOUS
<1> HIDE DEF R, T
<1>6. PICK k \in T : \A j \in T : ~(<<j, k>> \in R)
  BY <1>1, <1>3, WFMin
<1>7. n - k \in S /\ \A x \in S : n - k >= x
  <2>1. ASSUME NEW x \in S PROVE n - k >= x
    <3>1. n - x \in Nat /\ ~(n - x < k) /\ k \in Nat
      BY <1>2, <1>4, <1>5, <1>6
    <3>q. QED
      BY <3>1
  <2>q. QED
    BY <1>4, <1>6, <2>1
<1>q. QED
  BY <1>7 DEF Max

LEMMA InitIsTrue == ASSUME Init PROVE TInv
<1>1. PICK g \in Generations \cup {None} :
        auditor = [current |-> g, kept |-> {g} \ {None}, whole |-> Generations]
  BY DEF Init
<1>2. ASSUME NEW r \in Exporters PROVE Learned(run[r])
  BY DEF Init, Idle, Learned, Over, Informed
<1>3. TrueKept
  BY DEF Init, TrueKept, Truthful
<1>q. QED
  BY <1>1, <1>2, <1>3 DEF TInv

\* A run's own step.
LEMMA OneRunLearns ==
    ASSUME IInv, TInv, NEW r \in Exporters, NEW next, Set(r, next), Learned(next),
           UNCHANGED auditor, TrueKept'
    PROVE  TInv'
<1>1. run[r]' = next /\ \A o \in Exporters \ {r} : run[o]' = run[o]
  BY DEF IInv, Runners, Set
<1>2. \A o \in Exporters : Learned(run[o])'
  BY <1>1 DEF TInv, Learned
<1>q. QED
  BY <1>2 DEF TInv

LEMMA QuietlyLearns ==
    ASSUME IInv, TInv, NEW r \in Exporters, NEW next, Set(r, next), Learned(next),
           UNCHANGED <<auditor, file, past>>
    PROVE  TInv'
<1>1. TrueKept'
  BY DEF TInv, TrueKept, Truthful
<1>q. QED
  BY <1>1, OneRunLearns

LEMMA EndingLearns ==
    ASSUME IInv, TInv, NEW r \in Exporters, NEW pc \in Over, End(r, pc),
           UNCHANGED auditor, TrueKept'
    PROVE  TInv'
<1>1. PICK x : x = [Idle EXCEPT !.pc = pc]
  OBVIOUS
<1>2. x.pc = pc
  BY <1>1 DEF Idle
<1>3. Learned(x)
  BY <1>2 DEF Learned, Over, Informed
<1>q. QED
  BY <1>1, <1>3, OneRunLearns DEF End

\* Only the pointer and the artifacts teach a run anything.
Teaches == Informed \cup {"artifacts"}

LEMMA GoingLearns ==
    ASSUME IInv, TInv, NEW r \in Exporters, run[r].pc \notin Over,
           NEW pc, pc \notin Teaches, Goto(r, pc), UNCHANGED <<auditor, file, past>>
    PROVE  TInv'
<1>1. PICK x : x = [run[r] EXCEPT !.pc = pc]
  OBVIOUS
<1>2. x.pc = pc /\ x.named = run[r].named
  BY <1>1 DEF IInv, Runners, IsRun
<1>3. Learned(run[r])
  BY DEF TInv
<1>4. Learned(x)
  BY <1>2, <1>3 DEF Learned, Teaches
<1>q. QED
  BY <1>1, <1>4, QuietlyLearns DEF Goto

LEMMA ChecksLearn ==
    ASSUME IInv, TInv, NEW r \in Exporters,
           Manifest(r) \/ Pointer(r) \/ Release(r) \/ Config(r)
    PROVE  TInv'
<1>1. UNCHANGED <<auditor, file, past>> /\ run[r].pc \notin Over
  BY DEF Manifest, Pointer, Release, Config, World, Disk, At, Over
<1>2. TrueKept'
  BY <1>1 DEF TInv, TrueKept, Truthful
<1>3. \/ End(r, "refused")
      \/ \E pc \in {"config", "pointer", "release", "pages"} : Goto(r, pc)
  BY DEF Manifest, Pointer, Release, Config, Pass, Refuse
<1>4. CASE End(r, "refused")
  BY <1>1, <1>2, <1>4, EndingLearns DEF Over
<1>5. CASE \E pc \in {"config", "pointer", "release", "pages"} : Goto(r, pc)
  <2>1. PICK pc \in {"config", "pointer", "release", "pages"} : Goto(r, pc)
    BY <1>5
  <2>2. pc \notin Teaches
    BY DEF Teaches, Informed
  <2>q. QED
    BY <1>1, <2>1, <2>2, GoingLearns
<1>q. QED
  BY <1>3, <1>4, <1>5

LEMMA StartLearns == ASSUME IInv, TInv, NEW r \in Exporters, Start(r) PROVE TInv'
<1>1. PICK launch \in Launches :
        Set(r, [Idle EXCEPT !.pc = "manifest", !.from = launch.from, !.pin = launch.pin,
                            !.optIn = launch.optIn, !.selected = {runtime.current},
                            !.named = {auditor.current}])
  BY DEF Start
<1>2. PICK x : x = [Idle EXCEPT !.pc = "manifest", !.from = launch.from, !.pin = launch.pin,
                                !.optIn = launch.optIn, !.selected = {runtime.current},
                                !.named = {auditor.current}]
  OBVIOUS
<1>3. x.pc = "manifest" /\ x.named = {auditor.current}
  BY <1>2 DEF Idle
<1>4. Learned(x)
  BY <1>3 DEF Learned, Informed
<1>q. QED
  BY <1>1, <1>2, <1>4, QuietlyLearns DEF Start, Disk

LEMMA FetchLearns == ASSUME IInv, TInv, NEW r \in Exporters, Fetch(r) PROVE TInv'
<1>1. PICK pc, x : /\ pc = (IF run[r].seen + 1 = Len(Pages) THEN "truth" ELSE "pages")
                   /\ x = [run[r] EXCEPT !.seen = @ + 1, !.pc = pc]
  OBVIOUS
<1>2. x.pc = pc /\ x.named = run[r].named /\ pc \in {"truth", "pages"}
  BY <1>1 DEF IInv, Runners, IsRun
<1>3. run[r].pc = "pages" /\ Learned(run[r])
  BY DEF TInv, Fetch, At
<1>4. Learned(x)
  BY <1>2, <1>3 DEF Learned, Over, Informed
<1>5. Set(r, x) /\ UNCHANGED <<auditor, file, past>>
  BY <1>1, <1>3 DEF Fetch, World, Disk
<1>q. QED
  BY <1>4, <1>5, QuietlyLearns

LEMMA PointerTeaches == ASSUME IInv, TInv, NEW r \in Exporters, TruthPointer(r) PROVE TInv'
<1>1. PICK g, x : g = auditor.current
                  /\ x = [run[r] EXCEPT !.pc = "artifacts", !.generation = g]
  OBVIOUS
<1>2. x.pc = "artifacts" /\ x.named = run[r].named /\ x.generation = g
  BY <1>1 DEF IInv, Runners, IsRun
<1>3. run[r].pc = "truth" /\ Learned(run[r]) /\ g # None
  BY <1>1 DEF TInv, TruthPointer, At
<1>4. Learned(x)
  BY <1>1, <1>2, <1>3 DEF TInv, Learned, Over, Informed
<1>5. Set(r, x) /\ UNCHANGED <<auditor, file, past>>
  BY <1>1 DEF TruthPointer, World, Disk
<1>q. QED
  BY <1>4, <1>5, QuietlyLearns

LEMMA ArtifactsTeach == ASSUME IInv, TInv, NEW r \in Exporters, Artifacts(r) PROVE TInv'
<1>1. run[r].pc = "artifacts" /\ Learned(run[r]) /\ UNCHANGED <<auditor, file, past>>
  BY DEF TInv, Artifacts, At, World, Disk
<1>2. CASE End(r, "refused")
  <2>1. TrueKept'
    BY <1>1 DEF TInv, TrueKept, Truthful
  <2>q. QED
    BY <1>1, <1>2, <2>1, EndingLearns DEF Over
<1>3. CASE Set(r, [run[r] EXCEPT !.pc = "open", !.states = ByTitle(Says[run[r].generation])])
  <2>1. PICK read, x : /\ read = ByTitle(Says[run[r].generation])
                       /\ x = [run[r] EXCEPT !.pc = "open", !.states = read]
    OBVIOUS
  <2>2. /\ x.pc = "open" /\ x.named = run[r].named /\ x.states = read
        /\ x.generation = run[r].generation
    BY <2>1 DEF IInv, Runners, IsRun
  <2>3. Learned(x)
    BY <1>1, <2>1, <2>2 DEF Learned, Over, Informed
  <2>q. QED
    BY <1>1, <1>3, <2>1, <2>3, QuietlyLearns
<1>q. QED
  BY <1>2, <1>3 DEF Artifacts, Refuse

LEMMA SyncLearns == ASSUME IInv, TInv, NEW r \in Exporters, Sync(r) PROVE TInv'
<1>1. PICK x : x = [run[r] EXCEPT !.pc = "rename", !.synced = TRUE]
  OBVIOUS
<1>2. /\ x.pc = "rename" /\ x.named = run[r].named /\ x.states = run[r].states
      /\ x.generation = run[r].generation
  BY <1>1 DEF IInv, Runners, IsRun
<1>3. run[r].pc = "open" /\ Learned(run[r])
  BY DEF TInv, Sync, At
<1>4. Learned(x)
  BY <1>2, <1>3 DEF Learned, Over, Informed
<1>5. Set(r, x) /\ UNCHANGED <<auditor, file, past>>
  BY <1>1 DEF Sync, World, Disk
<1>q. QED
  BY <1>4, <1>5, QuietlyLearns

\* Each entry is what the generation's last word on its title makes it.
\* The words that a generation says of a title.
SaidOf(says, title) == {i \in DOMAIN says : says[i].title = title}

LEMMA EntryIsTrue ==
    ASSUME StatesAreNamed, TInv, NEW r \in Exporters, run[r].pc = "rename", NEW page,
           NEW e, e = Entry(r, page), NEW says, says = Says[run[r].generation],
           NEW said, said = SaidOf(says, e.title)
    PROVE  IF said = {} THEN e.status = "authority_unavailable"
           ELSE e.state = says[Max(said)].state /\ e.status \in {"aligned", "contradiction"}
<1>0. said = {i \in DOMAIN says : says[i].title = e.title}
  BY DEF SaidOf
<1>1. run[r].generation \in Generations /\ run[r].states = ByTitle(says)
  BY DEF TInv, Learned, Informed
<1>2. PICK states, state :
        /\ states = run[r].states
        /\ state = IF page.title \in DOMAIN states THEN states[page.title] ELSE None
  OBVIOUS
<1>3. e.title = page.title /\ e.state = state /\ e.status = Status(page.asks, state)
  BY <1>2, SMTT(60) DEF Entry
<1>4. DOMAIN states = {says[i].title : i \in DOMAIN says}
  BY <1>1, <1>2 DEF ByTitle
<1>5. CASE said = {}
  <2>1. page.title \notin DOMAIN states
    BY <1>0, <1>3, <1>4, <1>5
  <2>2. state = None
    BY <1>2, <2>1
  <2>q. QED
    BY <1>3, <1>5, <2>2 DEF Status
<1>6. CASE said # {}
  <2>1. page.title \in DOMAIN states
    BY <1>0, <1>3, <1>4, <1>6
  <2>2. states[page.title] = says[Max(said)].state
    <3>1. said = {i \in DOMAIN says : says[i].title = page.title}
      BY <1>0, <1>3, SMTT(60)
    <3>2. states[page.title]
            = says[Max({i \in DOMAIN says : says[i].title = page.title})].state
      BY <1>1, <1>2, <1>4, <2>1 DEF ByTitle
    <3>q. QED
      BY <3>1, <3>2
  <2>3. Max(said) \in said
    <3>1. PICK n \in Nat : DOMAIN says = 1 .. n
      BY <1>1 DEF StatesAreNamed
    <3>2. said \in SUBSET (1 .. n)
      BY <1>0, <3>1
    <3>q. QED
      BY <1>6, <3>2, LastIndex
  <2>4. says[Max(said)].state # None
    BY <1>0, <1>1, <2>3 DEF StatesAreNamed
  <2>5. Status(page.asks, state) \in {"aligned", "contradiction"}
    BY <1>2, <2>1, <2>2, <2>4 DEF Status
  <2>q. QED
    BY <1>2, <1>3, <1>6, <2>1, <2>2, <2>5
<1>q. QED
  BY <1>5, <1>6

LEMMA RenameLearns ==
    ASSUME StatesAreNamed, IInv, TInv, NEW r \in Exporters, Rename(r) PROVE TInv'
<1>1. run[r].pc = "rename" /\ Learned(run[r]) /\ IsRun(run[r]) /\ run[r].synced
  BY RunIsSound DEF TInv, Rename, At, Sound, Prepared
<1>2. PICK x, y, s : /\ x = [run[r] EXCEPT !.pc = "directory"]
                     /\ y = [run[r] EXCEPT !.states = <<>>] /\ s = Snapshot(r)
  OBVIOUS
<1>3. /\ x.pc = "directory" /\ x.named = run[r].named /\ x.states = run[r].states
      /\ x.generation = run[r].generation /\ y.named = run[r].named
  BY <1>1, <1>2 DEF IsRun
<1>4. Learned(x)
  BY <1>1, <1>3 DEF Learned, Over, Informed
<1>5. Set(r, x) /\ UNCHANGED auditor
  BY <1>2 DEF Rename, Goto, World
<1>6. /\ s.run = y /\ s.generation = run[r].generation
      /\ s.entries = [i \in 1 .. run[r].seen |-> Entry(r, Pages[i])]
  BY <1>2 DEF Snapshot
<1>7. Truthful(s)
  <2>1. s.generation \in s.run.named \ {None}
    BY <1>1, <1>3, <1>6 DEF Learned, Informed
  <2>2. ASSUME NEW e \in Range(s.entries)
        PROVE  LET says == Says[s.generation]
                   said == {i \in DOMAIN says : says[i].title = e.title} IN
               IF said = {} THEN e.status = "authority_unavailable"
               ELSE /\ e.state = says[Max(said)].state
                    /\ e.status \in {"aligned", "contradiction"}
    <3>1. PICK i \in 1 .. run[r].seen : e = Entry(r, Pages[i])
      BY <1>6 DEF Range
    <3>2. PICK says, said : /\ says = Says[run[r].generation]
                            /\ said = SaidOf(says, e.title)
      OBVIOUS
    <3>3. IF said = {} THEN e.status = "authority_unavailable"
          ELSE e.state = says[Max(said)].state /\ e.status \in {"aligned", "contradiction"}
      <4>1. PICK page : page = Pages[i]
        OBVIOUS
      <4>2. e = Entry(r, page) /\ run[r].pc = "rename"
        BY <1>1, <3>1, <4>1
      <4>q. QED
        BY <3>2, <4>2, EntryIsTrue, SMTT(60)
    <3>q. QED
      BY <1>6, <3>2, <3>3, Zenon DEF SaidOf
  <2>q. QED
    BY <2>1, <2>2, Zenon DEF Truthful
<1>8. file' = s /\ past' = past \cup {file}
  BY <1>1, <1>2 DEF Rename
<1>9. TrueKept'
  <2>1. \A t \in {s} \cup past \cup {file} : Truthful(t)
    BY <1>7 DEF TInv, TrueKept
  <2>q. QED
    BY <1>8, <2>1 DEF TrueKept
<1>q. QED
  BY <1>4, <1>5, <1>9, OneRunLearns

\* What happens around the runs: a running one notes what the auditor names.
LEMMA NotingLearns ==
    ASSUME IInv, TInv, NEW c, NEW g \in Generations \cup {None}, Noting(c, g),
           auditor' = [current |-> g, kept |-> auditor'.kept, whole |-> auditor'.whole],
           UNCHANGED <<file, past>>
    PROVE  TInv'
<1>1. ASSUME NEW r \in Exporters PROVE Learned(run[r])'
  <2>1. Learned(run[r]) /\ IsRun(run[r])
    BY DEF TInv, IInv, Runners
  <2>2. CASE ~Running(r)
    <3>1. run'[r] = run[r] /\ run[r].pc \in Over
      BY <2>2 DEF Noting, Running, Over
    <3>q. QED
      BY <2>1, <3>1 DEF Learned
  <2>3. CASE Running(r)
    <3>1. PICK x : x = [run[r] EXCEPT !.selected = @ \cup {c}, !.named = @ \cup {g}]
      OBVIOUS
    <3>2. run'[r] = x
      BY <2>3, <3>1 DEF Noting
    <3>3. /\ x.pc = run[r].pc /\ x.generation = run[r].generation
          /\ x.states = run[r].states /\ x.named = run[r].named \cup {g}
      BY <2>1, <3>1 DEF IsRun
    <3>q. QED
      BY <2>1, <3>2, <3>3 DEF Learned
  <2>q. QED
    BY <2>2, <2>3
<1>2. TrueKept'
  BY DEF TInv, TrueKept, Truthful
<1>q. QED
  BY <1>1, <1>2 DEF TInv

LEMMA PowerLossLearns == ASSUME IInv, TInv, PowerLoss PROVE TInv'
<1>1. ASSUME NEW r \in Exporters PROVE Learned(run[r])'
  <2>1. \/ run'[r] = run[r] \/ run'[r] = [Idle EXCEPT !.pc = "dead"]
    BY DEF PowerLoss
  <2>2. Learned(run[r]) /\ auditor' = auditor
    BY DEF TInv, PowerLoss
  <2>3. run'[r].pc = "dead" \/ run'[r] = run[r]
    BY <2>1 DEF Idle
  <2>q. QED
    BY <2>2, <2>3 DEF Learned, Over, Informed
<1>2. TrueKept'
  <2>1. (\A t \in {file} \cup past : Truthful(t)) /\ file' \in {file} \cup past /\ past' = {}
    BY DEF TInv, TrueKept, PowerLoss
  <2>q. QED
    BY <2>1 DEF TrueKept
<1>q. QED
  BY <1>1, <1>2 DEF TInv, PowerLoss

LEMMA AroundLearns ==
    ASSUME IInv, TInv, \/ \E c \in Runtimes : Rots(c)
                       \/ \E g \in Generations : ArtifactRots(g)
                       \/ Saves \/ UNCHANGED vars
    PROVE  TInv'
<1>1. /\ UNCHANGED <<run, file, past>> /\ auditor'.current = auditor.current
      /\ auditor' = [current |-> auditor'.current, kept |-> auditor'.kept,
                     whole |-> auditor'.whole]
  BY DEF TInv, Rots, ArtifactRots, Saves, vars, Disk
<1>2. TrueKept' /\ \A r \in Exporters : Learned(run[r])'
  BY <1>1 DEF TInv, TrueKept, Truthful, Learned
<1>q. QED
  BY <1>1, <1>2 DEF TInv

LEMMA NextLearns ==
    ASSUME StatesAreNamed, IInv, TInv, [Next]_vars PROVE TInv'
<1>1. ASSUME NEW r \in Exporters,
             \/ Start(r) \/ Manifest(r) \/ Pointer(r) \/ Release(r) \/ Config(r) \/ Fetch(r)
             \/ TruthPointer(r) \/ Artifacts(r) \/ Sync(r) \/ Rename(r)
      PROVE  TInv'
  BY <1>1, StartLearns, ChecksLearn, FetchLearns, PointerTeaches, ArtifactsTeach,
     SyncLearns, RenameLearns
<1>2. ASSUME NEW r \in Exporters, NoTruth(r) \/ Fails(r) \/ Dies(r) \/ SyncDirectory(r)
      PROVE  TInv'
  <2>1. UNCHANGED <<auditor, file>> /\ past' \subseteq past
    BY <1>2 DEF NoTruth, Fails, Dies, SyncDirectory, World, Disk
  <2>2. \E pc \in Over : End(r, pc)
    BY <1>2 DEF NoTruth, Fails, Dies, SyncDirectory, Refuse, Over
  <2>3. TrueKept'
    BY <2>1 DEF TInv, TrueKept, Truthful
  <2>q. QED
    BY <2>1, <2>2, <2>3, EndingLearns
<1>3. ASSUME NEW c \in Runtimes, Selects(c) PROVE TInv'
  <2>1. /\ Noting(c, auditor.current) /\ UNCHANGED <<file, past>> /\ auditor' = auditor
        /\ auditor.current \in Generations \cup {None}
    BY <1>3 DEF Selects, Disk, TInv
  <2>2. auditor' = [current |-> auditor.current, kept |-> auditor'.kept,
                    whole |-> auditor'.whole]
    BY <2>1 DEF TInv
  <2>q. QED
    BY <2>1, <2>2, NotingLearns
<1>4. ASSUME NEW g \in Generations, Publishes(g) PROVE TInv'
  <2>1. Noting(runtime.current, g) /\ UNCHANGED <<file, past>>
    BY <1>4 DEF Publishes, Disk
  <2>2. auditor' = [current |-> g, kept |-> auditor'.kept, whole |-> auditor'.whole]
    BY <1>4 DEF Publishes, TInv
  <2>q. QED
    BY <2>1, <2>2, NotingLearns
<1>q. QED
  BY <1>1, <1>2, <1>3, <1>4, PowerLossLearns, AroundLearns DEF Next

(***************************************************************************)
(* SnapshotsAreTrue: every state in a snapshot on the path, or in one that *)
(* comes back, is the last word on its title of the one generation on the  *)
(* receipt, which the auditor's pointer named during the run; without a    *)
(* word of it there is no authority (readPortfolioTruth, toSnapshotEntry). *)
(* The classifications that the auditor files are never empty.             *)
(***************************************************************************)
THEOREM SnapshotsAreTrue ==
    ASSUME None \notin Nat, StatesAreNamed
    PROVE  Spec => []OneTruth
<1>1. Init => IInv /\ TInv
  BY InitIsSound, InitIsTrue
<1>2. IInv /\ TInv /\ [Next]_vars => (IInv /\ TInv)'
  BY NextKeeps, NextLearns
<1>3. TInv => OneTruth
  BY DEF TInv, TrueKept, Truthful, OneTruth
<1>q. QED
  BY <1>1, <1>2, <1>3, PTL DEF Spec

------------------------------------------------------------------------------
\* A snapshot renamed by r or by a run whose rename came later.
Later(r, s) ==
    /\ s # None
    /\ \E i, j \in DOMAIN renames : renames[i] = r /\ renames[j] = s.by /\ i <= j

\* A run that renamed is followed by what the path holds, and from the sync of
\* its directory on also by what a power loss brings back.
LInv ==
    /\ renames \in Seq(Exporters)
    /\ \A r \in Exporters : run[r].pc \in {"directory", "completed"} => Later(r, file)
    /\ \A r \in Exporters : run[r].pc = "completed" => \A s \in past : Later(r, s)

NoneIsNoSnapshot ==
    \A by, of, generation, entries, whole :
        None # [ by |-> by, run |-> of, generation |-> generation, entries |-> entries,
                 whole |-> whole ]

LEMMA InitStays == ASSUME Init PROVE LInv
  BY DEF Init, LInv, Idle

\* One more rename leaves the order of the earlier ones.
LEMMA AppendKeepsOrder ==
    ASSUME renames \in Seq(Exporters), NEW b \in Exporters, renames' = Append(renames, b),
           NEW r, NEW s, Later(r, s)
    PROVE  Later(r, s)'
<1>1. PICK n \in Nat : n = Len(renames)
  OBVIOUS
<1>2. /\ DOMAIN renames = 1 .. n /\ DOMAIN renames' = 1 .. (n + 1)
      /\ \A i \in 1 .. n : renames'[i] = renames[i]
  BY <1>1
<1>3. PICK i, j \in 1 .. n : renames[i] = r /\ renames[j] = s.by /\ i <= j
  BY <1>2 DEF Later
<1>4. s # None /\ renames'[i] = r /\ renames'[j] = s.by
      /\ i \in DOMAIN renames' /\ j \in DOMAIN renames'
  BY <1>2, <1>3 DEF Later
<1>q. QED
  BY <1>3, <1>4 DEF Later

\* What is renamed last follows every run that renamed.
LEMMA LastIsLater ==
    ASSUME renames \in Seq(Exporters), NEW b \in Exporters, renames' = Append(renames, b),
           NEW r, NEW s, s # None, s.by = b, NEW i \in DOMAIN renames', renames'[i] = r
    PROVE  Later(r, s)'
<1>1. PICK n \in Nat : n = Len(renames)
  OBVIOUS
<1>2. DOMAIN renames' = 1 .. (n + 1) /\ renames'[n + 1] = b
  BY <1>1
<1>3. /\ i <= n + 1 /\ n + 1 \in DOMAIN renames' /\ renames'[n + 1] = s.by
  BY <1>2
<1>q. QED
  BY <1>3 DEF Later

\* A run's own step that leaves the disk alone.
LEMMA OneRunStays ==
    ASSUME LInv, NEW r \in Exporters, UNCHANGED <<file, past, renames>>,
           \A o \in Exporters \ {r} : run'[o] = run[o],
           run'[r].pc \notin {"directory", "completed"}
    PROVE  LInv'
<1>1. \A o, s : Later(o, s) => Later(o, s)'
  BY DEF Later
<1>2. \A o \in Exporters : /\ run'[o].pc \in {"directory", "completed"} => run'[o] = run[o]
                      /\ run'[o].pc = "completed" => run'[o] = run[o]
  BY Zenon
<1>q. QED
  BY <1>1, <1>2 DEF LInv

\* Where a run's own step leaves it.
LEMMA StepGoes ==
    ASSUME IInv, NEW r \in Exporters, NEW next, Set(r, next)
    PROVE  run'[r] = next /\ \A o \in Exporters \ {r} : run'[o] = run[o]
  BY DEF IInv, Runners, Set

LEMMA GotoGoes ==
    ASSUME IInv, NEW r \in Exporters, NEW pc, Goto(r, pc)
    PROVE  run'[r].pc = pc /\ \A o \in Exporters \ {r} : run'[o] = run[o]
<1>1. PICK x : x = [run[r] EXCEPT !.pc = pc]
  OBVIOUS
<1>2. Set(r, x) /\ x.pc = pc
  BY <1>1, Going DEF Goto
<1>q. QED
  BY <1>2, StepGoes

LEMMA EndGoes ==
    ASSUME IInv, NEW r \in Exporters, NEW pc, End(r, pc)
    PROVE  run'[r].pc = pc /\ \A o \in Exporters \ {r} : run'[o] = run[o]
<1>1. PICK x : x = [Idle EXCEPT !.pc = pc]
  OBVIOUS
<1>2. Set(r, x) /\ x.pc = pc
  BY <1>1 DEF End, Idle
<1>q. QED
  BY <1>2, StepGoes

LEMMA PassGoes ==
    ASSUME IInv, LInv, NEW r \in Exporters, NEW test, NEW pc,
           pc \notin {"directory", "completed"}, Pass(r, test, pc),
           UNCHANGED <<file, past, renames>>
    PROVE  LInv'
<1>1. CASE Goto(r, pc)
  BY <1>1, GotoGoes, OneRunStays
<1>2. CASE Refuse(r)
  <2>1. End(r, "refused")
    BY <1>2 DEF Refuse
  <2>2. run'[r].pc = "refused" /\ \A o \in Exporters \ {r} : run'[o] = run[o]
    BY <2>1, EndGoes
  <2>q. QED
    BY <2>2, OneRunStays
<1>q. QED
  BY <1>1, <1>2 DEF Pass

LEMMA ChecksStay ==
    ASSUME IInv, LInv, NEW r \in Exporters,
           Manifest(r) \/ Pointer(r) \/ Release(r) \/ Config(r)
    PROVE  LInv'
<1>1. UNCHANGED <<file, past, renames>>
  BY DEF Manifest, Pointer, Release, Config, Disk
<1>2. \E test : \E pc \in {"config", "pointer", "release", "pages"} : Pass(r, test, pc)
  BY DEF Manifest, Pointer, Release, Config
<1>q. QED
  BY <1>1, <1>2, PassGoes

LEMMA ReadingStays ==
    ASSUME IInv, LInv, NEW r \in Exporters,
           Start(r) \/ Fetch(r) \/ TruthPointer(r) \/ Artifacts(r) \/ Sync(r)
    PROVE  LInv'
<1>1. UNCHANGED <<file, past, renames>>
  BY DEF Start, Fetch, TruthPointer, Artifacts, Sync, Disk
<1>2. IsRun(run[r])
  BY RunIsSound
<1>3. CASE Start(r)
  <2>1. PICK launch, x :
          /\ x = [Idle EXCEPT !.pc = "manifest", !.from = launch.from, !.pin = launch.pin,
                              !.optIn = launch.optIn, !.selected = {runtime.current},
                              !.named = {auditor.current}]
          /\ Set(r, x)
    BY <1>3 DEF Start
  <2>2. x.pc = "manifest"
    BY <2>1 DEF Idle
  <2>q. QED
    BY <1>1, <2>1, <2>2, StepGoes, OneRunStays
<1>4. CASE Fetch(r)
  <2>1. PICK x : /\ x = [run[r] EXCEPT !.seen = @ + 1,
                           !.pc = IF run[r].seen + 1 = Len(Pages) THEN "truth" ELSE @]
                 /\ Set(r, x)
    BY <1>4 DEF Fetch
  <2>2. run[r].pc = "pages"
    BY <1>4 DEF Fetch, At
  <2>3. x.pc \in {"pages", "truth"}
    BY <1>2, <2>1, <2>2 DEF IsRun
  <2>q. QED
    BY <1>1, <2>1, <2>3, StepGoes, OneRunStays
<1>5. CASE TruthPointer(r)
  <2>1. PICK x : /\ x = [run[r] EXCEPT !.pc = "artifacts", !.generation = auditor.current]
                 /\ Set(r, x)
    BY <1>5 DEF TruthPointer
  <2>2. x.pc = "artifacts"
    BY <1>2, <2>1 DEF IsRun
  <2>q. QED
    BY <1>1, <2>1, <2>2, StepGoes, OneRunStays
<1>6. CASE Artifacts(r)
  <2>1. CASE Refuse(r)
    <3>1. run'[r].pc = "refused" /\ \A o \in Exporters \ {r} : run'[o] = run[o]
      BY <2>1, EndGoes DEF Refuse
    <3>q. QED
      BY <1>1, <3>1, OneRunStays
  <2>2. CASE ~Refuse(r)
    <3>1. PICK x : /\ x = [run[r] EXCEPT !.pc = "open",
                             !.states = ByTitle(Says[run[r].generation])]
                   /\ Set(r, x)
      BY <1>6, <2>2 DEF Artifacts
    <3>2. x.pc = "open"
      BY <1>2, <3>1 DEF IsRun
    <3>q. QED
      BY <1>1, <3>1, <3>2, StepGoes, OneRunStays
  <2>q. QED
    BY <2>1, <2>2
<1>7. CASE Sync(r)
  <2>1. PICK x : x = [run[r] EXCEPT !.pc = "rename", !.synced = TRUE] /\ Set(r, x)
    BY <1>7 DEF Sync
  <2>2. x.pc = "rename"
    BY <1>2, <2>1 DEF IsRun
  <2>q. QED
    BY <1>1, <2>1, <2>2, StepGoes, OneRunStays
<1>q. QED
  BY <1>3, <1>4, <1>5, <1>6, <1>7

LEMMA EndingStays ==
    ASSUME IInv, LInv, NEW r \in Exporters, NoTruth(r) \/ Fails(r) \/ Dies(r)
    PROVE  LInv'
<1>1. UNCHANGED <<file, past, renames>>
  BY DEF NoTruth, Fails, Dies, Disk
<1>2. PICK pc \in {"refused", "failed", "dead"} : End(r, pc)
  BY DEF NoTruth, Fails, Dies, Refuse
<1>3. run'[r].pc = pc /\ \A o \in Exporters \ {r} : run'[o] = run[o]
  BY <1>2, EndGoes
<1>q. QED
  BY <1>1, <1>2, <1>3, OneRunStays

LEMMA RenameStays ==
    ASSUME NoneIsNoSnapshot, IInv, LInv, NEW r \in Exporters, Rename(r) PROVE LInv'
<1>1. Goto(r, "directory") /\ renames' = Append(renames, r) /\ run[r].synced
  BY RunIsSound DEF Rename, At, Sound, Prepared
<1>2. run'[r].pc = "directory" /\ \A o \in Exporters \ {r} : run'[o] = run[o]
  BY <1>1, GotoGoes
<1>3. PICK s : s = Snapshot(r)
  OBVIOUS
<1>4. s # None /\ s.by = r
  <2>1. PICK x, e : s = [ by |-> r, run |-> x, generation |-> run[r].generation,
                          entries |-> e, whole |-> TRUE ]
    BY <1>3 DEF Snapshot
  <2>q. QED
    BY <2>1 DEF NoneIsNoSnapshot
<1>5. file' = s /\ past' = past \cup {file}
  BY <1>1, <1>3 DEF Rename
<1>6. PICK n \in Nat : n = Len(renames)
  BY DEF LInv
<1>7. /\ DOMAIN renames = 1 .. n /\ DOMAIN renames' = 1 .. (n + 1) /\ renames'[n + 1] = r
      /\ \A i \in 1 .. n : renames'[i] = renames[i]
  BY <1>1, <1>6 DEF LInv
<1>8. renames' \in Seq(Exporters)
  BY <1>1 DEF LInv
<1>9. ASSUME NEW o \in Exporters, run'[o].pc \in {"directory", "completed"}
      PROVE  Later(o, s)'
  <2>1. PICK i \in DOMAIN renames' : renames'[i] = o
    <3>1. CASE o = r
      BY <1>7, <3>1
    <3>2. CASE o # r
      <4>1. Later(o, file)
        BY <1>2, <1>9, <3>2 DEF LInv
      <4>2. PICK i \in 1 .. n : renames[i] = o
        BY <1>7, <4>1 DEF Later
      <4>q. QED
        BY <1>7, <4>2
    <3>q. QED
      BY <3>1, <3>2
  <2>q. QED
    BY <1>1, <1>4, <2>1, LastIsLater DEF LInv
<1>10. ASSUME NEW o \in Exporters, run'[o].pc = "completed", NEW t \in past'
       PROVE  Later(o, t)'
  <2>1. run[o].pc = "completed"
    BY <1>2, <1>10
  <2>2. Later(o, t)
    BY <1>5, <1>10, <2>1 DEF LInv
  <2>q. QED
    BY <1>1, <2>2, AppendKeepsOrder DEF LInv
<1>11. \A o \in Exporters : run'[o].pc \in {"directory", "completed"} => Later(o, file)'
  <2>1. \A o : Later(o, s)' => Later(o, file)'
    BY <1>5 DEF Later
  <2>q. QED
    BY <1>9, <2>1
<1>q. QED
  BY <1>8, <1>10, <1>11 DEF LInv

LEMMA SyncDirectoryStays ==
    ASSUME IInv, LInv, NEW r \in Exporters, SyncDirectory(r) PROVE LInv'
<1>1. /\ UNCHANGED <<file, renames>> /\ past' = {} /\ run[r].pc = "directory"
      /\ End(r, "completed")
  BY DEF SyncDirectory, At
<1>2. run'[r].pc = "completed" /\ \A o \in Exporters \ {r} : run'[o] = run[o]
  BY <1>1, EndGoes
<1>3. \A o : Later(o, file) => Later(o, file)'
  BY <1>1 DEF Later
<1>4. \A o \in Exporters : run'[o].pc \in {"directory", "completed"} =>
                      run[o].pc \in {"directory", "completed"}
  BY <1>1, <1>2
<1>5. \A o \in Exporters : run'[o].pc \in {"directory", "completed"} => Later(o, file)'
  BY <1>3, <1>4 DEF LInv
<1>q. QED
  BY <1>1, <1>5 DEF LInv

LEMMA PowerLossStays == ASSUME IInv, LInv, PowerLoss PROVE LInv'
<1>1. UNCHANGED renames /\ past' = {} /\ file' \in {file} \cup past
  BY DEF PowerLoss
<1>2. ASSUME NEW o \in Exporters, run'[o].pc \in {"directory", "completed"}
      PROVE  run[o].pc = "completed"
  <2>1. run'[o] = IF Running(o) THEN [Idle EXCEPT !.pc = "dead"] ELSE run[o]
    BY DEF PowerLoss
  <2>2. ~Running(o)
    BY <1>2, <2>1 DEF Idle
  <2>q. QED
    BY <1>2, <2>1, <2>2 DEF Running
<1>3. \A o : \A t \in {file} \cup past : Later(o, t) => Later(o, t)'
  BY <1>1 DEF Later
<1>4. PICK t \in {file} \cup past : file' = t
  BY <1>1
<1>5. \A o : Later(o, t)' => Later(o, file)'
  BY <1>4 DEF Later
<1>6. \A o \in Exporters : run[o].pc = "completed" => Later(o, t)
  BY <1>4 DEF LInv
<1>7. \A o \in Exporters : run'[o].pc \in {"directory", "completed"} => Later(o, file)'
  BY <1>2, <1>3, <1>5, <1>6
<1>q. QED
  BY <1>1, <1>7 DEF LInv

LEMMA AroundStays ==
    ASSUME LInv, \/ \E c \in Runtimes : Selects(c) \/ Rots(c)
                 \/ \E g \in Generations : Publishes(g) \/ ArtifactRots(g)
                 \/ Saves \/ UNCHANGED vars,
           IInv
    PROVE  LInv'
<1>1. UNCHANGED <<file, past, renames>>
  BY DEF Selects, Rots, Publishes, ArtifactRots, Saves, vars, Disk
<1>2. \/ UNCHANGED run \/ \E c, g : Noting(c, g)
  BY DEF Selects, Rots, Publishes, ArtifactRots, Saves, vars, Disk
<1>3. ASSUME NEW o \in Exporters PROVE run'[o].pc = run[o].pc
  <2>1. CASE UNCHANGED run
    BY <2>1
  <2>2. CASE \E c, g : Noting(c, g)
    <3>1. PICK c, g : Noting(c, g)
      BY <2>2
    <3>2. PICK x : x = [run[o] EXCEPT !.selected = @ \cup {c}, !.named = @ \cup {g}]
      OBVIOUS
    <3>3. x.pc = run[o].pc
      BY <3>2, RunIsSound DEF IsRun
    <3>4. run'[o] = x \/ run'[o] = run[o]
      BY <3>1, <3>2 DEF Noting
    <3>q. QED
      BY <3>3, <3>4
  <2>q. QED
    BY <1>2, <2>1, <2>2
<1>4. \A o, s : Later(o, s) => Later(o, s)'
  BY <1>1 DEF Later
<1>q. QED
  BY <1>1, <1>3, <1>4 DEF LInv

LEMMA NextStays == ASSUME NoneIsNoSnapshot, IInv, LInv, [Next]_vars PROVE LInv'
  BY ChecksStay, ReadingStays, EndingStays, RenameStays, SyncDirectoryStays,
     PowerLossStays, AroundStays DEF Next

(***************************************************************************)
(* ReportsLast: once a run has reported completion the path holds what it  *)
(* renamed there or what was renamed later, whatever dies, fails or loses  *)
(* power (writeJsonAtomically syncs the directory before it returns).      *)
(***************************************************************************)
THEOREM ReportsLast ==
    ASSUME None \notin Nat, NoneIsNoSnapshot
    PROVE  Spec => []ReportedStays
<1>1. Init => IInv /\ LInv
  BY InitIsSound, InitStays
<1>2. IInv /\ LInv /\ [Next]_vars => (IInv /\ LInv)'
  BY NextKeeps, NextStays
<1>3. LInv => ReportedStays
  BY DEF LInv, Later, ReportedStays, At
<1>q. QED
  BY <1>1, <1>2, <1>3, PTL DEF Spec

(***************************************************************************)
(* SnapshotsAlwaysStand: what the path holds is authorised, one            *)
(* generation's truth, whole, and no older than what was reported.         *)
(***************************************************************************)
THEOREM SnapshotsAlwaysStand ==
    ASSUME None \notin Nat, StatesAreNamed, NoneIsNoSnapshot
    PROVE  Spec => []SnapshotsStand
<1>1. Init => IInv /\ TInv /\ LInv
  BY InitIsSound, InitIsTrue, InitStays
<1>2. IInv /\ TInv /\ LInv /\ [Next]_vars => (IInv /\ TInv /\ LInv)'
  BY NextKeeps, NextLearns, NextStays
<1>3. IInv /\ TInv /\ LInv => SnapshotsStand
  <2>1. IInv => ExportedBySelected /\ SnapshotIsWhole
    BY DEF IInv, Kept, Authorised, Complete, ExportedBySelected, SnapshotIsWhole
  <2>2. TInv => OneTruth
    BY DEF TInv, TrueKept, Truthful, OneTruth
  <2>3. LInv => ReportedStays
    BY DEF LInv, Later, ReportedStays, At
  <2>q. QED
    BY <2>1, <2>2, <2>3 DEF SnapshotsStand
<1>q. QED
  BY <1>1, <1>2, <1>3, PTL DEF Spec

=============================================================================
