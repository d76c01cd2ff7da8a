------------------------- MODULE RuntimeGenerations -------------------------
(***************************************************************************)
(* Immutable runtime generations (scripts/notion-runtime-generation.mjs):  *)
(* stage builds a release directory, select points current.json at one,    *)
(* deactivate moves a first pointer into custody, reactivate moves it      *)
(* back, readback verifies what is selected without the lock.              *)
(*                                                                         *)
(* Mutations run under a lock file.  A process may die between two file    *)
(* operations and leave the lock; a machine may lose power and come back   *)
(* with any image the file system held since the last fsync.               *)
(***************************************************************************)
EXTENDS Integers, FiniteSets

CONSTANTS
    Commits,
    Procs,          \* processes that run the script
    MaxRuns,        \* bound: runs of the script in a behaviour
    Events,         \* what may go wrong around them, see EventKinds
    None, Unknown

EventKinds == {"crash", "power", "io", "drift", "tamper", "recover"}

ASSUME CommitsAssumption == None \notin Commits
ASSUME RunsAssumption == MaxRuns \in Nat
ASSUME GenerationEventsAssumption == Events \subseteq EventKinds

VARIABLES
    fs,     \* the managed root
    past,   \* images of it that a power loss may bring back
    op,     \* the processes
    runs,   \* runs started so far
    told    \* history: the selector that receipts and errors leave an
            \* operator with, Unknown after a loss or "recovery-required"

vars == <<fs, past, op, runs, told>>

Runs == 1 .. MaxRuns

\* A pointer file: its content, dated with the run that wrote it; forged if
\* someone else replaced or edited it since.
Pointers == [ current : Commits, previous : Commits \cup {None}, at : Runs,
              forged : BOOLEAN ]

ASSUME NoPointerAssumption == None \notin Pointers

\* The lock file holds the run that created it, 0 if there is none; custody
\* has a file per deactivation; moves stands for the change time of
\* current.json.
Roots == [ lock : {0} \cup Runs, pointer : Pointers \cup {None},
           custody : [Runs -> Pointers \cup {None}], moves : Nat,
           releases : [Commits -> {"absent", "complete", "drifted"}] ]

Critical == {"build", "publish", "check", "move", "sync", "verify",
             "restore", "resync", "unlock"}
Reading == {"first", "stat", "second", "last", "verified"}
Pcs == {"idle", "look", "lock", "finish"} \cup Critical \cup Reading

\* seen is the pointer the operator names, path its custody file, mine the
\* pointer the run works with, stat the change time a readback saw first.
Processes ==
    [ pc : Pcs, run : {0} \cup Runs,
      action : {"stage", "select", "deactivate", "reactivate", "readback"},
      commit : Commits \cup {None}, seen : Pointers \cup {None}, path : {0} \cup Runs,
      mine : Pointers \cup {None}, fault : {"none", "failed", "recovery"},
      stat : Nat, disturbed : BOOLEAN ]

Idle == [ pc |-> "idle", run |-> 0, action |-> "readback",
          commit |-> None, seen |-> None, path |-> 0, mine |-> None,
          fault |-> "none", stat |-> 0, disturbed |-> FALSE ]

\* Some commits may have been staged before, nothing was selected yet.
Init ==
    /\ \E staged \in [Commits -> {"absent", "complete"}] :
         fs = [ lock |-> 0, pointer |-> None, moves |-> 0,
                custody |-> [r \in Runs |-> None], releases |-> staged ]
    /\ past = {}
    /\ op = [p \in Procs |-> Idle]
    /\ runs = 0
    /\ told = None

------------------------------------------------------------------------------
At(p, pc) == op[p].pc = pc
Is(p, action) == op[p].action = action
Goto(p, pc) == op' = [op EXCEPT ![p].pc = pc]
Fail(p, pc, fault) == op' = [op EXCEPT ![p].pc = pc, ![p].fault = fault]
End(p) == op' = [op EXCEPT ![p] = Idle]

\* A change of the file system; until the next fsync power may undo it.
Write(new) ==
    /\ fs' = new
    /\ past' = IF "power" \in Events THEN past \cup {fs} ELSE past
Fsync == past' = {} /\ UNCHANGED fs

\* A rename that gives or takes current.json, under the eyes of readbacks.
Rename(p, pointer, custody, next) ==
    /\ Write([fs EXCEPT !.pointer = pointer, !.custody = custody,
                        !.moves = @ + 1])
    /\ op' = [q \in Procs |->
                IF q = p THEN next
                ELSE [op[q] EXCEPT !.disturbed =
                        @ \/ op[q].pc \in {"second", "last"}]]

\* validateManifest and validatePointer
Complete(c) == fs.releases[c] = "complete"
ValidPointer == fs.pointer # None /\ Complete(fs.pointer.current)

------------------------------------------------------------------------------
\* What an operator may name: a release, the selection as they see it now, a
\* file in custody with the digest on its deactivation's receipt.
Stage(run, c) == [Idle EXCEPT !.pc = "look", !.run = run, !.action = "stage",
                              !.commit = c]
Select(run, c) == [Idle EXCEPT !.pc = "lock", !.run = run, !.action = "select",
                               !.commit = c, !.seen = fs.pointer]
Deactivate(run) == [Idle EXCEPT !.pc = "lock", !.run = run,
                                !.action = "deactivate", !.seen = fs.pointer]
Reactivate(run, r) == [Idle EXCEPT !.pc = "lock", !.run = run, !.path = r,
                          !.action = "reactivate",
                          !.seen = [fs.custody[r] EXCEPT !.forged = FALSE]]
Readback(run) == [Idle EXCEPT !.pc = "first", !.run = run]

Start(p) ==
    /\ At(p, "idle") /\ runs < MaxRuns
    /\ runs' = runs + 1
    /\ \E next \in
            {Stage(runs + 1, c) : c \in Commits}
            \cup {Select(runs + 1, c) : c \in Commits}
            \cup {Deactivate(runs + 1) : q \in {fs.pointer} \ {None}}
            \cup {Reactivate(runs + 1, r) : r \in
                                  {r \in Runs : fs.custody[r] # None}}
            \cup {Readback(runs + 1)} :
         op' = [op EXCEPT ![p] = next]
    /\ UNCHANGED <<fs, past, told>>

\* Stage looks for the release before it takes the lock.
Look(p) ==
    /\ At(p, "look")
    /\ IF fs.releases[op[p].commit] = "absent" THEN Goto(p, "lock") ELSE End(p)
    /\ UNCHANGED <<fs, past, runs, told>>

\* openSync(lock, "wx")
Lock(p) ==
    /\ At(p, "lock") /\ fs.lock = 0
    /\ Write([fs EXCEPT !.lock = op[p].run])
    /\ Goto(p, IF Is(p, "stage") THEN "build" ELSE "check")
    /\ UNCHANGED <<runs, told>>

LockHeldCleansUp(p) ==
    /\ At(p, "lock") /\ fs.lock # 0
    /\ IF Is(p, "stage") THEN Write([fs EXCEPT !.lock = 0])
                         ELSE UNCHANGED <<fs, past>>
    /\ End(p)
    /\ UNCHANGED <<runs, told>>

LockHeld(p) ==
    /\ At(p, "lock") /\ fs.lock # 0
    /\ End(p)
    /\ UNCHANGED <<fs, past, runs, told>>

------------------------------------------------------------------------------
\* Archive, install, build, smoke test, freeze, manifest: all in a directory
\* of its own, which becomes the release in one rename.
Build(p) ==
    /\ At(p, "build")
    /\ \/ Goto(p, "publish")
       \/ "io" \in Events /\ Fail(p, "unlock", "failed")
    /\ UNCHANGED <<fs, past, runs, told>>

Publish(p) ==
    /\ At(p, "publish")
    /\ IF fs.releases[op[p].commit] = "absent"
       THEN /\ Write([fs EXCEPT !.releases[op[p].commit] = "complete"])
            /\ Goto(p, "sync")
       ELSE /\ Fail(p, "unlock", "failed")
            /\ UNCHANGED <<fs, past>>
    /\ UNCHANGED <<runs, told>>

------------------------------------------------------------------------------
NextPointerWhole(p) ==
    CASE Is(p, "select") ->
           [ current |-> op[p].commit, at |-> op[p].run, forged |-> FALSE,
             previous |-> fs.pointer ]
      [] OTHER -> op[p].seen

NextPointer(p) ==
    CASE Is(p, "select") ->
           [ current |-> op[p].commit, at |-> op[p].run, forged |-> FALSE,
             previous |-> IF fs.pointer = None THEN None
                          ELSE fs.pointer.current ]
      [] OTHER -> op[p].seen

\* What each mutation verifies under the lock.
ChecksAnyRelease(p) ==
    CASE Is(p, "select") ->
           IF fs.pointer = None THEN op[p].seen = None
           ELSE /\ op[p].seen # None
                /\ op[p].seen.current = fs.pointer.current
                /\ op[p].commit # fs.pointer.current
      [] Is(p, "deactivate") ->
           ValidPointer /\ fs.pointer = op[p].seen /\ op[p].seen.previous = None
      [] OTHER ->
           /\ fs.pointer = None
           /\ fs.custody[op[p].path] = op[p].seen /\ op[p].seen.previous = None

ChecksNoExpectation(p) ==
    CASE Is(p, "select") ->
           /\ Complete(op[p].commit)
           /\ fs.pointer = None \/ op[p].commit # fs.pointer.current
      [] Is(p, "deactivate") -> ValidPointer
      [] OTHER -> fs.custody[op[p].path] = op[p].seen

Checks(p) ==
    CASE Is(p, "select") ->
           /\ Complete(op[p].commit)
           /\ IF fs.pointer = None THEN op[p].seen = None
              ELSE /\ ValidPointer /\ op[p].seen # None
                   /\ op[p].seen.current = fs.pointer.current
                   /\ op[p].commit # fs.pointer.current
      [] Is(p, "deactivate") ->
           ValidPointer /\ fs.pointer = op[p].seen /\ op[p].seen.previous = None
      [] OTHER ->
           /\ fs.pointer = None
           /\ fs.custody[op[p].path] = op[p].seen /\ op[p].seen.previous = None

Check(p) ==
    /\ At(p, "check")
    /\ IF Checks(p)
       THEN op' = [op EXCEPT ![p].pc = "move", ![p].mine = NextPointer(p),
                     ![p].path = IF Is(p, "deactivate") THEN op[p].run ELSE @]
       ELSE Fail(p, "unlock", "failed")
    /\ UNCHANGED <<fs, past, runs, told>>

\* The rename that commits.  It may fail without effect, and finds whatever
\* is at its two paths by then.
Move(p) ==
    LET next == [op[p] EXCEPT !.pc = "sync"]
        path == op[p].path IN
    /\ At(p, "move")
    /\ \/ /\ Is(p, "select")
          /\ Rename(p, op[p].mine, fs.custody, next)
       \/ /\ Is(p, "deactivate") /\ fs.pointer # None
          /\ Rename(p, None, [fs.custody EXCEPT ![path] = fs.pointer], next)
       \/ /\ Is(p, "reactivate") /\ fs.custody[path] # None
          /\ Rename(p, fs.custody[path],
                    [fs.custody EXCEPT ![path] = None], next)
    /\ UNCHANGED <<runs, told>>

MoveFails(p) ==
    /\ At(p, "move")
    /\ \/ "io" \in Events
       \/ Is(p, "deactivate") /\ fs.pointer = None
       \/ Is(p, "reactivate") /\ fs.custody[op[p].path] = None
    /\ Fail(p, "unlock", "failed")
    /\ UNCHANGED <<fs, past, runs, told>>

AfterFaultUnlocks(p) == "unlock"

\* Only deactivate and reactivate undo a move that failed behind the rename.
AfterFault(p) ==
    IF op[p].action \in {"deactivate", "reactivate"} THEN "restore" ELSE "unlock"

Sync(p) ==
    /\ At(p, "sync")
    /\ \/ Fsync /\ Goto(p, "verify")
       \/ "io" \in Events /\ Fail(p, AfterFault(p), "failed")
          /\ UNCHANGED <<fs, past>>
    /\ UNCHANGED <<runs, told>>

VerifiesNothing(p) == TRUE

Verifies(p) ==
    CASE Is(p, "stage") -> Complete(op[p].commit)
      [] Is(p, "select") -> ValidPointer
      [] Is(p, "deactivate") ->
           fs.pointer = None /\ fs.custody[op[p].path] = op[p].mine
      [] OTHER -> ValidPointer /\ fs.pointer = op[p].mine

Verify(p) ==
    /\ At(p, "verify")
    /\ IF Verifies(p) THEN Goto(p, "unlock")
       ELSE Fail(p, AfterFault(p), "failed")
    /\ UNCHANGED <<fs, past, runs, told>>

\* Move the file back; an active pointer that is not the one from custody is
\* put away instead, and a custody file that is not the selector stays there.
Misplaced(p) ==
    IF Is(p, "deactivate")
    THEN fs.pointer = None /\ fs.custody[op[p].path] # None
    ELSE fs.pointer # None /\ fs.custody[op[p].path] = None

Restore(p) ==
    LET path == op[p].path
        back == [op[p] EXCEPT !.pc = "resync"]
        lost == [op[p] EXCEPT !.pc = "unlock", !.fault = "recovery"] IN
    /\ At(p, "restore")
    /\ \/ /\ Misplaced(p) /\ Is(p, "deactivate")
          /\ IF fs.custody[path] = op[p].mine
             THEN Rename(p, op[p].mine, [fs.custody EXCEPT ![path] = None], back)
             ELSE Fail(p, "unlock", "recovery") /\ UNCHANGED <<fs, past>>
       \/ /\ Misplaced(p) /\ Is(p, "reactivate")
          /\ IF fs.pointer = op[p].mine
             THEN Rename(p, None, [fs.custody EXCEPT ![path] = fs.pointer], back)
             ELSE Rename(p, None, fs.custody, lost)
       \/ ~Misplaced(p) /\ Goto(p, "resync") /\ UNCHANGED <<fs, past>>
    /\ UNCHANGED <<runs, told>>

Restored(p) ==
    IF Is(p, "deactivate")
    THEN ValidPointer /\ fs.pointer = op[p].mine /\ fs.custody[op[p].path] = None
    ELSE fs.pointer = None /\ fs.custody[op[p].path] = op[p].mine

Resync(p) ==
    /\ At(p, "resync")
    /\ \/ Fsync /\ Fail(p, "unlock", IF Restored(p) THEN "failed" ELSE "recovery")
       \/ "io" \in Events /\ Fail(p, "unlock", "recovery")
          /\ UNCHANGED <<fs, past>>
    /\ UNCHANGED <<runs, told>>

------------------------------------------------------------------------------
\* What the run tells its operator.  A select that failed behind its rename
\* fails like one that failed before it.
Tells(p) ==
    CASE op[p].fault = "recovery" -> Unknown
      [] op[p].fault = "failed" ->
           IF Is(p, "select") /\ op[p].mine # None THEN Unknown ELSE told
      [] op[p].fault = "none" ->
           IF Is(p, "deactivate") THEN None ELSE op[p].mine

\* The lock goes only if it is still this run's lock file.
Unlock(p) ==
    /\ At(p, "unlock") /\ ~Is(p, "stage")
    /\ IF fs.lock = op[p].run
       THEN /\ Write([fs EXCEPT !.lock = 0])
            /\ Goto(p, "finish") /\ told' = Tells(p)
       ELSE End(p) /\ told' = Unknown /\ UNCHANGED <<fs, past>>
    /\ UNCHANGED runs

Finish(p) ==
    /\ At(p, "finish") /\ End(p)
    /\ \/ Fsync /\ UNCHANGED told
       \/ "io" \in Events /\ told' = Unknown /\ UNCHANGED <<fs, past>>
    /\ UNCHANGED runs

\* Stage removes whatever lock file is there.
CleanUp(p) ==
    /\ At(p, "unlock") /\ Is(p, "stage")
    /\ Write([fs EXCEPT !.lock = 0])
    /\ End(p)
    /\ UNCHANGED <<runs, told>>

------------------------------------------------------------------------------
\* readback: two validations, and the file's identity before and after.
First(p) ==
    /\ At(p, "first")
    /\ IF ValidPointer
       THEN op' = [op EXCEPT ![p].pc = "stat", ![p].seen = fs.pointer]
       ELSE End(p)
    /\ UNCHANGED <<fs, past, runs, told>>

Stat(p) ==
    /\ At(p, "stat")
    /\ IF fs.pointer # None
       THEN op' = [op EXCEPT ![p].pc = "second", ![p].mine = fs.pointer,
                             ![p].stat = fs.moves]
       ELSE End(p)
    /\ UNCHANGED <<fs, past, runs, told>>

Second(p) ==
    /\ At(p, "second")
    /\ IF ValidPointer /\ fs.pointer = op[p].seen THEN Goto(p, "last")
       ELSE End(p)
    /\ UNCHANGED <<fs, past, runs, told>>

SameContent(p) == fs.pointer = op[p].mine
SameFile(p) == fs.pointer = op[p].mine /\ fs.moves = op[p].stat

Last(p) ==
    /\ At(p, "last")
    /\ IF SameFile(p) THEN Goto(p, "verified") ELSE End(p)
    /\ UNCHANGED <<fs, past, runs, told>>

Report(p) == At(p, "verified") /\ End(p) /\ UNCHANGED <<fs, past, runs, told>>

------------------------------------------------------------------------------
Mutating(p) == op[p].pc \in (Critical \cup {"finish"}) /\ ~Is(p, "stage")
Losing(q) == IF Mutating(q) THEN Unknown ELSE told

Crash(p) ==
    /\ "crash" \in Events /\ ~At(p, "idle")
    /\ End(p) /\ told' = Losing(p)
    /\ UNCHANGED <<fs, past, runs>>

PowerLoss ==
    /\ "power" \in Events
    /\ fs' \in past \cup {fs} /\ past' = {}
    /\ op' = [p \in Procs |-> Idle]
    /\ told' = IF \E p \in Procs : Mutating(p) THEN Unknown ELSE told
    /\ UNCHANGED runs

\* A file of a release changes under a person's hands.
Drift(c) ==
    /\ "drift" \in Events /\ Complete(c)
    /\ fs' = [fs EXCEPT !.releases[c] = "drifted"]
    /\ UNCHANGED <<past, op, runs, told>>

\* A custody file is replaced or edited.
Tamper(r) ==
    /\ "tamper" \in Events /\ fs.custody[r] # None
    /\ fs' = [fs EXCEPT !.custody[r].forged = TRUE]
    /\ UNCHANGED <<past, op, runs, told>>

\* A person removes the lock of a run that is dead.
Recover ==
    /\ fs.lock # 0
    /\ "recover" \in Events /\ \A p \in Procs : op[p].run # fs.lock
    /\ Write([fs EXCEPT !.lock = 0])
    /\ UNCHANGED <<op, runs, told>>

------------------------------------------------------------------------------
Advance(p) ==
    \/ Look(p) \/ Lock(p) \/ LockHeld(p) \/ Build(p) \/ Publish(p)
    \/ Check(p) \/ Move(p) \/ MoveFails(p) \/ Sync(p) \/ Verify(p)
    \/ Restore(p) \/ Resync(p) \/ Unlock(p) \/ Finish(p) \/ CleanUp(p)
    \/ First(p) \/ Stat(p) \/ Second(p) \/ Last(p) \/ Report(p)

Next ==
    \/ \E p \in Procs : Start(p) \/ Advance(p) \/ Crash(p)
    \/ \E c \in Commits : Drift(c)
    \/ \E r \in Runs : Tamper(r)
    \/ PowerLoss \/ Recover

Spec == Init /\ [][Next]_vars

------------------------------------------------------------------------------
\* TypeOK: the managed root, its older images and the processes have their type; a
\* pointer's previous is a commit, never a pointer (select records selected.pointer.current).
TypeOK ==
    /\ fs \in Roots /\ past \subseteq Roots
    /\ op \in [Procs -> Processes]
    /\ runs \in {0} \cup Runs
    /\ told \in Pointers \cup {None, Unknown}

(***************************************************************************)
(* OneMutator: the lock file keeps mutations apart, although it survives   *)
(* its process, comes back after a power loss and is removed by people     *)
(* once its process is dead.                                               *)
(***************************************************************************)
OneMutator ==
    \A p, q \in Procs :
        op[p].pc \in Critical /\ op[q].pc \in Critical => p = q

(***************************************************************************)
(* SelectedWasStaged: the selector names a release that was staged         *)
(* completely, and so does its previous, whatever died or lost power on    *)
(* the way.                                                                *)
(***************************************************************************)
SelectedWasStaged ==
    fs.pointer # None =>
        /\ fs.releases[fs.pointer.current] # "absent"
        /\ fs.pointer.previous # None =>
              /\ fs.releases[fs.pointer.previous] # "absent"
              /\ fs.pointer.previous # fs.pointer.current

(***************************************************************************)
(* OperatorsKnow: while no mutation is in progress, the selector is what   *)
(* the receipts and the plain errors since the last loss or                *)
(* "recovery-required" say: a receipt survives a power loss, and a         *)
(* deactivate or reactivate that fails has put everything back.            *)
(***************************************************************************)
OperatorsKnow ==
    (told # Unknown /\ \A p \in Procs : ~Mutating(p)) => fs.pointer = told

(***************************************************************************)
(* ForgedOnlyUnderLock: a custody file that was replaced or edited is      *)
(* never left active: current.json holds it only while the lock is there.  *)
(***************************************************************************)
ForgedOnlyUnderLock ==
    fs.pointer # None /\ fs.pointer.forged => fs.lock # 0

(***************************************************************************)
(* ReadbackIsStable: a readback that reports a verified selector saw one   *)
(* pointer file from its first look to its last, not one that was taken    *)
(* away and put back meanwhile.                                            *)
(***************************************************************************)
ReadbackIsStable ==
    \A p \in Procs : At(p, "verified") => ~op[p].disturbed

\* PointerIsGenuine: what is selected is what somebody selected, and what a
\* readback reports is what was selected while it looked.
PointerIsGenuine == ForgedOnlyUnderLock /\ ReadbackIsStable

------------------------------------------------------------------------------
\* The selector as an atomic register, see SelectorRegister.
Register == INSTANCE SelectorRegister WITH
    selector <- fs.pointer,
    shelf <- {fs.custody[r] : r \in Runs} \ {None}

(***************************************************************************)
(* ImplementsRegister: without the lock's internals the script is a        *)
(* compare-and-set register: a selection records as previous exactly what  *)
(* it replaced, only a first selection is taken away, and only such a one  *)
(* is put back, into an empty place.                                       *)
(***************************************************************************)
ImplementsRegister == Register!Spec
==============================================================================
