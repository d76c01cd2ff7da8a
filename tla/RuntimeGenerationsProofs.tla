----------------------- MODULE RuntimeGenerationsProofs -----------------------
(***************************************************************************)
(* What holds of the runtime generations for every set of commits and      *)
(* processes, any number of runs and any of the events around them: types, *)
(* mutual exclusion under the lock file, that the selector names releases  *)
(* that were staged, that a readback saw one file, that no forged pointer  *)
(* stays active, that operators know what is selected, and that all of it  *)
(* implements the register of SelectorRegister.                            *)
(***************************************************************************)
EXTENDS RuntimeGenerations, TLAPS

------------------------------------------------------------------------------
\* What a run carries fits what it does.
Equipped(o) ==
    /\ o.pc # "idle" => o.run \in Runs
    /\ o.pc \in {"look", "build", "publish"} => o.action = "stage"
    /\ o.pc = "lock" => o.action # "readback"
    /\ o.pc = "check" => o.action \notin {"stage", "readback"}
    /\ o.action \in {"stage", "select"} => o.commit \in Commits
    /\ o.action = "reactivate" => o.path \in Runs
    /\ o.action = "deactivate" /\ o.pc \in {"move", "sync", "verify", "restore",
                                           "resync"} => o.path \in Runs

\* Run numbers are used once; a run inside the critical section holds the lock.
Numbered ==
    /\ \A p \in Procs : op[p].run <= runs
    /\ \A p, q \in Procs : op[p].run = op[q].run /\ ~At(p, "idle") => p = q

Holding == \A p \in Procs : op[p].pc \in Critical => fs.lock = op[p].run

\* A pointer names releases that the store has, two different ones.
Staged(releases, pointer) ==
    pointer # None =>
        /\ releases[pointer.current] # "absent"
        /\ pointer.previous # None =>
              /\ releases[pointer.previous] # "absent"
              /\ pointer.previous # pointer.current

Sound(root) ==
    /\ Staged(root.releases, root.pointer)
    /\ \A r \in Runs : Staged(root.releases, root.custody[r])

\* Every image that power may bring back is sound by itself; what a run carries
\* is sound against the releases of now, which only grow while it lives.
AllSound ==
    /\ Sound(fs)
    /\ \A root \in past : Sound(root)
    /\ \A p \in Procs : Staged(fs.releases, op[p].mine)

\* The inductive invariant.
Typed == TypeOK /\ \A p \in Procs : Equipped(op[p])
Excluded == Numbered /\ Holding
IInv == Typed /\ Excluded /\ AllSound

------------------------------------------------------------------------------
\* Types.  Each kind of update keeps the processes well-typed and equipped.
Ops == op \in [Procs -> Processes] /\ \A p \in Procs : Equipped(op[p])

LEMMA IdleType == Idle \in Processes /\ Equipped(Idle)
BY DEF Idle, Processes, Pcs, Equipped

LEMMA OneMoves ==
  ASSUME Ops, NEW p \in Procs, NEW o \in Processes, Equipped(o),
         op' = [op EXCEPT ![p] = o]
  PROVE  Ops'
BY DEF Ops

LEMMA GotoType ==
  ASSUME Ops, NEW p \in Procs, NEW pc \in Pcs, ~At(p, "idle"),
         pc \in {"build", "publish"} => Is(p, "stage"), pc # "look",
         pc = "lock" => ~Is(p, "readback"),
         pc = "check" => ~Is(p, "stage") /\ ~Is(p, "readback"),
         Is(p, "deactivate") /\ pc \in {"move", "sync", "verify", "restore",
                                        "resync"} => op[p].path \in Runs
  PROVE  /\ Goto(p, pc) => Ops'
         /\ \A fault \in {"none", "failed", "recovery"} :
              Fail(p, pc, fault) => Ops'
<1>1. op[p] \in Processes /\ Equipped(op[p])
  BY DEF Ops
<1>2. ASSUME Goto(p, pc) PROVE Ops'
  <2> DEFINE o == [op[p] EXCEPT !.pc = pc]
  <2>1. o \in Processes
    BY <1>1 DEF Processes
  <2>2. Equipped(o)
    BY <1>1 DEF Equipped, Processes, At, Is
  <2>3. op' = [op EXCEPT ![p] = o]
    BY <1>2 DEF Goto
  <2> QED
    BY <2>1, <2>2, <2>3, OneMoves
<1>3. ASSUME NEW fault \in {"none", "failed", "recovery"}, Fail(p, pc, fault)
      PROVE  Ops'
  <2> DEFINE o == [op[p] EXCEPT !.pc = pc, !.fault = fault]
  <2>1. o \in Processes
    BY <1>1 DEF Processes
  <2>2. Equipped(o)
    BY <1>1 DEF Equipped, Processes, At, Is
  <2>3. op' = [op EXCEPT ![p] = o]
    BY <1>3 DEF Fail
  <2> QED
    BY <2>1, <2>2, <2>3, OneMoves
<1> QED
  BY <1>2, <1>3

LEMMA EndType == ASSUME Ops, NEW p \in Procs, End(p) PROVE Ops'
BY IdleType, OneMoves DEF End

LEMMA WriteType ==
  ASSUME fs \in Roots, past \subseteq Roots, NEW new \in Roots, Write(new)
  PROVE  fs' \in Roots /\ past' \subseteq Roots
BY DEF Write

LEMMA RenameType ==
  ASSUME Ops, fs \in Roots, past \subseteq Roots, NEW p \in Procs,
         NEW pointer \in Pointers \cup {None},
         NEW custody \in [Runs -> Pointers \cup {None}],
         NEW next \in Processes, Equipped(next), Rename(p, pointer, custody, next)
  PROVE  Ops' /\ fs' \in Roots /\ past' \subseteq Roots
<1>1. [fs EXCEPT !.pointer = pointer, !.custody = custody, !.moves = @ + 1]
        \in Roots
  <2> DEFINE m == fs.moves + 1
  <2>1. m \in Nat
    BY DEF Roots
  <2> HIDE DEF m
  <2>2. [fs EXCEPT !.pointer = pointer, !.custody = custody, !.moves = m]
          \in Roots
    BY <2>1 DEF Roots
  <2> QED
    BY <2>2 DEF m
<1>2. fs' \in Roots /\ past' \subseteq Roots
  BY <1>1, WriteType DEF Rename
<1>3. ASSUME NEW q \in Procs PROVE op'[q] \in Processes /\ Equipped(op'[q])
  <2>1. CASE q = p
    BY <2>1 DEF Rename
  <2>2. CASE q # p
    <3> DEFINE d == op[q].disturbed \/ op[q].pc \in {"second", "last"}
               o == [op[q] EXCEPT !.disturbed = d]
    <3>1. op[q] \in Processes /\ Equipped(op[q])
      BY DEF Ops
    <3>2. op'[q] = o
      BY <2>2 DEF Rename
    <3>3. o \in Processes
      <4>1. d \in BOOLEAN
        BY Zenon
      <4> HIDE DEF d
      <4> QED
        BY <3>1, <4>1 DEF Processes
    <3>4. Equipped(o)
      BY <3>1 DEF Equipped, Processes
    <3> QED
      BY <3>2, <3>3, <3>4
  <2> QED
    BY <2>1, <2>2
<1>4. op' \in [Procs -> Processes]
  BY <1>3 DEF Rename
<1> QED
  BY <1>2, <1>3, <1>4 DEF Ops

LEMMA ReactivateType ==
  ASSUME NEW run \in Runs, NEW r \in Runs, NEW seen \in Pointers, NEW o,
         o = [Idle EXCEPT !.pc = "lock", !.run = run, !.path = r,
                          !.action = "reactivate", !.seen = seen]
  PROVE  o \in Processes /\ Equipped(o)
BY DEF Idle, Processes, Pcs, Equipped

LEMMA StartType == ASSUME Typed, NEW p \in Procs, Start(p) PROVE Typed'
<1>1. runs + 1 \in Runs /\ runs' = runs + 1
  BY RunsAssumption DEF Start, Typed, TypeOK, Runs
<1> DEFINE run == runs + 1
<1>2. Ops /\ fs \in Roots
  BY DEF Typed, TypeOK, Ops
<1>3. PICK o \in {Stage(run, c) : c \in Commits}
               \cup {Select(run, c) : c \in Commits}
               \cup {Deactivate(run) : q \in {fs.pointer} \ {None}}
               \cup {Reactivate(run, r) : r \in {r \in Runs : fs.custody[r] # None}}
               \cup {Readback(run)} : op' = [op EXCEPT ![p] = o]
  BY DEF Start
<1> HIDE DEF run
<1>4. run \in Runs
  BY <1>1 DEF run
<1>5. fs.pointer \in Pointers \cup {None}
  BY <1>2 DEF Roots
<1>6. ASSUME NEW c \in Commits
      PROVE  /\ Stage(run, c) \in Processes /\ Equipped(Stage(run, c))
             /\ Select(run, c) \in Processes /\ Equipped(Select(run, c))
  BY <1>4, <1>5 DEF Stage, Select, Idle, Processes, Pcs, Equipped
<1>7. /\ Deactivate(run) \in Processes /\ Equipped(Deactivate(run))
      /\ Readback(run) \in Processes /\ Equipped(Readback(run))
  BY <1>4, <1>5 DEF Deactivate, Readback, Idle, Processes, Pcs, Reading, Equipped
<1>8. ASSUME NEW r \in Runs, fs.custody[r] # None
      PROVE  Reactivate(run, r) \in Processes /\ Equipped(Reactivate(run, r))
  <2> DEFINE seen == [fs.custody[r] EXCEPT !.forged = FALSE]
  <2>1. fs.custody[r] \in Pointers
    BY <1>2, <1>8 DEF Roots
  <2>2. seen \in Pointers
    BY <2>1 DEF Pointers
  <2> HIDE DEF seen
  <2>3. Reactivate(run, r) = [Idle EXCEPT !.pc = "lock", !.run = run, !.path = r,
                                !.action = "reactivate", !.seen = seen]
    BY DEF Reactivate, seen
  <2> QED
    BY <1>4, <2>2, <2>3, ReactivateType, Zenon
<1>9. o \in Processes /\ Equipped(o)
  BY <1>3, <1>6, <1>7, <1>8
<1>10. Ops'
  BY <1>2, <1>3, <1>9, OneMoves
<1> QED
  BY <1>1, <1>10 DEF Start, Typed, TypeOK, Ops

\* The steps of a run, in the order of the script.
LEMMA LockType ==
  ASSUME Typed, NEW p \in Procs, Look(p) \/ Lock(p) \/ LockHeld(p) PROVE Typed'
<1>1. Ops /\ fs \in Roots /\ past \subseteq Roots
  BY DEF Typed, TypeOK, Ops
<1>2. CASE Look(p)
  <2>1. Ops'
    BY <1>1, <1>2, GotoType, EndType DEF Look, At, Is, Pcs, Ops, Equipped
  <2> QED
    BY <1>2, <2>1 DEF Look, Typed, TypeOK, Ops
<1>3. CASE Lock(p)
  <2>1. op[p].run \in Runs
    BY <1>1, <1>3 DEF Lock, At, Ops, Equipped
  <2>2. [fs EXCEPT !.lock = op[p].run] \in Roots
    BY <1>1, <2>1 DEF Roots
  <2>3. fs' \in Roots /\ past' \subseteq Roots
    BY <1>1, <1>3, <2>2, WriteType DEF Lock
  <2>4. Ops'
    <3>1. CASE Is(p, "stage")
      BY <1>1, <1>3, <3>1, GotoType DEF Lock, At, Pcs, Critical
    <3>2. CASE ~Is(p, "stage")
      <4>1. ~Is(p, "readback")
        BY <1>1, <1>3 DEF Lock, At, Is, Ops, Equipped
      <4> QED
        BY <1>1, <1>3, <3>2, <4>1, GotoType DEF Lock, At, Pcs, Critical
    <3> QED
      BY <3>1, <3>2
  <2> QED
    BY <1>3, <2>3, <2>4 DEF Lock, Typed, TypeOK, Ops
<1>4. CASE LockHeld(p)
  <2>1. Ops'
    BY <1>1, <1>4, EndType DEF LockHeld
  <2> QED
    BY <1>4, <2>1 DEF LockHeld, Typed, TypeOK, Ops
<1> QED
  BY <1>2, <1>3, <1>4

LEMMA BuildType ==
  ASSUME Typed, NEW p \in Procs, Build(p) \/ Publish(p) PROVE Typed'
<1>1. Ops /\ fs \in Roots /\ past \subseteq Roots
  BY DEF Typed, TypeOK, Ops
<1>2. CASE Build(p)
  <2>1. Is(p, "stage")
    BY <1>1, <1>2 DEF Build, Ops, Equipped, At, Is
  <2>2. Ops'
    BY <1>1, <1>2, <2>1, GotoType DEF Build, At, Pcs, Critical
  <2> QED
    BY <1>2, <2>2 DEF Build, Typed, TypeOK, Ops
<1>3. CASE Publish(p)
  <2>1. Is(p, "stage")
    BY <1>1, <1>3 DEF Publish, Ops, Equipped, At, Is
  <2>2. Ops'
    BY <1>1, <1>3, <2>1, GotoType DEF Publish, At, Is, Pcs, Critical
  <2>3. [fs EXCEPT !.releases[op[p].commit] = "complete"] \in Roots
    BY <1>1 DEF Roots
  <2>4. fs' \in Roots /\ past' \subseteq Roots
    BY <1>1, <1>3, <2>3, WriteType DEF Publish
  <2> QED
    BY <1>3, <2>2, <2>4 DEF Publish, Typed, TypeOK, Ops
<1> QED
  BY <1>2, <1>3

LEMMA NextPointerType ==
  ASSUME Ops, fs \in Roots, NEW p \in Procs, At(p, "check"), Checks(p)
  PROVE  NextPointer(p) \in Pointers \cup {None}
<1>1. op[p] \in Processes /\ op[p].run \in Runs
      /\ (Is(p, "select") => op[p].commit \in Commits)
  BY DEF Ops, Equipped, At, Is
<1>2. CASE Is(p, "select")
  <2> DEFINE previous == IF fs.pointer = None THEN None ELSE fs.pointer.current
  <2>1. previous \in Commits \cup {None}
    BY DEF Roots, Pointers
  <2> HIDE DEF previous
  <2>2. NextPointer(p) = [ current |-> op[p].commit, at |-> op[p].run,
                           forged |-> FALSE, previous |-> previous ]
    BY <1>2 DEF NextPointer, previous
  <2> QED
    BY <1>1, <1>2, <2>1, <2>2 DEF Pointers
<1>3. CASE ~Is(p, "select")
  <2>1. NextPointer(p) = op[p].seen
    BY <1>3 DEF NextPointer
  <2> QED
    BY <1>1, <2>1 DEF Processes
<1> QED
  BY <1>2, <1>3

LEMMA CheckType == ASSUME Typed, NEW p \in Procs, Check(p) PROVE Typed'
<1>1. Ops /\ fs \in Roots
  BY DEF Typed, TypeOK, Ops
<1>2. CASE Checks(p)
  <2> DEFINE mine == NextPointer(p)
             path == IF Is(p, "deactivate") THEN op[p].run ELSE op[p].path
             o == [op[p] EXCEPT !.pc = "move", !.mine = mine, !.path = path]
  <2>1. op[p] \in Processes /\ Equipped(op[p]) /\ op[p].run \in Runs
    BY <1>1 DEF Check, Ops, Equipped, At
  <2>2. mine \in Pointers \cup {None}
    BY <1>1, <1>2, NextPointerType DEF Check
  <2>3. path \in {0} \cup Runs /\ (Is(p, "deactivate") => path = op[p].run)
        /\ (~Is(p, "deactivate") => path = op[p].path)
    BY <2>1 DEF Processes
  <2>4. op' = [op EXCEPT ![p] = o]
    BY <1>2 DEF Check
  <2> HIDE DEF mine, path
  <2>5. o \in Processes
    BY <2>1, <2>2, <2>3 DEF Processes, Pcs, Critical
  <2>6. Equipped(o)
    BY <2>1, <2>3 DEF Equipped, Processes, Is
  <2>7. Ops'
    BY <1>1, <2>4, <2>5, <2>6, OneMoves
  <2> QED
    BY <2>7 DEF Check, Typed, TypeOK, Ops
<1>3. CASE ~Checks(p)
  <2>1. Ops'
    BY <1>1, <1>3, GotoType DEF Check, At, Pcs, Critical
  <2> QED
    BY <2>1 DEF Check, Typed, TypeOK, Ops
<1> QED
  BY <1>2, <1>3

LEMMA MoveType == ASSUME Typed, NEW p \in Procs, Move(p) PROVE Typed'
<1>1. Ops /\ fs \in Roots /\ past \subseteq Roots
  BY DEF Typed, TypeOK, Ops
<1> DEFINE next == [op[p] EXCEPT !.pc = "sync"]
           path == op[p].path
<1>2. op[p] \in Processes /\ Equipped(op[p]) /\ op[p].pc = "move"
  BY <1>1 DEF Ops, Move, At
<1>3. next \in Processes /\ Equipped(next)
  BY <1>2 DEF Processes, Pcs, Critical, Equipped
<1>4. fs.custody \in [Runs -> Pointers \cup {None}]
      /\ fs.pointer \in Pointers \cup {None}
      /\ op[p].mine \in Pointers \cup {None}
  BY <1>1, <1>2 DEF Roots, Processes
<1>5. /\ [fs.custody EXCEPT ![path] = fs.pointer]
           \in [Runs -> Pointers \cup {None}]
      /\ [fs.custody EXCEPT ![path] = None] \in [Runs -> Pointers \cup {None}]
  BY <1>4
<1> HIDE DEF next
<1>6. Ops' /\ fs' \in Roots /\ past' \subseteq Roots
  <2>1. CASE Is(p, "select") /\ Rename(p, op[p].mine, fs.custody, next)
    BY <1>1, <1>3, <1>4, <2>1, RenameType
  <2>2. CASE Rename(p, None, [fs.custody EXCEPT ![path] = fs.pointer], next)
    BY <1>1, <1>3, <1>5, <2>2, RenameType
  <2>3. CASE Is(p, "reactivate")
             /\ Rename(p, fs.custody[path], [fs.custody EXCEPT ![path] = None],
                       next)
    <3>1. path \in Runs
      BY <1>2, <2>3 DEF Equipped, Is
    <3>2. fs.custody[path] \in Pointers \cup {None}
      BY <1>4, <3>1
    <3> QED
      BY <1>1, <1>3, <1>5, <2>3, <3>2, RenameType
  <2> QED
    BY <2>1, <2>2, <2>3 DEF Move, next
<1> QED
  BY <1>6 DEF Move, Typed, TypeOK, Ops

\* Steps that only move a run on, and fsync.
LEMMA FlowType ==
  ASSUME Typed, NEW p \in Procs, MoveFails(p) \/ Sync(p) \/ Verify(p) \/ Resync(p)
  PROVE  Typed'
<1>1. Ops /\ fs \in Roots /\ past \subseteq Roots
      /\ Equipped(op[p])
  BY DEF Typed, TypeOK, Ops
<1>2. AfterFault(p) \in {"restore", "unlock"}
  BY DEF AfterFault
<1>3. CASE MoveFails(p)
  <2>1. Ops'
    BY <1>1, <1>3, GotoType DEF MoveFails, At, Pcs, Critical
  <2> QED
    BY <1>3, <2>1 DEF MoveFails, Typed, TypeOK, Ops
<1>4. CASE Sync(p)
  <2>1. Is(p, "deactivate") => op[p].path \in Runs
    BY <1>1, <1>4 DEF Sync, At, Is, Equipped
  <2>2. Ops'
    BY <1>1, <1>2, <1>4, <2>1, GotoType DEF Sync, At, Pcs, Critical
  <2> QED
    BY <1>4, <2>2 DEF Sync, Fsync, Typed, TypeOK, Ops
<1>5. CASE Verify(p)
  <2>1. Is(p, "deactivate") => op[p].path \in Runs
    BY <1>1, <1>5 DEF Verify, At, Is, Equipped
  <2>2. Ops'
    BY <1>1, <1>2, <1>5, <2>1, GotoType DEF Verify, At, Pcs, Critical
  <2> QED
    BY <1>5, <2>2 DEF Verify, Typed, TypeOK, Ops
<1>6. CASE Resync(p)
  <2> DEFINE fault == IF Restored(p) THEN "failed" ELSE "recovery"
  <2>1. fault \in {"none", "failed", "recovery"}
    OBVIOUS
  <2> HIDE DEF fault
  <2>2. Fail(p, "unlock", fault) \/ Fail(p, "unlock", "recovery")
    BY <1>6 DEF Resync, fault
  <2>3. Ops'
    BY <1>1, <1>6, <2>1, <2>2, GotoType DEF Resync, At, Pcs, Critical
  <2> QED
    BY <1>6, <2>3 DEF Resync, Fsync, Typed, TypeOK, Ops
<1> QED
  BY <1>3, <1>4, <1>5, <1>6

LEMMA RestoreType == ASSUME Typed, NEW p \in Procs, Restore(p) PROVE Typed'
<1>1. Ops /\ fs \in Roots /\ past \subseteq Roots
  BY DEF Typed, TypeOK, Ops
<1> DEFINE path == op[p].path
           back == [op[p] EXCEPT !.pc = "resync"]
           lost == [op[p] EXCEPT !.pc = "unlock", !.fault = "recovery"]
<1>2. op[p] \in Processes /\ Equipped(op[p]) /\ op[p].pc = "restore"
  BY <1>1 DEF Ops, Restore, At
<1>3. /\ back \in Processes /\ Equipped(back)
      /\ lost \in Processes /\ Equipped(lost)
  <2>1. back \in Processes /\ Equipped(back)
    BY <1>2 DEF Processes, Pcs, Critical, Equipped
  <2>2. lost \in Processes
    BY <1>2, ZenonT(60) DEF Processes, Pcs, Critical
  <2>3. Equipped(lost)
    BY <1>2 DEF Processes, Equipped
  <2> QED
    BY <2>1, <2>2, <2>3
<1>4. fs.custody \in [Runs -> Pointers \cup {None}]
      /\ fs.pointer \in Pointers \cup {None}
      /\ op[p].mine \in Pointers \cup {None}
  BY <1>1, <1>2 DEF Roots, Processes
<1>5. /\ [fs.custody EXCEPT ![path] = fs.pointer]
           \in [Runs -> Pointers \cup {None}]
      /\ [fs.custody EXCEPT ![path] = None] \in [Runs -> Pointers \cup {None}]
  BY <1>4
<1>6. \/ Rename(p, op[p].mine, [fs.custody EXCEPT ![path] = None], back)
      \/ Rename(p, None, [fs.custody EXCEPT ![path] = fs.pointer], back)
      \/ Rename(p, None, fs.custody, lost)
      \/ Fail(p, "unlock", "recovery") /\ UNCHANGED <<fs, past>>
      \/ Goto(p, "resync") /\ UNCHANGED <<fs, past>>
  BY DEF Restore
<1> HIDE DEF back, lost
<1>7. Ops' /\ fs' \in Roots /\ past' \subseteq Roots
  <2>1. CASE Rename(p, op[p].mine, [fs.custody EXCEPT ![path] = None], back)
    BY <1>1, <1>3, <1>4, <1>5, <2>1, RenameType
  <2>2. CASE Rename(p, None, [fs.custody EXCEPT ![path] = fs.pointer], back)
    BY <1>1, <1>3, <1>4, <1>5, <2>2, RenameType
  <2>3. CASE Rename(p, None, fs.custody, lost)
    BY <1>1, <1>3, <1>4, <2>3, RenameType
  <2>4. CASE /\ Fail(p, "unlock", "recovery") \/ Goto(p, "resync")
             /\ UNCHANGED <<fs, past>>
    <3>1. Is(p, "deactivate") => op[p].path \in Runs
      BY <1>2 DEF Is, Equipped
    <3>2. Ops'
      BY <1>1, <1>2, <2>4, <3>1, GotoType DEF At, Pcs, Critical
    <3> QED
      BY <1>1, <2>4, <3>2
  <2> QED
    BY <1>6, <2>1, <2>2, <2>3, <2>4
<1> QED
  BY <1>7 DEF Restore, Typed, TypeOK, Ops

LEMMA UnlockType ==
  ASSUME Typed, NEW p \in Procs, Unlock(p) \/ Finish(p) \/ CleanUp(p)
  PROVE  Typed'
<1>1. /\ Ops /\ fs \in Roots /\ past \subseteq Roots
      /\ told \in Pointers \cup {None, Unknown}
      /\ op[p] \in Processes
  BY DEF Typed, TypeOK, Ops
<1>2. [fs EXCEPT !.lock = 0] \in Roots
  BY <1>1 DEF Roots
<1>3. Tells(p) \in Pointers \cup {None, Unknown}
  BY <1>1 DEF Tells, Processes
<1>4. CASE Unlock(p)
  <2>1. CASE fs.lock = op[p].run
    <3>1. fs' \in Roots /\ past' \subseteq Roots
      BY <1>1, <1>2, <1>4, <2>1, WriteType DEF Unlock
    <3>2. Ops'
      BY <1>1, <1>4, <2>1, GotoType DEF Unlock, At, Pcs
    <3> QED
      BY <1>3, <1>4, <2>1, <3>1, <3>2 DEF Unlock, Typed, TypeOK, Ops
  <2>2. CASE fs.lock # op[p].run
    <3>1. Ops'
      BY <1>1, <1>4, <2>2, EndType DEF Unlock
    <3> QED
      BY <1>4, <2>2, <3>1 DEF Unlock, Typed, TypeOK, Ops
  <2> QED
    BY <2>1, <2>2
<1>5. CASE Finish(p)
  <2>1. Ops'
    BY <1>1, <1>5, EndType DEF Finish
  <2> QED
    BY <1>5, <2>1 DEF Finish, Fsync, Typed, TypeOK, Ops
<1>6. CASE CleanUp(p)
  <2>1. Ops'
    BY <1>1, <1>6, EndType DEF CleanUp
  <2>2. fs' \in Roots /\ past' \subseteq Roots
    BY <1>1, <1>2, <1>6, WriteType DEF CleanUp
  <2> QED
    BY <1>6, <2>1, <2>2 DEF CleanUp, Typed, TypeOK, Ops
<1> QED
  BY <1>4, <1>5, <1>6

LEMMA ReadbackType ==
  ASSUME Typed, NEW p \in Procs,
         First(p) \/ Stat(p) \/ Second(p) \/ Last(p) \/ Report(p)
  PROVE  Typed'
<1>1. /\ Ops /\ fs \in Roots /\ op[p] \in Processes /\ Equipped(op[p])
      /\ fs.pointer \in Pointers \cup {None} /\ fs.moves \in Nat
  BY DEF Typed, TypeOK, Ops, Roots
<1>2. Ops'
  <2>1. CASE First(p) /\ ValidPointer
    <3> DEFINE o == [op[p] EXCEPT !.pc = "stat", !.seen = fs.pointer]
    <3>1. o \in Processes
      BY <1>1 DEF Processes, Pcs, Reading
    <3>2. Equipped(o)
      BY <1>1, <2>1 DEF First, At, Equipped, Processes
    <3>3. op' = [op EXCEPT ![p] = o]
      BY <2>1 DEF First
    <3> QED
      BY <1>1, <3>1, <3>2, <3>3, OneMoves
  <2>2. CASE Stat(p) /\ fs.pointer # None
    <3> DEFINE o == [op[p] EXCEPT !.pc = "second", !.mine = fs.pointer,
                                  !.stat = fs.moves]
    <3>1. o \in Processes
      BY <1>1 DEF Processes, Pcs, Reading
    <3>2. Equipped(o)
      BY <1>1, <2>2 DEF Stat, At, Equipped, Processes
    <3>3. op' = [op EXCEPT ![p] = o]
      BY <2>2 DEF Stat
    <3> QED
      BY <1>1, <3>1, <3>2, <3>3, OneMoves
  <2>3. CASE End(p)
    BY <1>1, <2>3, EndType
  <2>4. CASE Goto(p, "last") /\ At(p, "second")
    BY <1>1, <2>4, GotoType DEF At, Pcs, Reading
  <2>5. CASE Goto(p, "verified") /\ At(p, "last")
    BY <1>1, <2>5, GotoType DEF At, Pcs, Reading
  <2> QED
    BY <2>1, <2>2, <2>3, <2>4, <2>5 DEF First, Stat, Second, Last, Report
<1> QED
  BY <1>2 DEF First, Stat, Second, Last, Report, Typed, TypeOK, Ops

LEMMA WorldType ==
  ASSUME Typed, \/ \E p \in Procs : Crash(p)
                \/ \E c \in Commits : Drift(c)
                \/ \E r \in Runs : Tamper(r)
                \/ PowerLoss \/ Recover
  PROVE  Typed'
<1>1. /\ Ops /\ fs \in Roots /\ past \subseteq Roots
      /\ told \in Pointers \cup {None, Unknown}
  BY DEF Typed, TypeOK, Ops
<1>2. ASSUME NEW p \in Procs, Crash(p) PROVE Typed'
  <2>1. Ops'
    BY <1>1, <1>2, EndType DEF Crash
  <2> QED
    BY <1>2, <2>1 DEF Crash, Losing, Typed, TypeOK, Ops
<1>3. ASSUME NEW c \in Commits, Drift(c) PROVE Typed'
  <2>1. fs' \in Roots
    BY <1>1, <1>3 DEF Drift, Roots
  <2> QED
    BY <1>3, <2>1 DEF Drift, Typed, TypeOK
<1>4. ASSUME NEW r \in Runs, Tamper(r) PROVE Typed'
  <2>1. fs.custody[r] \in Pointers
    BY <1>1, <1>4 DEF Tamper, Roots
  <2> DEFINE forged == [fs.custody[r] EXCEPT !.forged = TRUE]
             custody == [fs.custody EXCEPT ![r] = forged]
  <2>2. forged \in Pointers
    BY <2>1 DEF Pointers
  <2>3. fs' = [fs EXCEPT !.custody = custody]
    BY <1>4 DEF Tamper
  <2> HIDE DEF forged
  <2>4. custody \in [Runs -> Pointers \cup {None}]
    BY <1>1, <2>2 DEF Roots
  <2> HIDE DEF custody
  <2>5. fs' \in Roots
    BY <1>1, <2>3, <2>4 DEF Roots
  <2> QED
    BY <1>4, <2>5 DEF Tamper, Typed, TypeOK
<1>5. CASE PowerLoss
  <2>1. fs' \in Roots /\ past' = {}
    BY <1>1, <1>5 DEF PowerLoss
  <2>2. Ops'
    BY <1>5, IdleType DEF PowerLoss, Ops
  <2> QED
    BY <1>5, <2>1, <2>2 DEF PowerLoss, Typed, TypeOK, Ops
<1>6. CASE Recover
  <2>1. [fs EXCEPT !.lock = 0] \in Roots
    BY <1>1 DEF Roots
  <2>2. fs' \in Roots /\ past' \subseteq Roots
    BY <1>1, <1>6, <2>1, WriteType DEF Recover
  <2> QED
    BY <1>6, <2>2 DEF Recover, Typed, TypeOK
<1> QED
  BY <1>2, <1>3, <1>4, <1>5, <1>6

LEMMA InitType == Init => Typed
<1> SUFFICES ASSUME Init PROVE Typed
  OBVIOUS
<1>1. PICK staged \in [Commits -> {"absent", "complete"}] :
        fs = [ lock |-> 0, pointer |-> None, moves |-> 0,
               custody |-> [r \in Runs |-> None], releases |-> staged ]
  BY DEF Init
<1>2. staged \in [Commits -> {"absent", "complete", "drifted"}]
  OBVIOUS
<1>3. fs \in Roots
  BY <1>1, <1>2 DEF Roots
<1> QED
  BY <1>3, IdleType DEF Init, Typed, TypeOK

LEMMA TypeStep == Typed /\ [Next]_vars => Typed'
<1> SUFFICES ASSUME Typed, [Next]_vars PROVE Typed'
  OBVIOUS
<1>1. ASSUME NEW p \in Procs, Start(p) \/ Advance(p) PROVE Typed'
  BY <1>1, StartType, LockType, BuildType, CheckType, MoveType, FlowType,
     RestoreType, UnlockType, ReadbackType DEF Advance
<1>2. CASE UNCHANGED vars
  BY <1>2 DEF vars, Typed, TypeOK
<1> QED
  BY <1>1, <1>2, WorldType DEF Next

(***************************************************************************)
(* TypeCorrect: the managed root, the images of it and the runs of the     *)
(* script keep their types.                                                *)
(***************************************************************************)
THEOREM TypeCorrect == Spec => []TypeOK
<1>1. Typed => TypeOK
  BY DEF Typed
<1> QED
  BY InitType, TypeStep, <1>1, PTL DEF Spec

------------------------------------------------------------------------------
\* Mutual exclusion.  Most steps leave lock and numbers alone, and no run but
\* p, which enters nothing, changes its place.
Quiet(p) ==
    /\ \A q \in Procs \ {p} : op'[q].run = op[q].run /\ op'[q].pc = op[q].pc
    /\ \/ op'[p].pc = "idle" /\ op'[p].run = 0
       \/ /\ op'[p].run = op[p].run /\ op[p].pc # "idle"
          /\ op'[p].pc \in Critical => op[p].pc \in Critical

LEMMA QuietStep ==
  ASSUME Typed, Excluded, NEW p \in Procs, Quiet(p), runs' = runs,
         fs'.lock = fs.lock
  PROVE  Excluded'
<1>1. /\ runs \in Nat
      /\ \A q \in Procs : op[q].pc # "idle" => op[q].run \in Runs
  BY RunsAssumption DEF Typed, TypeOK, Equipped, Runs
<1>2. Numbered'
  BY <1>1 DEF Excluded, Numbered, Quiet, At, Runs
<1>3. Holding'
  BY <1>1 DEF Excluded, Holding, Quiet, Critical
<1> QED
  BY <1>2, <1>3 DEF Excluded

LEMMA GotoQuiet ==
  ASSUME Ops, NEW p \in Procs, NEW pc, ~At(p, "idle"),
         pc \in Critical => op[p].pc \in Critical
  PROVE  /\ Goto(p, pc) => Quiet(p)
         /\ \A fault : Fail(p, pc, fault) => Quiet(p)
         /\ End(p) => Quiet(p)
<1>1. op[p] \in Processes
  BY DEF Ops
<1>2. ASSUME Goto(p, pc) PROVE Quiet(p)
  BY <1>1, <1>2 DEF Goto, Quiet, Ops, At, Processes
<1>3. ASSUME NEW fault, Fail(p, pc, fault) PROVE Quiet(p)
  BY <1>1, <1>3 DEF Fail, Quiet, Ops, At, Processes
<1>4. ASSUME End(p) PROVE Quiet(p)
  BY <1>4 DEF End, Quiet, Ops, Idle
<1> QED
  BY <1>2, <1>3, <1>4

LEMMA RenameQuiet ==
  ASSUME Ops, fs \in Roots, NEW p \in Procs, NEW pointer, NEW custody, NEW next,
         Rename(p, pointer, custody, next), ~At(p, "idle"),
         next.run = op[p].run, op[p].pc \in Critical
  PROVE  Quiet(p) /\ fs'.lock = fs.lock
<1>1. fs'.lock = fs.lock
  BY DEF Rename, Write, Roots
<1>2. op'[p] = next
  BY DEF Rename
<1>3. ASSUME NEW q \in Procs \ {p}
      PROVE  op'[q].run = op[q].run /\ op'[q].pc = op[q].pc
  <2> DEFINE d == op[q].disturbed \/ op[q].pc \in {"second", "last"}
  <2>1. op'[q] = [op[q] EXCEPT !.disturbed = d]
    BY DEF Rename
  <2> HIDE DEF d
  <2>2. op[q] \in Processes
    BY DEF Ops
  <2> QED
    BY <2>1, <2>2 DEF Processes
<1> QED
  BY <1>1, <1>2, <1>3 DEF Quiet, At

LEMMA StartExcludes ==
  ASSUME Typed, Excluded, NEW p \in Procs, Start(p) PROVE Excluded'
<1>1. /\ runs \in Nat /\ runs' = runs + 1 /\ fs' = fs
      /\ \A q \in Procs : op[q].run \in Nat /\ op[q].run <= runs
  BY RunsAssumption DEF Start, Typed, TypeOK, Excluded, Numbered, Runs, Processes
<1>2. PICK o : /\ op' = [op EXCEPT ![p] = o]
               /\ o.run = runs + 1
               /\ o.pc \in {"look", "lock", "first"}
  <2> DEFINE run == runs + 1
  <2> HIDE DEF run
  <2>1. PICK o \in {Stage(run, c) : c \in Commits}
                 \cup {Select(run, c) : c \in Commits}
                 \cup {Deactivate(run) : q \in {fs.pointer} \ {None}}
                 \cup {Reactivate(run, r) : r \in {r \in Runs :
                                                    fs.custody[r] # None}}
                 \cup {Readback(run)} : op' = [op EXCEPT ![p] = o]
    BY DEF Start, run
  <2>2. \A c : /\ Stage(run, c).run = run /\ Stage(run, c).pc = "look"
               /\ Select(run, c).run = run /\ Select(run, c).pc = "lock"
    BY DEF Stage, Select, Idle
  <2>3. /\ Deactivate(run).run = run /\ Deactivate(run).pc = "lock"
        /\ Readback(run).run = run /\ Readback(run).pc = "first"
    BY DEF Deactivate, Readback, Idle
  <2>4. \A r : Reactivate(run, r).run = run /\ Reactivate(run, r).pc = "lock"
    BY DEF Reactivate, Idle
  <2>5. o.run = run /\ o.pc \in {"look", "lock", "first"}
    BY <2>1, <2>2, <2>3, <2>4
  <2> QED
    BY <2>1, <2>5 DEF run
<1>3. \A q \in Procs : op'[q] = IF q = p THEN o ELSE op[q]
  BY <1>2 DEF Typed, TypeOK
<1>4. Numbered'
  BY <1>1, <1>2, <1>3 DEF Excluded, Numbered, At
<1>5. Holding'
  BY <1>1, <1>2, <1>3 DEF Excluded, Holding, Critical
<1> QED
  BY <1>4, <1>5 DEF Excluded

LEMMA LockExcludes ==
  ASSUME Typed, Excluded, NEW p \in Procs, Lock(p) PROVE Excluded'
<1>1. Ops /\ fs \in Roots
  BY DEF Typed, TypeOK, Ops
<1>2. PICK pc \in {"build", "check"} : Goto(p, pc)
  BY DEF Lock
<1>3. /\ op'[p].run = op[p].run
      /\ \A q \in Procs \ {p} : op'[q] = op[q]
  BY <1>1, <1>2 DEF Goto, Ops, Processes
<1>4. fs'.lock = op[p].run /\ runs' = runs /\ fs.lock = 0
  BY <1>1 DEF Lock, Write, Roots
<1>5. op[p].pc # "idle" /\ op[p].run \in Runs
  BY <1>1 DEF Lock, At, Ops, Equipped
<1>6. \A q \in Procs : op[q].pc \notin Critical
  <2> SUFFICES ASSUME NEW q \in Procs, op[q].pc \in Critical PROVE FALSE
    OBVIOUS
  <2>1. op[q].run \in Runs
    BY <1>1 DEF Ops, Equipped, Critical
  <2> QED
    BY <1>4, <2>1 DEF Excluded, Holding, Runs
<1>7. Numbered'
  BY <1>3, <1>4, <1>5 DEF Excluded, Numbered, At
<1>8. Holding'
  BY <1>3, <1>4, <1>6 DEF Holding
<1> QED
  BY <1>7, <1>8 DEF Excluded

\* A run that gives its lock back leaves the critical section with it.
LEMMA UnlockExcludes ==
  ASSUME Typed, Excluded, NEW p \in Procs, Unlock(p) \/ CleanUp(p)
  PROVE  Excluded'
<1>1. Ops /\ fs \in Roots
  BY DEF Typed, TypeOK, Ops
<1>2. ~At(p, "idle") /\ op[p].pc \in Critical /\ runs' = runs
  BY DEF Unlock, CleanUp, At, Critical
<1>3. Quiet(p) /\ op'[p].pc \notin Critical
  <2>1. CASE Goto(p, "finish")
    <3>1. Quiet(p)
      BY <1>1, <1>2, <2>1, GotoQuiet
    <3>2. op'[p].pc = "finish"
      BY <1>1, <2>1 DEF Goto, Ops, Processes
    <3> QED
      BY <3>1, <3>2 DEF Critical
  <2>2. CASE End(p)
    <3>1. Quiet(p)
      BY <1>1, <1>2, <2>2, GotoQuiet DEF At, Critical
    <3>2. op'[p].pc = "idle"
      BY <1>1, <2>2 DEF End, Ops, Idle
    <3> QED
      BY <3>1, <3>2 DEF Critical
  <2> QED
    BY <2>1, <2>2 DEF Unlock, CleanUp
<1>4. \A q \in Procs : op[q].pc \in Critical => q = p
  BY <1>2 DEF Excluded, Holding, Numbered, At, Critical
<1>5. Numbered'
  <2>1. /\ runs \in Nat
        /\ \A q \in Procs : op[q].pc # "idle" => op[q].run \in Runs
    BY RunsAssumption DEF Typed, TypeOK, Equipped, Runs
  <2> QED
    BY <1>2, <1>3, <2>1 DEF Excluded, Numbered, Quiet, At, Runs
<1>6. Holding'
  BY <1>3, <1>4 DEF Holding, Quiet
<1> QED
  BY <1>5, <1>6 DEF Excluded

LEMMA MutationExcludes ==
  ASSUME Typed, Excluded, NEW p \in Procs,
         \/ Look(p) \/ LockHeld(p) \/ Build(p) \/ Publish(p) \/ Check(p)
         \/ Move(p) \/ MoveFails(p) \/ Sync(p) \/ Verify(p) \/ Restore(p)
         \/ Resync(p) \/ Finish(p) \/ Crash(p)
  PROVE  Excluded'
<1>1. Ops /\ fs \in Roots /\ op[p] \in Processes
  BY DEF Typed, TypeOK, Ops
<1>2. runs' = runs
  BY DEF Look, LockHeld, Build, Publish, Check, Move, MoveFails, Sync, Verify,
     Restore, Resync, Finish, Crash
<1>3. CASE Look(p) \/ LockHeld(p) \/ Finish(p) \/ Crash(p)
  <2>1. Quiet(p)
    BY <1>1, <1>3, GotoQuiet DEF Look, LockHeld, Finish, Crash, At, Critical
  <2>2. fs' = fs
    BY <1>3 DEF Look, LockHeld, Finish, Fsync, Crash
  <2> QED
    BY <1>2, <2>1, <2>2, QuietStep
<1>4. CASE Build(p) \/ Publish(p)
  <2>1. Quiet(p)
    BY <1>1, <1>4, GotoQuiet DEF Build, Publish, At, Critical
  <2>2. fs'.lock = fs.lock
    BY <1>1, <1>4 DEF Build, Publish, Write, Roots
  <2> QED
    BY <1>2, <2>1, <2>2, QuietStep
<1>5. CASE Check(p)
  <2>1. fs' = fs /\ At(p, "check")
    BY <1>5 DEF Check
  <2>2. Quiet(p)
    <3>1. CASE Checks(p)
      <4> DEFINE mine == NextPointer(p)
                 path == IF Is(p, "deactivate") THEN op[p].run ELSE op[p].path
      <4>1. op' = [op EXCEPT ![p] = [op[p] EXCEPT !.pc = "move", !.mine = mine,
                                                  !.path = path]]
        BY <1>5, <3>1 DEF Check
      <4> HIDE DEF mine, path
      <4>2. op'[p].run = op[p].run /\ \A q \in Procs \ {p} : op'[q] = op[q]
        BY <1>1, <4>1 DEF Ops, Processes
      <4> QED
        BY <2>1, <4>2 DEF Quiet, At, Critical
    <3>2. CASE ~Checks(p)
      BY <1>1, <1>5, <3>2, GotoQuiet DEF Check, At, Critical
    <3> QED
      BY <3>1, <3>2
  <2> QED
    BY <1>2, <2>1, <2>2, QuietStep
<1>6. CASE Move(p)
  <2> DEFINE next == [op[p] EXCEPT !.pc = "sync"]
  <2>1. PICK pointer, custody : Rename(p, pointer, custody, next)
    BY <1>6 DEF Move
  <2>2. next.run = op[p].run
    BY <1>1 DEF Processes
  <2> HIDE DEF next
  <2>3. Quiet(p) /\ fs'.lock = fs.lock
    BY <1>1, <1>6, <2>1, <2>2, RenameQuiet DEF Move, At, Critical
  <2> QED
    BY <1>2, <2>3, QuietStep
<1>7. CASE MoveFails(p) \/ Sync(p) \/ Verify(p) \/ Resync(p)
  <2>1. Quiet(p)
    BY <1>1, <1>7, GotoQuiet DEF MoveFails, Sync, Verify, Resync, At, Critical
  <2>2. fs' = fs
    BY <1>7 DEF MoveFails, Sync, Verify, Resync, Fsync
  <2> QED
    BY <1>2, <2>1, <2>2, QuietStep
<1>8. CASE Restore(p)
  <2> DEFINE back == [op[p] EXCEPT !.pc = "resync"]
             lost == [op[p] EXCEPT !.pc = "unlock", !.fault = "recovery"]
  <2>1. At(p, "restore") /\ op[p].pc \in Critical
    BY <1>8 DEF Restore, At, Critical
  <2>2. back.run = op[p].run /\ lost.run = op[p].run
    BY <1>1 DEF Processes
  <2>3. \/ \E pointer, custody : Rename(p, pointer, custody, back)
        \/ \E pointer, custody : Rename(p, pointer, custody, lost)
        \/ Fail(p, "unlock", "recovery") /\ fs' = fs
        \/ Goto(p, "resync") /\ fs' = fs
    BY <1>8 DEF Restore
  <2> HIDE DEF back, lost
  <2>4. Quiet(p) /\ fs'.lock = fs.lock
    <3>1. CASE \/ \E pointer, custody : Rename(p, pointer, custody, back)
               \/ \E pointer, custody : Rename(p, pointer, custody, lost)
      BY <1>1, <2>1, <2>2, <3>1, RenameQuiet DEF At
    <3>2. CASE \/ Fail(p, "unlock", "recovery") /\ fs' = fs
               \/ Goto(p, "resync") /\ fs' = fs
      BY <1>1, <2>1, <3>2, GotoQuiet DEF At
    <3> QED
      BY <2>3, <3>1, <3>2
  <2> QED
    BY <1>2, <2>4, QuietStep
<1> QED
  BY <1>3, <1>4, <1>5, <1>6, <1>7, <1>8

LEMMA ReadbackExcludes ==
  ASSUME Typed, Excluded, NEW p \in Procs,
         First(p) \/ Stat(p) \/ Second(p) \/ Last(p) \/ Report(p)
  PROVE  Excluded'
<1>1. Ops /\ op[p] \in Processes
  BY DEF Typed, TypeOK, Ops
<1>2. runs' = runs /\ fs' = fs /\ ~At(p, "idle")
  BY DEF First, Stat, Second, Last, Report, At
<1>3. Quiet(p)
  <2>1. CASE First(p) /\ ValidPointer
    <3>1. op' = [op EXCEPT ![p] = [op[p] EXCEPT !.pc = "stat",
                                                !.seen = fs.pointer]]
      BY <2>1 DEF First
    <3> QED
      BY <1>1, <1>2, <3>1 DEF Ops, Processes, Quiet, At, Critical
  <2>2. CASE Stat(p) /\ fs.pointer # None
    <3>1. op' = [op EXCEPT ![p] = [op[p] EXCEPT !.pc = "second",
                                 !.mine = fs.pointer, !.stat = fs.moves]]
      BY <2>2 DEF Stat
    <3> QED
      BY <1>1, <1>2, <3>1 DEF Ops, Processes, Quiet, At, Critical
  <2>3. CASE End(p) \/ Goto(p, "last") \/ Goto(p, "verified")
    <3>1. "last" \notin Critical /\ "verified" \notin Critical
          /\ "idle" \notin Critical
      BY DEF Critical
    <3> QED
      BY <1>1, <1>2, <2>3, <3>1, GotoQuiet
  <2> QED
    BY <2>1, <2>2, <2>3 DEF First, Stat, Second, Last, Report
<1> QED
  BY <1>2, <1>3, QuietStep

LEMMA WorldExcludes ==
  ASSUME Typed, Excluded, \/ \E c \in Commits : Drift(c)
                          \/ \E r \in Runs : Tamper(r)
                          \/ PowerLoss \/ Recover
  PROVE  Excluded'
<1>1. fs \in Roots /\ runs \in Nat
  BY RunsAssumption DEF Typed, TypeOK, Runs
<1>2. CASE \/ \E c \in Commits : Drift(c)
           \/ \E r \in Runs : Tamper(r)
  <2>1. fs'.lock = fs.lock /\ op' = op /\ runs' = runs
    BY <1>1, <1>2 DEF Drift, Tamper, Roots
  <2> QED
    BY <2>1 DEF Excluded, Numbered, Holding, At
<1>3. CASE PowerLoss
  <2>1. \A q \in Procs : op'[q].pc = "idle" /\ op'[q].run = 0
    BY <1>3 DEF PowerLoss, Idle
  <2>2. runs' = runs
    BY <1>3 DEF PowerLoss
  <2> QED
    BY <1>1, <2>1, <2>2 DEF Excluded, Numbered, Holding, At, Critical
<1>4. CASE Recover
  <2>1. op' = op /\ runs' = runs /\ \A q \in Procs : op[q].run # fs.lock
    BY <1>4 DEF Recover
  <2>2. \A q \in Procs : op[q].pc \notin Critical
    BY <2>1 DEF Excluded, Holding
  <2> QED
    BY <2>1, <2>2 DEF Excluded, Numbered, Holding, At
<1> QED
  BY <1>2, <1>3, <1>4

LEMMA ExclusionStep == Typed /\ Excluded /\ [Next]_vars => Excluded'
<1> SUFFICES ASSUME Typed, Excluded, [Next]_vars PROVE Excluded'
  OBVIOUS
<1>1. ASSUME NEW p \in Procs, Start(p) \/ Advance(p) \/ Crash(p)
      PROVE  Excluded'
  BY <1>1, StartExcludes, LockExcludes, UnlockExcludes, MutationExcludes,
     ReadbackExcludes DEF Advance
<1>2. CASE UNCHANGED vars
  BY <1>2 DEF vars, Excluded, Numbered, Holding, At
<1> QED
  BY <1>1, <1>2, WorldExcludes DEF Next

LEMMA InitExcludes == Init => Excluded
BY DEF Init, Excluded, Numbered, Holding, Idle, At, Critical

(***************************************************************************)
(* LockKeepsApart: at most one process is inside the generation lock,      *)
(* whatever number of them crash, lose power, fail or have their locks     *)
(* removed once they are dead (withGenerationLock and stage's own lock).   *)
(***************************************************************************)
THEOREM LockKeepsApart == Spec => []OneMutator
<1>1. Init => Typed /\ Excluded
  BY InitType, InitExcludes
<1>2. Typed /\ Excluded /\ [Next]_vars => (Typed /\ Excluded)'
  BY TypeStep, ExclusionStep
<1>3. Typed /\ Excluded => OneMutator
  BY DEF Excluded, Numbered, Holding, OneMutator, At, Critical
<1> QED
  BY <1>1, <1>2, <1>3, PTL DEF Spec

------------------------------------------------------------------------------
\* Staged releases.  A step keeps everything sound when releases only grow and
\* each pointer it leaves somewhere was sound before.
Grows ==
    \A c \in Commits : fs.releases[c] # "absent" => fs'.releases[c] # "absent"

LEMMA StagedGrows ==
  ASSUME Grows, NEW pointer \in Pointers \cup {None}, Staged(fs.releases, pointer)
  PROVE  Staged(fs'.releases, pointer)
BY DEF Grows, Staged, Pointers

LEMMA SoundStep ==
  ASSUME Typed, Typed', AllSound, Grows, past' \subseteq past \cup {fs},
         Staged(fs.releases, fs'.pointer),
         \A r \in Runs : Staged(fs.releases, fs'.custody[r]),
         \A p \in Procs : Staged(fs.releases, op'[p].mine)
  PROVE  AllSound'
<1>1. /\ fs'.pointer \in Pointers \cup {None}
      /\ \A r \in Runs : fs'.custody[r] \in Pointers \cup {None}
      /\ \A p \in Procs : op'[p].mine \in Pointers \cup {None}
  BY DEF Typed, TypeOK, Roots, Processes
<1>2. Staged(fs'.releases, fs'.pointer)
  BY <1>1, StagedGrows
<1>3. \A r \in Runs : Staged(fs'.releases, fs'.custody[r])
  BY <1>1, StagedGrows
<1>4. \A p \in Procs : Staged(fs'.releases, op'[p].mine)
  BY <1>1, StagedGrows
<1>5. \A root \in past' : Sound(root)
  BY DEF AllSound
<1> QED
  BY <1>2, <1>3, <1>4, <1>5 DEF AllSound, Sound

\* What a step leaves of the pointers that runs carry.
Carries == \A p \in Procs : op'[p].mine \in {op[p].mine, None}

LEMMA Carrying ==
  ASSUME Ops, NEW p \in Procs, NEW pc
  PROVE  /\ Goto(p, pc) => Carries
         /\ \A fault : Fail(p, pc, fault) => Carries
         /\ End(p) => Carries
<1>1. op[p] \in Processes
  BY DEF Ops
<1>2. ASSUME Goto(p, pc) PROVE Carries
  BY <1>1, <1>2 DEF Goto, Carries, Ops, Processes
<1>3. ASSUME NEW fault, Fail(p, pc, fault) PROVE Carries
  BY <1>1, <1>3 DEF Fail, Carries, Ops, Processes
<1>4. ASSUME End(p) PROVE Carries
  BY <1>4 DEF End, Carries, Ops, Idle
<1> QED
  BY <1>2, <1>3, <1>4

\* Steps that leave the pointers in the store and in the runs alone.
LEMMA StillSound ==
  ASSUME Typed, Typed', AllSound, Carries, Grows, past' \subseteq past \cup {fs},
         fs'.pointer = fs.pointer, fs'.custody = fs.custody
  PROVE  AllSound'
<1>1. \A p \in Procs : Staged(fs.releases, op'[p].mine)
  BY DEF AllSound, Carries, Staged
<1> QED
  BY <1>1, SoundStep DEF AllSound, Sound

LEMMA WriteLock ==
  ASSUME fs \in Roots, NEW lock, Write([fs EXCEPT !.lock = lock])
  PROVE  /\ Grows /\ past' \subseteq past \cup {fs}
         /\ fs'.pointer = fs.pointer /\ fs'.custody = fs.custody
BY DEF Write, Grows, Roots

LEMMA StartSound ==
  ASSUME Typed, Typed', AllSound, NEW p \in Procs, Start(p) PROVE AllSound'
<1>1. fs' = fs /\ past' = past
  BY DEF Start
<1>2. PICK o : op' = [op EXCEPT ![p] = o] /\ o.mine = None
  <2> DEFINE run == runs + 1
  <2> HIDE DEF run
  <2>1. PICK o \in {Stage(run, c) : c \in Commits}
                 \cup {Select(run, c) : c \in Commits}
                 \cup {Deactivate(run) : q \in {fs.pointer} \ {None}}
                 \cup {Reactivate(run, r) : r \in {r \in Runs :
                                                    fs.custody[r] # None}}
                 \cup {Readback(run)} : op' = [op EXCEPT ![p] = o]
    BY DEF Start, run
  <2>2. /\ \A c : Stage(run, c).mine = None /\ Select(run, c).mine = None
        /\ Deactivate(run).mine = None /\ Readback(run).mine = None
        /\ \A r : Reactivate(run, r).mine = None
    BY DEF Stage, Select, Deactivate, Reactivate, Readback, Idle
  <2> QED
    BY <2>1, <2>2
<1>3. Carries
  BY <1>2 DEF Carries, Typed, TypeOK
<1> QED
  BY <1>1, <1>3, StillSound DEF Grows

LEMMA LockSound ==
  ASSUME Typed, Typed', AllSound, NEW p \in Procs,
         Lock(p) \/ Unlock(p) \/ CleanUp(p)
  PROVE  AllSound'
<1>1. Ops /\ fs \in Roots
  BY DEF Typed, TypeOK, Ops
<1>2. Carries
  BY <1>1, Carrying DEF Lock, Unlock, CleanUp
<1>3. (\E lock : Write([fs EXCEPT !.lock = lock])) \/ UNCHANGED <<fs, past>>
  BY DEF Lock, Unlock, CleanUp
<1>4. /\ Grows /\ past' \subseteq past \cup {fs}
      /\ fs'.pointer = fs.pointer /\ fs'.custody = fs.custody
  <2>1. CASE \E lock : Write([fs EXCEPT !.lock = lock])
    BY <1>1, <2>1, WriteLock
  <2>2. CASE UNCHANGED <<fs, past>>
    BY <2>2 DEF Grows
  <2> QED
    BY <1>3, <2>1, <2>2
<1> QED
  BY <1>2, <1>4, StillSound

LEMMA FlowSound ==
  ASSUME Typed, Typed', AllSound, NEW p \in Procs,
         \/ Look(p) \/ LockHeld(p) \/ Build(p) \/ MoveFails(p) \/ Sync(p)
         \/ Verify(p) \/ Resync(p) \/ Finish(p) \/ Crash(p)
         \/ Second(p) \/ Last(p) \/ Report(p)
  PROVE  AllSound'
<1>1. Ops
  BY DEF Typed, TypeOK, Ops
<1>2. fs' = fs /\ past' \subseteq past
  BY DEF Look, LockHeld, Build, MoveFails, Sync, Verify, Resync, Finish, Crash,
     Second, Last, Report, Fsync
<1>3. Carries
  <2>1. CASE Look(p) \/ LockHeld(p) \/ Build(p) \/ MoveFails(p) \/ Crash(p)
    BY <1>1, <2>1, Carrying DEF Look, LockHeld, Build, MoveFails, Crash
  <2>2. CASE Sync(p) \/ Verify(p) \/ Resync(p) \/ Finish(p)
    BY <1>1, <2>2, Carrying DEF Sync, Verify, Resync, Finish
  <2>3. CASE Second(p) \/ Last(p) \/ Report(p)
    BY <1>1, <2>3, Carrying DEF Second, Last, Report
  <2> QED
    BY <2>1, <2>2, <2>3
<1> QED
  BY <1>2, <1>3, StillSound DEF Grows

LEMMA PublishSound ==
  ASSUME Typed, Typed', AllSound, NEW p \in Procs, Publish(p) PROVE AllSound'
<1>1. Ops /\ fs \in Roots
  BY DEF Typed, TypeOK, Ops
<1>2. Carries
  BY <1>1, Carrying DEF Publish
<1>3. /\ Grows /\ past' \subseteq past \cup {fs}
      /\ fs'.pointer = fs.pointer /\ fs'.custody = fs.custody
  BY <1>1 DEF Publish, Write, Grows, Roots
<1> QED
  BY <1>2, <1>3, StillSound

\* Under the lock a run only takes up pointers whose releases it verified, or
\* that it found in the store.
LEMMA NextPointerStaged ==
  ASSUME Typed, AllSound, NEW p \in Procs, At(p, "check"), Checks(p)
  PROVE  Staged(fs.releases, NextPointer(p))
<1>1. op[p] \in Processes /\ Equipped(op[p])
  BY DEF Typed, TypeOK
<1>2. CASE Is(p, "select")
  <2> DEFINE previous == IF fs.pointer = None THEN None ELSE fs.pointer.current
  <2>1. NextPointer(p) = [ current |-> op[p].commit, at |-> op[p].run,
                           forged |-> FALSE, previous |-> previous ]
    BY <1>2 DEF NextPointer
  <2>2. /\ fs.releases[op[p].commit] = "complete"
        /\ fs.pointer # None => /\ fs.releases[fs.pointer.current] = "complete"
                                /\ op[p].commit # fs.pointer.current
    BY <1>2 DEF Checks, ValidPointer, Complete, Is
  <2> QED
    BY <2>1, <2>2 DEF Staged
<1>3. CASE Is(p, "deactivate")
  <2>1. NextPointer(p) = fs.pointer
    BY <1>3 DEF NextPointer, Checks, Is
  <2> QED
    BY <2>1 DEF AllSound, Sound
<1>4. CASE Is(p, "reactivate")
  <2>1. NextPointer(p) = fs.custody[op[p].path] /\ op[p].path \in Runs
    BY <1>1, <1>4 DEF NextPointer, Checks, Is, Equipped
  <2> QED
    BY <2>1 DEF AllSound, Sound
<1> QED
  BY <1>1, <1>2, <1>3, <1>4 DEF Is, At, Equipped, Processes

LEMMA CheckSound ==
  ASSUME Typed, Typed', AllSound, NEW p \in Procs, Check(p) PROVE AllSound'
<1>1. Ops /\ op[p] \in Processes /\ fs' = fs /\ past' = past /\ At(p, "check")
  BY DEF Check, Typed, TypeOK, Ops
<1>2. CASE Checks(p)
  <2> DEFINE mine == NextPointer(p)
             path == IF Is(p, "deactivate") THEN op[p].run ELSE op[p].path
  <2>1. op' = [op EXCEPT ![p] = [op[p] EXCEPT !.pc = "move", !.mine = mine,
                                              !.path = path]]
    BY <1>2 DEF Check
  <2>2. Staged(fs.releases, mine)
    BY <1>1, <1>2, NextPointerStaged
  <2> HIDE DEF mine, path
  <2>3. \A q \in Procs : op'[q].mine \in {op[q].mine, mine}
    BY <1>1, <2>1 DEF Ops, Processes
  <2>4. \A q \in Procs : Staged(fs.releases, op'[q].mine)
    BY <2>2, <2>3 DEF AllSound
  <2> QED
    BY <1>1, <2>4, SoundStep DEF AllSound, Sound, Grows
<1>3. CASE ~Checks(p)
  <2>1. Carries
    BY <1>1, <1>3, Carrying DEF Check
  <2> QED
    BY <1>1, <2>1, StillSound DEF Grows
<1> QED
  BY <1>2, <1>3

\* A rename that moves sound pointers about.
LEMMA RenameSound ==
  ASSUME Typed, Typed', AllSound, NEW p \in Procs, NEW pointer, NEW custody,
         NEW next, Rename(p, pointer, custody, next), next.mine = op[p].mine,
         Staged(fs.releases, pointer),
         \A r \in Runs : Staged(fs.releases, custody[r])
  PROVE  AllSound'
<1>1. fs \in Roots /\ op \in [Procs -> Processes]
  BY DEF Typed, TypeOK
<1>2. /\ fs'.pointer = pointer /\ fs'.custody = custody
      /\ Grows /\ past' \subseteq past \cup {fs}
  <2> DEFINE m == fs.moves + 1
  <2>1. fs' = [fs EXCEPT !.pointer = pointer, !.custody = custody, !.moves = m]
        /\ past' \subseteq past \cup {fs}
    BY DEF Rename, Write
  <2> HIDE DEF m
  <2> QED
    BY <1>1, <2>1 DEF Roots, Grows
<1>3. ASSUME NEW q \in Procs PROVE Staged(fs.releases, op'[q].mine)
  <2>1. CASE q = p
    <3>1. op'[q] = next
      BY <2>1 DEF Rename
    <3> QED
      BY <2>1, <3>1 DEF AllSound
  <2>2. CASE q # p
    <3> DEFINE d == op[q].disturbed \/ op[q].pc \in {"second", "last"}
    <3>1. op'[q] = [op[q] EXCEPT !.disturbed = d]
      BY <2>2 DEF Rename
    <3> HIDE DEF d
    <3>2. op'[q].mine = op[q].mine
      BY <1>1, <3>1 DEF Processes
    <3> QED
      BY <3>2 DEF AllSound
  <2> QED
    BY <2>1, <2>2
<1> QED
  BY <1>2, <1>3, SoundStep

LEMMA MoveSound ==
  ASSUME Typed, Typed', AllSound, NEW p \in Procs, Move(p) \/ Restore(p)
  PROVE  AllSound'
<1> DEFINE path == op[p].path
           next == [op[p] EXCEPT !.pc = "sync"]
           back == [op[p] EXCEPT !.pc = "resync"]
           lost == [op[p] EXCEPT !.pc = "unlock", !.fault = "recovery"]
           emptied == [fs.custody EXCEPT ![path] = None]
           filled == [fs.custody EXCEPT ![path] = fs.pointer]
<1>1. /\ Ops /\ op[p] \in Processes /\ Equipped(op[p])
      /\ fs.custody \in [Runs -> Pointers \cup {None}]
  BY DEF Typed, TypeOK, Ops, Roots
<1>2. next.mine = op[p].mine /\ back.mine = op[p].mine /\ lost.mine = op[p].mine
  BY <1>1 DEF Processes
<1>3. /\ Staged(fs.releases, op[p].mine) /\ Staged(fs.releases, None)
      /\ Staged(fs.releases, fs.pointer)
      /\ \A r \in Runs : Staged(fs.releases, fs.custody[r])
  BY DEF AllSound, Sound, Staged
<1>4. \A r \in Runs : Staged(fs.releases, emptied[r])
  <2> SUFFICES ASSUME NEW r \in Runs PROVE Staged(fs.releases, emptied[r])
    OBVIOUS
  <2>1. emptied[r] = IF r = path THEN None ELSE fs.custody[r]
    BY <1>1
  <2> QED
    BY <1>3, <2>1
<1>5. \A r \in Runs : Staged(fs.releases, filled[r])
  <2> SUFFICES ASSUME NEW r \in Runs PROVE Staged(fs.releases, filled[r])
    OBVIOUS
  <2>1. filled[r] = IF r = path THEN fs.pointer ELSE fs.custody[r]
    BY <1>1
  <2> QED
    BY <1>3, <2>1
<1>6. CASE Move(p)
  <2>1. \/ Rename(p, op[p].mine, fs.custody, next)
        \/ Rename(p, None, filled, next)
        \/ Is(p, "reactivate") /\ Rename(p, fs.custody[path], emptied, next)
    BY <1>6 DEF Move
  <2> HIDE DEF next, emptied, filled
  <2>2. CASE Is(p, "reactivate") /\ Rename(p, fs.custody[path], emptied, next)
    <3>1. path \in Runs
      BY <1>1, <2>2 DEF Equipped, Is
    <3> QED
      BY <1>2, <1>3, <1>4, <2>2, <3>1, RenameSound
  <2> QED
    BY <1>2, <1>3, <1>4, <1>5, <2>1, <2>2, RenameSound
<1>7. CASE Restore(p)
  <2>1. \/ Rename(p, op[p].mine, emptied, back)
        \/ Rename(p, None, filled, back)
        \/ Rename(p, None, fs.custody, lost)
        \/ /\ Fail(p, "unlock", "recovery") \/ Goto(p, "resync")
           /\ UNCHANGED <<fs, past>>
    BY <1>7 DEF Restore
  <2> HIDE DEF back, lost, emptied, filled
  <2>2. CASE /\ Fail(p, "unlock", "recovery") \/ Goto(p, "resync")
             /\ UNCHANGED <<fs, past>>
    <3>1. Carries
      BY <1>1, <2>2, Carrying
    <3> QED
      BY <2>2, <3>1, StillSound DEF Grows
  <2> QED
    BY <1>2, <1>3, <1>4, <1>5, <2>1, <2>2, RenameSound
<1> QED
  BY <1>6, <1>7

LEMMA LookSound ==
  ASSUME Typed, Typed', AllSound, NEW p \in Procs, First(p) \/ Stat(p)
  PROVE  AllSound'
<1>1. Ops /\ op[p] \in Processes /\ fs' = fs /\ past' = past
  BY DEF First, Stat, Typed, TypeOK, Ops
<1>2. \A q \in Procs : op'[q].mine \in {op[q].mine, fs.pointer, None}
  <2>1. CASE End(p)
    BY <1>1, <2>1, Carrying DEF Carries
  <2>2. CASE op' = [op EXCEPT ![p].pc = "stat", ![p].seen = fs.pointer]
    <3>1. op' = [op EXCEPT ![p] = [op[p] EXCEPT !.pc = "stat",
                                                !.seen = fs.pointer]]
      BY <2>2
    <3> QED
      BY <1>1, <3>1 DEF Ops, Processes
  <2>3. CASE op' = [op EXCEPT ![p].pc = "second", ![p].mine = fs.pointer,
                              ![p].stat = fs.moves]
    <3>1. op' = [op EXCEPT ![p] = [op[p] EXCEPT !.pc = "second",
                                 !.mine = fs.pointer, !.stat = fs.moves]]
      BY <2>3
    <3> QED
      BY <1>1, <3>1 DEF Ops, Processes
  <2> QED
    BY <2>1, <2>2, <2>3 DEF First, Stat
<1>3. \A q \in Procs : Staged(fs.releases, op'[q].mine)
  BY <1>2 DEF AllSound, Sound, Staged
<1> QED
  BY <1>1, <1>3, SoundStep DEF AllSound, Sound, Grows
LEMMA WorldSound ==
  ASSUME Typed, Typed', AllSound,
         \/ \E c \in Commits : Drift(c)
         \/ \E r \in Runs : Tamper(r)
         \/ PowerLoss \/ Recover
  PROVE  AllSound'
<1>1. fs \in Roots
  BY DEF Typed, TypeOK
<1>2. ASSUME NEW c \in Commits, Drift(c) PROVE AllSound'
  <2>1. /\ Grows /\ past' = past
        /\ fs'.pointer = fs.pointer /\ fs'.custody = fs.custody
    BY <1>1, <1>2 DEF Drift, Grows, Roots
  <2>2. Carries
    BY <1>2 DEF Drift, Carries
  <2> QED
    BY <2>1, <2>2, StillSound
<1>3. ASSUME NEW r \in Runs, Tamper(r) PROVE AllSound'
  <2>1. fs.custody[r] \in Pointers
    BY <1>1, <1>3 DEF Tamper, Roots
  <2> DEFINE forged == [fs.custody[r] EXCEPT !.forged = TRUE]
             custody == [fs.custody EXCEPT ![r] = forged]
  <2>2. Staged(fs.releases, forged)
    <3>1. Staged(fs.releases, fs.custody[r])
      BY DEF AllSound, Sound
    <3>2. /\ forged.current = fs.custody[r].current
          /\ forged.previous = fs.custody[r].previous
      BY <2>1 DEF Pointers
    <3>3. fs.custody[r] # None
      BY <1>3 DEF Tamper
    <3> QED
      BY <3>1, <3>2, <3>3 DEF Staged
  <2>3. fs' = [fs EXCEPT !.custody = custody]
    BY <1>3 DEF Tamper
  <2> HIDE DEF forged
  <2>4. \A q \in Runs : Staged(fs.releases, custody[q])
    <3> SUFFICES ASSUME NEW q \in Runs PROVE Staged(fs.releases, custody[q])
      OBVIOUS
    <3>1. custody[q] = IF q = r THEN forged ELSE fs.custody[q]
      BY <1>1 DEF Roots
    <3> QED
      BY <2>2, <3>1 DEF AllSound, Sound
  <2> HIDE DEF custody
  <2>5. /\ Grows /\ fs'.pointer = fs.pointer /\ fs'.custody = custody
    BY <1>1, <2>3 DEF Roots, Grows
  <2>6. past' = past /\ op' = op
    BY <1>3 DEF Tamper
  <2> QED
    BY <2>4, <2>5, <2>6, SoundStep DEF AllSound, Sound
<1>4. CASE PowerLoss
  <2>1. Sound(fs')
    BY <1>4 DEF PowerLoss, AllSound
  <2>2. past' = {} /\ \A p \in Procs : op'[p].mine = None
    BY <1>4 DEF PowerLoss, Idle
  <2> QED
    BY <2>1, <2>2 DEF AllSound, Sound, Staged
<1>5. CASE Recover
  <2>1. Carries
    BY <1>5 DEF Recover, Carries
  <2> QED
    BY <1>1, <1>5, <2>1, WriteLock, StillSound DEF Recover
<1> QED
  BY <1>2, <1>3, <1>4, <1>5

LEMMA SoundnessStep == Typed /\ AllSound /\ [Next]_vars => AllSound'
<1> SUFFICES ASSUME Typed, AllSound, [Next]_vars PROVE AllSound'
  OBVIOUS
<1>1. Typed'
  BY TypeStep
<1>2. ASSUME NEW p \in Procs, Advance(p) PROVE AllSound'
  <2>1. CASE Lock(p) \/ Unlock(p) \/ CleanUp(p)
    BY <1>1, <2>1, LockSound
  <2>2. CASE \/ Look(p) \/ LockHeld(p) \/ Build(p) \/ MoveFails(p) \/ Sync(p)
             \/ Verify(p) \/ Resync(p) \/ Finish(p)
             \/ Second(p) \/ Last(p) \/ Report(p)
    BY <1>1, <2>2, FlowSound
  <2>3. CASE Publish(p) \/ Check(p)
    BY <1>1, <2>3, PublishSound, CheckSound
  <2>4. CASE Move(p) \/ Restore(p)
    BY <1>1, <2>4, MoveSound
  <2>5. CASE First(p) \/ Stat(p)
    BY <1>1, <2>5, LookSound
  <2> QED
    BY <1>2, <2>1, <2>2, <2>3, <2>4, <2>5 DEF Advance
<1>3. ASSUME NEW p \in Procs, Start(p) \/ Crash(p) PROVE AllSound'
  BY <1>1, <1>3, StartSound, FlowSound
<1>4. CASE \/ \E c \in Commits : Drift(c)
           \/ \E r \in Runs : Tamper(r)
           \/ PowerLoss \/ Recover
  BY <1>1, <1>4, WorldSound
<1>5. CASE UNCHANGED vars
  <2>1. fs' = fs /\ past' = past /\ Carries
    BY <1>5 DEF vars, Carries
  <2> QED
    BY <1>1, <2>1, StillSound DEF Grows
<1> QED
  BY <1>2, <1>3, <1>4, <1>5 DEF Next

(***************************************************************************)
(* The selector names a completely staged release, and so does its         *)
(* previous, whatever dies, loses power, drifts or is tampered with        *)
(* (validatePointer before a commit, and renames that only move pointers). *)
(***************************************************************************)
THEOREM SelectorIsStaged == Spec => []SelectedWasStaged
<1>1. Init => Typed /\ AllSound
  <2>1. Init => AllSound
    BY DEF Init, AllSound, Sound, Staged, Idle
  <2> QED
    BY <2>1, InitType
<1>2. Typed /\ AllSound /\ [Next]_vars => (Typed /\ AllSound)'
  BY TypeStep, SoundnessStep
<1>3. Typed /\ AllSound => SelectedWasStaged
  BY DEF AllSound, Sound, Staged, SelectedWasStaged
<1> QED
  BY <1>1, <1>2, <1>3, PTL DEF Spec

------------------------------------------------------------------------------
\* What the kinds of step leave as it was.
Same(o, n) == /\ n.action = o.action /\ n.run = o.run /\ n.commit = o.commit
              /\ n.seen = o.seen /\ n.path = o.path /\ n.mine = o.mine

Others(p) == \A q \in Procs \ {p} : op'[q] = op[q]

LEMMA OneStep ==
  ASSUME op \in [Procs -> Processes], NEW p \in Procs, NEW o,
         op' = [op EXCEPT ![p] = o]
  PROVE  op'[p] = o /\ Others(p)
BY DEF Others

LEMMA EndStep ==
  ASSUME op \in [Procs -> Processes], NEW p \in Procs, End(p)
  PROVE  op'[p] = Idle /\ Others(p)
BY OneStep DEF End

LEMMA GotoStep ==
  ASSUME op \in [Procs -> Processes], NEW p \in Procs, NEW pc, Goto(p, pc)
  PROVE  /\ op'[p].pc = pc /\ Same(op[p], op'[p]) /\ Others(p)
         /\ op'[p].fault = op[p].fault /\ op'[p].stat = op[p].stat
         /\ op'[p].disturbed = op[p].disturbed
<1>1. op' = [op EXCEPT ![p] = [op[p] EXCEPT !.pc = pc]]
  BY DEF Goto
<1>2. op'[p] = [op[p] EXCEPT !.pc = pc] /\ Others(p)
  BY <1>1, OneStep
<1>3. op'[p].disturbed = op[p].disturbed
  BY <1>2, ZenonT(60) DEF Processes
<1> QED
  BY <1>2, <1>3 DEF Processes, Same

LEMMA FailStep ==
  ASSUME op \in [Procs -> Processes], NEW p \in Procs, NEW pc, NEW fault,
         Fail(p, pc, fault)
  PROVE  /\ op'[p].pc = pc /\ Same(op[p], op'[p]) /\ Others(p)
         /\ op'[p].fault = fault /\ op'[p].stat = op[p].stat
         /\ op'[p].disturbed = op[p].disturbed
<1>1. op' = [op EXCEPT ![p] = [op[p] EXCEPT !.pc = pc, !.fault = fault]]
  BY DEF Fail
<1>2. op'[p] = [op[p] EXCEPT !.pc = pc, !.fault = fault] /\ Others(p)
  BY <1>1, OneStep
<1>3. op'[p].disturbed = op[p].disturbed
  BY <1>2, ZenonT(60) DEF Processes
<1> QED
  BY <1>2, <1>3 DEF Processes, Same

LEMMA RenameStep ==
  ASSUME Typed, NEW p \in Procs, NEW pointer, NEW custody, NEW next,
         Rename(p, pointer, custody, next)
  PROVE  /\ fs'.pointer = pointer /\ fs'.custody = custody /\ fs'.lock = fs.lock
         /\ fs'.moves = fs.moves + 1 /\ fs'.releases = fs.releases
         /\ past' = IF "power" \in Events THEN past \cup {fs} ELSE past
         /\ op'[p] = next
         /\ \A q \in Procs \ {p} :
              /\ op'[q].pc = op[q].pc /\ Same(op[q], op'[q])
              /\ op'[q].fault = op[q].fault /\ op'[q].stat = op[q].stat
              /\ op'[q].disturbed =>
                   op[q].disturbed \/ op[q].pc \in {"second", "last"}
<1>1. fs \in Roots /\ op \in [Procs -> Processes]
  BY DEF Typed, TypeOK
<1>2. /\ fs'.pointer = pointer /\ fs'.custody = custody /\ fs'.lock = fs.lock
      /\ fs'.moves = fs.moves + 1 /\ fs'.releases = fs.releases
  <2> DEFINE m == fs.moves + 1
  <2>1. fs' = [fs EXCEPT !.pointer = pointer, !.custody = custody, !.moves = m]
    BY DEF Rename, Write
  <2> HIDE DEF m
  <2>2. /\ fs'.pointer = pointer /\ fs'.custody = custody /\ fs'.lock = fs.lock
        /\ fs'.moves = m /\ fs'.releases = fs.releases
    BY <1>1, <2>1 DEF Roots
  <2> QED
    BY <2>2 DEF m
<1>3. past' = IF "power" \in Events THEN past \cup {fs} ELSE past
  BY DEF Rename, Write
<1>4. op'[p] = next
  BY DEF Rename
<1>5. ASSUME NEW q \in Procs \ {p}
      PROVE  /\ op'[q].pc = op[q].pc /\ Same(op[q], op'[q])
             /\ op'[q].fault = op[q].fault /\ op'[q].stat = op[q].stat
             /\ op'[q].disturbed =>
                  op[q].disturbed \/ op[q].pc \in {"second", "last"}
  <2> DEFINE d == op[q].disturbed \/ op[q].pc \in {"second", "last"}
  <2>1. op'[q] = [op[q] EXCEPT !.disturbed = d]
    BY <1>5 DEF Rename
  <2> HIDE DEF d
  <2>2. /\ op'[q].pc = op[q].pc /\ Same(op[q], op'[q])
        /\ op'[q].fault = op[q].fault /\ op'[q].stat = op[q].stat
        /\ op'[q].disturbed = d
    BY <1>1, <2>1 DEF Processes, Same
  <2>3. d => op[q].disturbed \/ op[q].pc \in {"second", "last"}
    BY Zenon DEF d
  <2> QED
    BY <2>2, <2>3
<1> QED
  BY <1>2, <1>3, <1>4, <1>5

LEMMA WriteLockStep ==
  ASSUME fs \in Roots, NEW lock, Write([fs EXCEPT !.lock = lock])
  PROVE  /\ fs'.lock = lock /\ fs'.pointer = fs.pointer /\ fs'.moves = fs.moves
         /\ fs'.custody = fs.custody /\ fs'.releases = fs.releases
         /\ past' = IF "power" \in Events THEN past \cup {fs} ELSE past
BY DEF Write, Roots

\* Every step of a process is one of these kinds: it goes on or fails at
\* another place with what it carries, ends, takes up a pointer, or renames.
LEMMA MoveNext ==
  ASSUME op \in [Procs -> Processes], NEW p \in Procs, NEW pc, NEW n,
         n = [op[p] EXCEPT !.pc = pc]
  PROVE  /\ n.pc = pc /\ Same(op[p], n) /\ n.fault = op[p].fault
         /\ n.stat = op[p].stat /\ n.disturbed = op[p].disturbed
<1>1. n.disturbed = op[p].disturbed
  BY Zenon DEF Processes
<1> QED
  BY <1>1 DEF Processes, Same

LEMMA CheckStep ==
  ASSUME op \in [Procs -> Processes], NEW p \in Procs, Check(p), Checks(p)
  PROVE  /\ Others(p) /\ op'[p].pc = "move" /\ op'[p].mine = NextPointer(p)
         /\ op'[p].action = op[p].action /\ op'[p].run = op[p].run
         /\ op'[p].seen = op[p].seen /\ op'[p].fault = op[p].fault
         /\ op'[p].path = IF Is(p, "deactivate") THEN op[p].run ELSE op[p].path
         /\ op'[p].stat = op[p].stat
<1> DEFINE mine == NextPointer(p)
           path == IF Is(p, "deactivate") THEN op[p].run ELSE op[p].path
<1>1. op' = [op EXCEPT ![p] = [op[p] EXCEPT !.pc = "move", !.mine = mine,
                                            !.path = path]]
  BY DEF Check
<1> HIDE DEF mine, path
<1>0. /\ Others(p)
      /\ op'[p] = [op[p] EXCEPT !.pc = "move", !.mine = mine, !.path = path]
  BY <1>1, OneStep
<1>2. /\ op'[p].pc = "move" /\ op'[p].mine = mine
      /\ op'[p].action = op[p].action /\ op'[p].run = op[p].run
      /\ op'[p].seen = op[p].seen /\ op'[p].fault = op[p].fault
      /\ op'[p].path = path /\ op'[p].stat = op[p].stat
  BY <1>0 DEF Processes
<1> QED
  BY <1>0, <1>2 DEF mine, path

\* What a run starts with.
LEMMA StartStep ==
  ASSUME Typed, NEW p \in Procs, Start(p)
  PROVE  /\ Others(p) /\ fs' = fs /\ past' = past /\ told' = told
         /\ runs' = runs + 1 /\ op[p].pc = "idle"
         /\ op'[p].pc \in {"look", "lock", "first"} /\ op'[p].run = runs + 1
         /\ op'[p].fault = "none" /\ op'[p].mine = None
         /\ op'[p].disturbed = FALSE
         /\ op'[p].action = "reactivate" =>
              /\ op'[p].seen \in Pointers /\ op'[p].seen.forged = FALSE
              /\ op'[p].path \in Runs /\ fs.custody[op'[p].path] # None
<1> DEFINE run == runs + 1
<1> HIDE DEF run
<1>0. fs \in Roots /\ op \in [Procs -> Processes]
  BY DEF Typed, TypeOK
<1>1. PICK o \in {Stage(run, c) : c \in Commits}
               \cup {Select(run, c) : c \in Commits}
               \cup {Deactivate(run) : q \in {fs.pointer} \ {None}}
               \cup {Reactivate(run, r) : r \in {r \in Runs : fs.custody[r] # None}}
               \cup {Readback(run)} : op' = [op EXCEPT ![p] = o]
  BY DEF Start, run
<1>2. /\ o.pc \in {"look", "lock", "first"} /\ o.run = run
      /\ o.fault = "none" /\ o.mine = None
      /\ o.action = "reactivate" =>
           /\ o.seen \in Pointers /\ o.seen.forged = FALSE
           /\ o.path \in Runs /\ fs.custody[o.path] # None
  <2>1. CASE o \in {Stage(run, c) : c \in Commits}
    BY <2>1 DEF Stage, Idle
  <2>2. CASE o \in {Select(run, c) : c \in Commits}
    BY <2>2 DEF Select, Idle
  <2>3. CASE o \in {Deactivate(run) : q \in {fs.pointer} \ {None}} \cup {Readback(run)}
    BY <2>3 DEF Deactivate, Readback, Idle
  <2>4. CASE o \in {Reactivate(run, r) : r \in {r \in Runs : fs.custody[r] # None}}
    <3>1. PICK r \in Runs : fs.custody[r] # None /\ o = Reactivate(run, r)
      BY <2>4
    <3> DEFINE seen == [fs.custody[r] EXCEPT !.forged = FALSE]
    <3>2. seen \in Pointers /\ seen.forged = FALSE
      BY <1>0, <3>1 DEF Roots, Pointers
    <3> HIDE DEF seen
    <3>3. o = [Idle EXCEPT !.pc = "lock", !.run = run, !.path = r,
                           !.action = "reactivate", !.seen = seen]
      BY <3>1 DEF Reactivate, seen
    <3>4. /\ o.pc = "lock" /\ o.run = run /\ o.fault = "none" /\ o.mine = None
          /\ o.seen = seen /\ o.path = r
      BY <3>3, Zenon DEF Idle
    <3> QED
      BY <3>1, <3>2, <3>4
  <2> QED
    BY <1>1, <2>1, <2>2, <2>3, <2>4
<1>3. o.disturbed = FALSE
  BY <1>1, Zenon DEF Stage, Select, Deactivate, Reactivate, Readback, Idle
<1>4. op'[p] = o /\ Others(p)
  BY <1>0, <1>1, OneStep
<1> QED
  BY <1>2, <1>3, <1>4 DEF Start, At, run

------------------------------------------------------------------------------
\* Readbacks.  One that still looks was not disturbed, or the change time it
\* noted is older than the one it will find.
Unmoved(o, moves) ==
    /\ o.pc \in {"first", "stat", "verified"} => ~o.disturbed
    /\ o.pc \in {"second", "last"} =>
         /\ o.stat <= moves
         /\ o.disturbed => o.stat < moves

Watched == \A p \in Procs : Unmoved(op[p], fs.moves)

LEMMA WatchedStep ==
  ASSUME Watched, NEW p \in Procs, Others(p), fs'.moves = fs.moves,
         op'[p].pc \notin Reading \/ Unmoved(op'[p], fs.moves)
  PROVE  Watched'
BY DEF Watched, Others, Unmoved, Reading

LEMMA StartWatched ==
  ASSUME Typed, Watched, NEW p \in Procs, Start(p) PROVE Watched'
<1>1. Unmoved(op'[p], fs.moves)
  BY StartStep DEF Unmoved
<1> QED
  BY <1>1, StartStep, WatchedStep

LEMMA ReadWatched ==
  ASSUME Typed, Watched, NEW p \in Procs,
         First(p) \/ Stat(p) \/ Second(p) \/ Last(p) \/ Report(p)
  PROVE  Watched'
<1>1. /\ op \in [Procs -> Processes] /\ op[p] \in Processes
      /\ fs.moves \in Nat /\ fs' = fs
  BY DEF Typed, TypeOK, First, Stat, Second, Last, Report, Roots
<1>2. Unmoved(op[p], fs.moves)
  BY DEF Watched
<1>3. CASE End(p)
  BY <1>1, <1>3, EndStep, WatchedStep DEF Idle, Reading
<1>4. CASE First(p) /\ ~End(p)
  <2>1. op' = [op EXCEPT ![p] = [op[p] EXCEPT !.pc = "stat", !.seen = fs.pointer]]
    BY <1>4 DEF First
  <2>2. op'[p] = [op[p] EXCEPT !.pc = "stat", !.seen = fs.pointer] /\ Others(p)
    BY <1>1, <2>1, OneStep
  <2>3. op'[p].disturbed = op[p].disturbed
    BY <1>1, <2>2, Zenon DEF Processes
  <2>4. op'[p].pc = "stat" /\ op[p].pc = "first"
    BY <1>1, <1>4, <2>2 DEF First, At, Processes
  <2> QED
    BY <1>1, <1>2, <2>2, <2>3, <2>4, WatchedStep DEF Unmoved
<1>5. CASE Stat(p) /\ ~End(p)
  <2> DEFINE m == fs.moves
  <2>1. op' = [op EXCEPT ![p] = [op[p] EXCEPT !.pc = "second",
                                   !.mine = fs.pointer, !.stat = m]]
    BY <1>5 DEF Stat
  <2>2. /\ op'[p] = [op[p] EXCEPT !.pc = "second", !.mine = fs.pointer, !.stat = m]
        /\ Others(p)
    BY <1>1, <2>1, OneStep
  <2>3. op'[p].disturbed = op[p].disturbed
    BY <1>1, <2>2, ZenonT(30) DEF Processes
  <2>4. op'[p].pc = "second" /\ op[p].pc = "stat" /\ op'[p].stat = m
    BY <1>1, <1>5, <2>2 DEF Stat, At, Processes
  <2>5. Unmoved(op'[p], m)
    BY <1>1, <1>2, <2>3, <2>4 DEF Unmoved
  <2> QED
    BY <1>1, <2>2, <2>5, WatchedStep
<1>6. CASE (Second(p) \/ Last(p)) /\ ~End(p)
  <2>1. PICK pc : /\ Goto(p, pc)
                  /\ \/ pc = "last" /\ op[p].pc = "second"
                     \/ pc = "verified" /\ op[p].pc = "last"
                        /\ fs.moves = op[p].stat
    BY <1>6 DEF Second, Last, At, SameFile
  <2>2. Unmoved(op'[p], fs.moves)
    BY <1>1, <1>2, <2>1, GotoStep DEF Unmoved
  <2> QED
    BY <1>1, <2>1, <2>2, GotoStep, WatchedStep
<1> QED
  BY <1>3, <1>4, <1>5, <1>6 DEF Report

\* Whoever renames current.json moves its change time on.
LEMMA RenameWatched ==
  ASSUME Typed, Watched, NEW p \in Procs, NEW pointer, NEW custody, NEW next,
         Rename(p, pointer, custody, next), next.pc \notin Reading
  PROVE  Watched'
<1>1. /\ op'[p] = next /\ fs'.moves = fs.moves + 1
      /\ \A q \in Procs \ {p} :
           /\ op'[q].pc = op[q].pc /\ op'[q].stat = op[q].stat
           /\ op'[q].disturbed => op[q].disturbed \/ op[q].pc \in {"second", "last"}
  BY RenameStep
<1>2. fs.moves \in Nat /\ \A q \in Procs : op[q].stat \in Nat
  BY DEF Typed, TypeOK, Roots, Processes
<1>3. Unmoved(op'[p], fs'.moves)
  BY <1>1 DEF Unmoved, Reading
<1>4. ASSUME NEW q \in Procs \ {p} PROVE Unmoved(op'[q], fs'.moves)
  <2>1. Unmoved(op[q], fs.moves)
    BY DEF Watched
  <2> QED
    BY <1>1, <1>2, <2>1 DEF Unmoved
<1> QED
  BY <1>3, <1>4 DEF Watched

LEMMA MoveWatched ==
  ASSUME Typed, Watched, NEW p \in Procs, Move(p) \/ Restore(p)
  PROVE  Watched'
<1>1. op \in [Procs -> Processes] /\ op[p] \in Processes
  BY DEF Typed, TypeOK
<1>2. \/ \E pointer, custody, next :
           /\ Rename(p, pointer, custody, next)
           /\ \/ next = [op[p] EXCEPT !.pc = "sync"]
              \/ next = [op[p] EXCEPT !.pc = "resync"]
              \/ next = [op[p] EXCEPT !.pc = "unlock", !.fault = "recovery"]
      \/ /\ Fail(p, "unlock", "recovery") \/ Goto(p, "resync")
         /\ fs' = fs
  BY Zenon DEF Move, Restore
<1>3. CASE /\ Fail(p, "unlock", "recovery") \/ Goto(p, "resync")
           /\ fs' = fs
  BY <1>1, <1>3, GotoStep, FailStep, WatchedStep DEF Reading
<1>4. ASSUME NEW pointer, NEW custody, NEW next,
             Rename(p, pointer, custody, next),
             \/ next = [op[p] EXCEPT !.pc = "sync"]
             \/ next = [op[p] EXCEPT !.pc = "resync"]
             \/ next = [op[p] EXCEPT !.pc = "unlock", !.fault = "recovery"]
      PROVE  Watched'
  <2>1. next.pc \notin Reading
    BY <1>1, <1>4 DEF Processes, Reading
  <2> QED
    BY <1>4, <2>1, RenameWatched
<1> QED
  BY <1>2, <1>3, <1>4

LEMMA OtherWatched ==
  ASSUME Typed, Watched, NEW p \in Procs,
         \/ Look(p) \/ Lock(p) \/ LockHeld(p) \/ Build(p) \/ Publish(p)
         \/ Check(p) \/ MoveFails(p) \/ Sync(p) \/ Verify(p) \/ Resync(p)
         \/ Unlock(p) \/ Finish(p) \/ CleanUp(p) \/ Crash(p)
  PROVE  Watched'
<1>1. op \in [Procs -> Processes] /\ op[p] \in Processes /\ fs \in Roots
  BY DEF Typed, TypeOK
<1>2. fs'.moves = fs.moves
  BY <1>1 DEF Look, Lock, LockHeld, Build, Publish, Check, MoveFails, Sync, Fsync,
     Verify, Resync, Unlock, Finish, CleanUp, Crash, Write, Roots
<1>3. AfterFault(p) \notin Reading
  BY DEF AfterFault, Reading
<1>4. CASE Check(p) /\ Checks(p)
  BY <1>1, <1>2, <1>4, CheckStep, WatchedStep DEF Reading
<1>5. CASE ~(Check(p) /\ Checks(p))
  <2>1. \/ End(p)
        \/ \E pc : pc \notin Reading /\ (Goto(p, pc) \/ \E f : Fail(p, pc, f))
    BY <1>3, <1>5, Zenon DEF Look, Lock, LockHeld, Build, Publish, Check, MoveFails, Sync,
       Verify, Resync, Unlock, Finish, CleanUp, Crash, Reading
  <2>2. CASE End(p)
    BY <1>1, <1>2, <2>2, EndStep, WatchedStep DEF Idle, Reading
  <2>3. ASSUME NEW pc, pc \notin Reading, Goto(p, pc) \/ \E f : Fail(p, pc, f)
        PROVE  Watched'
    BY <1>1, <1>2, <2>3, GotoStep, FailStep, WatchedStep
  <2> QED
    BY <2>1, <2>2, <2>3
<1> QED
  BY <1>4, <1>5

LEMMA WatchedNext == Typed /\ Watched /\ [Next]_vars => Watched'
<1> SUFFICES ASSUME Typed, Watched, [Next]_vars PROVE Watched'
  OBVIOUS
<1>1. ASSUME NEW p \in Procs, Start(p) \/ Advance(p) \/ Crash(p) PROVE Watched'
  BY <1>1, StartWatched, ReadWatched, MoveWatched, OtherWatched DEF Advance
<1>2. CASE \/ \E c \in Commits : Drift(c)
           \/ \E r \in Runs : Tamper(r)
           \/ Recover
           \/ UNCHANGED vars
  <2>1. fs'.moves = fs.moves /\ op' = op
    BY <1>2 DEF Typed, TypeOK, Roots, Drift, Tamper, Recover, Write, vars
  <2> QED
    BY <2>1 DEF Watched
<1>3. CASE PowerLoss
  <2>1. \A p \in Procs : op'[p] = Idle
    BY <1>3 DEF PowerLoss
  <2>2. Idle.pc = "idle"
    BY DEF Idle
  <2> QED
    BY <2>1, <2>2 DEF Watched, Unmoved
<1> QED
  BY <1>1, <1>2, <1>3 DEF Next

(***************************************************************************)
(* A readback that reports a verified selector saw one pointer file from   *)
(* its first look to its last: between two moves of current.json the       *)
(* change time never stays the same (readbackRuntimeGeneration).           *)
(***************************************************************************)
THEOREM ReadbackSawOneFile == Spec => []ReadbackIsStable
<1>1. Init => Typed /\ Watched
  <2>1. Idle.pc = "idle"
    BY DEF Idle
  <2> QED
    BY <2>1, InitType DEF Init, Watched, Unmoved
<1>2. Typed /\ Watched /\ [Next]_vars => (Typed /\ Watched)'
  BY TypeStep, WatchedNext
<1>3. Typed /\ Watched => ReadbackIsStable
  BY DEF Watched, Unmoved, ReadbackIsStable, At
<1> QED
  BY <1>1, <1>2, <1>3, PTL DEF Spec

------------------------------------------------------------------------------
\* Forged files.  Only a reactivate between its rename and the check behind it
\* may have one active, and then its place in custody is still free.
Genuine(x) == x # None => x.forged = FALSE
Returning(o) ==
    o.action = "reactivate" /\ o.pc \in {"sync", "verify", "restore"}

Guards(o, root) ==
    /\ o.action = "reactivate" /\ o.pc \in {"lock", "check"} => Genuine(o.seen)
    /\ o.pc \in {"look", "lock"} => o.mine = None
    /\ o.pc \in Critical =>
         /\ Genuine(o.mine)
         /\ Returning(o) => root.custody[o.path] = None
         /\ ~Returning(o) => Genuine(root.pointer)

Guarded ==
    /\ \A root \in past \cup {fs} : root.lock = 0 => Genuine(root.pointer)
    /\ \A p \in Procs : Guards(op[p], fs)

\* The other processes as far as the guards look at them.
Alike(p) == \A q \in Procs \ {p} : op'[q].pc = op[q].pc /\ Same(op[q], op'[q])

\* A run inside the critical section is alone there and holds the lock file.
LEMMA OnlyOne ==
  ASSUME Typed, Excluded, NEW p \in Procs, op[p].pc \in Critical
  PROVE  /\ fs.lock = op[p].run /\ fs.lock # 0
         /\ \A q \in Procs \ {p} : op[q].pc \notin Critical
<1>1. op[p].run \in Runs
  BY DEF Typed, TypeOK, Equipped, Critical
<1> QED
  BY <1>1 DEF Excluded, Numbered, Holding, At, Critical, Runs

LEMMA OthersAlike == ASSUME NEW p \in Procs, Others(p) PROVE Alike(p)
BY DEF Others, Alike, Same

LEMMA GuardedStep ==
  ASSUME Guarded, NEW p \in Procs, Alike(p), Guards(op'[p], fs'),
         past' \subseteq past \cup {fs}, fs'.lock = 0 => Genuine(fs'.pointer),
         \/ fs'.pointer = fs.pointer /\ fs'.custody = fs.custody
         \/ \A q \in Procs \ {p} : op[q].pc \notin Critical
  PROVE  Guarded'
<1>1. ASSUME NEW q \in Procs \ {p} PROVE Guards(op'[q], fs')
  <2>1. Guards(op[q], fs) /\ op'[q].pc = op[q].pc /\ Same(op[q], op'[q])
    BY DEF Guarded, Alike
  <2> QED
    BY <2>1 DEF Guards, Returning, Same
<1> QED
  BY <1>1 DEF Guarded

\* A step that only takes the process on.
LEMMA GuardedFlow ==
  ASSUME Guarded, op \in [Procs -> Processes], NEW p \in Procs,
         past' \subseteq past \cup {fs},
         fs'.pointer = fs.pointer, fs'.custody = fs.custody,
         fs'.lock = 0 => Genuine(fs.pointer),
         NEW pc, Goto(p, pc) \/ \E fault : Fail(p, pc, fault),
         pc = "lock" => op[p].pc = "look" /\ Is(p, "stage"),
         pc \notin {"look", "check"},
         pc \in Critical => op[p].pc \in Critical,
         Is(p, "reactivate") /\ pc \in {"sync", "verify", "restore"} =>
             Returning(op[p]),
         Returning(op[p]) /\ pc \in Critical \ {"sync", "verify", "restore"} =>
             Genuine(fs.pointer)
  PROVE  Guarded'
<1>1. op'[p].pc = pc /\ Same(op[p], op'[p]) /\ Alike(p)
  BY GotoStep, FailStep, OthersAlike
<1>2. Guards(op[p], fs)
  BY DEF Guarded
<1>3. Guards(op'[p], fs')
  BY <1>1, <1>2 DEF Guards, Returning, Same, Is
<1> QED
  BY <1>1, <1>3, GuardedStep

LEMMA GuardedEnd ==
  ASSUME Guarded, op \in [Procs -> Processes], NEW p \in Procs, End(p),
         past' \subseteq past \cup {fs},
         fs'.pointer = fs.pointer, fs'.custody = fs.custody,
         fs'.lock = 0 => Genuine(fs.pointer)
  PROVE  Guarded'
<1>1. op'[p] = Idle /\ Alike(p)
  BY EndStep, OthersAlike
<1>2. Guards(Idle, fs')
  BY DEF Guards, Idle, Critical
<1> QED
  BY <1>1, <1>2, GuardedStep

LEMMA StartGuarded ==
  ASSUME Typed, Guarded, NEW p \in Procs, Start(p) PROVE Guarded'
<1>1. Guards(op'[p], fs)
  BY StartStep DEF Guards, Genuine, Critical
<1> QED
  BY <1>1, StartStep, OthersAlike, GuardedStep DEF Guarded

LEMMA LockGuarded ==
  ASSUME Typed, Guarded, NEW p \in Procs,
         Lock(p) \/ Unlock(p) \/ CleanUp(p)
  PROVE  Guarded'
<1>1. /\ op \in [Procs -> Processes] /\ op[p] \in Processes
      /\ fs \in Roots /\ Guards(op[p], fs)
  BY DEF Typed, TypeOK, Guarded
<1>2. CASE Lock(p)
  <2>1. PICK pc \in {"build", "check"} : Goto(p, pc)
    BY <1>2 DEF Lock
  <2>2. /\ fs'.pointer = fs.pointer /\ fs'.custody = fs.custody
        /\ past' \subseteq past \cup {fs} /\ Genuine(fs.pointer)
    BY <1>1, <1>2, WriteLockStep DEF Lock, Guarded
  <2>3. op'[p].pc = pc /\ Same(op[p], op'[p]) /\ Alike(p)
        /\ op[p].mine = None /\ op[p].pc = "lock"
    BY <1>1, <1>2, <2>1, GotoStep, OthersAlike DEF Lock, At, Guards
  <2>4. Guards(op'[p], fs')
    BY <1>1, <2>1, <2>2, <2>3 DEF Guards, Genuine, Returning, Same
  <2> QED
    BY <2>2, <2>3, <2>4, GuardedStep
<1>3. CASE Unlock(p) \/ CleanUp(p)
  <2>1. Genuine(fs.pointer)
    BY <1>1, <1>3 DEF Guards, Returning, Unlock, CleanUp, At, Critical
  <2>2. /\ fs'.pointer = fs.pointer /\ fs'.custody = fs.custody
        /\ past' \subseteq past \cup {fs}
    BY <1>1, <1>3, WriteLockStep DEF Unlock, CleanUp
  <2>3. End(p) \/ Goto(p, "finish")
    BY <1>3 DEF Unlock, CleanUp
  <2> QED
    BY <1>1, <2>1, <2>2, <2>3, GuardedFlow, GuardedEnd DEF Critical
<1> QED
  BY <1>2, <1>3

LEMMA FlowGuarded ==
  ASSUME Typed, Guarded, NEW p \in Procs,
         \/ Look(p) \/ LockHeld(p) \/ Build(p) \/ MoveFails(p) \/ Sync(p)
         \/ Resync(p) \/ Finish(p) \/ Crash(p)
         \/ Second(p) \/ Last(p) \/ Report(p)
  PROVE  Guarded'
<1>1. /\ op \in [Procs -> Processes] /\ op[p] \in Processes
      /\ fs \in Roots /\ Guards(op[p], fs) /\ Equipped(op[p])
  BY DEF Typed, TypeOK, Guarded
<1>2. /\ fs' = fs /\ past' \subseteq past \cup {fs}
      /\ fs'.lock = 0 => Genuine(fs.pointer)
  BY DEF Look, LockHeld, Build, MoveFails, Sync, Resync, Finish, Crash, Fsync,
     Second, Last, Report, Guarded
<1>3. CASE End(p)
  BY <1>1, <1>2, <1>3, GuardedEnd
<1>4. CASE (Look(p) \/ Second(p) \/ Last(p)) /\ ~End(p)
  <2>1. PICK pc : /\ Goto(p, pc) /\ pc \in {"lock", "last", "verified"}
                  /\ pc = "lock" => op[p].pc = "look" /\ Is(p, "stage")
    BY <1>1, <1>4 DEF Look, Second, Last, At, Is, Equipped
  <2> QED
    BY <1>1, <1>2, <2>1, GuardedFlow DEF Critical
<1>5. CASE Build(p) \/ MoveFails(p)
  <2>1. PICK pc \in {"publish", "unlock"} :
          Goto(p, pc) \/ \E fault : Fail(p, pc, fault)
    BY <1>5, Zenon DEF Build, MoveFails
  <2>2. op[p].pc \in Critical /\ ~Returning(op[p])
    BY <1>5 DEF Build, MoveFails, At, Critical, Returning
  <2> QED
    BY <1>1, <1>2, <2>1, <2>2, GuardedFlow DEF Critical
<1>6. CASE Sync(p)
  <2>1. PICK pc \in {"verify", AfterFault(p)} :
          Goto(p, pc) \/ \E fault : Fail(p, pc, fault)
    BY <1>6, Zenon DEF Sync
  <2>2. op[p].pc = "sync"
    BY <1>6 DEF Sync, At
  <2>3. /\ pc \in {"verify", "restore", "unlock"}
        /\ Is(p, "reactivate") => pc \in {"verify", "restore"}
    BY <2>1 DEF AfterFault, Is
  <2> QED
    BY <1>1, <1>2, <2>1, <2>2, <2>3, GuardedFlow DEF Critical, Returning, Is
<1>7. CASE Resync(p)
  <2>1. \E fault : Fail(p, "unlock", fault)
    BY <1>7, Zenon DEF Resync
  <2>2. op[p].pc = "resync"
    BY <1>7 DEF Resync, At
  <2> QED
    BY <1>1, <1>2, <2>1, <2>2, GuardedFlow DEF Critical, Returning
<1> QED
  BY <1>3, <1>4, <1>5, <1>6, <1>7 DEF LockHeld, Finish, Crash, Report

LEMMA PublishGuarded ==
  ASSUME Typed, Guarded, NEW p \in Procs, Publish(p) PROVE Guarded'
<1>1. /\ op \in [Procs -> Processes] /\ fs \in Roots
      /\ op[p].pc = "publish" /\ op[p].action = "stage"
  BY DEF Typed, TypeOK, Publish, At, Equipped
<1>2. /\ fs'.pointer = fs.pointer /\ fs'.custody = fs.custody
      /\ fs'.lock = fs.lock /\ past' \subseteq past \cup {fs}
  BY <1>1 DEF Publish, Write, Roots
<1>3. PICK pc \in {"sync", "unlock"} : Goto(p, pc) \/ \E fault : Fail(p, pc, fault)
  BY Zenon DEF Publish
<1>4. fs'.lock = 0 => Genuine(fs.pointer)
  BY <1>2 DEF Guarded
<1> QED
  BY <1>1, <1>2, <1>3, <1>4, GuardedFlow DEF Critical, Returning, Is

LEMMA CheckGuarded ==
  ASSUME Typed, Guarded, NEW p \in Procs, Check(p) PROVE Guarded'
<1>1. /\ op \in [Procs -> Processes] /\ op[p] \in Processes /\ fs \in Roots
      /\ op[p].pc = "check" /\ op[p].pc \in Critical
      /\ Guards(op[p], fs) /\ ~Returning(op[p])
      /\ op[p].action \notin {"stage", "readback"}
  BY DEF Typed, TypeOK, Check, At, Guarded, Critical, Returning, Equipped
<1>2. Genuine(fs.pointer) /\ fs' = fs /\ past' = past
  BY <1>1 DEF Guards, Check
<1>3. CASE ~Checks(p)
  <2>1. Fail(p, "unlock", "failed")
    BY <1>3 DEF Check
  <2> QED
    BY <1>1, <1>2, <2>1, GuardedFlow DEF Critical
<1>4. CASE Checks(p)
  <2>1. Genuine(NextPointer(p))
    <3>1. CASE Is(p, "select")
      <4> DEFINE previous == IF fs.pointer = None THEN None ELSE fs.pointer.current
                 forged == FALSE
      <4>1. NextPointer(p) = [ current |-> op[p].commit, at |-> op[p].run,
                               forged |-> forged, previous |-> previous ]
        BY <3>1 DEF NextPointer
      <4> HIDE DEF previous, forged
      <4>2. NextPointer(p).forged = forged
        BY <4>1
      <4> QED
        BY <4>2 DEF Genuine, forged
    <3>2. CASE Is(p, "deactivate")
      <4>1. NextPointer(p) = fs.pointer
        BY <1>4, <3>2 DEF NextPointer, Checks, Is
      <4> QED
        BY <1>2, <4>1
    <3>3. CASE Is(p, "reactivate")
      <4>1. NextPointer(p) = op[p].seen
        BY <3>3 DEF NextPointer, Is
      <4> QED
        BY <1>1, <3>3, <4>1 DEF Guards, Is
    <3> QED
      BY <1>1, <3>1, <3>2, <3>3 DEF Processes, Is
  <2>2. Guards(op'[p], fs')
    BY <1>1, <1>2, <1>4, <2>1, CheckStep DEF Guards, Returning
  <2> QED
    BY <1>1, <1>2, <1>4, <2>2, CheckStep, OthersAlike, GuardedStep DEF Guarded
<1> QED
  BY <1>3, <1>4

LEMMA VerifyGuarded ==
  ASSUME Typed, Guarded, NEW p \in Procs, Verify(p) PROVE Guarded'
<1>1. /\ op \in [Procs -> Processes] /\ op[p] \in Processes /\ fs \in Roots
      /\ op[p].pc = "verify" /\ op[p].pc \in Critical /\ Guards(op[p], fs)
      /\ fs' = fs /\ past' = past /\ (fs'.lock = 0 => Genuine(fs.pointer))
  BY DEF Typed, TypeOK, Verify, At, Guarded, Critical
<1>2. CASE Verifies(p)
  <2>1. Returning(op[p]) => Genuine(fs.pointer)
    <3> SUFFICES ASSUME Returning(op[p]) PROVE Genuine(fs.pointer)
      OBVIOUS
    <3>1. fs.pointer = op[p].mine
      BY <1>2 DEF Returning, Verifies, Is
    <3> QED
      BY <1>1, <3>1 DEF Guards
  <2>2. Goto(p, "unlock")
    BY <1>2 DEF Verify
  <2> QED
    BY <1>1, <2>1, <2>2, GuardedFlow DEF Critical
<1>3. CASE ~Verifies(p)
  <2>1. Fail(p, AfterFault(p), "failed")
    BY <1>3 DEF Verify
  <2>2. /\ AfterFault(p) \in {"restore", "unlock"}
        /\ Is(p, "reactivate") => AfterFault(p) = "restore"
    BY DEF AfterFault, Is
  <2> QED
    BY <1>1, <2>1, <2>2, GuardedFlow DEF Critical, Returning, Is
<1> QED
  BY <1>2, <1>3

LEMMA RenameGuarded ==
  ASSUME Typed, Excluded, Guarded, NEW p \in Procs, NEW pointer, NEW custody,
         NEW next, Rename(p, pointer, custody, next), op[p].pc \in Critical,
         Same(op[p], next), next.pc \in {"sync", "resync", "unlock"},
         Returning(next) => custody[op[p].path] = None,
         ~Returning(next) => Genuine(pointer)
  PROVE  Guarded'
<1>1. /\ op'[p] = next /\ Alike(p) /\ past' \subseteq past \cup {fs}
      /\ fs'.pointer = pointer /\ fs'.custody = custody /\ fs'.lock = fs.lock
  BY RenameStep DEF Alike
<1>2. \A q \in Procs \ {p} : op[q].pc \notin Critical
  BY OnlyOne
<1>3. fs.lock # 0
  BY OnlyOne
<1>4. Guards(op[p], fs)
  BY DEF Guarded
<1>5. Guards(next, fs')
  BY <1>1, <1>4 DEF Guards, Same
<1> QED
  BY <1>1, <1>2, <1>3, <1>5, GuardedStep

LEMMA MoveGuarded ==
  ASSUME Typed, Excluded, Guarded, NEW p \in Procs, Move(p) PROVE Guarded'
<1> DEFINE path == op[p].path
           next == [op[p] EXCEPT !.pc = "sync"]
           filled == [fs.custody EXCEPT ![path] = fs.pointer]
           emptied == [fs.custody EXCEPT ![path] = None]
<1>1. /\ op \in [Procs -> Processes] /\ op[p] \in Processes
      /\ fs.custody \in [Runs -> Pointers \cup {None}] /\ op[p].pc = "move"
      /\ Equipped(op[p]) /\ Guards(op[p], fs)
  BY DEF Typed, TypeOK, Roots, Move, At, Guarded
<1>2. next.pc = "sync" /\ Same(op[p], next)
  BY <1>1, MoveNext
<1>3. Is(p, "reactivate") => emptied[path] = None
  BY <1>1 DEF Equipped, Is
<1>4. Genuine(op[p].mine) /\ Genuine(None) /\ op[p].pc \in Critical
  BY <1>1 DEF Guards, Genuine, Critical
<1>5. Returning(next) <=> Is(p, "reactivate")
  BY <1>2 DEF Returning, Same, Is
<1>6. \/ Is(p, "select") /\ Rename(p, op[p].mine, fs.custody, next)
      \/ Is(p, "deactivate") /\ Rename(p, None, filled, next)
      \/ Is(p, "reactivate") /\ Rename(p, fs.custody[path], emptied, next)
  BY DEF Move
<1> HIDE DEF next, filled, emptied
<1>7. CASE Is(p, "select") /\ Rename(p, op[p].mine, fs.custody, next)
  BY <1>2, <1>4, <1>5, <1>7, RenameGuarded DEF Is
<1>8. CASE Is(p, "deactivate") /\ Rename(p, None, filled, next)
  BY <1>2, <1>4, <1>5, <1>8, RenameGuarded DEF Is
<1>9. CASE Is(p, "reactivate") /\ Rename(p, fs.custody[path], emptied, next)
  BY <1>2, <1>3, <1>4, <1>5, <1>9, RenameGuarded
<1> QED
  BY <1>6, <1>7, <1>8, <1>9

LEMMA RestoreGuarded ==
  ASSUME Typed, Excluded, Guarded, NEW p \in Procs, Restore(p) PROVE Guarded'
<1> DEFINE path == op[p].path
           back == [op[p] EXCEPT !.pc = "resync"]
           lost == [op[p] EXCEPT !.pc = "unlock", !.fault = "recovery"]
           filled == [fs.custody EXCEPT ![path] = fs.pointer]
           emptied == [fs.custody EXCEPT ![path] = None]
<1>1. /\ op \in [Procs -> Processes] /\ op[p] \in Processes
      /\ op[p].pc = "restore" /\ op[p].pc \in Critical /\ Guards(op[p], fs)
      /\ (fs.lock = 0 => Genuine(fs.pointer))
  BY DEF Typed, TypeOK, Restore, At, Guarded, Critical
<1>2. /\ back.pc = "resync" /\ Same(op[p], back)
      /\ lost.pc = "unlock" /\ Same(op[p], lost)
  BY <1>1 DEF Processes, Same
<1>3. ~Returning(back) /\ ~Returning(lost)
  BY <1>2 DEF Returning
<1>4. Genuine(op[p].mine) /\ Genuine(None)
  BY <1>1 DEF Guards, Genuine
<1>5. \/ Rename(p, op[p].mine, emptied, back)
      \/ Rename(p, None, filled, back)
      \/ Rename(p, None, fs.custody, lost)
      \/ /\ \/ Fail(p, "unlock", "recovery") /\ Is(p, "deactivate")
            \/ Goto(p, "resync") /\ ~Misplaced(p)
         /\ UNCHANGED <<fs, past>>
  BY DEF Restore
<1> HIDE DEF back, lost, filled, emptied
<1>6. CASE \/ Rename(p, op[p].mine, emptied, back)
           \/ Rename(p, None, filled, back)
           \/ Rename(p, None, fs.custody, lost)
  BY <1>1, <1>2, <1>3, <1>4, <1>6, RenameGuarded
<1>7. CASE /\ Fail(p, "unlock", "recovery") /\ Is(p, "deactivate")
           /\ UNCHANGED <<fs, past>>
  BY <1>1, <1>7, GuardedFlow DEF Critical, Returning, Is
<1>8. CASE Goto(p, "resync") /\ ~Misplaced(p) /\ UNCHANGED <<fs, past>>
  <2>1. Returning(op[p]) => Genuine(fs.pointer)
    <3> SUFFICES ASSUME Returning(op[p]) PROVE Genuine(fs.pointer)
      OBVIOUS
    <3>1. fs.custody[path] = None
      BY <1>1 DEF Guards
    <3>2. fs.pointer = None
      BY <1>8, <3>1 DEF Misplaced, Returning, Is
    <3> QED
      BY <3>2 DEF Genuine
  <2> QED
    BY <1>1, <1>8, <2>1, GuardedFlow DEF Critical
<1> QED
  BY <1>5, <1>6, <1>7, <1>8

LEMMA ReadGuarded ==
  ASSUME Typed, Guarded, NEW p \in Procs, First(p) \/ Stat(p) PROVE Guarded'
<1>1. /\ op \in [Procs -> Processes] /\ op[p] \in Processes /\ fs' = fs
      /\ past' = past /\ (fs'.lock = 0 => Genuine(fs.pointer))
  BY DEF Typed, TypeOK, First, Stat, Guarded
<1>2. CASE End(p)
  BY <1>1, <1>2, GuardedEnd
<1>3. CASE ~End(p)
  <2> DEFINE m == fs.moves
  <2>1. PICK o : /\ op' = [op EXCEPT ![p] = o]
                 /\ \/ o = [op[p] EXCEPT !.pc = "stat", !.seen = fs.pointer]
                    \/ o = [op[p] EXCEPT !.pc = "second", !.mine = fs.pointer,
                                         !.stat = m]
    BY <1>3, ZenonT(60) DEF First, Stat
  <2>2. o.pc \in {"stat", "second"}
    BY <1>1, <2>1 DEF Processes
  <2>3. op'[p] = o /\ Alike(p)
    BY <1>1, <2>1, OneStep, OthersAlike
  <2>4. Guards(o, fs')
    BY <2>2 DEF Guards, Critical
  <2> QED
    BY <1>1, <2>3, <2>4, GuardedStep
<1> QED
  BY <1>2, <1>3

LEMMA WorldGuarded ==
  ASSUME Typed, Guarded,
         \/ \E c \in Commits : Drift(c)
         \/ \E r \in Runs : Tamper(r)
         \/ PowerLoss
  PROVE  Guarded'
<1>1. /\ fs \in Roots /\ op \in [Procs -> Processes]
      /\ (fs.lock = 0 => Genuine(fs.pointer))
      /\ \A p \in Procs : Guards(op[p], fs) /\ Equipped(op[p])
  BY DEF Typed, TypeOK, Guarded
<1>2. ASSUME NEW c \in Commits, Drift(c) PROVE Guarded'
  <2>1. /\ fs'.pointer = fs.pointer /\ fs'.custody = fs.custody
        /\ fs'.lock = fs.lock /\ op' = op /\ past' = past
    BY <1>1, <1>2 DEF Drift, Roots
  <2> QED
    BY <1>1, <2>1 DEF Guarded, Guards
<1>3. ASSUME NEW r \in Runs, Tamper(r) PROVE Guarded'
  <2> DEFINE forged == [fs.custody[r] EXCEPT !.forged = TRUE]
             custody == [fs.custody EXCEPT ![r] = forged]
  <2>1. fs' = [fs EXCEPT !.custody = custody] /\ fs.custody[r] # None
        /\ op' = op /\ past' = past
    BY <1>3 DEF Tamper
  <2> HIDE DEF forged
  <2>2. \A q \in Runs : fs.custody[q] = None => custody[q] = None
    BY <1>1, <2>1 DEF Roots
  <2> HIDE DEF custody
  <2>3. /\ fs'.pointer = fs.pointer /\ fs'.custody = custody /\ fs'.lock = fs.lock
    BY <1>1, <2>1 DEF Roots
  <2>4. ASSUME NEW p \in Procs PROVE Guards(op'[p], fs')
    <3>1. Returning(op[p]) => op[p].path \in Runs
      BY <1>1 DEF Returning, Equipped
    <3> QED
      BY <1>1, <2>1, <2>2, <2>3, <3>1 DEF Guards
  <2> QED
    BY <1>1, <2>1, <2>3, <2>4 DEF Guarded
<1>4. CASE PowerLoss
  <2>1. Guards(Idle, fs')
    BY DEF Guards, Idle, Critical
  <2>2. /\ \A p \in Procs : op'[p] = Idle
        /\ past' = {} /\ fs' \in past \cup {fs}
    BY <1>4 DEF PowerLoss
  <2> QED
    BY <2>1, <2>2 DEF Guarded
<1> QED
  BY <1>2, <1>3, <1>4

LEMMA GuardedNext ==
  ASSUME "recover" \notin Events, Typed, Excluded, Guarded, [Next]_vars
  PROVE  Guarded'
<1>1. ASSUME NEW p \in Procs, Start(p) \/ Advance(p) \/ Crash(p) PROVE Guarded'
  <2>1. CASE Start(p) \/ Crash(p)
    BY <2>1, StartGuarded, FlowGuarded
  <2>2. CASE Lock(p) \/ Unlock(p) \/ CleanUp(p)
    BY <2>2, LockGuarded
  <2>3. CASE \/ Look(p) \/ LockHeld(p) \/ Build(p) \/ MoveFails(p) \/ Sync(p)
             \/ Resync(p) \/ Finish(p) \/ Second(p) \/ Last(p) \/ Report(p)
    BY <2>3, FlowGuarded
  <2>4. CASE Publish(p) \/ Check(p) \/ Verify(p)
    BY <2>4, PublishGuarded, CheckGuarded, VerifyGuarded
  <2>5. CASE Move(p) \/ Restore(p) \/ First(p) \/ Stat(p)
    BY <2>5, MoveGuarded, RestoreGuarded, ReadGuarded
  <2> QED
    BY <1>1, <2>1, <2>2, <2>3, <2>4, <2>5 DEF Advance
<1>2. CASE \/ \E c \in Commits : Drift(c)
           \/ \E r \in Runs : Tamper(r)
           \/ PowerLoss
  BY <1>2, WorldGuarded
<1>3. CASE UNCHANGED vars
  BY <1>3 DEF vars, Guarded, Guards
<1> QED
  BY <1>1, <1>2, <1>3 DEF Next, Recover

(***************************************************************************)
(* A custody file that somebody replaced or edited is never left active:   *)
(* current.json holds it only while the lock file is there, also in every  *)
(* image a power loss brings back (reactivateSelector moves the file first *)
(* and takes it away again).  Of a reactivate that died behind its rename  *)
(* a person who removes the lock makes the only exception, so removals of  *)
(* dead locks are excluded here.                                           *)
(***************************************************************************)
THEOREM NoForgeryStays ==
  ASSUME "recover" \notin Events
  PROVE  Spec => []ForgedOnlyUnderLock
<1>1. Init => Typed /\ Excluded /\ Guarded
  <2>1. Guards(Idle, fs)
    BY DEF Guards, Idle, Critical
  <2>2. ASSUME Init PROVE Guarded
    <3>1. fs.pointer = None /\ past = {} /\ \A p \in Procs : op[p] = Idle
      BY <2>2 DEF Init
    <3> QED
      BY <2>1, <3>1 DEF Guarded, Genuine
  <2> QED
    BY <2>2, InitType, InitExcludes
<1>2. Typed /\ Excluded /\ Guarded /\ [Next]_vars => (Typed /\ Excluded /\ Guarded)'
  BY TypeStep, ExclusionStep, GuardedNext
<1>3. Typed /\ Guarded => ForgedOnlyUnderLock
  BY DEF Guarded, Genuine, ForgedOnlyUnderLock
<1> QED
  BY <1>1, <1>2, <1>3, PTL DEF Spec

(***************************************************************************)
(* PointersAreGenuine: both together, what the desk run checks: no forged  *)
(* pointer outlives the lock and no readback reports a file that was taken *)
(* away meanwhile.                                                         *)
(***************************************************************************)
THEOREM PointersAreGenuine ==
  ASSUME "recover" \notin Events
  PROVE  Spec => []PointerIsGenuine
<1>1. ForgedOnlyUnderLock /\ ReadbackIsStable => PointerIsGenuine
  BY DEF PointerIsGenuine
<1> QED
  BY <1>1, NoForgeryStays, ReadbackSawOneFile, PTL

------------------------------------------------------------------------------
\* What operators know.  Outside the critical section the selector is what they
\* were told; inside it the run knows how it will be when it leaves.
Says(word, pointer) == word # Unknown => pointer = word
Busy(o) == o.pc \in Critical /\ o.action # "stage"

Leaves(o, pointer, word) ==
    /\ o.pc \in {"look", "lock", "check", "move", "sync", "verify"} => o.fault = "none"
    /\ o.pc \in Critical => o.action # "readback"
    /\ o.pc \in {"check", "move"} => Says(word, pointer)
    /\ o.pc = "move" =>
         /\ o.action = "select" => o.mine # None
         /\ o.action = "deactivate" => o.mine = pointer
         /\ o.action = "reactivate" => pointer = None
    /\ o.pc \in {"sync", "verify", "restore", "resync"} =>
         /\ o.action = "select" => /\ pointer = o.mine /\ o.mine # None
                                   /\ o.pc \notin {"restore", "resync"}
         /\ o.action = "deactivate" => Says(word, o.mine)
         /\ o.action = "reactivate" => Says(word, None)
    /\ o.pc = "unlock" =>
         /\ o.fault = "none" =>
              pointer = IF o.action = "deactivate" THEN None ELSE o.mine
         /\ o.fault = "failed" =>
              \/ o.action = "select" /\ o.mine # None
              \/ Says(word, pointer)

\* Before the first fsync behind it a power loss may undo a run, so the older
\* images are as told only while no mutation is under way.
Informed ==
    /\ (\A p \in Procs : ~Busy(op[p])) => Says(told, fs.pointer)
    /\ (\A p \in Procs : ~Mutating(p)) =>
         \A root \in past : Says(told, root.pointer)
    /\ \A p \in Procs : ~Is(p, "stage") => Leaves(op[p], fs.pointer, told)

Unchanged(p) == Alike(p) /\ \A q \in Procs \ {p} : op'[q].fault = op[q].fault

LEMMA OthersUnchanged == ASSUME NEW p \in Procs, Others(p) PROVE Unchanged(p)
BY OthersAlike DEF Others, Unchanged

\* A step that leaves the selector and does not tell anything new.
LEMMA InformedFlow ==
  ASSUME Informed, NEW p \in Procs, Unchanged(p), fs'.pointer = fs.pointer,
         told' \in {told, Unknown}, past' \subseteq past \cup {fs},
         Busy(op[p]) => Busy(op'[p]) \/ Says(told', fs.pointer),
         Mutating(p) => Mutating(p)' \/ told' = Unknown \/ past' = {},
         op'[p].action # "stage" => Leaves(op'[p], fs.pointer, told')
  PROVE  Informed'
<1>1. \A q \in Procs \ {p} : /\ Busy(op'[q]) <=> Busy(op[q])
                             /\ Mutating(q)' <=> Mutating(q)
  BY DEF Unchanged, Alike, Same, Busy, Mutating, Is
<1>2. ASSUME \A q \in Procs : ~Busy(op'[q]) PROVE Says(told', fs'.pointer)
  BY <1>1, <1>2 DEF Informed, Says
<1>3. ASSUME \A q \in Procs : ~Mutating(q)', NEW root \in past'
      PROVE  Says(told', root.pointer)
  <2>1. CASE told' = Unknown
    BY <2>1 DEF Says
  <2>2. CASE told' # Unknown
    <3>1. \A q \in Procs : ~Mutating(q)
      BY <1>1, <1>3, <2>2
    <3>2. \A q \in Procs : ~Busy(op[q])
      BY <3>1 DEF Mutating, Busy, Is
    <3> QED
      BY <2>2, <3>1, <3>2 DEF Informed, Says
  <2> QED
    BY <2>1, <2>2
<1>4. ASSUME NEW q \in Procs \ {p}, op'[q].action # "stage"
      PROVE  Leaves(op'[q], fs'.pointer, told')
  <2>1. /\ op'[q].pc = op[q].pc /\ op'[q].fault = op[q].fault
        /\ op'[q].action = op[q].action /\ op'[q].mine = op[q].mine
    BY DEF Unchanged, Alike, Same
  <2>2. Leaves(op[q], fs.pointer, told)
    BY <1>4, <2>1 DEF Informed, Is
  <2> QED
    BY <2>1, <2>2 DEF Leaves, Says
<1> QED
  BY <1>2, <1>3, <1>4 DEF Informed, Is

\* A step of the run that holds the lock: the others wait outside.
LEMMA InformedBusy ==
  ASSUME Typed, Excluded, Informed, NEW p \in Procs, Unchanged(p), Busy(op[p]),
         Mutating(p)', Busy(op'[p]) \/ Says(told', fs'.pointer),
         Leaves(op'[p], fs'.pointer, told')
  PROVE  Informed'
<1>1. \A q \in Procs \ {p} : op[q].pc \notin Critical
  BY OnlyOne DEF Busy
<1>2. ASSUME NEW q \in Procs \ {p}, op'[q].action # "stage"
      PROVE  Leaves(op'[q], fs'.pointer, told')
  <2>1. /\ op'[q].pc = op[q].pc /\ op'[q].fault = op[q].fault
        /\ op'[q].action = op[q].action
    BY DEF Unchanged, Alike, Same
  <2>2. Leaves(op[q], fs.pointer, told)
    BY <1>2, <2>1 DEF Informed, Is
  <2> QED
    BY <1>1, <2>1, <2>2 DEF Leaves, Critical
<1>3. ASSUME \A q \in Procs : ~Busy(op'[q]) PROVE Says(told', fs'.pointer)
  BY <1>3
<1> QED
  BY <1>2, <1>3 DEF Informed, Is

LEMMA StartInformed ==
  ASSUME Typed, Informed, NEW p \in Procs, Start(p) PROVE Informed'
<1>1. Leaves(op'[p], fs.pointer, told)
  BY StartStep DEF Leaves, Critical
<1>2. ~Busy(op[p]) /\ ~Mutating(p)
  BY StartStep DEF Busy, Mutating, Critical
<1> QED
  BY <1>1, <1>2, StartStep, OthersUnchanged, InformedFlow

LEMMA EndInformed ==
  ASSUME Informed, op \in [Procs -> Processes], NEW p \in Procs, End(p),
         fs'.pointer = fs.pointer, told' \in {told, Unknown},
         past' \subseteq past \cup {fs},
         Busy(op[p]) => told' = Unknown,
         Mutating(p) => told' = Unknown \/ past' = {}
  PROVE  Informed'
<1>1. op'[p] = Idle /\ Unchanged(p)
  BY EndStep, OthersUnchanged
<1>2. Leaves(Idle, fs.pointer, told')
  BY DEF Leaves, Idle, Critical
<1> QED
  BY <1>1, <1>2, InformedFlow DEF Says

LEMMA LockInformed ==
  ASSUME Typed, Excluded, Informed, NEW p \in Procs, Lock(p) PROVE Informed'
<1>1. /\ op \in [Procs -> Processes] /\ op[p] \in Processes /\ fs \in Roots
      /\ op[p].pc = "lock" /\ op[p].action # "readback" /\ told' = told
  BY DEF Typed, TypeOK, Lock, At, Equipped
<1>2. /\ fs'.pointer = fs.pointer /\ past' \subseteq past \cup {fs}
  BY <1>1, WriteLockStep DEF Lock
<1>3. \A q \in Procs : ~Busy(op[q])
  BY OnlyOne DEF Lock, Busy
<1>4. Says(told, fs.pointer)
  BY <1>3 DEF Informed
<1>5. PICK pc \in {"build", "check"} : Goto(p, pc) /\ (pc = "build" => Is(p, "stage"))
  BY DEF Lock
<1>6. /\ op'[p].pc = pc /\ Same(op[p], op'[p]) /\ Unchanged(p)
      /\ op'[p].fault = op[p].fault
  BY <1>1, <1>5, GotoStep, OthersUnchanged
<1>7. op'[p].action # "stage" => Leaves(op'[p], fs.pointer, told)
  BY <1>1, <1>4, <1>5, <1>6 DEF Leaves, Same, Informed, Is
<1>8. ~Mutating(p)
  BY <1>1 DEF Mutating, Critical
<1> QED
  BY <1>1, <1>2, <1>3, <1>6, <1>7, <1>8, InformedFlow

\* What a stage does under the lock, and whatever happens outside of it.
LEMMA AsideInformed ==
  ASSUME Typed, Informed, NEW p \in Procs,
         \/ Look(p) \/ LockHeld(p) \/ Build(p) \/ Publish(p) \/ CleanUp(p)
         \/ Second(p) \/ Last(p) \/ Report(p) \/ Finish(p) \/ Crash(p)
  PROVE  Informed'
<1>1. /\ op \in [Procs -> Processes] /\ op[p] \in Processes /\ fs \in Roots
      /\ Equipped(op[p])
  BY DEF Typed, TypeOK
<1>2. /\ fs'.pointer = fs.pointer /\ past' \subseteq past \cup {fs}
      /\ told' \in {told, Unknown}
  BY <1>1 DEF Look, LockHeld, Build, Publish, CleanUp, Second, Last, Report,
     Finish, Crash, Losing, Write, Fsync, Roots
<1>3. CASE End(p)
  <2>1. Mutating(p) => told' = Unknown \/ past' = {}
    BY <1>1, <1>3 DEF Mutating, Critical, Look, LockHeld, Build, Publish, CleanUp, Second,
       Last, Report, Finish, Crash, Losing, Fsync, At, Is, Equipped
  <2>2. Busy(op[p]) => told' = Unknown
    BY <1>1, <1>3 DEF Mutating, Busy, Critical, Look, LockHeld, Build, Publish,
       CleanUp, Second, Last, Report, Finish, Crash, Losing, At, Is, Equipped
  <2> QED
    BY <1>1, <1>2, <1>3, <2>1, <2>2, EndInformed
<1>4. CASE (Look(p) \/ Second(p) \/ Last(p)) /\ ~End(p)
  <2>1. PICK pc \in {"lock", "last", "verified"} : Goto(p, pc)
    BY <1>4 DEF Look, Second, Last
  <2>2. /\ op'[p].pc = pc /\ Unchanged(p) /\ op'[p].fault = op[p].fault
        /\ Same(op[p], op'[p])
    BY <1>1, <2>1, GotoStep, OthersUnchanged
  <2>3. pc = "lock" => op[p].pc = "look"
    BY <1>1, <1>4, <2>2 DEF Look, Second, Last, At, Goto, Processes
  <2>4. op'[p].action # "stage" => Leaves(op'[p], fs.pointer, told')
    BY <2>2, <2>3 DEF Leaves, Critical, Informed, Same, Is
  <2>5. ~Busy(op[p]) /\ ~Mutating(p)
    BY <1>4 DEF Look, Second, Last, At, Busy, Mutating, Critical
  <2> QED
    BY <1>2, <2>2, <2>4, <2>5, InformedFlow
<1>5. CASE Build(p) \/ Publish(p)
  <2>1. Is(p, "stage")
    BY <1>1, <1>5 DEF Build, Publish, At, Is, Equipped
  <2>2. \E pc : Goto(p, pc) \/ \E fault : Fail(p, pc, fault)
    BY <1>5, Zenon DEF Build, Publish
  <2>3. Unchanged(p) /\ Same(op[p], op'[p])
    BY <1>1, <2>2, GotoStep, FailStep, OthersUnchanged
  <2> QED
    BY <1>2, <2>1, <2>3, InformedFlow DEF Same, Busy, Mutating, Is
<1> QED
  BY <1>3, <1>4, <1>5 DEF LockHeld, CleanUp, Report, Finish, Crash

LEMMA ReadInformed ==
  ASSUME Typed, Informed, NEW p \in Procs, First(p) \/ Stat(p) PROVE Informed'
<1>1. /\ op \in [Procs -> Processes] /\ op[p] \in Processes
      /\ fs' = fs /\ past' = past /\ told' = told
      /\ ~Busy(op[p]) /\ ~Mutating(p)
  BY DEF Typed, TypeOK, First, Stat, At, Busy, Mutating, Critical
<1>2. CASE End(p)
  BY <1>1, <1>2, EndInformed
<1>3. CASE ~End(p)
  <2> DEFINE m == fs.moves
  <2>1. PICK o : /\ op' = [op EXCEPT ![p] = o]
                 /\ \/ o = [op[p] EXCEPT !.pc = "stat", !.seen = fs.pointer]
                    \/ o = [op[p] EXCEPT !.pc = "second", !.mine = fs.pointer,
                                         !.stat = m]
    BY <1>3, ZenonT(60) DEF First, Stat
  <2>2. o.pc \in {"stat", "second"}
    BY <1>1, <2>1 DEF Processes
  <2>3. op'[p] = o /\ Unchanged(p)
    BY <1>1, <2>1, OneStep, OthersUnchanged
  <2>4. Leaves(o, fs.pointer, told)
    BY <2>2 DEF Leaves, Critical
  <2> QED
    BY <1>1, <2>3, <2>4, InformedFlow
<1> QED
  BY <1>2, <1>3

LEMMA CheckInformed ==
  ASSUME Typed, Excluded, Informed, NEW p \in Procs, Check(p) PROVE Informed'
<1>1. /\ op \in [Procs -> Processes] /\ op[p] \in Processes /\ fs' = fs
      /\ told' = told /\ op[p].pc = "check" /\ Equipped(op[p])
  BY DEF Typed, TypeOK, Check, At
<1>2. Busy(op[p]) /\ ~Is(p, "readback")
  BY <1>1 DEF Busy, Equipped, Critical, Is
<1>3. Leaves(op[p], fs.pointer, told)
  BY <1>2 DEF Informed, Busy, Is
<1>4. CASE ~Checks(p)
  <2>1. Fail(p, "unlock", "failed")
    BY <1>4 DEF Check
  <2>2. /\ op'[p].pc = "unlock" /\ Same(op[p], op'[p]) /\ Unchanged(p)
        /\ op'[p].fault = "failed"
    BY <1>1, <2>1, FailStep, OthersUnchanged
  <2>3. Leaves(op'[p], fs'.pointer, told')
    BY <1>1, <1>2, <1>3, <2>2 DEF Leaves, Same, Is
  <2>4. Busy(op'[p]) /\ Mutating(p)'
    BY <1>2, <2>2 DEF Busy, Mutating, Is, Same, Critical
  <2> QED
    BY <1>2, <2>2, <2>3, <2>4, InformedBusy
<1>5. CASE Checks(p)
  <2>1. /\ Others(p) /\ op'[p].pc = "move" /\ op'[p].mine = NextPointer(p)
        /\ op'[p].action = op[p].action /\ op'[p].fault = op[p].fault
    BY <1>1, <1>5, CheckStep
  <2>2. /\ Is(p, "select") => NextPointer(p) # None
        /\ Is(p, "deactivate") => NextPointer(p) = fs.pointer
        /\ Is(p, "reactivate") => fs.pointer = None
    <3>1. ASSUME Is(p, "select") PROVE NextPointer(p) # None
      <4> DEFINE previous == IF fs.pointer = None THEN None ELSE fs.pointer.current
      <4>1. NextPointer(p) = [ current |-> op[p].commit, at |-> op[p].run,
                               forged |-> FALSE, previous |-> previous ]
        BY <3>1 DEF NextPointer
      <4>2. previous \in Commits \cup {None}
        BY DEF Typed, TypeOK, Roots, Pointers
      <4> HIDE DEF previous
      <4>3. NextPointer(p) \in Pointers
        BY <1>1, <3>1, <4>1, <4>2 DEF Pointers, Equipped, Is
      <4> QED
        BY <4>3, NoPointerAssumption
    <3>2. Is(p, "deactivate") => NextPointer(p) = fs.pointer
      BY <1>5 DEF NextPointer, Checks, Is
    <3>3. Is(p, "reactivate") => fs.pointer = None
      BY <1>5 DEF Checks, Is
    <3> QED
      BY <3>1, <3>2, <3>3
  <2>3. Leaves(op'[p], fs'.pointer, told')
    BY <1>1, <1>2, <1>3, <2>1, <2>2 DEF Leaves, Is
  <2>4. Busy(op'[p]) /\ Mutating(p)'
    BY <1>2, <2>1 DEF Busy, Mutating, Is, Critical
  <2> QED
    BY <1>2, <2>1, <2>3, <2>4, OthersUnchanged, InformedBusy
<1> QED
  BY <1>4, <1>5

\* The steps under the lock that rename nothing.
LEMMA BusyInformed ==
  ASSUME Typed, Excluded, Informed, NEW p \in Procs,
         MoveFails(p) \/ Sync(p) \/ Verify(p) \/ Resync(p)
  PROVE  Informed'
<1>1. /\ op \in [Procs -> Processes] /\ op[p] \in Processes
      /\ fs' = fs /\ told' = told /\ past' \subseteq past \cup {fs}
      /\ op[p].pc \in {"move", "sync", "verify", "resync"}
  BY DEF Typed, TypeOK, MoveFails, Sync, Verify, Resync, Fsync, At
<1>2. PICK pc \in {"unlock", "verify", "restore"} :
        \/ Goto(p, pc)
        \/ \E fault \in {"failed", "recovery"} : Fail(p, pc, fault)
  <2>1. AfterFault(p) \in {"unlock", "restore"}
    BY DEF AfterFault
  <2> QED
    BY <2>1, Zenon DEF MoveFails, Sync, Verify, Resync
<1>3. op'[p].pc = pc /\ Same(op[p], op'[p]) /\ Unchanged(p)
  BY <1>1, <1>2, GotoStep, FailStep, OthersUnchanged
<1>4. CASE Is(p, "stage")
  BY <1>1, <1>3, <1>4, InformedFlow DEF Same, Busy, Mutating, Is
<1>5. CASE ~Is(p, "stage")
  <2>1. Busy(op[p]) /\ Busy(op'[p]) /\ Mutating(p)'
    BY <1>1, <1>2, <1>3, <1>5 DEF Busy, Mutating, Is, Same, Critical
  <2>2. Leaves(op[p], fs.pointer, told)
    BY <1>5 DEF Informed
  <2>3. CASE MoveFails(p)
    <3>1. Fail(p, "unlock", "failed") /\ op[p].pc = "move"
      BY <2>3 DEF MoveFails, At
    <3>2. op'[p].pc = "unlock" /\ op'[p].fault = "failed"
      BY <1>1, <3>1, FailStep
    <3>3. Leaves(op'[p], fs'.pointer, told')
      BY <1>1, <1>3, <2>1, <2>2, <3>1, <3>2 DEF Leaves, Same, Critical
    <3> QED
      BY <1>3, <2>1, <3>3, InformedBusy
  <2>4. CASE Sync(p) \/ (Verify(p) /\ ~Verifies(p))
    <3>1. op[p].pc \in {"sync", "verify"}
      BY <2>4 DEF Sync, Verify, At
    <3>2. \/ op'[p].pc = "verify" /\ op'[p].fault = op[p].fault
          \/ op'[p].pc = AfterFault(p) /\ op'[p].fault = "failed"
      BY <1>1, <2>4, GotoStep, FailStep DEF Sync, Verify
    <3>3. Leaves(op'[p], fs'.pointer, told')
      BY <1>1, <1>3, <2>1, <2>2, <3>1, <3>2
         DEF Leaves, Same, Critical, AfterFault, Busy, Processes
    <3> QED
      BY <1>3, <2>1, <3>3, InformedBusy
  <2>5. CASE Verify(p) /\ Verifies(p)
    <3>1. op[p].pc = "verify" /\ Goto(p, "unlock")
      BY <2>5 DEF Verify, At
    <3>2. op'[p].pc = "unlock" /\ op'[p].fault = op[p].fault
      BY <1>1, <3>1, GotoStep
    <3>3. fs.pointer = IF Is(p, "deactivate") THEN None ELSE op[p].mine
      BY <1>1, <1>5, <2>1, <2>2, <2>5, <3>1
         DEF Verifies, Is, Processes, Busy, Leaves
    <3>4. Leaves(op'[p], fs'.pointer, told')
      BY <1>1, <1>3, <2>1, <2>2, <3>1, <3>2, <3>3 DEF Leaves, Same, Critical, Is
    <3> QED
      BY <1>3, <2>1, <3>4, InformedBusy
  <2>6. CASE Resync(p)
    <3>1. /\ op[p].pc = "resync"
          /\ \/ Restored(p) /\ Fail(p, "unlock", "failed")
             \/ Fail(p, "unlock", "recovery")
      BY <2>6, Zenon DEF Resync, At
    <3>2. /\ op'[p].pc = "unlock"
          /\ \/ op'[p].fault = "failed" /\ Restored(p)
             \/ op'[p].fault = "recovery"
      BY <1>1, <3>1, FailStep
    <3>3. Restored(p) => Says(told, fs.pointer)
      BY <1>1, <1>5, <2>1, <2>2, <3>1
         DEF Restored, Leaves, Says, Is, Processes, Busy
    <3>4. Leaves(op'[p], fs'.pointer, told')
      BY <1>1, <1>3, <2>1, <2>2, <3>1, <3>2, <3>3 DEF Leaves, Same, Critical
    <3> QED
      BY <1>3, <2>1, <3>4, InformedBusy
  <2> QED
    BY <2>3, <2>4, <2>5, <2>6
<1> QED
  BY <1>4, <1>5

LEMMA UnlockInformed ==
  ASSUME Typed, Excluded, Informed, NEW p \in Procs, Unlock(p) PROVE Informed'
<1>1. /\ op \in [Procs -> Processes] /\ op[p] \in Processes /\ fs \in Roots
      /\ op[p].pc = "unlock" /\ Busy(op[p]) /\ ~Is(p, "stage")
  BY DEF Typed, TypeOK, Unlock, At, Busy, Critical, Is
<1>2. fs.lock = op[p].run /\ Leaves(op[p], fs.pointer, told)
  BY <1>1, OnlyOne DEF Busy, Informed
<1>3. /\ fs'.pointer = fs.pointer /\ Goto(p, "finish") /\ told' = Tells(p)
  BY <1>1, <1>2, WriteLockStep DEF Unlock
<1>4. /\ op'[p].pc = "finish" /\ Same(op[p], op'[p]) /\ Unchanged(p)
  BY <1>1, <1>3, GotoStep, OthersUnchanged
<1>5. Says(told', fs'.pointer)
  <2>1. CASE op[p].fault = "recovery"
    BY <1>3, <2>1 DEF Tells, Says
  <2>2. CASE op[p].fault = "failed"
    BY <1>1, <1>2, <1>3, <2>2 DEF Tells, Says, Leaves, Is
  <2>3. CASE op[p].fault = "none"
    BY <1>1, <1>2, <1>3, <2>3 DEF Tells, Says, Leaves, Is
  <2> QED
    BY <1>1, <2>1, <2>2, <2>3 DEF Processes
<1>6. Leaves(op'[p], fs'.pointer, told') /\ Mutating(p)'
  BY <1>1, <1>4 DEF Leaves, Mutating, Is, Same, Critical
<1> QED
  BY <1>1, <1>4, <1>5, <1>6, InformedBusy

LEMMA RenameInformed ==
  ASSUME Typed, Excluded, Informed, NEW p \in Procs, NEW pointer, NEW custody,
         NEW next, Rename(p, pointer, custody, next), told' = told,
         Busy(op[p]), Same(op[p], next), next.pc \in {"sync", "resync", "unlock"},
         Leaves(next, pointer, told)
  PROVE  Informed'
<1>1. op'[p] = next /\ Unchanged(p) /\ fs'.pointer = pointer
  BY RenameStep DEF Unchanged, Alike
<1>2. Busy(next) /\ Mutating(p)'
  BY <1>1 DEF Busy, Same, Mutating, Critical, Is
<1> QED
  BY <1>1, <1>2, InformedBusy

LEMMA MoveInformed ==
  ASSUME Typed, Excluded, Informed, NEW p \in Procs, Move(p) PROVE Informed'
<1> DEFINE path == op[p].path
           next == [op[p] EXCEPT !.pc = "sync"]
           filled == [fs.custody EXCEPT ![path] = fs.pointer]
           emptied == [fs.custody EXCEPT ![path] = None]
<1>1. /\ op \in [Procs -> Processes] /\ op[p] \in Processes /\ told' = told
      /\ op[p].pc = "move" /\ Busy(op[p])
  BY DEF Typed, TypeOK, Move, At, Busy, Critical, Is
<1>2. /\ next.pc = "sync" /\ Same(op[p], next) /\ next.fault = op[p].fault
  BY <1>1, MoveNext
<1>3. Leaves(op[p], fs.pointer, told)
  BY <1>1 DEF Informed, Busy, Is
<1>4. \/ Is(p, "select") /\ Rename(p, op[p].mine, fs.custody, next)
      \/ Is(p, "deactivate") /\ Rename(p, None, filled, next)
      \/ Is(p, "reactivate") /\ Rename(p, fs.custody[path], emptied, next)
  BY DEF Move
<1> HIDE DEF next, filled, emptied
<1>5. CASE Is(p, "select") /\ Rename(p, op[p].mine, fs.custody, next)
  <2>1. Leaves(next, op[p].mine, told)
    BY <1>1, <1>2, <1>3, <1>5 DEF Leaves, Same, Is, Critical
  <2> QED
    BY <1>1, <1>2, <1>5, <2>1, RenameInformed
<1>6. CASE Is(p, "deactivate") /\ Rename(p, None, filled, next)
  <2>1. Leaves(next, None, told)
    BY <1>1, <1>2, <1>3, <1>6 DEF Leaves, Same, Is, Critical
  <2> QED
    BY <1>1, <1>2, <1>6, <2>1, RenameInformed
<1>7. CASE Is(p, "reactivate") /\ Rename(p, fs.custody[path], emptied, next)
  <2>1. Leaves(next, fs.custody[path], told)
    BY <1>1, <1>2, <1>3, <1>7 DEF Leaves, Same, Is, Critical
  <2> QED
    BY <1>1, <1>2, <1>7, <2>1, RenameInformed
<1> QED
  BY <1>4, <1>5, <1>6, <1>7

LEMMA RestoreInformed ==
  ASSUME Typed, Excluded, Informed, NEW p \in Procs, Restore(p) PROVE Informed'
<1> DEFINE path == op[p].path
           back == [op[p] EXCEPT !.pc = "resync"]
           lost == [op[p] EXCEPT !.pc = "unlock", !.fault = "recovery"]
           filled == [fs.custody EXCEPT ![path] = fs.pointer]
           emptied == [fs.custody EXCEPT ![path] = None]
<1>1. /\ op \in [Procs -> Processes] /\ op[p] \in Processes /\ told' = told
      /\ op[p].pc = "restore"
  BY DEF Typed, TypeOK, Restore, At
<1>2. /\ back.pc = "resync" /\ Same(op[p], back) /\ back.fault = op[p].fault
      /\ lost.pc = "unlock" /\ Same(op[p], lost) /\ lost.fault = "recovery"
  BY <1>1 DEF Processes, Same
<1>3. \/ Is(p, "deactivate") /\ Rename(p, op[p].mine, emptied, back)
      \/ Is(p, "reactivate") /\ Rename(p, None, filled, back)
      \/ Is(p, "reactivate") /\ Rename(p, None, fs.custody, lost)
      \/ Is(p, "deactivate") /\ Fail(p, "unlock", "recovery") /\ UNCHANGED <<fs, past>>
      \/ Goto(p, "resync") /\ UNCHANGED <<fs, past>>
  BY DEF Restore
<1> HIDE DEF back, lost, filled, emptied
<1>4. CASE \/ Is(p, "deactivate") /\ Rename(p, op[p].mine, emptied, back)
           \/ Is(p, "reactivate") /\ Rename(p, None, filled, back)
           \/ Is(p, "reactivate") /\ Rename(p, None, fs.custody, lost)
  <2>1. Leaves(op[p], fs.pointer, told) /\ Busy(op[p])
    BY <1>1, <1>4 DEF Informed, Is, Busy, Critical
  <2>2. /\ Is(p, "deactivate") => Leaves(back, op[p].mine, told)
        /\ Is(p, "reactivate") => Leaves(back, None, told) /\ Leaves(lost, None, told)
    BY <1>1, <1>2, <2>1 DEF Leaves, Same, Is, Critical
  <2> QED
    BY <1>1, <1>2, <1>4, <2>1, <2>2, RenameInformed
<1>5. CASE \/ Is(p, "deactivate") /\ Fail(p, "unlock", "recovery") /\ UNCHANGED <<fs, past>>
           \/ Goto(p, "resync") /\ UNCHANGED <<fs, past>>
  <2>1. /\ Same(op[p], op'[p]) /\ Unchanged(p) /\ fs' = fs /\ past' = past
        /\ \/ op'[p].pc = "unlock" /\ op'[p].fault = "recovery"
           \/ op'[p].pc = "resync" /\ op'[p].fault = op[p].fault
    BY <1>1, <1>5, GotoStep, FailStep, OthersUnchanged
  <2>2. op'[p].action # "stage" => Leaves(op'[p], fs.pointer, told)
    BY <1>1, <2>1 DEF Informed, Leaves, Is, Same, Critical
  <2>3. /\ Busy(op[p]) => Busy(op'[p])
        /\ Mutating(p) => Mutating(p)'
    BY <2>1 DEF Busy, Mutating, Same, Is, Critical
  <2> QED
    BY <1>1, <2>1, <2>2, <2>3, InformedFlow
<1> QED
  BY <1>3, <1>4, <1>5

LEMMA WorldInformed ==
  ASSUME Typed, Excluded, Informed,
         \/ \E c \in Commits : Drift(c)
         \/ \E r \in Runs : Tamper(r)
         \/ PowerLoss \/ Recover
  PROVE  Informed'
<1>1. fs \in Roots
  BY DEF Typed, TypeOK
<1>2. CASE \/ \E c \in Commits : Drift(c)
           \/ \E r \in Runs : Tamper(r)
           \/ Recover
  <2>1. /\ fs'.pointer = fs.pointer /\ op' = op /\ told' = told
        /\ past' \subseteq past \cup {fs}
    BY <1>1, <1>2 DEF Drift, Tamper, Recover, Write, Roots
  <2>2. \A p \in Procs : Busy(op[p]) => Mutating(p)
    BY DEF Busy, Mutating, Is
  <2> QED
    BY <2>1, <2>2 DEF Informed, Mutating, At, Is
<1>3. CASE PowerLoss
  <2>1. /\ \A p \in Procs : op'[p] = Idle
        /\ past' = {} /\ fs' \in past \cup {fs}
        /\ told' = IF \E p \in Procs : Mutating(p) THEN Unknown ELSE told
    BY <1>3 DEF PowerLoss
  <2>2. Leaves(Idle, fs'.pointer, told')
    BY DEF Leaves, Idle, Critical
  <2>3. Says(told', fs'.pointer)
    <3>1. CASE \E p \in Procs : Mutating(p)
      BY <2>1, <3>1 DEF Says
    <3>2. CASE \A p \in Procs : ~Mutating(p)
      <4>1. \A p \in Procs : ~Busy(op[p])
        BY <3>2 DEF Busy, Mutating, Is
      <4> QED
        BY <2>1, <3>2, <4>1 DEF Informed
    <3> QED
      BY <3>1, <3>2
  <2> QED
    BY <2>1, <2>2, <2>3 DEF Informed
<1> QED
  BY <1>2, <1>3

LEMMA InformedNext == Typed /\ Excluded /\ Informed /\ [Next]_vars => Informed'
<1> SUFFICES ASSUME Typed, Excluded, Informed, [Next]_vars PROVE Informed'
  OBVIOUS
<1>1. ASSUME NEW p \in Procs, Start(p) \/ Advance(p) \/ Crash(p) PROVE Informed'
  <2>1. CASE Start(p) \/ Crash(p) \/ Finish(p)
    BY <2>1, StartInformed, AsideInformed
  <2>2. CASE \/ Look(p) \/ LockHeld(p) \/ Build(p) \/ Publish(p) \/ CleanUp(p)
             \/ Second(p) \/ Last(p) \/ Report(p)
    BY <2>2, AsideInformed
  <2>3. CASE MoveFails(p) \/ Sync(p) \/ Verify(p) \/ Resync(p)
    BY <2>3, BusyInformed
  <2>4. CASE Lock(p) \/ Unlock(p) \/ Check(p)
    BY <2>4, LockInformed, UnlockInformed, CheckInformed
  <2>5. CASE Move(p) \/ Restore(p) \/ First(p) \/ Stat(p)
    BY <2>5, MoveInformed, RestoreInformed, ReadInformed
  <2> QED
    BY <1>1, <2>1, <2>2, <2>3, <2>4, <2>5 DEF Advance
<1>2. CASE \/ \E c \in Commits : Drift(c)
           \/ \E r \in Runs : Tamper(r)
           \/ PowerLoss \/ Recover
  BY <1>2, WorldInformed
<1>3. CASE UNCHANGED vars
  BY <1>3 DEF vars, Informed, Mutating, Is
<1> QED
  BY <1>1, <1>2, <1>3 DEF Next

(***************************************************************************)
(* Receipts and errors tell operators the truth: with no mutation under    *)
(* way the selector is what they were last told, unless a run was lost or  *)
(* asked for recovery, whatever fails, dies, loses power or is tampered    *)
(* with (the fsync before every receipt, and the restore behind a failed   *)
(* deactivate or reactivate).                                              *)
(***************************************************************************)
THEOREM ReceiptsHold == Spec => []OperatorsKnow
<1>1. Init => Typed /\ Excluded /\ Informed
  <2>1. ASSUME Init PROVE Informed
    <3>1. fs.pointer = None /\ told = None /\ past = {}
          /\ \A p \in Procs : op[p] = Idle
      BY <2>1 DEF Init
    <3>2. Leaves(Idle, None, None)
      BY DEF Leaves, Idle, Critical
    <3> QED
      BY <3>1, <3>2 DEF Informed, Says
  <2> QED
    BY <2>1, InitType, InitExcludes
<1>2. Typed /\ Excluded /\ Informed /\ [Next]_vars => (Typed /\ Excluded /\ Informed)'
  BY TypeStep, ExclusionStep, InformedNext
<1>3. Informed => OperatorsKnow
  BY DEF Informed, OperatorsKnow, Says, Busy, Mutating, Is
<1> QED
  BY <1>1, <1>2, <1>3, PTL DEF Spec

------------------------------------------------------------------------------
\* The register.  While nobody edits custody and no power is lost, no two
\* places hold one pointer, and a place or a pointer that a run is about to
\* make is new.
Early == {"lock", "check", "move"}
Makes(o, action) == o.action = action /\ o.pc \in Early

Apart ==
    \A r \in Runs : fs.custody[r] # None =>
        /\ fs.custody[r] # fs.pointer
        /\ \A s \in Runs : fs.custody[s] = fs.custody[r] => s = r

NewPointer(x) ==
    x # None => /\ x.at <= runs
                /\ \A p \in Procs : Makes(op[p], "select") => x.at # op[p].run
NewPlace(r) ==
    /\ r <= runs
    /\ \A p \in Procs : Makes(op[p], "deactivate") => r # op[p].run

Used(r) == \/ fs.custody[r] # None
           \/ \E p \in Procs : Is(p, "reactivate") /\ op[p].path = r

Dated ==
    /\ NewPointer(fs.pointer) /\ \A r \in Runs : NewPointer(fs.custody[r])
    /\ \A r \in Runs : Used(r) => NewPlace(r)

\* What a run has verified still holds when it renames, and when it undoes it.
Keeps(o, root) ==
    /\ o.action = "reactivate" /\ o.pc \in {"lock", "check"} => o.seen \in Pointers
    /\ o.pc = "move" =>
         /\ o.mine \in Pointers
         /\ o.action = "select" =>
              /\ o.mine.at = o.run
              /\ IF root.pointer = None THEN o.mine.previous = None
                 ELSE /\ o.mine.previous = root.pointer.current
                      /\ o.mine.current # root.pointer.current
         /\ o.action = "deactivate" =>
              /\ o.path = o.run /\ root.pointer = o.mine
              /\ o.mine.previous = None
         /\ o.action = "reactivate" =>
              /\ root.pointer = None /\ root.custody[o.path] = o.mine
              /\ o.mine.previous = None
    /\ o.pc \in {"sync", "verify", "restore"} =>
         /\ o.action = "deactivate" =>
              /\ root.pointer = None /\ root.custody[o.path] = o.mine
              /\ o.mine \in Pointers
         /\ o.action = "reactivate" =>
              /\ root.pointer = o.mine /\ root.custody[o.path] = None
              /\ o.mine \in Pointers /\ o.mine.previous = None

Registered == Apart /\ Dated /\ \A p \in Procs : Keeps(op[p], fs)

Shelf == {fs.custody[r] : r \in Runs} \ {None}
Stutter == fs'.pointer = fs.pointer /\ fs'.custody = fs.custody

\* A step that renames nothing.
LEMMA RegisteredFlow ==
  ASSUME Registered, NEW p \in Procs, Alike(p), Stutter, runs' = runs,
         op'[p].pc \in Early =>
           op[p].pc \in Early \cup {"look"} /\ op'[p].action = op[p].action
           /\ op'[p].run = op[p].run /\ (op[p].pc = "look" => op[p].action = "stage"),
         op'[p].action = "reactivate" =>
           op[p].action = "reactivate" /\ op'[p].path = op[p].path,
         Keeps(op'[p], fs)
  PROVE  Registered'
<1>1. ASSUME NEW q \in Procs, NEW action \in {"select", "deactivate"},
             Makes(op'[q], action)
      PROVE  Makes(op[q], action) /\ op'[q].run = op[q].run
  BY <1>1 DEF Makes, Alike, Same
<1>2. \A q \in Procs : op'[q].action = "reactivate" =>
        op[q].action = "reactivate" /\ op'[q].path = op[q].path
  BY DEF Alike, Same
<1>3. \A x : NewPointer(x) => NewPointer(x)'
  BY <1>1 DEF NewPointer
<1>4. ASSUME NEW r \in Runs, Used(r)' PROVE NewPlace(r)'
  <2>1. Used(r)
    BY <1>2, <1>4 DEF Used, Stutter, Is
  <2>2. NewPlace(r)
    BY <2>1 DEF Registered, Dated
  <2> QED
    BY <1>1, <2>2 DEF NewPlace
<1>5. Dated'
  BY <1>3, <1>4 DEF Registered, Dated, Stutter
<1>6. Apart'
  BY DEF Registered, Apart, Stutter
<1>7. ASSUME NEW q \in Procs PROVE Keeps(op'[q], fs')
  BY DEF Registered, Keeps, Stutter, Alike, Same
<1> QED
  BY <1>5, <1>6, <1>7 DEF Registered

LEMMA EndRegistered ==
  ASSUME Registered, op \in [Procs -> Processes], NEW p \in Procs, End(p), Stutter,
         runs' = runs
  PROVE  Registered'
<1>1. op'[p] = Idle /\ Alike(p)
  BY EndStep, OthersAlike
<1>2. Idle.pc = "idle" /\ Idle.action = "readback"
  BY DEF Idle
<1> QED
  BY <1>1, <1>2, RegisteredFlow DEF Keeps, Early

LEMMA StartRegistered ==
  ASSUME Typed, Excluded, Registered, NEW p \in Procs, Start(p) PROVE Registered'
<1>1. /\ fs \in Roots /\ runs \in Nat /\ op \in [Procs -> Processes]
      /\ fs.custody \in [Runs -> Pointers \cup {None}]
      /\ fs.pointer \in Pointers \cup {None}
  BY RunsAssumption DEF Typed, TypeOK, Roots, Runs
<1>2. /\ op'[p].run = runs + 1 /\ runs' = runs + 1 /\ fs' = fs /\ Others(p)
      /\ op'[p].pc \in {"look", "lock", "first"}
  BY StartStep
<1>3. ASSUME NEW x \in Pointers \cup {None}, NewPointer(x)
      PROVE  NewPointer(x)'
  <2>1. x # None => x.at \in Nat
    BY DEF Pointers, Runs
  <2> QED
    BY <1>1, <1>2, <1>3, <2>1 DEF NewPointer, Others, Makes
<1>4. ASSUME NEW r \in Nat, NewPlace(r) PROVE NewPlace(r)'
  BY <1>1, <1>2, <1>4 DEF NewPlace, Others, Makes
<1>5. ASSUME NEW r \in Runs, Used(r)' PROVE NewPlace(r)'
  <2>1. Used(r)
    <3>1. op'[p].action = "reactivate" =>
            op'[p].path \in Runs /\ fs.custody[op'[p].path] # None
      BY StartStep
    <3> QED
      BY <1>2, <1>5, <3>1 DEF Used, Is, Others
  <2>2. NewPlace(r) /\ r \in Nat
    BY <2>1 DEF Registered, Dated, Runs
  <2> QED
    BY <1>4, <2>2
<1>6. Dated'
  <2>1. \A r \in Runs : fs.custody[r] \in Pointers \cup {None}
    BY <1>1
  <2>2. \A r \in Runs : NewPointer(fs.custody[r])'
    BY <1>2, <1>3, <2>1 DEF Registered, Dated
  <2>3. NewPointer(fs.pointer)'
    BY <1>1, <1>2, <1>3 DEF Registered, Dated
  <2> QED
    BY <1>5, <2>2, <2>3 DEF Dated
<1>7. Keeps(op'[p], fs)
  BY StartStep DEF Keeps
<1>8. \A q \in Procs : Keeps(op'[q], fs')
  BY <1>2, <1>7 DEF Registered, Others
<1> QED
  BY <1>2, <1>6, <1>8 DEF Registered, Apart

LEMMA CheckRegistered ==
  ASSUME Typed, Registered, NEW p \in Procs, Check(p) PROVE Registered'
<1>1. /\ op \in [Procs -> Processes] /\ op[p] \in Processes /\ fs' = fs
      /\ runs' = runs /\ op[p].pc = "check" /\ Equipped(op[p]) /\ fs \in Roots
      /\ op[p].action \in {"select", "deactivate", "reactivate"}
  BY DEF Typed, TypeOK, Check, At, Equipped, Processes
<1>2. CASE ~Checks(p)
  <2>1. Fail(p, "unlock", "failed")
    BY <1>2 DEF Check
  <2>2. op'[p].pc = "unlock" /\ Same(op[p], op'[p]) /\ Alike(p)
    BY <1>1, <2>1, FailStep, OthersAlike
  <2>3. Keeps(op'[p], fs)
    BY <2>2 DEF Keeps
  <2> QED
    BY <1>1, <2>2, <2>3, RegisteredFlow DEF Stutter, Early, Same
<1>3. CASE Checks(p)
  <2>1. /\ Others(p) /\ op'[p].pc = "move" /\ op'[p].mine = NextPointer(p)
        /\ op'[p].action = op[p].action /\ op'[p].run = op[p].run
        /\ op'[p].path = IF Is(p, "deactivate") THEN op[p].run ELSE op[p].path
    BY <1>1, <1>3, CheckStep
  <2>2. ASSUME Is(p, "select")
        PROVE  /\ NextPointer(p) \in Pointers /\ NextPointer(p).at = op[p].run
               /\ IF fs.pointer = None THEN NextPointer(p).previous = None
                  ELSE /\ NextPointer(p).previous = fs.pointer.current
                       /\ NextPointer(p).current # fs.pointer.current
    <3> DEFINE previous == IF fs.pointer = None THEN None ELSE fs.pointer.current
    <3>1. NextPointer(p) = [ current |-> op[p].commit, at |-> op[p].run,
                             forged |-> FALSE, previous |-> previous ]
      BY <2>2 DEF NextPointer
    <3>2. previous \in Commits \cup {None}
      BY <1>1 DEF Roots, Pointers
    <3>3. fs.pointer # None => op[p].commit # fs.pointer.current
      BY <1>3, <2>2 DEF Checks, Is
    <3>4. op[p].commit \in Commits /\ op[p].run \in Runs
      BY <1>1, <2>2 DEF Equipped, Is
    <3> HIDE DEF previous
    <3>5. /\ NextPointer(p) \in Pointers /\ NextPointer(p).at = op[p].run
          /\ NextPointer(p).previous = previous
          /\ NextPointer(p).current = op[p].commit
      BY <3>1, <3>2, <3>4 DEF Pointers
    <3> QED
      BY <3>3, <3>5 DEF previous
  <2>3. ASSUME Is(p, "deactivate")
        PROVE  /\ NextPointer(p) \in Pointers /\ NextPointer(p) = fs.pointer
               /\ NextPointer(p).previous = None
    <3>1. NextPointer(p) = op[p].seen
      BY <2>3 DEF NextPointer, Is
    <3>2. fs.pointer # None /\ fs.pointer = op[p].seen /\ op[p].seen.previous = None
      BY <1>3, <2>3 DEF Checks, ValidPointer, Is
    <3> QED
      BY <1>1, <3>1, <3>2 DEF Roots
  <2>4. ASSUME Is(p, "reactivate")
        PROVE  /\ NextPointer(p) \in Pointers /\ fs.pointer = None
               /\ fs.custody[op[p].path] = NextPointer(p)
               /\ NextPointer(p).previous = None
    <3>1. NextPointer(p) = op[p].seen
      BY <2>4 DEF NextPointer, Is
    <3>2. op[p].seen \in Pointers
      BY <1>1, <2>4 DEF Registered, Keeps, Is
    <3>3. /\ fs.pointer = None /\ fs.custody[op[p].path] = op[p].seen
          /\ op[p].seen.previous = None
      BY <1>3, <2>4 DEF Checks, Is
    <3> QED
      BY <3>1, <3>2, <3>3
  <2>5. Keeps(op'[p], fs)
    BY <1>1, <2>1, <2>2, <2>3, <2>4 DEF Keeps, Is
  <2>6. op'[p].action = "reactivate" => op'[p].path = op[p].path
    BY <2>1 DEF Is
  <2> QED
    BY <1>1, <2>1, <2>5, <2>6, OthersAlike, RegisteredFlow DEF Stutter, Early
<1> QED
  BY <1>2, <1>3

\* The steps that leave the places alone and carry on with what they carry.
LEMMA PassRegistered ==
  ASSUME Registered, op \in [Procs -> Processes], NEW p \in Procs, Stutter,
         runs' = runs, NEW pc, Goto(p, pc) \/ \E fault : Fail(p, pc, fault),
         \/ pc \notin Early \cup {"sync", "verify", "restore"}
         \/ Is(p, "stage") /\ (pc = "sync" \/ (pc = "lock" /\ op[p].pc = "look"))
         \/ pc = "check" /\ op[p].pc = "lock"
         \/ pc \in {"verify", "restore"} /\ op[p].pc \in {"sync", "verify"}
  PROVE  Registered'
<1>1. op'[p].pc = pc /\ Same(op[p], op'[p]) /\ Alike(p)
  BY GotoStep, FailStep, OthersAlike
<1>2. Keeps(op[p], fs)
  BY DEF Registered
<1>3. Keeps(op'[p], fs)
  BY <1>1, <1>2 DEF Keeps, Same, Is, Early
<1>4. op'[p].pc \in Early =>
        op[p].pc \in Early \cup {"look"} /\ op'[p].action = op[p].action
        /\ op'[p].run = op[p].run /\ (op[p].pc = "look" => op[p].action = "stage")
  BY <1>1 DEF Early, Same, Is
<1> QED
  BY <1>1, <1>3, <1>4, RegisteredFlow DEF Same

LEMMA FlowRegistered ==
  ASSUME Typed, Registered, NEW p \in Procs,
         \/ Look(p) \/ Lock(p) \/ LockHeld(p) \/ Build(p) \/ Publish(p)
         \/ MoveFails(p) \/ Sync(p) \/ Verify(p) \/ Resync(p) \/ Unlock(p)
         \/ Finish(p) \/ CleanUp(p) \/ Crash(p)
         \/ Second(p) \/ Last(p) \/ Report(p)
  PROVE  Registered' /\ Stutter
<1>1. /\ op \in [Procs -> Processes] /\ op[p] \in Processes /\ fs \in Roots
      /\ Equipped(op[p]) /\ Keeps(op[p], fs) /\ runs' = runs
  BY DEF Typed, TypeOK, Registered, Look, Lock, LockHeld, Build, Publish, MoveFails,
     Sync, Verify, Resync, Unlock, Finish, CleanUp, Crash, Second, Last, Report
<1>2. Stutter
  BY <1>1 DEF Stutter, Look, Lock, LockHeld, Build, Publish, MoveFails, Sync,
     Verify, Resync, Unlock, Finish, CleanUp, Crash, Second, Last, Report,
     Write, Fsync, Roots
<1>3. CASE End(p)
  BY <1>1, <1>2, <1>3, EndRegistered
<1>5. CASE Look(p) \/ Build(p) \/ Publish(p)
  <2>1. Is(p, "stage")
    BY <1>1, <1>5 DEF Look, Build, Publish, At, Is, Equipped
  <2>2. CASE End(p)
    BY <1>3, <2>2
  <2>3. CASE ~End(p)
    <3>1. PICK pc : /\ Goto(p, pc) \/ \E fault : Fail(p, pc, fault)
                    /\ \/ pc = "lock" /\ op[p].pc = "look"
                       \/ pc = "sync" /\ op[p].pc = "publish"
                       \/ pc \in {"publish", "unlock"}
      BY <1>5, <2>3, Zenon DEF Look, Build, Publish, At
    <3>2. \/ pc \notin Early \cup {"sync", "verify", "restore"}
          \/ pc = "sync"
          \/ pc = "lock" /\ op[p].pc = "look"
      BY <3>1 DEF Early
    <3>3. \/ pc \notin Early \cup {"sync", "verify", "restore"}
          \/ Is(p, "stage") /\ (pc = "sync" \/ (pc = "lock" /\ op[p].pc = "look"))
      BY <2>1, <3>2
    <3> QED
      BY <1>1, <1>2, <3>1, <3>3, PassRegistered
  <2> QED
    BY <2>2, <2>3
<1>6. CASE Lock(p)
  <2>1. PICK pc \in {"build", "check"} : Goto(p, pc) /\ op[p].pc = "lock"
    BY <1>6 DEF Lock, At
  <2> QED
    BY <1>1, <1>2, <2>1, PassRegistered DEF Early
<1>7. CASE MoveFails(p) \/ Sync(p) \/ Verify(p) \/ Resync(p)
  <2>1. AfterFault(p) \in {"unlock", "restore"}
    BY DEF AfterFault
  <2>2. PICK pc : /\ Goto(p, pc) \/ \E fault : Fail(p, pc, fault)
                  /\ \/ pc = "unlock"
                     \/ pc \in {"verify", "restore"} /\ op[p].pc \in {"sync", "verify"}
    BY <1>7, <2>1, Zenon DEF MoveFails, Sync, Verify, Resync, At
  <2> QED
    BY <1>1, <1>2, <2>2, PassRegistered DEF Early
<1>8. CASE (Unlock(p) \/ Second(p) \/ Last(p)) /\ ~End(p)
  <2>1. PICK pc \in {"finish", "last", "verified"} : Goto(p, pc)
    BY <1>8 DEF Unlock, Second, Last
  <2> QED
    BY <1>1, <1>2, <2>1, PassRegistered DEF Early
<1>9. Registered'
  BY <1>3, <1>5, <1>6, <1>7, <1>8 DEF LockHeld, Finish, CleanUp, Crash, Report
<1> QED
  BY <1>2, <1>9

LEMMA ReadRegistered ==
  ASSUME Typed, Registered, NEW p \in Procs, First(p) \/ Stat(p)
  PROVE  Registered' /\ Stutter
<1>1. /\ op \in [Procs -> Processes] /\ op[p] \in Processes
      /\ fs' = fs /\ runs' = runs
  BY DEF Typed, TypeOK, First, Stat
<1>2. CASE End(p)
  BY <1>1, <1>2, EndRegistered DEF Stutter
<1>3. CASE ~End(p)
  <2> DEFINE m == fs.moves
  <2>1. PICK o : /\ op' = [op EXCEPT ![p] = o]
                 /\ \/ o = [op[p] EXCEPT !.pc = "stat", !.seen = fs.pointer]
                    \/ o = [op[p] EXCEPT !.pc = "second", !.mine = fs.pointer,
                                         !.stat = m]
    BY <1>3, ZenonT(60) DEF First, Stat
  <2>2. /\ o.pc \in {"stat", "second"} /\ o.action = op[p].action
        /\ o.path = op[p].path
    BY <1>1, <2>1 DEF Processes
  <2>3. op'[p] = o /\ Alike(p)
    BY <1>1, <2>1, OneStep, OthersAlike
  <2>4. Keeps(o, fs)
    BY <2>2 DEF Keeps
  <2> QED
    BY <1>1, <2>2, <2>3, <2>4, RegisteredFlow DEF Stutter, Early
<1> QED
  BY <1>2, <1>3

\* The renames.  Whoever waits outside the lock is about to make nothing that is
\* there.
LEMMA RenameRegistered ==
  ASSUME Typed, Excluded, Registered, NEW p \in Procs, NEW pointer, NEW custody,
         NEW next, Rename(p, pointer, custody, next), runs' = runs,
         op[p].pc \in {"move", "restore"}, Same(op[p], next),
         next.pc \in {"sync", "resync"},
         NewPointer(pointer)', \A r \in Runs : NewPointer(custody[r])',
         \A r \in Runs : custody[r] # None /\ fs.custody[r] = None => NewPlace(r)',
         \A r \in Runs : custody[r] # None =>
            /\ custody[r] # pointer
            /\ \A s \in Runs : custody[s] = custody[r] => s = r,
         next.pc = "sync" /\ next.action = "deactivate" =>
            pointer = None /\ custody[next.path] = next.mine /\ next.mine \in Pointers,
         next.pc = "sync" /\ next.action = "reactivate" =>
            /\ pointer = next.mine /\ custody[next.path] = None
            /\ next.mine \in Pointers /\ next.mine.previous = None
  PROVE  Registered'
<1>1. /\ fs'.pointer = pointer /\ fs'.custody = custody /\ op'[p] = next /\ Alike(p)
  BY RenameStep DEF Alike
<1>2. \A q \in Procs \ {p} : op[q].pc \notin Critical
  BY OnlyOne DEF Critical
<1>3. ASSUME NEW q \in Procs, NEW action, Makes(op'[q], action)
      PROVE  Makes(op[q], action) /\ op'[q].run = op[q].run
  BY <1>1, <1>3 DEF Makes, Alike, Same, Early
<1>4. ASSUME NEW r \in Runs, Used(r)' PROVE NewPlace(r)'
  <2>1. CASE Used(r)
    <3>1. NewPlace(r)
      BY <2>1 DEF Registered, Dated
    <3> QED
      BY <1>3, <3>1 DEF NewPlace
  <2>2. CASE ~Used(r)
    <3>1. custody[r] # None /\ fs.custody[r] = None
      BY <1>1, <1>4, <2>2 DEF Used, Is, Alike, Same
    <3> QED
      BY <3>1
  <2> QED
    BY <2>1, <2>2
<1>5. Dated'
  BY <1>1, <1>4 DEF Dated
<1>6. Apart'
  BY <1>1 DEF Apart
<1>7. ASSUME NEW q \in Procs PROVE Keeps(op'[q], fs')
  <2>1. CASE q = p
    BY <1>1, <2>1 DEF Keeps
  <2>2. CASE q # p
    <3>1. Keeps(op[q], fs) /\ op[q].pc \notin Critical
      BY <1>2, <2>2 DEF Registered
    <3> QED
      BY <1>1, <2>2, <3>1 DEF Keeps, Alike, Same, Critical
  <2> QED
    BY <2>1, <2>2
<1> QED
  BY <1>5, <1>6, <1>7 DEF Registered

\* A pointer or a place that was new stays new while nobody starts to make it.
LEMMA StillNew ==
  ASSUME Typed, NEW p \in Procs, NEW pointer, NEW custody, NEW next,
         Rename(p, pointer, custody, next), runs' = runs,
         next.pc \in {"sync", "resync"}
  PROVE  /\ \A x : NewPointer(x) => NewPointer(x)'
         /\ \A r : NewPlace(r) => NewPlace(r)'
<1>1. op'[p] = next /\ Alike(p)
  BY RenameStep DEF Alike
<1>2. ASSUME NEW q \in Procs, NEW action, Makes(op'[q], action)
      PROVE  Makes(op[q], action) /\ op'[q].run = op[q].run
  BY <1>1, <1>2 DEF Makes, Alike, Same, Early
<1> QED
  BY <1>2 DEF NewPointer, NewPlace

\* A selection.
LEMMA SelectRegistered ==
  ASSUME Typed, Excluded, Registered, NEW p \in Procs, Move(p), Is(p, "select")
  PROVE  Registered' /\ Register!Select
<1>1. PICK mine, custody, next :
        /\ mine = op[p].mine /\ custody = fs.custody
        /\ next = [op[p] EXCEPT !.pc = "sync"]
  OBVIOUS
<1>2. /\ op \in [Procs -> Processes] /\ op[p] \in Processes /\ runs' = runs
      /\ op[p].pc = "move" /\ Rename(p, mine, custody, next) /\ op[p].run \in Runs
      /\ custody \in [Runs -> Pointers \cup {None}]
      /\ \A q \in Procs : op[q].run \in Nat
  BY <1>1 DEF Typed, TypeOK, Move, At, Is, Equipped, Roots, Processes, Runs
<1>3. Same(op[p], next) /\ next.pc = "sync" /\ next.action = "select"
  BY <1>1, <1>2, MoveNext DEF Same, Is
<1>4. Keeps(op[p], fs) /\ mine \in Pointers /\ mine.at = op[p].run /\ mine # None
  BY <1>1, <1>2, NoPointerAssumption DEF Registered, Keeps, Is
<1>5. \A r \in Runs : custody[r] # None => custody[r] # mine
  <2>1. Makes(op[p], "select")
    BY <1>2 DEF Makes, Early, Is
  <2> QED
    BY <1>1, <1>4, <2>1 DEF Registered, Dated, NewPointer
<1>6. op'[p] = next /\ Alike(p) /\ fs'.pointer = mine /\ fs'.custody = custody
  BY <1>2, RenameStep DEF Alike
<1>7. NewPointer(mine)'
  <2>1. op[p].run <= runs
    BY DEF Excluded, Numbered
  <2>2. ASSUME NEW q \in Procs, Makes(op'[q], "select") PROVE op'[q].run # op[p].run
    <3>1. q # p
      BY <1>3, <1>6, <2>2 DEF Makes, Early
    <3>2. op'[q].run = op[q].run
      BY <1>6, <3>1 DEF Alike, Same
    <3>3. op[q].run # op[p].run
      BY <1>2, <3>1 DEF Excluded, Numbered, At
    <3> QED
      BY <3>2, <3>3
  <2> QED
    BY <1>2, <1>4, <2>1, <2>2 DEF NewPointer
<1>8. \A r \in Runs : NewPointer(custody[r])'
  <2>1. \A r \in Runs : NewPointer(custody[r])
    BY <1>1 DEF Registered, Dated
  <2> QED
    BY <1>2, <1>3, <2>1, StillNew
<1>9. Registered'
  <2>1. \A r \in Runs : custody[r] # None =>
          \A s \in Runs : custody[s] = custody[r] => s = r
    BY <1>1 DEF Registered, Apart
  <2>2. \A r \in Runs : ~(custody[r] # None /\ fs.custody[r] = None)
    BY <1>1
  <2> QED
    BY <1>2, <1>3, <1>5, <1>7, <1>8, <2>1, <2>2, RenameRegistered
<1>10. Register!Select
  BY <1>1, <1>2, <1>4, <1>6 DEF Register!Select, Keeps, Is, Pointers
<1> QED
  BY <1>9, <1>10

\* A pointer goes into a free place in custody.
LEMMA AwayRegistered ==
  ASSUME Typed, Excluded, Registered, NEW p \in Procs, NEW next, NEW path \in Runs,
         Rename(p, None, [fs.custody EXCEPT ![path] = fs.pointer], next), runs' = runs,
         op[p].pc \in {"move", "restore"}, Same(op[p], next), next.path = path,
         \/ next.pc = "sync" /\ Is(p, "deactivate")
         \/ next.pc = "resync",
         op[p].mine = fs.pointer, fs.pointer \in Pointers, fs.pointer.previous = None,
         fs.custody[path] = None, NewPlace(path)'
  PROVE  Registered' /\ Register!TakeAway
<1>0. PICK custody, pointer :
        custody = [fs.custody EXCEPT ![path] = fs.pointer] /\ pointer = fs.pointer
  OBVIOUS
<1>1. /\ fs.custody \in [Runs -> Pointers \cup {None}] /\ fs.pointer # None
  BY NoPointerAssumption DEF Typed, TypeOK, Roots
<1>2. \A r \in Runs : custody[r] = IF r = path THEN pointer ELSE fs.custody[r]
  BY <1>0, <1>1
<1>3. fs'.pointer = None /\ fs'.custody = custody
  BY <1>0, RenameStep
<1>4. Rename(p, None, custody, next)
  BY <1>0
<1>10. next.pc \in {"sync", "resync"}
  OBVIOUS
<1>5. /\ NewPointer(None)'
      /\ \A r \in Runs : NewPointer(custody[r])'
  <2>1. NewPointer(None) /\ \A r \in Runs : NewPointer(custody[r])
    BY <1>0, <1>2 DEF Registered, Dated, NewPointer
  <2> QED
    BY <1>4, <1>10, <2>1, StillNew
<1>6. \A r \in Runs : custody[r] # None =>
         /\ custody[r] # None
         /\ \A s \in Runs : custody[s] = custody[r] => s = r
  BY <1>0, <1>1, <1>2 DEF Registered, Apart
<1>7. custody[next.path] = next.mine /\ next.mine \in Pointers
  BY <1>0, <1>2 DEF Same
<1>8. \A r \in Runs : custody[r] # None /\ fs.custody[r] = None => NewPlace(r)'
  BY <1>2
<1>9. next.pc = "sync" => next.action = "deactivate"
  BY DEF Same, Is
<1>11. Registered'
  BY <1>4, <1>5, <1>6, <1>7, <1>8, <1>9, <1>10, RenameRegistered
<1>12. {custody[r] : r \in Runs} \ {None} = Shelf \cup {fs.pointer}
  BY <1>0, <1>1, <1>2 DEF Shelf
<1>13. Register!TakeAway
  BY <1>1, <1>3, <1>12 DEF Register!TakeAway, Shelf
<1> QED
  BY <1>11, <1>13

\* And comes back from there.
LEMMA BackRegistered ==
  ASSUME Typed, Excluded, Registered, NEW p \in Procs, NEW next, NEW path \in Runs,
         NEW pointer \in Pointers,
         Rename(p, pointer, [fs.custody EXCEPT ![path] = None], next), runs' = runs,
         op[p].pc \in {"move", "restore"}, Same(op[p], next), next.path = path,
         \/ next.pc = "sync" /\ Is(p, "reactivate")
         \/ next.pc = "resync",
         op[p].mine = pointer, fs.pointer = None, fs.custody[path] = pointer,
         next.pc = "sync" => pointer.previous = None
  PROVE  Registered' /\ Register!PutBack
<1>0. PICK custody : custody = [fs.custody EXCEPT ![path] = None]
  OBVIOUS
<1>1. /\ fs.custody \in [Runs -> Pointers \cup {None}] /\ pointer # None
  BY NoPointerAssumption DEF Typed, TypeOK, Roots
<1>2. \A r \in Runs : custody[r] = IF r = path THEN None ELSE fs.custody[r]
  BY <1>0, <1>1
<1>3. fs'.pointer = pointer /\ fs'.custody = custody
  BY <1>0, RenameStep
<1>4. Rename(p, pointer, custody, next)
  BY <1>0
<1>10. next.pc \in {"sync", "resync"}
  OBVIOUS
<1>5. /\ NewPointer(pointer)'
      /\ \A r \in Runs : NewPointer(custody[r])'
  <2>1. NewPointer(pointer) /\ \A r \in Runs : NewPointer(custody[r])
    BY <1>2 DEF Registered, Dated, NewPointer
  <2> QED
    BY <1>4, <1>10, <2>1, StillNew
<1>6. \A r \in Runs : custody[r] # None =>
         /\ custody[r] # pointer
         /\ \A s \in Runs : custody[s] = custody[r] => s = r
  BY <1>1, <1>2 DEF Registered, Apart
<1>7. custody[next.path] = None /\ next.mine = pointer
  BY <1>2 DEF Same
<1>8. \A r \in Runs : ~(custody[r] # None /\ fs.custody[r] = None)
  BY <1>1, <1>2
<1>9. next.pc = "sync" => next.action = "reactivate"
  BY DEF Same, Is
<1>11. Registered'
  BY <1>4, <1>5, <1>6, <1>7, <1>8, <1>9, <1>10, RenameRegistered
<1>12. {custody[r] : r \in Runs} \ {None} = Shelf \ {pointer} /\ pointer \in Shelf
  BY <1>1, <1>2 DEF Shelf, Registered, Apart
<1>13. Register!PutBack
  BY <1>3, <1>12 DEF Register!PutBack, Shelf
<1> QED
  BY <1>11, <1>13

LEMMA MoveRegistered ==
  ASSUME Typed, Excluded, Registered, NEW p \in Procs, Move(p)
  PROVE  Registered' /\ [Register!Next]_<<fs.pointer, Shelf>>
<1>1. PICK path, pointer, next :
        /\ path = op[p].path /\ pointer = op[p].mine
        /\ next = [op[p] EXCEPT !.pc = "sync"]
  OBVIOUS
<1>2. /\ op \in [Procs -> Processes] /\ op[p] \in Processes /\ runs' = runs
      /\ op[p].pc = "move" /\ Keeps(op[p], fs) /\ pointer \in Pointers
      /\ fs \in Roots /\ op[p].run \in Runs
      /\ op[p].action \in {"select", "deactivate", "reactivate"}
  BY <1>1 DEF Typed, TypeOK, Move, At, Is, Equipped, Registered, Keeps
<1>3. Same(op[p], next) /\ next.pc = "sync" /\ next.path = path
  BY <1>1, <1>2, MoveNext DEF Same
<1>4. CASE Is(p, "select")
  BY <1>4, SelectRegistered DEF Register!Next, Shelf
<1>5. CASE Is(p, "deactivate")
  <2>1. /\ path = op[p].run /\ fs.pointer = pointer /\ pointer.previous = None
        /\ path \in Runs
    BY <1>1, <1>2, <1>5 DEF Keeps, Is
  <2>2. Rename(p, None, [fs.custody EXCEPT ![path] = fs.pointer], next)
    BY <1>1, <1>5 DEF Move, Is
  <2>3. ~NewPlace(path)
    BY <1>2, <1>5, <2>1 DEF NewPlace, Makes, Early, Is
  <2>4. fs.custody[path] = None
    BY <2>1, <2>3 DEF Registered, Dated, Used
  <2>5. NewPlace(path)'
    <3>1. path <= runs /\ op'[p] = next /\ Alike(p)
      BY <1>1, <2>1, <2>2, RenameStep DEF Excluded, Numbered, Alike
    <3>2. ASSUME NEW q \in Procs, Makes(op'[q], "deactivate")
          PROVE  op'[q].run # path
      <4>1. q # p
        BY <1>3, <3>1, <3>2 DEF Makes, Early
      <4>2. op'[q].run = op[q].run
        BY <3>1, <4>1 DEF Alike, Same
      <4>3. op[q].run # op[p].run
        BY <1>2, <4>1 DEF Excluded, Numbered, At
      <4> QED
        BY <2>1, <4>2, <4>3
    <3> QED
      BY <1>2, <3>1, <3>2 DEF NewPlace
  <2>6. Registered' /\ Register!TakeAway
    BY <1>1, <1>2, <1>3, <1>5, <2>1, <2>2, <2>4, <2>5, AwayRegistered
  <2> QED
    BY <2>6 DEF Register!Next
<1>6. CASE Is(p, "reactivate")
  <2>1. /\ fs.pointer = None /\ fs.custody[path] = pointer /\ pointer.previous = None
        /\ path \in Runs
    BY <1>1, <1>2, <1>6 DEF Keeps, Is, Equipped, Typed
  <2>2. Rename(p, pointer, [fs.custody EXCEPT ![path] = None], next)
    BY <1>1, <1>6, <2>1 DEF Move, Is
  <2>3. Registered' /\ Register!PutBack
    BY <1>1, <1>2, <1>3, <1>6, <2>1, <2>2, BackRegistered
  <2> QED
    BY <2>3 DEF Register!Next
<1> QED
  BY <1>2, <1>4, <1>5, <1>6 DEF Is

LEMMA RestoreRegistered ==
  ASSUME Typed, Excluded, Registered, NEW p \in Procs, Restore(p)
  PROVE  Registered' /\ [Register!Next]_<<fs.pointer, Shelf>>
<1>1. PICK path, pointer, next :
        /\ path = op[p].path /\ pointer = op[p].mine
        /\ next = [op[p] EXCEPT !.pc = "resync"]
  OBVIOUS
<1>2. /\ op \in [Procs -> Processes] /\ op[p] \in Processes /\ runs' = runs
      /\ op[p].pc = "restore" /\ Keeps(op[p], fs) /\ Equipped(op[p])
  BY DEF Typed, TypeOK, Restore, At, Registered
<1>0. Is(p, "deactivate") \/ Is(p, "reactivate") => path \in Runs
  BY <1>1, <1>2 DEF Equipped, Is
<1>3. Same(op[p], next) /\ next.pc = "resync" /\ next.path = path
  BY <1>1, <1>2, MoveNext DEF Same
<1>4. CASE Is(p, "deactivate")
  <2>1. fs.pointer = None /\ fs.custody[path] = pointer /\ pointer \in Pointers
    BY <1>0, <1>1, <1>2, <1>4 DEF Keeps, Is
  <2>2. Rename(p, pointer, [fs.custody EXCEPT ![path] = None], next)
    BY <1>1, <1>4, <2>1, NoPointerAssumption DEF Restore, Misplaced, Is
  <2>3. Registered' /\ Register!PutBack
    BY <1>0, <1>1, <1>2, <1>3, <1>4, <2>1, <2>2, BackRegistered
  <2> QED
    BY <2>3 DEF Register!Next
<1>5. CASE Is(p, "reactivate")
  <2>1. /\ fs.pointer = pointer /\ fs.custody[path] = None /\ pointer \in Pointers
        /\ pointer.previous = None
    BY <1>0, <1>1, <1>2, <1>5 DEF Keeps, Is
  <2>2. Rename(p, None, [fs.custody EXCEPT ![path] = fs.pointer], next)
    BY <1>1, <1>5, <2>1, NoPointerAssumption DEF Restore, Misplaced, Is
  <2>3. NewPlace(path)
    BY <1>0, <1>1, <1>2, <1>5 DEF Registered, Dated, Used
  <2>4. NewPlace(path)'
    BY <1>2, <1>3, <2>2, <2>3, StillNew
  <2>5. Registered' /\ Register!TakeAway
    BY <1>0, <1>1, <1>2, <1>3, <1>5, <2>1, <2>2, <2>4, AwayRegistered
  <2> QED
    BY <2>5 DEF Register!Next
<1>6. CASE ~Is(p, "deactivate") /\ ~Is(p, "reactivate")
  <2>1. Goto(p, "resync") /\ Stutter
    BY <1>6 DEF Restore, Stutter
  <2> QED
    BY <1>2, <2>1, PassRegistered DEF Early, Stutter, Shelf
<1> QED
  BY <1>4, <1>5, <1>6

\* A file drifts, or a person removes the lock of a dead run.
LEMMA WorldRegistered ==
  ASSUME Typed, Registered, (\E c \in Commits : Drift(c)) \/ Recover \/ UNCHANGED vars
  PROVE  Registered' /\ Stutter
<1>1. op' = op /\ runs' = runs /\ fs \in Roots
  BY DEF Drift, Recover, vars, Typed, TypeOK
<1>2. Stutter
  BY <1>1 DEF Drift, Recover, vars, Stutter, Roots, Write
<1>3. \A x : NewPointer(x) => NewPointer(x)'
  BY <1>1 DEF NewPointer
<1>4. \A r : NewPlace(r) => NewPlace(r)'
  BY <1>1 DEF NewPlace
<1>5. Dated'
  BY <1>1, <1>2, <1>3, <1>4 DEF Registered, Dated, Used, Stutter, Is
<1>6. Apart' /\ \A p \in Procs : Keeps(op'[p], fs')
  BY <1>1, <1>2 DEF Registered, Apart, Keeps, Stutter
<1> QED
  BY <1>2, <1>5, <1>6 DEF Registered

LEMMA RegisteredNext ==
  ASSUME "power" \notin Events, "tamper" \notin Events
  PROVE  Typed /\ Excluded /\ Registered /\ [Next]_vars
            => Registered' /\ [Register!Next]_<<fs.pointer, Shelf>>
<1> SUFFICES ASSUME Typed, Excluded, Registered, [Next]_vars
             PROVE  Registered' /\ [Register!Next]_<<fs.pointer, Shelf>>
  OBVIOUS
<1>1. Stutter => [Register!Next]_<<fs.pointer, Shelf>>
  BY DEF Stutter, Shelf
<1>2. ASSUME NEW p \in Procs, Start(p)
      PROVE  Registered' /\ [Register!Next]_<<fs.pointer, Shelf>>
  <2>1. Stutter
    BY <1>2, StartStep DEF Stutter
  <2> QED
    BY <1>1, <1>2, <2>1, StartRegistered
<1>3. ASSUME NEW p \in Procs, Advance(p) \/ Crash(p)
      PROVE  Registered' /\ [Register!Next]_<<fs.pointer, Shelf>>
  <2>1. CASE \/ Look(p) \/ Lock(p) \/ LockHeld(p) \/ Build(p) \/ Publish(p)
             \/ MoveFails(p) \/ Sync(p) \/ Verify(p) \/ Resync(p) \/ Unlock(p)
             \/ Finish(p) \/ CleanUp(p) \/ Crash(p)
             \/ Second(p) \/ Last(p) \/ Report(p)
    BY <1>1, <2>1, FlowRegistered
  <2>2. CASE Check(p)
    <3>1. Stutter
      BY <2>2 DEF Check, Stutter
    <3> QED
      BY <1>1, <2>2, <3>1, CheckRegistered
  <2>3. CASE Move(p)
    BY <2>3, MoveRegistered
  <2>4. CASE Restore(p)
    BY <2>4, RestoreRegistered
  <2>5. CASE First(p) \/ Stat(p)
    BY <1>1, <2>5, ReadRegistered
  <2> QED
    BY <1>3, <2>1, <2>2, <2>3, <2>4, <2>5 DEF Advance
<1>4. ASSUME (\E c \in Commits : Drift(c)) \/ Recover \/ UNCHANGED vars
      PROVE  Registered' /\ [Register!Next]_<<fs.pointer, Shelf>>
  BY <1>1, <1>4, WorldRegistered
<1>5. ~PowerLoss /\ \A r \in Runs : ~Tamper(r)
  BY DEF PowerLoss, Tamper
<1> QED
  BY <1>2, <1>3, <1>4, <1>5 DEF Next

LEMMA RegisteredInit == Init => Registered /\ Register!Init
<1> SUFFICES ASSUME Init PROVE Registered /\ Register!Init
  OBVIOUS
<1>1. /\ fs.pointer = None /\ \A r \in Runs : fs.custody[r] = None
      /\ \A p \in Procs : op[p].pc = "idle" /\ op[p].action = "readback"
  BY DEF Init, Idle
<1>2. Dated
  BY <1>1 DEF Dated, NewPointer, Used, Is
<1>3. Apart /\ \A p \in Procs : Keeps(op[p], fs)
  BY <1>1 DEF Apart, Keeps
<1> QED
  BY <1>1, <1>2, <1>3 DEF Registered, Register!Init

(***************************************************************************)
(* SelectorIsARegister: the script implements the atomic register, with    *)
(* any number of processes, runs, crashes, failing file operations,        *)
(* drifting releases and recovered locks.  Power losses may bring an old   *)
(* selector back and an edited custody file is not what was put there, so  *)
(* these two are excluded, as they are from the run that checks it.        *)
(***************************************************************************)
THEOREM SelectorIsARegister ==
  ASSUME "power" \notin Events, "tamper" \notin Events
  PROVE  Spec => ImplementsRegister
<1>1. Init => Typed /\ Excluded /\ Registered /\ Register!Init
  BY InitType, RegisteredInit, InitExcludes
<1>2. Typed /\ Excluded /\ Registered /\ [Next]_vars
        => (Typed /\ Excluded /\ Registered)' /\ [Register!Next]_<<fs.pointer, Shelf>>
  BY TypeStep, ExclusionStep, RegisteredNext
<1> QED
  BY <1>1, <1>2, PTL DEF Spec, ImplementsRegister, Register!Spec, Shelf
==============================================================================
