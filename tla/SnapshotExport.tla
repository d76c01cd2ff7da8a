--------------------------- MODULE SnapshotExport ----------------------------
(***************************************************************************)
(* The project snapshot that other systems read (export-project-snapshot): *)
(* the command makes sure that it runs from the selected and intact        *)
(* runtime generation (runtime-generation.ts), reads a pinned config, the  *)
(* project pages and the portfolio generation that the repository auditor  *)
(* selected (portfolio-generation-reader.ts), and replaces the snapshot    *)
(* file (writeJsonAtomically).                                             *)
(*                                                                         *)
(* Meanwhile operators select other runtimes, the auditor publishes and    *)
(* prunes generations, files rot, people edit pages, commands save the     *)
(* config, a run may die and the machine may lose power.  SHA-256 is a     *)
(* content's identity: a file is "whole" as it was recorded or it is not.  *)
(***************************************************************************)
EXTENDS Integers, Sequences, FiniteSetsExt, Functions

CONSTANTS
    Runtimes,       \* releases/<commit> of this program; all were staged
    Checkout,       \* the development checkout, no release
    Generations,    \* portfolio generations
    Says,           \* what each says: a sequence of [title, state] records
    Pages,          \* the project pages: a sequence of [title, asks] records,
                    \* asks: does the page ask for attention?
    Launches,       \* how a run may be started, see Idle
    Exporters,      \* runs of the command
    None,
    MaxChanges      \* bound: what else happens in a behaviour

Attending == {"active-product", "active-infra", "decision-needed"}

VARIABLES
    runtime,    \* [current, whole]: current.json and the intact releases
    auditor,    \* [current, kept, whole]: its pointer, the generations on
                \* disk, and those whose files are as recorded
    config,     \* the content of the control-tower config
    run,        \* the runs
    file,       \* the snapshot file, None before there is one
    past,       \* what a power loss may bring back in its place
    renames,    \* history: runs in the order their renames took effect
    changes     \* counts everything that is not a run's own step

vars == <<runtime, auditor, config, run, file, past, renames, changes>>

\* A run is started from a release, with the digests of its manifest and of
\* the config that its launcher pinned (pin None: no config), or from the
\* checkout with or without the opt-in.  selected and named are history:
\* what either pointer named since it started.
Idle == [ pc |-> "idle", from |-> None, optIn |-> FALSE, pin |-> None, seen |-> 0,
          generation |-> None, states |-> <<>>, selected |-> {}, named |-> {},
          synced |-> FALSE ]

Init ==
    /\ \E c \in Runtimes : runtime = [current |-> c, whole |-> Runtimes]
    /\ \E g \in Generations \cup {None} :
         auditor = [current |-> g, kept |-> {g} \ {None}, whole |-> Generations]
    /\ config = 0
    /\ run = [r \in Exporters |-> Idle]
    /\ file = None /\ past = {} /\ renames = <<>> /\ changes = 0

------------------------------------------------------------------------------
At(r, pc) == run[r].pc = pc
Set(r, next) == run' = [run EXCEPT ![r] = next]
Goto(r, pc) == Set(r, [run[r] EXCEPT !.pc = pc])
End(r, pc) == Set(r, [Idle EXCEPT !.pc = pc])
Refuse(r) == End(r, "refused")
Pass(r, test, pc) == IF test THEN Goto(r, pc) ELSE Refuse(r)
Running(r) == run[r].pc \notin {"idle", "refused", "failed", "dead", "completed"}
Change == changes < MaxChanges /\ changes' = changes + 1
World == <<runtime, auditor, config, changes>>
Disk == <<file, past, renames>>

Start(r) ==
    /\ At(r, "idle")
    /\ IF \E other \in Exporters : Running(other) THEN Change ELSE UNCHANGED changes
    /\ \E launch \in Launches :
         Set(r, [Idle EXCEPT !.pc = "manifest", !.from = launch.from, !.pin = launch.pin,
                             !.optIn = launch.optIn, !.selected = {runtime.current},
                             !.named = {auditor.current}])
    /\ UNCHANGED <<runtime, auditor, config, Disk>>

\* The checkout runs by opt-in only; a release needs the manifest it was
\* launched with, unchanged, at the place of its commit.
Manifest(r) ==
    /\ At(r, "manifest")
    /\ IF run[r].from = Checkout
       THEN Pass(r, run[r].optIn, "config")
       ELSE Pass(r, run[r].from \in runtime.whole, "pointer")
    /\ UNCHANGED <<World, Disk>>

\* The release is the one that current.json selects.
IsCurrent(r) == runtime.current = run[r].from

Pointer(r) ==
    /\ At(r, "pointer")
    /\ Pass(r, IsCurrent(r), "release")
    /\ UNCHANGED <<World, Disk>>

\* Every file of the release, and no other, is as the manifest records it.
Release(r) ==
    /\ At(r, "release")
    /\ Pass(r, run[r].from \in runtime.whole, "config")
    /\ UNCHANGED <<World, Disk>>

\* A release needs a pinned config, and a pin must match.
Config(r) ==
    /\ At(r, "config")
    /\ Pass(r, run[r].pin = config \/ (run[r].pin = None /\ run[r].from = Checkout), "pages")
    /\ UNCHANGED <<World, Disk>>

\* The pages are fetched by the hundred; one request each here.
Fetch(r) ==
    /\ At(r, "pages")
    /\ Set(r, [run[r] EXCEPT !.seen = @ + 1,
                             !.pc = IF run[r].seen + 1 = Len(Pages) THEN "truth" ELSE @])
    /\ UNCHANGED <<World, Disk>>

------------------------------------------------------------------------------
\* readPortfolioTruth: without a pointer there is only the legacy file, which
\* the export does not take.
NoTruth(r) == At(r, "truth") /\ auditor.current = None
              /\ Refuse(r) /\ UNCHANGED <<World, Disk>>
TruthPointer(r) ==
    /\ At(r, "truth") /\ auditor.current # None
    /\ Set(r, [run[r] EXCEPT !.pc = "artifacts", !.generation = auditor.current])
    /\ UNCHANGED <<World, Disk>>

\* byTitle: of two projects with one name the later counts.
ByTitle(list) ==
    [ t \in {list[i].title : i \in DOMAIN list} |->
        list[Max({i \in DOMAIN list : list[i].title = t})].state ]

\* The generation's directory, manifest and every JSON artifact are read and
\* compared with the digests that hang from the pointer.
IsIntact(g) == g \in auditor.kept /\ g \in auditor.whole

Artifacts(r) ==
    LET g == run[r].generation IN
    /\ At(r, "artifacts")
    /\ IF IsIntact(g)
       THEN Set(r, [run[r] EXCEPT !.pc = "open", !.states = ByTitle(Says[g])])
       ELSE Refuse(r)
    /\ UNCHANGED <<World, Disk>>

------------------------------------------------------------------------------
\* toSnapshotEntry: the auditor's classification decides, the page advises.
Status(wants, state) ==
    CASE state = None -> "authority_unavailable"
      [] state # None /\ wants # (state \in Attending) -> "contradiction"
      [] OTHER -> "aligned"

Entry(r, page) ==
    LET states == run[r].states
        state == IF page.title \in DOMAIN states THEN states[page.title] ELSE None IN
    [title |-> page.title, state |-> state, status |-> Status(page.asks, state)]

\* buildProjectSnapshot, with the receipts it carries; whole is FALSE for the
\* empty or half-written file that unsynced bytes may leave.  The run that
\* wrote it is history.
Snapshot(r) ==
    [ by |-> r, run |-> [run[r] EXCEPT !.states = <<>>], generation |-> run[r].generation,
      entries |-> [i \in 1 .. run[r].seen |-> Entry(r, Pages[i])], whole |-> TRUE ]

\* writeJsonAtomically: a temporary file of its own is written and synced ...
SyncSkipped(r) ==
    /\ At(r, "open") /\ Goto(r, "rename") /\ UNCHANGED <<World, Disk>>

Sync(r) ==
    /\ At(r, "open")
    /\ Set(r, [run[r] EXCEPT !.pc = "rename", !.synced = TRUE])
    /\ UNCHANGED <<World, Disk>>

\* ... renamed over the snapshot, and the directory is synced.
Rename(r) ==
    /\ At(r, "rename")
    /\ file' = Snapshot(r)
    /\ past' = past \cup {file} \cup
               (IF run[r].synced THEN {} ELSE {[Snapshot(r) EXCEPT !.whole = FALSE]})
    /\ renames' = Append(renames, r)
    /\ Goto(r, "directory")
    /\ UNCHANGED World

SyncDirectory(r) ==
    /\ At(r, "directory")
    /\ past' = {}
    /\ End(r, "completed")
    /\ UNCHANGED <<World, file, renames>>

\* Reading Notion, or a file operation, fails: the temporary file is removed
\* and the command ends with an error, also when the rename took effect.
Fails(r) ==
    /\ run[r].pc \in {"pages", "open", "rename", "directory"}
    /\ End(r, "failed")
    /\ UNCHANGED <<World, Disk>>

------------------------------------------------------------------------------
Noting(c, g) ==
    run' = [r \in Exporters |-> IF Running(r)
                           THEN [run[r] EXCEPT !.selected = @ \cup {c}, !.named = @ \cup {g}]
                           ELSE run[r]]

\* select
Selects(c) ==
    /\ Change /\ c # runtime.current
    /\ runtime' = [runtime EXCEPT !.current = c]
    /\ Noting(c, auditor.current)
    /\ UNCHANGED <<auditor, config, Disk>>
Rots(c) ==
    /\ Change
    /\ runtime' = [runtime EXCEPT !.whole = @ \ {c}]
    /\ UNCHANGED <<auditor, config, run, Disk>>

\* The auditor publishes a generation or goes back to one it kept, and drops
\* what its pointer no longer names; a file of a generation rots.
Publishes(g) ==
    /\ Change /\ g # auditor.current
    /\ auditor' = [auditor EXCEPT !.current = g,
                                  !.kept = {g, auditor.current} \ {None}]
    /\ Noting(runtime.current, g)
    /\ UNCHANGED <<runtime, config, Disk>>
ArtifactRots(g) ==
    /\ Change /\ g \in auditor.kept
    /\ auditor' = [auditor EXCEPT !.whole = @ \ {g}]
    /\ UNCHANGED <<runtime, config, run, Disk>>

Saves ==
    /\ Change /\ config' = config + 1
    /\ UNCHANGED <<runtime, auditor, run, Disk>>
Dies(r) ==
    /\ Change /\ Running(r) /\ End(r, "dead")
    /\ UNCHANGED <<runtime, auditor, config, Disk>>

\* Whatever runs is gone, and the directory is as it was or as it had been
\* since it was synced.
PowerLoss ==
    /\ Change
    /\ file' \in {file} \cup past
    /\ past' = {}
    /\ run' = [r \in Exporters |-> IF Running(r) THEN [Idle EXCEPT !.pc = "dead"] ELSE run[r]]
    /\ UNCHANGED <<runtime, auditor, config, renames>>

Next ==
    \/ \E r \in Exporters :
         \/ Start(r) \/ Manifest(r) \/ Pointer(r) \/ Release(r) \/ Config(r)
         \/ Fetch(r) \/ NoTruth(r) \/ TruthPointer(r) \/ Artifacts(r)
         \/ Sync(r) \/ Rename(r) \/ SyncDirectory(r) \/ Fails(r) \/ Dies(r)
    \/ \E c \in Runtimes : Selects(c) \/ Rots(c)
    \/ \E g \in Generations : Publishes(g) \/ ArtifactRots(g)
    \/ Saves \/ PowerLoss

Spec == Init /\ [][Next]_vars

------------------------------------------------------------------------------
(***************************************************************************)
(* TypeOK: a run that holds a generation's states is past reading them.    *)
(***************************************************************************)
TypeOK ==
    /\ runtime.current \in Runtimes
    /\ auditor.kept \subseteq Generations
    /\ file = None \/ file.by \in Exporters
    /\ \A r \in Exporters : run[r].from \in Runtimes \cup {None, Checkout}

(***************************************************************************)
(* ExportedBySelected: a snapshot comes from a release that was selected   *)
(* while the run made sure of it, whatever was selected before and since   *)
(* (assertCurrentPointer), or from the checkout by somebody's opt-in.      *)
(***************************************************************************)
ExportedBySelected ==
    file # None =>
        IF file.run.from = Checkout THEN file.run.optIn
        ELSE file.run.from \in file.run.selected /\ file.run.pin # None

(***************************************************************************)
(* OneTruth: every state in a snapshot is what the one generation on its   *)
(* receipt says of that title, and the auditor's pointer named that        *)
(* generation while the run was reading; an entry claims no authority it   *)
(* has not got (readPortfolioTruth, toSnapshotEntry).                      *)
(***************************************************************************)
OneTruth ==
    file # None =>
        /\ file.generation \in file.run.named \ {None}
        /\ \A e \in Range(file.entries) :
             LET says == Says[file.generation]
                 said == {i \in DOMAIN says : says[i].title = e.title} IN
             IF said = {} THEN e.status = "authority_unavailable"
             ELSE e.state = says[Max(said)].state /\ e.status \in {"aligned", "contradiction"}

(***************************************************************************)
(* SnapshotIsWhole: at any moment, and after a power loss, the path holds  *)
(* a complete snapshot with all the pages, or none (writeJsonAtomically).  *)
(***************************************************************************)
SnapshotIsWhole ==
    file # None => file.whole /\ Len(file.entries) = Len(Pages)

(***************************************************************************)
(* ReportedStays: after a run has reported completion the snapshot is its  *)
(* own or one that was renamed later; no power loss brings back an older.  *)
(***************************************************************************)
ReportedStays ==
    \A r \in Exporters :
        At(r, "completed") =>
            /\ file # None
            /\ \E i, j \in DOMAIN renames :
                 renames[i] = r /\ renames[j] = file.by /\ i <= j

\* SnapshotsStand: what the path holds is authorised, true, whole and lasting.
SnapshotsStand ==
    ExportedBySelected /\ OneTruth /\ SnapshotIsWhole /\ ReportedStays
=============================================================================
