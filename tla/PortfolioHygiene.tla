-------------------------- MODULE PortfolioHygiene --------------------------
(***************************************************************************)
(* What the Notion hygiene pass decides for one GitHub repository          *)
(* (src/internal/notion-maintenance/notion-hygiene-pass.ts): which local   *)
(* project is its canonical one and which copies are archived, which row   *)
(* of External Signal Sources is its canonical one, how that is repaired   *)
(* and which rows are paused.  The plan is carried out as a whole here;    *)
(* approvals, comparisons and failing calls are in IrreversibleActions.    *)
(***************************************************************************)
EXTENDS Integers, FiniteSets

CONSTANTS
    Locals, Intakes, Sources,  \* pages
    Created,                   \* [Locals \cup Sources -> Int], creation times
    StartLocals, StartIntakes, StartSources, \* the workspaces to start from
    MaxPasses                  \* bound: passes of a behaviour

\* Titles of projects: the display name, with a qualifier or a legacy one,
\* and a title of EXISTING_PROJECT_ALIASES.
ProjectTitles == {"Name", "Name (Extra)", "Name (Legacy)", "Alias"}
Qualified == {"Name (Extra)", "Name (Legacy)"}
Legacy == {"Name (Legacy)"}
ProjectKey(t) == IF t = "Alias" THEN "alias" ELSE "name"

\* Titles of sources: a project's title with the suffix " - GitHub Repo" or
\* without, or owner/name.
SourceTitles == (ProjectTitles \X {"suffix", "plain"}) \cup {<<"owner/name", "raw">>}
Suffixed(t) == <<t, "suffix">>

\* "variant" differs from the repository's identifier only by case.
Identifiers == {"none", "variant", "identifier"}

VARIABLES
    locals,   \* [Locals -> records]; rich is the score of its contents
    intakes,  \* [Intakes -> ProjectTitles]
    sources,  \* [Sources -> records]; url: it is the repository's
    trash,    \* archived pages
    passes,
    kept      \* history: the canonical project of the last pass

vars == <<locals, intakes, sources, trash, passes, kept>>

LocalRows  == [title : ProjectTitles, rich : Nat]
SourceRows == [ title : SourceTitles, identifier : Identifiers,
                project : SUBSET Locals, status : {"Active", "Paused"},
                url : BOOLEAN ]

------------------------------------------------------------------------------
\* Every title above is among the candidates for a project; a source needs
\* the repository's name or its identifier.
LocalMatches  == Locals \ trash
IntakeMatches == Intakes \ trash
SourceMatches ==
    {s \in Sources : \/ sources[s].title[1] # "Alias"
                     \/ sources[s].identifier # "none"}

If(condition, points) == IF condition THEN points ELSE 0

\* The page with the highest score, of several the one created first.
Best(score) ==
    CHOOSE x \in DOMAIN score : \A y \in DOMAIN score \ {x} :
        \/ score[x] > score[y]
        \/ score[x] = score[y] /\ Created[x] < Created[y]

LocalScore(x) ==
    LET t == locals[x].title IN
      If(ProjectKey(t) = "name", 100) + If(t \notin Qualified, 40)
    - If(t \in Legacy, 200) - If(t \in Qualified \ Legacy, 120)
    + If(\E s \in SourceMatches : x \in sources[s].project, 250)
    + If(\E i \in IntakeMatches : ProjectKey(intakes[i]) = ProjectKey(t), 20)
    + locals[x].rich

CanonicalLocal == Best([x \in LocalMatches |-> LocalScore(x)])

\* shouldArchiveProjectDuplicate
ArchivesAnyTitle(t, canonical) == TRUE
Archives(t, canonical) ==
    /\ ProjectKey(t) = ProjectKey(canonical)
    /\ t \notin Qualified \ Legacy
    /\ t \in Legacy \/ (t \notin Qualified /\ canonical \notin Qualified)

Preferred == Suffixed(locals[CanonicalLocal].title)

SourceScore(s) ==
    LET r == sources[s] IN
      If(r.identifier # "none", 250) + If(CanonicalLocal \in r.project, 120)
    + If(r.status = "Active", 50) + If(r.url, 25)
    - If(r.title[1] \in Legacy, 200) - If(r.title[2] = "raw", 120)
    + If(r.title[2] = "suffix", 40)

\* The first row that has the preferred title, or the best one.
CanonicalSource ==
    LET named == {s \in SourceMatches : sources[s].title = Preferred}
    IN  IF named # {} THEN CHOOSE s \in named : \A x \in named : Created[s] <= Created[x]
        ELSE Best([s \in SourceMatches |-> SourceScore(s)])

\* determineCanonicalSourceTitle
CanonicalTitle ==
    LET t == sources[CanonicalSource].title
    IN  IF t[1] \in Legacy \/ t[2] = "raw" THEN Preferred ELSE t

\* shouldPauseSourceDuplicate
PausesUnsuffixed(s) ==
    /\ sources[s].status # "Paused" /\ sources[s].title[2] # "plain"
Pauses(s) ==
    /\ sources[s].status # "Paused"
    /\ \/ sources[s].identifier # "none"
       \/ sources[s].title[1] \in Legacy \/ sources[s].title[2] \in {"raw", "suffix"}

\* canonicalSourceProperties
RepairedUnlinked(r) == [r EXCEPT !.title = CanonicalTitle, !.identifier = "identifier",
                                 !.status = "Active", !.url = TRUE]
Repaired(r) == [r EXCEPT !.title = CanonicalTitle, !.identifier = "identifier",
                         !.project = {CanonicalLocal}, !.status = "Active", !.url = TRUE]

\* sourceNeedsUpdate: other projects it also refers to are no reason.
NeedsUpdate(s) ==
    LET r == sources[s] IN
    ~ /\ r.title = CanonicalTitle /\ r.identifier = "identifier"
      /\ CanonicalLocal \in r.project /\ r.status = "Active" /\ r.url

DuplicateLocals ==
    {x \in LocalMatches \ {CanonicalLocal} :
        Archives(locals[x].title, locals[CanonicalLocal].title)}
DuplicateIntakes ==
    {i \in IntakeMatches : Archives(intakes[i], locals[CanonicalLocal].title)}
DuplicateSources ==
    IF SourceMatches = {} THEN {}
    ELSE {s \in SourceMatches \ {CanonicalSource} : Pauses(s)}
Repairs ==
    IF SourceMatches = {} THEN {}
    ELSE {s \in {CanonicalSource} : NeedsUpdate(s)}

Nothing ==
    DuplicateLocals \cup DuplicateIntakes \cup DuplicateSources \cup Repairs = {}

------------------------------------------------------------------------------
Init ==
    /\ locals \in StartLocals
    /\ intakes \in StartIntakes
    /\ sources \in StartSources
    /\ trash = {} /\ passes = 0 /\ kept = CanonicalLocal

Pass ==
    /\ passes < MaxPasses
    /\ passes' = passes + 1 /\ kept' = CanonicalLocal
    /\ trash' = trash \cup DuplicateLocals \cup DuplicateIntakes
    /\ sources' = [s \in Sources |->
          CASE s \in Repairs -> Repaired(sources[s])
            [] s \in DuplicateSources -> [sources[s] EXCEPT !.status = "Paused"]
            [] OTHER -> sources[s]]
    /\ UNCHANGED <<locals, intakes>>

Next == Pass

Spec == Init /\ [][Next]_vars

------------------------------------------------------------------------------
(***************************************************************************)
(* Settles: a second pass finds nothing to do unless the first tipped the  *)
(* choice of the canonical project (an archived intake row no longer adds  *)
(* to the score of the projects with its title), and a third never does.   *)
(***************************************************************************)
Settles ==
    passes > 1 \/ (passes = 1 /\ kept = CanonicalLocal) => Nothing

(***************************************************************************)
(* OneOwner: after a pass one row with the repository's identifier is      *)
(* active, and it refers to the project kept by the pass, which is not in  *)
(* the trash.                                                              *)
(***************************************************************************)
OneOwner ==
    passes > 0 /\ SourceMatches # {} =>
        /\ kept \notin trash
        /\ \E s \in SourceMatches :
            /\ sources[s].identifier = "identifier" /\ sources[s].status = "Active"
            /\ kept \in sources[s].project
            /\ \A x \in SourceMatches \ {s} :
                 sources[x].identifier # "none" => sources[x].status = "Paused"

(***************************************************************************)
(* TwinsOnly: a project is archived only while one that stays has the same *)
(* normalized title.                                                       *)
(***************************************************************************)
TwinsOnly ==
    \A x \in Locals \cap trash :
        \E y \in Locals \ trash :
            ProjectKey(locals[y].title) = ProjectKey(locals[x].title)
=============================================================================
