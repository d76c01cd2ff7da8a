----------------------------- MODULE ProjectRows -----------------------------
(***************************************************************************)
(* How project rows come to be: the catch-up with GitHub, which gives each *)
(* repository a project page, a source page that maps the repository to    *)
(* it, and a seed in the file of manual seeds (github-notion-catch-up);    *)
(* and the creation of rows for titles of the portfolio truth              *)
(* (create-local-project-rows-from-truth).                                 *)
(*                                                                         *)
(* Both plan from pages they read at their start and then write page by    *)
(* page, one request after the other.  Runs overlap and die between any    *)
(* two requests, and people rename projects meanwhile.                     *)
(***************************************************************************)
EXTENDS Integers, Sequences, SequencesExt

CONSTANTS
    Repos,          \* the owner's repositories, neither archived nor forks
    DisplayName,    \* the title that catch-up gives the project of each
    KnownAs,        \* the titles that it takes for the repository's project
    Orders,         \* commands, see CatchUp and FromTruth
    Truth,          \* the titles of the portfolio truth
    StartPages,     \* the pages there may be at first
    NewTitles,      \* what people rename projects to
    Runners,
    None,
    MaxRuns, MaxRenames, MaxDeaths   \* bounds

CatchUp(list)     == [kind |-> "catchUp", list |-> list]
FromTruth(titles) == [kind |-> "truth", list |-> titles]

VARIABLES
    pages,      \* of each database, "project" or "source", its pages in order:
                \* title, the repository in its properties (None while bare)
                \* and in its body, the project it links to, and who made it
    seeds,      \* the seed file: repository -> project page
    run,        \* the runs
    starts,     \* counts the runs
    renames, deaths,    \* count those
    overlap     \* history: have two runs overlapped?

vars == <<pages, seeds, run, starts, renames, deaths, overlap>>

Databases == {"project", "source"}
SourceTitle(repo) == <<DisplayName[repo], "source">>

Idle == [ pc |-> "idle", order |-> None, sees |-> [d \in Databases |-> <<>>], file |-> <<>>,
          left |-> <<>>, at |-> None, page |-> None, project |-> None, done |-> <<>> ]

Init ==
    /\ pages \in StartPages /\ seeds = <<>>
    /\ run = [r \in Runners |-> Idle]
    /\ starts = 0 /\ renames = 0 /\ deaths = 0 /\ overlap = FALSE

------------------------------------------------------------------------------
Ended == {"idle", "refused", "dead", "finished"}
Running(r) == run[r].pc \notin Ended
Set(r, next) == run' = [run EXCEPT ![r] = next]
Finish(r) == [Idle EXCEPT !.pc = "finished", !.order = run[r].order]
World == <<starts, renames, deaths, overlap>>

Start(r) ==
    /\ ~Running(r) /\ starts < MaxRuns /\ starts' = starts + 1
    /\ overlap' = (overlap \/ \E other \in Runners \ {r} : Running(other))
    /\ \E order \in Orders : Set(r, [Idle EXCEPT !.pc = "read", !.order = order])
    /\ UNCHANGED <<pages, seeds, renames, deaths>>

(***************************************************************************)
(* buildRepoPlans.  The first page that fits is the repository's; what has *)
(* both its pages is left alone.                                           *)
(***************************************************************************)
IsProjectOf(repo, page) == page.title \in KnownAs[repo]
IsSourceOf(repo, page)  == page.title = SourceTitle(repo) \/ page.repo = repo
Fits(d, repo, page) ==
    IF d = "project" THEN IsProjectOf(repo, page) ELSE IsSourceOf(repo, page)
FirstMatch(list, d, repo) ==
    LET i == SelectInSeq(list, LAMBDA page : Fits(d, repo, page)) IN
    IF i = 0 THEN None ELSE i

Lacks(sees, repo) == \E d \in Databases : FirstMatch(sees[d], d, repo) = None

ReadsForCatchUp(r) ==
    /\ run[r].pc = "read" /\ run[r].order.kind = "catchUp"
    /\ LET todo == SelectSeq(run[r].order.list, LAMBDA repo : Lacks(pages, repo)) IN
       Set(r, IF todo = <<>> THEN Finish(r)
              ELSE [run[r] EXCEPT !.pc = "next", !.sees = pages, !.file = seeds, !.left = todo])
    /\ UNCHANGED <<World, pages, seeds>>

------------------------------------------------------------------------------
\* The next repository's project: written unless there was one.
Repo(r) == Head(run[r].left)
NextRepo(r) ==
    LET known == FirstMatch(run[r].sees["project"], "project", Repo(r)) IN
    /\ run[r].pc = "next"
    /\ IF known = None
       THEN Set(r, [run[r] EXCEPT !.pc = "lookUp", !.at = "project"])
       ELSE Set(r, [run[r] EXCEPT !.pc = "source", !.project = known])
    /\ UNCHANGED <<World, pages, seeds>>

\* upsertOrRepairSource: the row that was found is pointed at the project.
Source(r) ==
    LET known == FirstMatch(run[r].sees["source"], "source", Repo(r)) IN
    /\ run[r].pc = "source"
    /\ Set(r, [run[r] EXCEPT !.at = "source", !.page = known,
                             !.pc = IF known = None THEN "lookUp" ELSE "rewrite"])
    /\ UNCHANGED <<World, pages, seeds>>

Title(r) == IF run[r].at = "project" THEN DisplayName[Repo(r)] ELSE SourceTitle(Repo(r))

\* upsertPageByTitle: any page with exactly this title is the one ...
LookUp(r) ==
    LET list  == pages[run[r].at]
        found == {i \in DOMAIN list : list[i].title = Title(r)} IN
    /\ run[r].pc = "lookUp"
    /\ IF found = {} THEN Set(r, [run[r] EXCEPT !.pc = "create"])
       ELSE \E i \in found : Set(r, [run[r] EXCEPT !.pc = "rewrite", !.page = i])
    /\ UNCHANGED <<World, pages, seeds>>

\* ... a new page gets title and body, then its properties in a second
\* request; an old one its properties, then its body.
Linked(r) == IF run[r].at = "source" THEN run[r].project ELSE None
Updated(r, field, value) ==
    [pages EXCEPT ![run[r].at] = [@ EXCEPT ![run[r].page] = [@ EXCEPT ![field] = value]]]
Described(r) ==
    [pages EXCEPT ![run[r].at] = [@ EXCEPT ![run[r].page] =
        [@ EXCEPT !.title = Title(r), !.repo = Repo(r), !.link = Linked(r)]]]

Create(r) ==
    /\ run[r].pc = "create"
    /\ pages' = [pages EXCEPT ![run[r].at] = Append(@,
            [title |-> Title(r), repo |-> None, body |-> Repo(r), link |-> None,
             by |-> "catchUp"])]
    /\ Set(r, [run[r] EXCEPT !.pc = "describe", !.page = Len(pages[run[r].at]) + 1])
    /\ UNCHANGED <<World, seeds>>

\* After its project a repository's source is written; after that its seed
\* is noted and the next repository is due.
Onward(r) ==
    IF run[r].at = "project"
    THEN [run[r] EXCEPT !.pc = "source", !.project = run[r].page]
    ELSE [run[r] EXCEPT !.pc = IF Len(run[r].left) = 1 THEN "seeds" ELSE "next",
                        !.done = Append(@, [repo |-> Repo(r), project |-> run[r].project]),
                        !.left = Tail(@), !.page = None]

Describe(r) ==
    /\ run[r].pc = "describe"
    /\ pages' = Described(r) /\ Set(r, Onward(r))
    /\ UNCHANGED <<World, seeds>>

Rewrite(r) ==
    /\ run[r].pc = "rewrite"
    /\ pages' = Described(r) /\ Set(r, [run[r] EXCEPT !.pc = "body"])
    /\ UNCHANGED <<World, seeds>>

Body(r) ==
    /\ run[r].pc = "body"
    /\ pages' = Updated(r, "body", Repo(r)) /\ Set(r, Onward(r))
    /\ UNCHANGED <<World, seeds>>

SeededAnew(file, done) ==
    [x \in {seed.repo : seed \in ToSet(done)} |->
        (CHOOSE seed \in ToSet(done) : seed.repo = x).project]

\* syncManualSeeds: the file of the run's start, with the seeds it noted.
Seeded(file, done) ==
    FoldLeft(LAMBDA acc, seed : [x \in DOMAIN acc \cup {seed.repo} |->
                                    IF x = seed.repo THEN seed.project ELSE acc[x]],
             file, done)
SaveSeeds(r) ==
    /\ run[r].pc = "seeds"
    /\ seeds' = Seeded(run[r].file, run[r].done)
    /\ Set(r, Finish(r))
    /\ UNCHANGED <<World, pages>>

------------------------------------------------------------------------------
(***************************************************************************)
(* From the truth: every title must be one of its; the titles without a    *)
(* page get one, whole in a single request.                                *)
(***************************************************************************)
Missing(r, title) == \A i \in DOMAIN pages["project"] : pages["project"][i].title # title

ReadsTitles(r) ==
    LET asked == run[r].order.list
        todo  == SelectSeq(asked, LAMBDA title : Missing(r, title)) IN
    /\ run[r].pc = "read" /\ run[r].order.kind = "truth"
    /\ Set(r, CASE ~(ToSet(asked) \subseteq Truth) -> [Idle EXCEPT !.pc = "refused"]
                [] ToSet(asked) \subseteq Truth /\ todo = <<>> -> Finish(r)
                [] OTHER -> [run[r] EXCEPT !.pc = "row", !.left = todo])
    /\ UNCHANGED <<World, pages, seeds>>

CreateRow(r) ==
    /\ run[r].pc = "row"
    /\ pages' = [pages EXCEPT !["project"] = Append(@,
            [title |-> Head(run[r].left), repo |-> None, body |-> "truth", link |-> None,
             by |-> "truth"])]
    /\ Set(r, IF Len(run[r].left) = 1 THEN Finish(r) ELSE [run[r] EXCEPT !.left = Tail(@)])
    /\ UNCHANGED <<World, seeds>>

------------------------------------------------------------------------------
\* The process is stopped, or a request fails for good: nothing is undone.
Dies(r) ==
    /\ Running(r) /\ deaths < MaxDeaths /\ deaths' = deaths + 1
    /\ Set(r, [Idle EXCEPT !.pc = "dead"])
    /\ UNCHANGED <<pages, seeds, starts, renames, overlap>>

Renames(i) ==
    /\ renames < MaxRenames /\ renames' = renames + 1
    /\ \E title \in NewTitles : pages' = [pages EXCEPT !["project"][i].title = title]
    /\ UNCHANGED <<seeds, run, starts, deaths, overlap>>

Next ==
    \/ \E r \in Runners :
         \/ Start(r) \/ ReadsForCatchUp(r) \/ NextRepo(r) \/ Source(r)
         \/ LookUp(r) \/ Create(r) \/ Describe(r) \/ Rewrite(r) \/ Body(r)
         \/ SaveSeeds(r) \/ ReadsTitles(r) \/ CreateRow(r) \/ Dies(r)
    \/ \E i \in DOMAIN pages["project"] : Renames(i)

Spec == Init /\ [][Next]_vars

------------------------------------------------------------------------------
Projects == pages["project"]
Sources  == pages["source"]
Undisturbed == ~overlap /\ renames = 0

(***************************************************************************)
(* TypeOK: every link and every seed is a project page that exists, as     *)
(* nothing here removes one.                                               *)
(***************************************************************************)
TypeOK ==
    /\ DOMAIN pages = Databases
    /\ \A i \in DOMAIN Sources : Sources[i].link \in DOMAIN Projects \cup {None}
    /\ \A repo \in DOMAIN seeds : seeds[repo] \in DOMAIN Projects

(***************************************************************************)
(* OneRowEach: while runs do not overlap, catch-up adds no second page for *)
(* a repository, neither for one that shares its display name with another *)
(* nor after a run that died half-way, and the truth's titles none for a   *)
(* title there is, unless it was given twice (findFirstMatch,              *)
(* upsertPageByTitle, existingTitles).                                     *)
(***************************************************************************)
OneRowEach ==
    Undisturbed =>
        /\ \A i, j \in DOMAIN Projects :
             i < j /\ Projects[j].by = "catchUp" =>
                 ~IsProjectOf(Projects[j].body, Projects[i])
        /\ \A i, j \in DOMAIN Sources :
             Sources[i].title = Sources[j].title => i = j
        /\ \A i, j \in DOMAIN Projects :
             i # j /\ Projects[i].title = Projects[j].title =>
                 \E order \in Orders : \E x, y \in DOMAIN order.list :
                     x # y /\ order.kind = "truth" /\ order.list[x] = order.list[y]
                           /\ order.list[x] = Projects[i].title

(***************************************************************************)
(* CaughtUp: when a catch-up has finished, every repository it listed has  *)
(* a project and a source page; where no run has died the source links to  *)
(* a project of the repository (plansToTouch, upsertOrRepairSource).       *)
(***************************************************************************)
CaughtUp ==
    Undisturbed =>
        \A r \in Runners :
            run[r].pc = "finished" /\ run[r].order.kind = "catchUp" =>
                \A repo \in ToSet(run[r].order.list) :
                    /\ ~Lacks(pages, repo)
                    /\ deaths = 0 =>
                         \E i \in DOMAIN Sources :
                             /\ IsSourceOf(repo, Sources[i])
                             /\ IsProjectOf(repo, Projects[Sources[i].link])

(***************************************************************************)
(* SourcesAreWhole: a source page whose writer was not cut off says of the *)
(* repository the same in its properties and its body, and it links to a   *)
(* project (upsertPageByTitle's two requests).                             *)
(***************************************************************************)
BeingWritten(d, i) == \E r \in Runners : Running(r) /\ run[r].at = d /\ run[r].page = i
SourcesAreWhole ==
    ~overlap /\ deaths = 0 =>
        \A i \in DOMAIN Sources :
            \/ BeingWritten("source", i)
            \/ Sources[i].repo = Sources[i].body /\ Sources[i].link # None

(***************************************************************************)
(* SeedsFollow: the seed file agrees with the source pages that catch-up   *)
(* has written; a run that died before it could save its seeds leaves them *)
(* out, and overlapping runs may lose each other's (syncManualSeeds).      *)
(***************************************************************************)
SeedsFollow ==
    ~overlap /\ deaths = 0 /\ (\A r \in Runners : ~Running(r)) =>
        \A i \in DOMAIN Sources :
            Sources[i].by = "catchUp" =>
                /\ Sources[i].repo \in DOMAIN seeds
                /\ seeds[Sources[i].repo] = Sources[i].link
=============================================================================
