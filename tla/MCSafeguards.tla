---------------------------- MODULE MCSafeguards ----------------------------
(***************************************************************************)
(* Small instances of parts that share nothing, side by side: a rollback   *)
(* that two processes rehearse and run, serial webhook drains that crash,  *)
(* two overlapping signal syncs, the two hygiene passes, the commands that *)
(* classify projects and follow packets up, the snapshot export, and what  *)
(* makes, imports and fills project rows.  A behaviour is one of `part`;   *)
(* the variables of the others are 0 in it.                                *)
(***************************************************************************)
EXTENDS SnapshotExport, WebhookRecords, SignalRecords, TLC

CONSTANTS p1, p2, x1, x2

VARIABLES
    part,
    request, rows, world, issue, day, proc, passed, effects, spent,     \* rollback
    runs, drain,                                                        \* spool
    logged, stage, faults,                                              \* feed
    title, holds, gone, touched, plan, pc, n, before, edited,           \* support
    locals, intakes, sources, trash, passes, kept,                      \* portfolio
    facts, requests, work, edits, crashes, packets, starts, overlap,     \* shared by the
    approved, direct, undone,                                           \* kickoffs,
    source, eventPages, ingest, ingestFaults, doubled, removed,         \* ingests,
    tasks, today,                                             \* follow-ups and
    repositories, decisions, rolloutRuns, nodded, overtaken, settled,   \* rollouts
    pages, seeds, workbook, databases, known, theirs, calm   \* rows, imports, fills

rollback  == <<request, rows, world, issue, day, proc, passed, effects, spent>>
mail      == <<spool, deliveries, events, receipts, exec, runs, drain>>
feed      == <<base, logged, stage, signalRows, cursor, briefs, runner, faults, overlaps, torn>>
support   == <<title, holds, gone, touched, plan, pc, n, before, edited>>
portfolio == <<locals, intakes, sources, trash, passes, kept>>
kickoffs  == <<approved, direct, undone>>
ingests   == <<source, eventPages, ingest, ingestFaults, doubled, removed>>
followUps == <<tasks, today>>
rollouts  == <<repositories, decisions, rolloutRuns, nodded, overtaken, settled>>
desks     == <<facts, requests, work, edits, crashes, packets, starts, overlap>>
maintained == <<pages, seeds, workbook, databases, known, theirs, calm>>
upkeep    == <<rollback, mail, feed, support, portfolio, vars>>
planning  == <<desks, kickoffs, ingests, followUps, rollouts, maintained>>

------------------------------------------------------------------------------
Lane == INSTANCE GovernedActions WITH
    Requests <- {"r1"}, Payloads <- {"q1"}, Complete <- {"q1"},
    Deployments <- {"d1", "d2"}, Kind <- [r \in {"r1"} |-> "rollback"],
    ApprovalRule <- [r \in {"r1"} |-> "Single Approval"], LiveCapable <- {"r1"},
    ExpiresOn <- [r \in {"r1"} |-> 1], FreshDays <- 1, Procs <- {p1, p2},
    Commands <- {"preview", "live"}, RowIds <- {x1, x2}, Signatures <- {"one"},
    MaxDay <- 0, MaxLivePerRun <- 1, MaxDryRunsPerRun <- 1, Serial <- FALSE,
    Events <- {"deploy"}

\* Files 1 and 2 are requests for one delivery; file 3 is not JSON.
Redelivered == <<"d1", "d1", "d2">>
SameKey     == <<"k", "k", "k">>
NoMatches   == <<{}, {}, {}>>
Spool == INSTANCE WebhookSpool WITH
    Broken <- {3}, Exact <- NoMatches, Drainers <- {p1},
    MaxRuns <- 2, MaxCreations <- 2, Serial <- TRUE, Events <- {"crash", "torn"}

\* Two runs over two lines; and a full run of a deployment next to one
\* of the project pages.
Days == <<1, 1>>
Feed == INSTANCE SignalSync WITH
    MaxEvents <- 1, LastStage <- 1, Scope <- <<"providers", "providers">>, MaxFaults <- 1
Briefs == INSTANCE SignalSync WITH
    Day <- <<>>, Resolved <- {}, MaxEvents <- 1, LastStage <- 2,
    Scope <- <<"full", "project-pages">>, MaxFaults <- 1

Tools == {"a", "b", "c", "d"}
Skills == {"e", "f"}
Supported == Tools \cup Skills
Merge == INSTANCE SupportHygiene WITH
    Support <- Supported, Projects <- {"p", "q"},
    Kind <- [s \in Supported |-> IF s \in Tools THEN "tool" ELSE "skill"],
    Titlings <- { [s \in Supported |-> CASE s \in {"a", "b"} -> "A" [] s = "c" -> x
                                     [] s = "d" -> y [] s = "e" -> "S" [] s = "f" -> z] :
                  x \in {"A", "B"}, y \in {"B", "sandbox"}, z \in {"S", "F", "sandbox"} },
    Sandbox <- {"sandbox"}, Untitled <- "", Preferred <- {"b"},
    Rules <- <<[canonical |-> "e", duplicate |-> "f"]>>,
    Links <- { [p \in {"p", "q"} |-> IF p = "p" THEN x ELSE {"c", "f"}] :
               x \in SUBSET {"a", "b", "d", "e"} },
    Texts <- { [s \in Supported |-> CASE s = "a" -> {"x", "y"} [] s = "e" -> w [] OTHER -> {}] :
               w \in {{}, {"Demonstrated Capabilities"}} },
    MaxEdits <- 1

Titles   == {"Name", "Name (Extra)", "Name (Legacy)", "Alias"}
Suffixed(t) == <<t, "suffix">>
RawTitle == <<"owner/name", "raw">>
Passes == INSTANCE PortfolioHygiene WITH
    Locals <- {"l1", "l2"}, Intakes <- {"i"}, Sources <- {"s1", "s2"},
    Created <- [x \in {"l1", "l2", "s1", "s2"} |-> IF x \in {"l1", "s1"} THEN 1 ELSE 2],
    StartLocals <- { [l \in {"l1", "l2"} |-> IF l = "l1" THEN [title |-> t, rich |-> 0]
                                             ELSE [title |-> u, rich |-> r]] :
                     t \in Titles, u \in Titles, r \in {0, 110, 300} },
    StartIntakes <- { [i \in {"i"} |-> t] : t \in {"Name", "Name (Legacy)"} },
    StartSources <-
        { [s \in {"s1", "s2"} |->
              IF s = "s1" THEN [title |-> t, identifier |-> i, project |-> o,
                                status |-> a, url |-> TRUE]
              ELSE [title |-> u, identifier |-> j, project |-> q,
                    status |-> "Active", url |-> FALSE]] :
          t \in {Suffixed("Name"), Suffixed("Alias"), RawTitle},
          u \in {Suffixed("Name"), <<"Name", "plain">>, RawTitle},
          i \in {"none", "identifier"}, j \in {"none", "variant"},
          o \in {{}, {"l1"}, {"l2"}}, q \in {{}, {"l1", "l2"}},
          a \in {"Active", "Paused"} },
    MaxPasses <- 3

\* One project is a plain orphan, of the other the call or the idleness differ;
\* a run may request, approve and create at once, or one at a time.
Fact(call, archivable, idle) == [call |-> call, state |-> "Active", archivable |-> archivable,
                                 idle |-> idle, linked |-> FALSE]
Flags(ask, approve, create, given, titles) ==
    [request |-> ask, approve |-> approve, create |-> create, approved |-> given,
     titles |-> titles]
Kickoffs == INSTANCE KickoffPackets WITH
    Projects <- {"p", "q"},
    StartFacts <- { [p \in {"p", "q"} |-> IF p = "p" THEN Fact("", FALSE, None) ELSE f] :
                    f \in {Fact("", TRUE, 180), Fact("", TRUE, 181), Fact("Defer", FALSE, 181)} },
    Runners <- {p1, p2},
    Invocations <- {Flags(TRUE, FALSE, FALSE, FALSE, {}), Flags(TRUE, TRUE, FALSE, TRUE, {"q"}),
                Flags(FALSE, FALSE, FALSE, TRUE, {}), Flags(FALSE, FALSE, TRUE, FALSE, {"p"})},
    MaxRuns <- 2, MaxEdits <- 2, MaxCrashes <- 1, run <- work

\* Two snapshots that share a row, and one with the same key twice.
Row(key, snapshot, urgency, status, review) ==
    [key |-> key, snapshot |-> snapshot, whole |-> TRUE, urgency |-> urgency,
     status |-> status, review |-> review]
Payload(s, list) == [well |-> TRUE, snapshot |-> s, total |-> Len(list), rows |-> list]
Order(live, confirm, write, back) ==
    [live |-> live, confirm |-> confirm, events |-> write, display |-> TRUE, readBack |-> back]
Ingests == INSTANCE CoordinationIngest WITH
    Payloads <- {Payload("s1", <<Row("a", "s1", "high", "ready", FALSE),
                                  Row("b", "s1", "low", "deferred", FALSE)>>),
                 Payload("s2", <<Row("b", "s2", "low", "ready", TRUE),
                                  Row("c", "s2", "low", "ready", FALSE)>>),
                 Payload("s2", <<Row("d", "s2", "low", "ready", TRUE),
                                  Row("d", "s2", "low", "ready", FALSE)>>)},
    Commands <- {Order(TRUE, TRUE, TRUE, FALSE), Order(TRUE, TRUE, TRUE, TRUE),
                 Order(FALSE, FALSE, FALSE, TRUE), Order(TRUE, FALSE, TRUE, FALSE)},
    Procs <- {p1, p2}, MaxRuns <- 2, MaxEdits <- 1, MaxFaults <- 1,
    events <- eventPages, proc <- ingest, faults <- ingestFaults

\* A risk repair, an orphan's kickoff, and two that may be past their day on the
\* second day, each next to one in no trouble: at work on Now, or unworked.
Stand(orphan, queue, recommendation, evidence, failed, list) ==
    [orphan |-> orphan, queue |-> queue, recommendation |-> recommendation,
     evidence |-> evidence, failedRuns |-> failed, events |-> list]
Event(severity, on) == [severity |-> severity, day |-> on]
Packet(status, priority, finish, sessions) ==
    [status |-> status, priority |-> priority, finish |-> finish, sessions |-> sessions]
Task(about, packet, status, due, created) ==
    [about |-> about, packet |-> packet, status |-> status, due |-> due, created |-> created]
FollowUps == INSTANCE PacketFollowThrough WITH
    Packets <- {"a", "b", "c", "d"},
    Kind <- [p \in {"a", "b", "c", "d"} |->
                CASE p = "a" -> "risk" [] p = "b" -> "kickoff" [] OTHER -> "plain"],
    Project <- [p \in {"a", "b", "c", "d"} |->
                CASE p = "a" -> Stand(FALSE, "Resume Now", None, "Stale", 1, {})
                  [] p = "b" -> Stand(TRUE, "Watch", 80, "Fresh", 0, {Event("Info", 1)})
                  [] p = "c" -> Stand(FALSE, "Resume Now", 20, "Aging", 0,
                                      {Event("Watch", -20), Event("Risk", None)})
                  [] p = "d" -> Stand(FALSE, "Cold Storage", 50, "Fresh", 0, {})],
    StartPackets <- { [p \in {"a", "b", "c", "d"} |->
                CASE p = "a" -> Packet("Ready", "Later", x, 0)
                  [] p = "b" -> Packet("Ready", "Standby", 3, 0)
                  [] p = "c" -> IF x = 0 THEN Packet("In Progress", "Now", None, 1)
                                ELSE Packet("Ready", "Later", 1, 1)
                  [] p = "d" -> IF x = 0 THEN Packet("Ready", "Later", 1, 1)
                                ELSE Packet("Ready", "Standby", None, 0)] : x \in {None, 0} },
    StartTasks <- { <<>>, <<Task(None, "c", "Ready", 1, -7)>>,
                    <<Task(None, "a", "Ready", 2, -30), Task(None, "c", "Blocked", 1, -7)>> },
    StaleSupport <- {"s"}, Limit <- 2, Lookback <- 14, Runners <- {p1, p2},
    FirstDay <- 1, LastDay <- 2, MaxRuns <- 2, MaxEdits <- 1, MaxCrashes <- 1, run <- work

\* The first project is the cohort; its source may be a seed, paused or missing.
Page(state, friction, ready, mature, focus) ==
    [state |-> state, call |-> "Hold", review |-> FALSE, friction |-> friction,
     ready |-> ready, mature |-> mature, move |-> [said |-> <<>>, focus |-> focus]]
Repository(p, seed, status) == [project |-> p, seed |-> seed, known |-> TRUE, status |-> status]
Rollout == INSTANCE Rollouts WITH
    Projects <- {"p", "q"}, Cohort <- {"p"}, Targets <- {"p"},
    Titled <- [p \in {"p", "q"} |-> IF p = "p" THEN 1 ELSE 2],
    StartFacts <- { [p \in {"p", "q"} |->
                        IF p = "p" THEN Page("Active Build", FALSE, FALSE, FALSE, "a")
                        ELSE Page("Needs Decision", TRUE, FALSE, TRUE, "")] },
    StartSources <- { {Repository("p", TRUE, "Active")},
                      {Repository("p", FALSE, "Paused"), Repository("q", FALSE, "Active")} },
    Focuses <- {"b"}, Runners <- {p1, p2}, Kinds <- {"operational", "cohort"},
    MaxRuns <- 2, MaxEdits <- 1, MaxCrashes <- 1,
    sources <- repositories, runs <- rolloutRuns, run <- work

\* The older generation says two things of one name, the newer lacks a name.
Said(t, state) == [title |-> t, state |-> state]
Launch(from, digest, optIn) == [from |-> from, pin |-> digest, optIn |-> optIn]
Sayings == [ g1 |-> <<Said("A", "active-product"), Said("A", "parked"), Said("B", "parked")>>,
             g2 |-> <<Said("A", "decision-needed")>> ]
ProjectPages == <<[title |-> "A", asks |-> TRUE], [title |-> "B", asks |-> FALSE]>>
Launchings   == {Launch("c1", 0, FALSE), Launch("c2", 0, FALSE), Launch("c1", None, TRUE),
                 Launch("checkout", None, TRUE), Launch("checkout", None, FALSE)}

\* Two repositories share their display name, one has an alias too.
Found(t, repo, at) == [title |-> t, repo |-> repo, body |-> repo, link |-> at, by |-> "found"]
Asked(kind, list) == [kind |-> kind, list |-> list]
Rows == INSTANCE ProjectRows WITH
    Repos <- {"a", "b", "c"},
    DisplayName <- [x \in {"a", "b", "c"} |-> IF x = "c" THEN "C" ELSE "A"],
    KnownAs <- [x \in {"a", "b", "c"} |->
        CASE x = "a" -> {"a", "A", "Alias"} [] x = "b" -> {"b", "A"} [] x = "c" -> {"c", "C"}],
    Orders <- {Asked("catchUp", <<"a", "b">>), Asked("catchUp", <<"c", "a">>),
               Asked("truth", <<"c", "C">>), Asked("truth", <<"A", "A">>),
               Asked("truth", <<"X">>)},
    Truth <- {"c", "C", "A"},
    StartPages <- { [project |-> <<>>, source |-> <<>>],
                    [project |-> <<Found("Alias", None, None)>>,
                     source |-> <<Found(<<"a", "repository">>, "a", 1)>>] },
    NewTitles <- {"Z"}, Runners <- {p1, p2}, MaxRuns <- 2, MaxRenames <- 1, MaxDeaths <- 1,
    renames <- edits, deaths <- crashes, run <- work

\* A listing shows three rows; one workbook names a project twice.
Line(t, status, notes) == [title |-> t, status |-> status, notes |-> notes]
Imports == INSTANCE WorkbookImport WITH
    Workbooks <- { <<Line("A", "x", "x"), Line("B", None, "x"), Line("C", "x", None)>>,
                   <<Line("A", "x", None), Line("A", None, "x")>> },
    Values <- {None, "y"}, Limit <- 3, Runners <- {p1, p2},
    MaxRuns <- 2, MaxEdits <- 1, MaxDeaths <- 1, deaths <- crashes, run <- work

\* Much or nothing is filled; a row of the dataset says nothing of how far
\* the project is and what it works with.
Fills == INSTANCE FieldFill WITH
    Pages <- {"p", "q"},
    Begins <- { [p \in {"p", "q"} |->
                    IF p = "p" THEN s
                    ELSE {"summary", "problemSolved", "projectHealthNotes", "primaryTool"}] :
                s \in {{}, {"summary", "buildMaturity", "integrationTags"}} },
    Silences <- {{"shipReadiness", "keyIntegrations", "readiness"}},
    Touched <- {"summary", "buildMaturity", "projectHealthNotes"},
    Runners <- {p1, p2}, MaxRuns <- 2, MaxEdits <- 1, MaxFaults <- 1,
    given <- theirs, faults <- crashes, run <- work

------------------------------------------------------------------------------
In(p) == part = p

SafeguardsInit ==
    /\ part \in {"rollback", "mail", "events", "briefs", "support", "portfolio",
                "kickoffs", "ingests", "followUps", "rollouts", "snapshot",
                "rows", "imports", "fills"}
    /\ IF In("rollback") THEN Lane!Init
       ELSE /\ request = 0 /\ rows = 0 /\ world = 0 /\ issue = 0 /\ day = 0
            /\ proc = 0 /\ passed = 0 /\ effects = 0 /\ spent = 0
    /\ IF In("mail") THEN Spool!Init
       ELSE /\ spool = [f \in Files |-> "unsent"] /\ exec = <<>>
            /\ deliveries = <<>> /\ events = <<>> /\ receipts = <<>>
            /\ runs = 0 /\ drain = 0
    /\ IF In("events") THEN Feed!Init ELSE IF In("briefs") THEN Briefs!Init
       ELSE /\ base = 0 /\ logged = 0 /\ stage = 0 /\ cursor = 0 /\ runner = 0
            /\ signalRows = <<>> /\ briefs = <<>>
            /\ faults = 0 /\ overlaps = {} /\ torn = {}
    /\ IF In("support") THEN Merge!Init
       ELSE /\ title = 0 /\ holds = 0 /\ gone = 0 /\ touched = 0 /\ plan = 0
            /\ pc = 0 /\ n = 0 /\ before = 0 /\ edited = 0
    /\ IF In("portfolio") THEN Passes!Init
       ELSE /\ locals = 0 /\ intakes = 0 /\ sources = 0 /\ trash = 0
            /\ passes = 0 /\ kept = 0
    /\ IF In("kickoffs") THEN Kickoffs!Init ELSE approved = 0 /\ direct = 0 /\ undone = 0
    /\ IF In("ingests") THEN Ingests!Init
       ELSE /\ source = 0 /\ eventPages = 0 /\ ingest = 0 /\ ingestFaults = 0
            /\ doubled = 0 /\ removed = 0
    /\ IF In("followUps") THEN FollowUps!Init ELSE tasks = 0 /\ today = 0
    /\ IF In("rollouts") THEN Rollout!Init
       ELSE /\ repositories = 0 /\ decisions = 0 /\ rolloutRuns = 0
            /\ nodded = 0 /\ overtaken = 0
    /\ Init
    /\ IF In("snapshot") THEN TRUE
       ELSE auditor.current = None /\ runtime.current = CHOOSE c \in Runtimes : TRUE
    /\ IF In("rows") THEN Rows!Init ELSE seeds = 0
    /\ IF In("imports") THEN Imports!Init ELSE workbook = 0 /\ databases = 0
    /\ IF In("fills") THEN Fills!Init ELSE known = 0 /\ theirs = 0 /\ calm = 0
    /\ IF part \in {"rows", "fills"} THEN TRUE ELSE pages = 0
    /\ IF part \in {"rollouts", "imports"} THEN TRUE ELSE settled = 0
    /\ IF part \in {"kickoffs", "followUps"} THEN TRUE ELSE packets = 0
    /\ IF part \in {"kickoffs", "followUps", "rows", "imports", "fills"} THEN TRUE
       ELSE overlap = 0
    /\ IF part \in {"kickoffs", "rollouts"} THEN TRUE ELSE facts = 0 /\ requests = 0
    /\ IF part \in {"kickoffs", "ingests", "followUps", "rows", "imports", "fills"} THEN TRUE
       ELSE starts = 0
    /\ IF part \in {"kickoffs", "followUps", "rollouts", "rows", "imports", "fills"} THEN TRUE
       ELSE work = 0 /\ crashes = 0
    /\ IF part \in {"kickoffs", "ingests", "followUps", "rollouts", "rows", "imports", "fills"}
       THEN TRUE ELSE edits = 0

SafeguardsNext ==
    \/ In("rollback") /\ Lane!Next /\ UNCHANGED <<part, planning, mail, feed, support, portfolio, vars>>
    \/ In("mail") /\ Spool!Next /\ UNCHANGED <<part, planning, rollback, feed, support, portfolio, vars>>
    \/ In("events") /\ Feed!Next /\ UNCHANGED <<part, planning, rollback, mail, support, portfolio, vars>>
    \/ In("briefs") /\ Briefs!Next /\ UNCHANGED <<part, planning, rollback, mail, support, portfolio, vars>>
    \/ In("support") /\ Merge!Next /\ UNCHANGED <<part, planning, rollback, mail, feed, portfolio, vars>>
    \/ In("portfolio") /\ Passes!Next /\ UNCHANGED <<part, planning, rollback, mail, feed, support, vars>>
    \/ In("kickoffs") /\ Kickoffs!Next /\ UNCHANGED <<part, upkeep, ingests, followUps, rollouts, maintained>>
    \/ In("ingests") /\ Ingests!Next
       /\ UNCHANGED <<part, upkeep, facts, requests, work, crashes, packets, overlap,
                      kickoffs, followUps, rollouts, maintained>>
    \/ In("followUps") /\ FollowUps!Next
       /\ UNCHANGED <<part, upkeep, facts, requests, kickoffs, ingests, rollouts, maintained>>
    \/ In("rollouts") /\ Rollout!Next
       /\ UNCHANGED <<part, upkeep, packets, starts, overlap, kickoffs, ingests, followUps,
                      maintained>>
    \/ In("snapshot") /\ Next
       /\ UNCHANGED <<part, planning, rollback, mail, feed, support, portfolio>>
    \/ In("rows") /\ Rows!Next
       /\ UNCHANGED <<part, upkeep, facts, requests, packets, kickoffs, ingests, followUps,
                      rollouts, workbook, databases, known, theirs, calm>>
    \/ In("imports") /\ Imports!Next
       /\ UNCHANGED <<part, upkeep, facts, requests, packets, kickoffs, ingests, followUps,
                      repositories, decisions, rolloutRuns, nodded, overtaken,
                      pages, seeds, known, theirs, calm>>
    \/ In("fills") /\ Fills!Next
       /\ UNCHANGED <<part, upkeep, facts, requests, packets, kickoffs, ingests, followUps,
                      rollouts, seeds, workbook, databases>>

SafeguardsSpec == SafeguardsInit /\ [][SafeguardsNext]_<<part, upkeep, planning>>

Symmetry == Permutations({p1, p2}) \cup Permutations({x1, x2})

------------------------------------------------------------------------------
(***************************************************************************)
(* EffectWasRehearsed: between a rehearsal and a rollback production       *)
(* moves, and two processes overlap; still no rollback goes anywhere but   *)
(* to a deployment some dry run of the request pinned (GovernedActions).   *)
(***************************************************************************)
EffectWasRehearsed == In("rollback") => Lane!EffectWasRehearsed

(***************************************************************************)
(* HygieneSafe: the merge of support pages carries every project link over *)
(* before it archives, fails on no write of its own, and a finished run    *)
(* leaves no duplicate (LinksCarried, OwnPlanSucceeds, LeavesNothing);     *)
(* repeated portfolio passes reach a workspace they leave alone, keep one  *)
(* active source for a repository, and archive only twins of the canonical *)
(* pages (Settles, OneOwner, TwinsOnly).                                   *)
(***************************************************************************)
HygieneSafe ==
    /\ In("support")   => /\ Merge!LinksCarried /\ Merge!OwnPlanSucceeds
                          /\ Merge!LeavesNothing
    /\ In("portfolio") => /\ Passes!Settles /\ Passes!OneOwner
                          /\ Passes!TwinsOnly

(***************************************************************************)
(* PacketsFollowed: no packet is opened before its project was approved,   *)
(* none is opened twice or set back while somebody works on it; a run that *)
(* ends leaves one follow-up task for each packet at risk; a packet in     *)
(* trouble is an item, and shown before ordinary packets of no higher      *)
(* priority (KickoffPackets and PacketFollowThrough).                      *)
(* An ingested snapshot leaves one page per row, and says it wrote only    *)
(* what is there (CoordinationIngest).                                     *)
(***************************************************************************)
PacketsFollowed ==
    /\ In("kickoffs")  => /\ Kickoffs!ApprovedFirst /\ Kickoffs!WorkStands
                          /\ Kickoffs!OneOfEach
    /\ In("followUps") => /\ FollowUps!FollowedUp /\ FollowUps!OneFollowUp
                          /\ FollowUps!TroubleShows /\ FollowUps!RiskRanksFirst
                          /\ FollowUps!BacklogIsSplit
    /\ In("ingests")   => /\ Ingests!OneEventPerKey /\ Ingests!WrittenIsThere
                          /\ Ingests!RisksAreReviewed

(***************************************************************************)
(* RolloutsSettle: a second rollout over an unchanged portfolio changes no *)
(* text; it does not issue again what has a Succeeded row or was filed as  *)
(* Executed, though it does what was lost before it was recorded; what it  *)
(* files as approved somebody approved, and its pilot is a project that is *)
(* at work (Rollouts).                                                     *)
(***************************************************************************)
RolloutsSettle ==
    In("rollouts") => /\ Rollout!PrefixesDoNotPile /\ Rollout!RolloutSettles
                      /\ Rollout!RecordedOnce /\ Rollout!ApprovedByNod
                      /\ Rollout!PilotIsActive

\* MailIsFiledOnce is that of WebhookRecords, SnapshotsStand that of SnapshotExport.

(***************************************************************************)
(* RowsComplete: serial catch-ups give every repository its one project,   *)
(* its source and its seed, also after one that died (ProjectRows); an     *)
(* import leaves one row per title and an update rows that follow the      *)
(* workbook (WorkbookImport); the backfill replaces nothing that people    *)
(* gave, comes to rest, and is not stopped by a page that is refused       *)
(* (FieldFill).                                                            *)
(***************************************************************************)
RowsComplete ==
    /\ In("rows")    => /\ Rows!OneRowEach /\ Rows!CaughtUp
                        /\ Rows!SourcesAreWhole /\ Rows!SeedsFollow
    /\ In("imports") => /\ Imports!ImportedOnce /\ Imports!UpdateFollows
    /\ In("fills")   => /\ Fills!TheirsStand /\ Fills!FillSettles
                        /\ Fills!OthersAreFilled /\ Fills!TextsAgree
=============================================================================
