------------------------------- MODULE MCDesk -------------------------------
(***************************************************************************)
(* What writes to the workspace on somebody's desk, side by side: the      *)
(* irreversible actions, link suggestions, the runtime generations under   *)
(* power losses, the derived fields of the projects, pages with managed    *)
(* sections, and the publisher.  They share nothing, so a behaviour is one *)
(* of `part`: the variables of the actions, the links and the derived      *)
(* fields stay as they begin in the others, those of the others are 0.     *)
(***************************************************************************)
EXTENDS IrreversibleActions, LinkSuggestions, ProjectSignals, TLC

CONSTANTS t1, t2, old, made, more, edited, c1, c2, Unknown

VARIABLES
    part,
    fs, past, op, starts, told,                                      \* generations
    body, run, runsOnBody, faults, added,                            \* sections
    pages, job, wrote                                                \* publisher

generations == <<fs, past, op, starts, told>>
sections    == <<body, run, runsOnBody>>
publisher   == <<pages, job, wrote>>

------------------------------------------------------------------------------
(***************************************************************************)
(* The irreversible actions: both approvals carry one provider key; the    *)
(* support plan changes one page twice before it archives the other; the   *)
(* migration deletes two properties and creates one of them anew.          *)
(***************************************************************************)
OneKey == [a \in Actions |-> "k"]
Change(t, v) == [at |-> t, to |-> v]
Plans == [ hygiene |-> <<Change(t1, made), Change(t2, None)>>,
           support |-> <<Change(t1, made), Change(t1, more), Change(t2, None)>>,
           migrate |-> <<Change(t1, None), Change(t2, None), Change(t2, made)>>,
           probe   |-> <<Change(t2, made), Change(t2, None)>> ]
Splits == [hygiene |-> 0, support |-> 2, migrate |-> 2, probe |-> 0]
\* The migration and the other surfaces find one page, t2 exists or not.
Plain == [t \in Targets |-> old]
Found == {Plain, [Plain EXCEPT ![t2] = None]}
ASSUME DeskAssumption == PlansCohere

Generations == INSTANCE RuntimeGenerations WITH
    Commits <- {c1, c2}, MaxRuns <- 3, Events <- {"crash", "power", "io", "tamper"},
    runs <- starts

(***************************************************************************)
(* Two projects, two research pages.                                       *)
(***************************************************************************)
Shares(l, c, r) == [lexical |-> l, category |-> c, recency |-> r, context |-> 0]
Two   == {"p", "q"}
Research == {"a", "b"}
OneKind  == [t \in Research |-> "research"]
Texts    == [p \in Two |-> [t \in Research |->
               IF t = "a" \/ p = "p" THEN Shares(100, 100, 70) ELSE Shares(10, 10, 100)]]
NoLinks  == [p \in Two |-> {}]
FirstLinks == {NoLinks, [NoLinks EXCEPT !["p"] = {"b"}]}

(***************************************************************************)
(* One project that is doing well, one whose deployment and workflow fail, *)
(* one that waits for a decision.                                          *)
(***************************************************************************)
Happened(t, s, d) == [type |-> t, status |-> s, day |-> d,
                      provider |-> IF t = "Deployment" THEN "Vercel" ELSE "GitHub"]
Well == [ state |-> "Active Build", review |-> FALSE, call |-> "", runs |-> "Yes",
          friction |-> "Low", move |-> TRUE, active |-> 50, session |-> 40, sessions |-> 1,
          ship |-> "Near Ship", toShip |-> "1h", toDemo |-> "1h", maturity |-> "Working Core",
          confidence |-> "High", docs |-> "Usable", tests |-> "Some", research |-> 1,
          skills |-> 1, tools |-> 1, relevance |-> "Core", decisions |-> 0, packets |-> 1,
          tasks |-> 1, blockedPackets |-> 0, blockedTasks |-> 0, rollovers |-> 0,
          recentDone |-> 0, activePacket |-> TRUE, mapped |-> 1, sources |-> {"repo"},
          events |-> <<>> ]
Broken == [Well EXCEPT !.active = 1, !.session = 0, !.sessions = 0,
                        !.sources = {"repo", "deploy"},
                        !.events = << Happened("Deployment", "failed", 58),
                                      Happened("Workflow Run", "failed", 50) >>]
Waiting == [Well EXCEPT !.state = "Needs Decision", !.research = 3, !.decisions = 2,
                        !.active = 0, !.session = 1, !.call = "Finish",
                        !.blockedTasks = 2, !.rollovers = 2, !.move = FALSE]
Standing == {Well, Broken, Waiting}
\* One project; none while something else goes on.
Single   == [{"p"} -> Standing]
NoProject == <<>>
AnyPortfolio == Single \cup {NoProject}
Weekly == [s \in {"Active Build"} |-> 7]

(***************************************************************************)
(* Two lanes and the control tower over one page; one publish at a time.   *)
(***************************************************************************)
M == INSTANCE Markdown
Sections == INSTANCE ManagedPage WITH
    Lanes <- <<"execution", "intelligence">>, Tower <- "tower", Blocked <- {},
    StartPages <- { <<M!Text("title"), M!Text("note")>>,
                    <<M!Text("title"), M!Section("execution", 0), M!Child("c")>>,
                    <<M!Text("base"), M!Section("tower", 0), M!Section("intelligence", 0),
                      M!Section("execution", 0)>> },
    Additions <- {M!Text("human"), M!Child("d")}, HttpAttempts <- 2, Attempts <- 2,
    MaxRuns <- 2, MaxFaults <- 3, MaxAdditions <- 1, page <- body, runs <- runsOnBody

To(k, m) == [ kind |-> k, mode |-> m, template |-> "none", patches |-> TRUE, allows |-> FALSE,
              verify |-> "fail", valid |-> TRUE, lookup |-> "id", target |-> 1 ]
Destined ==
    {To(k, m) : k \in {"page", "row"}, m \in {"create", "replace", "search", "update"}}
    \cup {[To("row", "create") EXCEPT !.template = t, !.patches = p, !.verify = v] :
             t \in {"known", "missing"}, p \in BOOLEAN, v \in {"fail", "warn"}}
    \cup {[To("row", m) EXCEPT !.lookup = "title", !.verify = "off", !.allows = TRUE] :
             m \in {"replace", "update"}}
    \cup { [To("page", "replace") EXCEPT !.target = 9],
           [To("row", "create") EXCEPT !.valid = FALSE] }
Updates == << [old |-> M!Text("a"), new |-> <<M!Text("a"), M!Text("more")>>, all |-> FALSE],
              [old |-> M!Text("b"), new |-> <<>>, all |-> TRUE] >>
Publisher == INSTANCE Publishing WITH
    Destinations <- Destined,
    Requests <- {[dry |-> y, title |-> t, body |-> b, updates |-> u] :
                    y \in BOOLEAN, t \in {"A", "Z"},
                    b \in {<<>>, <<M!Text("file"), M!Child("c")>>}, u \in {<<>>, Updates}},
    StartPages <- << [ title |-> "A", body |-> <<M!Text("a"), M!Text("b"), M!Child("c")>>,
                       pending |-> FALSE, props |-> "old" ],
                     [ title |-> "B", body |-> <<M!Text("b")>>, pending |-> FALSE,
                       props |-> "old" ] >>,
    Additions <- {M!Text("human"), M!Child("d")}, Template <- <<M!Text("template")>>,
    HttpAttempts <- 2, MaxFaults <- 2, MaxAdditions <- 1

------------------------------------------------------------------------------
In(p) == part = p

DeskInit ==
    /\ part \in {"actions", "links", "generations", "signals", "sections", "publisher"}
    /\ Init
    /\ IF In("actions") THEN TRUE ELSE page = Plain
    /\ LinksInit
    /\ IF In("links") THEN TRUE ELSE links = NoLinks /\ ahead = {}
    /\ IF In("generations") THEN Generations!Init
       ELSE fs = 0 /\ past = 0 /\ op = 0 /\ starts = 0 /\ told = 0
    /\ FieldsInit
    /\ In("signals") <=> facts # NoProject
    /\ IF In("sections") THEN Sections!Init ELSE body = 0 /\ run = 0 /\ runsOnBody = 0
    /\ IF In("publisher") THEN Publisher!Init ELSE pages = 0 /\ job = 0 /\ wrote = 0
    /\ IF In("sections") \/ In("publisher") THEN TRUE ELSE faults = 0 /\ added = 0

DeskNext ==
    \/ /\ In("actions") /\ Next
       /\ UNCHANGED <<part, linking, generations, deriving, sections, publisher, faults, added>>
    \/ /\ In("links") /\ LinksNext
       /\ UNCHANGED <<part, vars, generations, deriving, sections, publisher, faults, added>>
    \/ /\ In("generations") /\ Generations!Next
       /\ UNCHANGED <<part, vars, linking, deriving, sections, publisher, faults, added>>
    \/ /\ In("signals") /\ FieldsNext
       /\ UNCHANGED <<part, vars, linking, generations, sections, publisher, faults, added>>
    \/ /\ In("sections") /\ Sections!Next
       /\ UNCHANGED <<part, vars, linking, generations, deriving, publisher>>
    \/ /\ In("publisher") /\ Publisher!Next
       /\ UNCHANGED <<part, vars, linking, generations, deriving, sections>>

DeskSpec == DeskInit /\ [][DeskNext]_<<part, vars, linking, generations, deriving, sections,
                                       publisher, faults, added>>

Symmetry == Permutations(Procs) \cup Permutations(Actions) \cup Permutations({c1, c2})

------------------------------------------------------------------------------
\* LinksSafe and AcceptancesRemembered are those of LinkSuggestions, FieldsSettle
\* and BlockersNeverHelp those of ProjectSignals.

(***************************************************************************)
(* PointerIsGenuine: after power losses and tampering a forged pointer is  *)
(* only seen under the lock, and a readback reports one file as it was     *)
(* (ForgedOnlyUnderLock and ReadbackIsStable of RuntimeGenerations).       *)
(***************************************************************************)
PointerIsGenuine == In("generations") => Generations!PointerIsGenuine

(***************************************************************************)
(* PagesSafe: what a running command found on a page and does not own is   *)
(* kept; a publish writes what its destination names, a dry one nothing,   *)
(* and a template does not replace its text afterwards (ReadingIsKept of   *)
(* ManagedPage, WritesWhatItNames and TextStays of Publishing).            *)
(***************************************************************************)
PagesSafe == /\ In("sections") => Sections!ReadingIsKept
             /\ In("publisher") => Publisher!WritesWhatItNames /\ Publisher!TextStays

(***************************************************************************)
(* ReadBackIsKept: a lane that tries again keeps what its read-back showed *)
(* it ("recomputes from read-back markdown before retrying"; see           *)
(* ManagedPage).                                                           *)
(***************************************************************************)
ReadBackIsKept == In("sections") => Sections!ReadBackIsKept

(***************************************************************************)
(* PagesKeep: a section sync that reports success has shown its section,   *)
(* and no patch of either program removes a child page (WriteIsShown and   *)
(* ChildrenStay).                                                          *)
(***************************************************************************)
PagesKeep ==
    [][ /\ In("sections") => Sections!SuccessIsShown /\ Sections!KeepsChildren
        /\ In("publisher") => Publisher!KeepsChildren ]_<<body, run, pages>>
=============================================================================
