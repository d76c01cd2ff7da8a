------------------------------ MODULE FieldFill ------------------------------
(***************************************************************************)
(* The backfill of empty project fields (fill-empty-local-project-fields): *)
(* a live run reads every project page and what is known about it, plans a *)
(* value for each field that was empty in its reading, and updates the     *)
(* pages one by one; a page that Notion refuses does not stop it.          *)
(*                                                                         *)
(* The fields are those of LiveProjectSnapshot.  A value is the set of     *)
(* words it says, {} is an empty field: a text that is put together of     *)
(* others says what they say.  Which of its fixed texts a derivation takes *)
(* by the words of a page is left open: each counts as one word.           *)
(***************************************************************************)
EXTENDS Integers, Sequences, FiniteSets, Functions, TLC

CONSTANTS
    Pages,
    Begins,     \* what may be filled at first: a set of fields for each page
    Silences,   \* the sets of fields a row of the dataset may leave out
    Touched,    \* the fields that people change meanwhile: a bound
    Runners,
    MaxRuns, MaxEdits, MaxFaults   \* bounds

------------------------------------------------------------------------------
(***************************************************************************)
(* The fallback of every field.  `live` is a page as it was read, `k` what *)
(* the dataset says of it.                                                 *)
(***************************************************************************)
\* firstNonEmpty
Or(a, b) == IF a # {} THEN a ELSE b

\* The selects that fall back to a fixed option.
Options ==
    [ status |-> "In Progress", pipelineStage |-> "Building in Claude Code",
      verdict |-> "Worth Building", sourceGroup |-> "Standalone Projects",
      currentState |-> "Active Build", portfolioCall |-> "Build Now",
      testPosture |-> "Unknown", evidenceConfidence |-> "Low", setupFriction |-> "Low",
      runsLocally |-> "Unknown", buildMaturity |-> "Idea", shipReadiness |-> "Not Ready",
      effortToDemo |-> "Unknown", effortToShip |-> "Unknown", primaryTool |-> "codex",
      contextQuality |-> "standard" ]

\* What the recommendation and the external signals of the page say.
Computed == {"recommendationLane", "recommendationConfidence", "recommendationScore",
             "externalSignalCoverage", "latestDeploymentStatus", "openPrCount",
             "recentFailedWorkflowRuns"}
\* Of the dates only the last active day is in the dataset.
Dates == {"lastActive", "recommendationUpdated", "externalSignalUpdated",
          "latestExternalActivity", "lastBuildSessionDate"}

Texts == {"primaryRunCommand", "primaryContextDoc", "summary", "oneLinePitch", "problemSolved",
          "primaryUser", "lastMeaningfulWork", "knownRisks", "auditNotes", "localPath",
          "startHere", "stack", "nextMove", "biggestBlocker", "projectHealthNotes",
          "keyIntegrations", "missingCorePieces", "monetizationValue", "valueOutcome",
          "completion", "readiness", "mergedInto", "category", "docsQuality", "projectShape",
          "deploymentSurface", "integrationTags"}
Fields == Texts \cup DOMAIN Options \cup Computed \cup Dates

\* The dataset says nothing of what is computed, and of these.
Told == Fields \ (Computed \cup (Dates \ {"lastActive"})
                  \cup {"primaryUser", "lastMeaningfulWork", "knownRisks", "auditNotes",
                        "projectHealthNotes", "monetizationValue", "integrationTags"})

\* The dataset has no row for a page, or one that leaves some fields out.
Knowledge == {[f \in Told |-> {}]}
             \cup {[f \in Told |-> IF f \in s THEN {} ELSE {f}] : s \in Silences}

\* What the page says of f, else the dataset, else `default`.
Said(live, k, f, default) == Or(live[f], Or(k[f], {default}))
State(live, k) == Said(live, k, "currentState", "Active Build")

deriveOneLinePitch(k)   == Or(k.oneLinePitch, {"title"})
deriveRunCommand(live)  == Or(live.startHere, {"local files"})
deriveKnownRisks(live, k) == Or(live.biggestBlocker, Or(k.biggestBlocker, {"unproved"}))
deriveAuditNotes(live, k) == Or(live.oneLinePitch, Or(k.summary, deriveOneLinePitch(k)))
deriveLastMeaningfulWork(live, k) == Said(live, k, "lastActive", "today") \cup State(live, k)

deriveProjectHealthNotes(live, k) ==
    State(live, k) \cup Said(live, k, "buildMaturity", "Functional Core")
    \cup Said(live, k, "shipReadiness", "Needs Hardening")
deriveReadiness(live, k) ==
    Said(live, k, "buildMaturity", "Functional Core")
    \cup Said(live, k, "shipReadiness", "Not Ready") \cup Said(live, k, "docsQuality", "Usable")
    \cup Said(live, k, "testPosture", "unknown") \cup Said(live, k, "runsLocally", "Unknown")
    \cup Said(live, k, "nextMove", "verify")
deriveMissingCorePieces(live, k) ==
    Or(live.biggestBlocker, Or(k.biggestBlocker, {"some pieces"}))
deriveValueOutcome(live, k) ==
    Or(live.problemSolved, Or(live.oneLinePitch, Or(k.summary, {"proof point"})))

deriveKeyIntegrations(live, k) ==
    Or(k.keyIntegrations,
       Or(live.deploymentSurface \cup live.stack \cup live.primaryTool
          \cup live.integrationTags \cup live.primaryContextDoc, {"Notion"}))

\* The services that the texts name; a page with a path is taken to be on GitHub.
Services == {"GitHub", "Notion", "SQLite", "Ollama", "Vercel", "Slack"}
deriveIntegrationTags(live, k) ==
    LET text == deriveKeyIntegrations(live, k) \cup live.stack
                \cup live.localPath \cup k.localPath
        path == live.localPath # {} \/ k.localPath # {}
    IN  Or(text \cap Services, IF path THEN {"GitHub"} ELSE {})

inferDocsQuality(live) == IF live.primaryContextDoc # {} THEN {"Usable"} ELSE {"Missing"}
\* Of the page's own sessions and workflow runs the model knows none.
deriveLatestBuildEvidence(live, k) == Said(live, k, "lastActive", "today")

\* The fallbacks of the fields that have one of their own: the texts,
Derived(live, k) ==
    [ primaryRunCommand |-> deriveRunCommand(live), primaryContextDoc |-> {"README.md"},
      summary |-> deriveOneLinePitch(k), oneLinePitch |-> deriveOneLinePitch(k),
      problemSolved |-> Or(live.oneLinePitch, deriveOneLinePitch(k)),
      primaryUser |-> {"some user"}, lastMeaningfulWork |-> deriveLastMeaningfulWork(live, k),
      knownRisks |-> deriveKnownRisks(live, k), auditNotes |-> deriveAuditNotes(live, k),
      localPath |-> {"title"}, startHere |-> deriveRunCommand(live),
      stack |-> {"local workflow"}, nextMove |-> deriveRunCommand(live),
      biggestBlocker |-> {"undocumented"},
      projectHealthNotes |-> deriveProjectHealthNotes(live, k),
      keyIntegrations |-> deriveKeyIntegrations(live, k),
      missingCorePieces |-> deriveMissingCorePieces(live, k),
      monetizationValue |-> {"some value"}, valueOutcome |-> deriveValueOutcome(live, k),
      completion |-> {"some foundation"}, readiness |-> deriveReadiness(live, k),
      mergedInto |-> {"nothing"} ]
\* the two selects and the lists,
Inferred(live, k) ==
    [ category |-> {"kind of tool"}, docsQuality |-> inferDocsQuality(live),
      projectShape |-> {"Tool"}, deploymentSurface |-> {"Web"},
      integrationTags |-> deriveIntegrationTags(live, k) ]
\* and the dates.
Days(live, k) ==
    [ lastActive |-> {"today"}, recommendationUpdated |-> {"today"},
      externalSignalUpdated |-> {"today"}, latestExternalActivity |-> Or(k.lastActive, {"today"}),
      lastBuildSessionDate |-> deriveLatestBuildEvidence(live, k) ]

Fallback(live, k) ==
    Derived(live, k) @@ Inferred(live, k) @@ Days(live, k)
    @@ [f \in DOMAIN Options |-> {Options[f]}] @@ [f \in Computed |-> {"computed"}]

VARIABLES
    pages,      \* page -> field -> value, {} if empty
    known,      \* page -> what is known of it
    run,        \* the runs
    starts, edits, faults,  \* count those
    overlap,    \* history: have two runs overlapped?
    given,      \* history: <<page, field>> that people filled while none ran
    calm        \* history: complete runs in a row since anything else happened

vars == <<pages, known, run, starts, edits, faults, overlap, given, calm>>

Empty == [p \in Pages |-> <<>>]
Idle == [pc |-> "idle", plan |-> Empty, left |-> {}, failed |-> {}, clean |-> TRUE]

Init ==
    /\ \E filled \in Begins :
           pages = [p \in Pages |-> [f \in Fields |->
                       IF f \in filled[p] THEN {"theirs"} ELSE {}]]
    /\ known \in [Pages -> Knowledge]
    /\ run = [r \in Runners |-> Idle]
    /\ starts = 0 /\ edits = 0 /\ faults = 0 /\ overlap = FALSE
    /\ given = {f \in Pages \X Fields : pages[f[1]][f[2]] # {}}
    /\ calm = 0

------------------------------------------------------------------------------
\* readLiveProjectSnapshot: the pitch of a page that has none is its summary.
readLiveProjectSnapshot(page) ==
    [page EXCEPT !.oneLinePitch = Or(@, page.summary)]

\* buildFieldPlan: every field that is empty and has something to fall back to.
buildFieldPlan(page, k) ==
    LET live     == readLiveProjectSnapshot(page)
        value(f) == IF f \in Told THEN Or(k[f], Fallback(live, k)[f]) ELSE Fallback(live, k)[f]
        due      == {f \in Fields : live[f] = {} /\ value(f) # {}}
    IN  [f \in due |-> value(f)]

------------------------------------------------------------------------------
Running(r) == run[r].pc = "write"
Set(r, next) == run' = [run EXCEPT ![r] = next]
Nobody == \A r \in Runners : ~Running(r)
World == <<known, starts, edits, faults, overlap>>

\* A run reads everything and plans; the pages without a plan are passed over.
Start(r) ==
    LET plan == [p \in Pages |-> buildFieldPlan(pages[p], known[p])] IN
    /\ ~Running(r) /\ starts < MaxRuns /\ starts' = starts + 1
    /\ overlap' = (overlap \/ ~Nobody)
    /\ calm' = IF Nobody THEN calm ELSE 0
    /\ Set(r, [Idle EXCEPT !.pc = "write", !.plan = plan, !.clean = Nobody,
                           !.left = {p \in Pages : plan[p] # <<>>}])
    /\ UNCHANGED <<pages, known, edits, faults, given>>

Filled(page, plan) == [f \in Fields |-> IF f \in DOMAIN plan THEN plan[f] ELSE page[f]]

Write(r, p) ==
    /\ Running(r) /\ p \in run[r].left
    /\ pages' = [pages EXCEPT ![p] = Filled(@, run[r].plan[p])]
    /\ Set(r, [run[r] EXCEPT !.left = @ \ {p}])
    /\ UNCHANGED <<World, given, calm>>

\* The update throws, and may have taken hold: a failure of this page only.
Refused(r, p) ==
    /\ Running(r) /\ p \in run[r].left /\ faults < MaxFaults /\ faults' = faults + 1
    /\ pages' \in {pages, [pages EXCEPT ![p] = Filled(@, run[r].plan[p])]}
    /\ Set(r, [run[r] EXCEPT !.left = @ \ {p}, !.failed = @ \cup {p}])
    /\ calm' = 0
    /\ UNCHANGED <<known, starts, edits, overlap, given>>

Finish(r) ==
    /\ Running(r) /\ run[r].left = {}
    /\ calm' = IF run[r].clean /\ run[r].failed = {} THEN calm + 1 ELSE 0
    /\ Set(r, [run[r] EXCEPT !.pc = "finished"])
    /\ UNCHANGED <<World, pages, given>>

Unclean(q) == [r \in Runners |-> [q[r] EXCEPT !.clean = FALSE]]

Dies(r) ==
    /\ Running(r) /\ faults < MaxFaults /\ faults' = faults + 1
    /\ Set(r, [Idle EXCEPT !.pc = "dead"])
    /\ calm' = 0
    /\ UNCHANGED <<pages, known, starts, edits, overlap, given>>

\* Somebody fills, changes or empties a field.
Edits(p, f, v) ==
    /\ edits < MaxEdits /\ edits' = edits + 1
    /\ pages' = [pages EXCEPT ![p][f] = v]
    /\ given' = IF v # {} /\ Nobody THEN given \cup {<<p, f>>} ELSE given \ {<<p, f>>}
    /\ run' = Unclean(run) /\ calm' = 0
    /\ UNCHANGED <<known, starts, faults, overlap>>

\* The audit builds the dataset anew.
Learns(p) ==
    /\ edits < MaxEdits /\ edits' = edits + 1
    /\ \E k \in Knowledge : known' = [known EXCEPT ![p] = k]
    /\ run' = Unclean(run) /\ calm' = 0
    /\ UNCHANGED <<pages, starts, faults, overlap, given>>

Next ==
    \/ \E r \in Runners :
         \/ Start(r) \/ Finish(r) \/ Dies(r)
         \/ \E p \in Pages : Write(r, p) \/ Refused(r, p)
    \/ \E p \in Pages :
         \/ Learns(p)
         \/ \E f \in Touched : Edits(p, f, {"theirs"}) \/ Edits(p, f, {})

Spec == Init /\ [][Next]_vars

------------------------------------------------------------------------------
(***************************************************************************)
(* TypeOK: a run that still writes has a plan for each page left.          *)
(***************************************************************************)
TypeOK ==
    /\ \A p \in Pages : DOMAIN pages[p] = Fields
    /\ \A r \in Runners : \A p \in run[r].left : run[r].plan[p] # <<>>

(***************************************************************************)
(* TheirsStand: what was in a field before a run began, or what somebody   *)
(* wrote there while none ran, no run replaces, however many overlap; only *)
(* a field that is filled while a run is at work may lose what it got      *)
(* (fillRichText, fillSelect and the others).                              *)
(***************************************************************************)
TheirsStand == \A f \in given : pages[f[1]][f[2]] = {"theirs"}

(***************************************************************************)
(* FillSettles: after one complete run that nothing disturbed, at most the *)
(* tags are due, which wait for the texts that it filled; after two        *)
(* nothing is due any more, and nothing is empty but the pitch of a page   *)
(* whose summary was taken for it (buildFieldPlan).                        *)
(***************************************************************************)
FillSettles ==
    Nobody =>
        \A p \in Pages :
            LET due == DOMAIN buildFieldPlan(pages[p], known[p]) IN
            /\ calm >= 1 => due \subseteq {"integrationTags"}
            /\ calm >= 2 =>
                 /\ due = {}
                 /\ \A f \in Fields :
                      pages[p][f] = {} => f = "oneLinePitch" /\ pages[p].summary # {}

(***************************************************************************)
(* OthersAreFilled: a run that finished has filled all it planned for each *)
(* page that Notion did not refuse, whatever became of the other pages     *)
(* (the catch around updatePageProperties).                                *)
(***************************************************************************)
OthersAreFilled ==
    edits = 0 =>
        \A r \in Runners :
            run[r].pc = "finished" =>
                \A p \in Pages \ run[r].failed :
                    \A f \in DOMAIN run[r].plan[p] : pages[p][f] # {}

(***************************************************************************)
(* TextsAgree: the health notes and the readiness text that a run writes   *)
(* name the state, the maturity and the ship readiness that the page has   *)
(* or gets beside them, unless the dataset has the text itself; only where *)
(* the page had none and the dataset knows none may they name another than *)
(* the option that is filled (deriveProjectHealthNotes, deriveReadiness).  *)
(***************************************************************************)
Names == ({"projectHealthNotes"} \X {"currentState", "buildMaturity", "shipReadiness"})
         \cup ({"readiness"} \X {"buildMaturity", "shipReadiness", "testPosture"})
TextsAgree ==
    edits = 0 /\ Nobody =>
        \A p \in Pages, n \in Names :
            <<p, n[1]>> \notin given /\ pages[p][n[1]] # {} =>
                \/ pages[p][n[2]] \subseteq pages[p][n[1]]
                \/ n[1] \in Told /\ known[p][n[1]] # {}
                \/ <<p, n[2]>> \notin given /\ known[p][n[2]] = {}
=============================================================================
