----------------------------- MODULE SignalSync -----------------------------
(***************************************************************************)
(* The sync of external signals into Notion                                *)
(* (src/notion/external-signal-sync.ts, signal-watermarks.ts).  A run      *)
(* reads the notification hub's log from a cursor kept on this machine and *)
(* the state of a deployment from its provider, drops what Notion already  *)
(* has, writes one event row for the rest, moves the cursor, and brings    *)
(* the stored brief of the project up to date.  Runs may overlap, die and  *)
(* meet calls that fail.  A dry run writes nothing and is left out; so are *)
(* the providers whose events are told apart by their key alone, as the    *)
(* hub's are, and have no cursor.                                          *)
(***************************************************************************)
EXTENDS SignalRecords, FiniteSets

CONSTANTS
    MaxEvents,  \* events taken from a source in one run (a limit below 1 takes one)
    LastStage,  \* stages the deployment goes through
    Scope,      \* [Runners -> Scopes], its --write-scope
    MaxFaults   \* bound: deaths and failing calls

\* The scope portfolio-sections writes neither events nor briefs.
Scopes == {"full", "providers", "project-pages"}

VARIABLES
    logged,   \* lines base + 1 .. logged are in the hub's log
    stage,    \* what the provider says of the deployment, 0 is nothing yet
    faults

vars == <<base, logged, stage, signalRows, cursor, briefs, runner, faults, overlaps, torn>>

------------------------------------------------------------------------------
\* What a brief says: the rows it counts and the deployment's state.
Said(rows) == [ lines |-> {rows[i].key : i \in DOMAIN rows} \ {Bare, Deploy},
                stages |-> {rows[i].status : i \in DOMAIN rows} \ {0} ]
Nothing == [lines |-> {}, stages |-> {}]

\* todo are the keys to write, row the deployment's existing row,
\* upto the line the cursor moves to, page the page in hand.
Resting == [pc |-> "idle", mark |-> 0, seen |-> 0, todo |-> {}, row |-> 0,
            upto |-> 0, page |-> 0, said |-> Nothing]

Init ==
    /\ base = 0 /\ logged = 0 /\ stage = 0
    /\ signalRows = <<>> /\ cursor = 0 /\ briefs = <<>>
    /\ runner = [p \in Runners |-> Resting]
    /\ faults = 0 /\ overlaps = {} /\ torn = {}

In(p, pc) == runner[p].pc = pc
Move(p, state) == runner' = [runner EXCEPT ![p] = state]
Fault == faults < MaxFaults /\ faults' = faults + 1

World == <<base, logged, stage>>
History == <<faults, overlaps, torn>>

\* The hub appends a line, rotates old ones away; the deployment goes on.
Logs ==
    /\ logged < Len(Day) /\ logged' = logged + 1
    /\ UNCHANGED <<base, stage, signalRows, cursor, briefs, runner, History>>

Rotates ==
    /\ base < logged /\ base' \in base + 1 .. logged
    /\ UNCHANGED <<logged, stage, signalRows, cursor, briefs, runner, History>>

Deploys ==
    /\ stage < LastStage /\ stage' = stage + 1
    /\ UNCHANGED <<base, logged, signalRows, cursor, briefs, runner, History>>

------------------------------------------------------------------------------
CandidatesClosed(c) ==
    IF 0 < c /\ c <= base THEN {} ELSE {l \in base + 1 .. logged : c < l}

\* readNotificationHubJsonl: the lines after the cursor's, or all of them when
\* its line is no longer in the log.
Candidates(c) == {l \in base + 1 .. logged : c < l}

\* A run takes lines in their order until it has MaxEvents events; those of no
\* project are read and passed.
Taken(s) == {l \in s : Cardinality({k \in s \cap Resolved : k < l}) < MaxEvents}

\* syncProviders: a provider that cannot be read yields nothing, and the run
\* goes on with the others.
Reached(hub, vercel) == IF hub /\ vercel THEN UNCHANGED faults ELSE Fault

\* The lines of a hub that was read, what the provider says of the deployment,
\* and the lines that name a project.
Read(hub)      == IF hub THEN Taken(Candidates(cursor)) ELSE {}
Shown(vercel)  == IF vercel THEN stage ELSE 0
Named(lines)   == lines \cap Resolved

\* The line the cursor moves to.
Upto(lines) == IF lines = {} THEN 0 ELSE CHOOSE l \in lines : \A k \in lines : k <= l

Start(p) ==
    /\ In(p, "idle") /\ Scope[p] # "project-pages"
    /\ \E hub, vercel \in BOOLEAN :
        /\ Reached(hub, vercel)
        /\ LET lines == Read(hub)
           IN  Move(p, [Resting EXCEPT
                          !.pc = "dedupe", !.mark = cursor,
                          !.seen = Shown(vercel), !.todo = Named(lines),
                          !.upto = Upto(lines)])
    /\ UNCHANGED <<World, signalRows, cursor, briefs, overlaps, torn>>

\* A run of the pages alone takes the rows as they are.
StartPages(p) ==
    /\ In(p, "idle") /\ Scope[p] = "project-pages"
    /\ Move(p, [Resting EXCEPT !.pc = "brief", !.said = Said(signalRows)])
    /\ UNCHANGED <<World, signalRows, cursor, briefs, History>>

CoveredToday(l, mark) == mark # 0 /\ Day[l] <= Day[mark]

\* isCoveredByWatermark, on days: such a line is taken for one Notion has.
Covered(l, mark) == mark # 0 /\ Day[l] < Day[mark]

\* filterProviderResultsAgainstExistingEventKeys.  The deployment keeps one
\* row: it is created, or updated when its status changed.
Dedupe(p) ==
    /\ In(p, "dedupe")
    /\ \E row \in (IF RowsOf(Deploy) = {} THEN {0} ELSE RowsOf(Deploy)) :
        LET r == runner[p]
            fresh == {l \in r.todo : ~Covered(l, r.mark) /\ RowsOf(l) = {}}
            moved == r.seen # 0 /\ (row = 0 \/ signalRows[row].status # r.seen)
        IN  Move(p, [r EXCEPT !.pc = "write", !.row = row, !.mark = 0,
                              !.said = IF Scope[p] = "full" THEN Said(signalRows) ELSE Nothing,
                              !.todo = fresh \cup (IF moved THEN {Deploy} ELSE {})])
    /\ UNCHANGED <<World, signalRows, cursor, briefs, History>>

\* The deployment is written first, then the lines in their order.
Signal(p) == CHOOSE k \in runner[p].todo : \A j \in runner[p].todo : k <= j

\* The row the event in hand becomes.
Row(p) == [key |-> Signal(p), status |-> IF Signal(p) = Deploy THEN runner[p].seen ELSE 0]

Writing(p) == In(p, "write") /\ runner[p].todo # {}
UpdatesNever(p) == FALSE
Updates(p) == Signal(p) = Deploy /\ runner[p].row # 0

Overlapped(p) ==
    {k \in {Signal(p)} : \E q \in Runners \ {p} :
        runner[q].pc \in {"write", "describe"} /\ k \in runner[q].todo}

\* createSignalEventPage creates the page with its title, then describes it.
Create(p) ==
    /\ Writing(p) /\ ~Updates(p)
    /\ signalRows' = Append(signalRows, [key |-> Bare, status |-> 0])
    /\ Move(p, [runner[p] EXCEPT !.pc = "describe", !.page = Len(signalRows')])
    /\ overlaps' = overlaps \cup Overlapped(p)
    /\ UNCHANGED <<World, cursor, briefs, faults, torn>>

\* The row counts in the summaries of this run.
Counted(p) ==
    [runner[p] EXCEPT !.pc = "write", !.todo = @ \ {Signal(p)}, !.page = 0,
                      !.said = IF Scope[p] = "providers" THEN Nothing ELSE
                               [ lines |-> @.lines \cup ({Signal(p)} \ {Deploy}),
                                 stages |-> IF Signal(p) = Deploy THEN {runner[p].seen}
                                            ELSE @.stages ]]

Describe(p) ==
    /\ In(p, "describe")
    /\ signalRows' = [signalRows EXCEPT ![runner[p].page] = Row(p)]
    /\ Move(p, Counted(p))
    /\ overlaps' = overlaps \cup Overlapped(p)
    /\ UNCHANGED <<World, cursor, briefs, faults, torn>>

\* updateSignalEventPage patches the row found by the query.
Update(p) ==
    /\ Writing(p) /\ Updates(p)
    /\ signalRows' = [signalRows EXCEPT ![runner[p].row] = Row(p)]
    /\ Move(p, Counted(p))
    /\ UNCHANGED <<World, cursor, briefs, History>>

\* persistSignalWatermarks, when everything of this result has landed.
Mark(p) ==
    /\ In(p, "write") /\ runner[p].todo = {}
    /\ cursor' = IF runner[p].upto = 0 THEN cursor ELSE runner[p].upto
    /\ Move(p, IF Scope[p] = "providers" THEN Resting
               ELSE [Resting EXCEPT !.pc = "brief", !.said = runner[p].said])
    /\ UNCHANGED <<World, signalRows, briefs, History>>

------------------------------------------------------------------------------
\* buildStoredExternalSignalBriefRefreshes and the search of the upsert: the
\* body is only compared when the hash differs.
Evaluate(p) ==
    /\ In(p, "brief")
    /\ IF briefs = <<>>
       THEN Move(p, [runner[p] EXCEPT !.pc = "compose"])
       ELSE \E i \in 1 .. Len(briefs) :
              IF runner[p].said \in {briefs[i].hash, briefs[i].body}
              THEN Move(p, Resting)
              ELSE Move(p, [runner[p] EXCEPT !.pc = "hash", !.page = i])
    /\ UNCHANGED <<World, signalRows, cursor, briefs, History>>

\* createExternalSignalBriefPage: the body comes with the page, then the hash.
Compose(p) ==
    /\ In(p, "compose")
    /\ briefs' = Append(briefs, [hash |-> Unhashed, body |-> runner[p].said])
    /\ Move(p, [runner[p] EXCEPT !.pc = "seal", !.page = Len(briefs')])
    /\ UNCHANGED <<World, signalRows, cursor, History>>

\* Another run writes the same brief page.
Contended(p) ==
    {i \in {runner[p].page} : \E q \in Runners \ {p} :
        runner[q].page = i /\ runner[q].pc \in {"hash", "body", "seal"}}

HashOnly(p) ==
    /\ In(p, "hash") \/ In(p, "seal")
    /\ briefs' = [briefs EXCEPT ![runner[p].page].hash = runner[p].said]
    /\ Move(p, Resting)
    /\ torn' = torn \cup Contended(p)
    /\ UNCHANGED <<World, signalRows, cursor, faults, overlaps>>

\* The properties are patched, the hash with them (and alone, when the patch
\* of all of them was refused).
Hash(p) ==
    /\ In(p, "hash") \/ In(p, "seal")
    /\ briefs' = [briefs EXCEPT ![runner[p].page].hash = runner[p].said]
    /\ Move(p, IF In(p, "seal") THEN Resting ELSE [runner[p] EXCEPT !.pc = "body"])
    /\ torn' = torn \cup Contended(p)
    /\ UNCHANGED <<World, signalRows, cursor, faults, overlaps>>

Body(p) ==
    /\ In(p, "body")
    /\ briefs' = [briefs EXCEPT ![runner[p].page].body = runner[p].said]
    /\ Move(p, Resting)
    /\ torn' = torn \cup Contended(p)
    /\ UNCHANGED <<World, signalRows, cursor, faults, overlaps>>

\* A patch that fails for good is logged, and the upsert goes on.
PatchFails(p) ==
    /\ runner[p].pc \in {"hash", "seal", "body"} /\ Fault
    /\ Move(p, IF In(p, "hash") THEN [runner[p] EXCEPT !.pc = "body"] ELSE Resting)
    /\ torn' = IF In(p, "seal") THEN torn ELSE torn \cup {runner[p].page}
    /\ UNCHANGED <<World, signalRows, cursor, briefs, overlaps>>

\* The command dies, or a call it does not survive fails, after its effect or
\* without it.
Ends(p) ==
    /\ ~In(p, "idle") /\ Fault
    /\ signalRows' \in {signalRows} \cup (IF In(p, "describe")
                                  THEN {[signalRows EXCEPT ![runner[p].page] = Row(p)]} ELSE {})
    /\ Move(p, Resting)
    /\ torn' = IF In(p, "body") THEN torn \cup {runner[p].page} ELSE torn
    /\ overlaps' = IF signalRows' = signalRows THEN overlaps ELSE overlaps \cup Overlapped(p)
    /\ UNCHANGED <<World, cursor, briefs>>

Proceed(p) ==
    \/ Dedupe(p) \/ Create(p) \/ Describe(p) \/ Update(p) \/ Mark(p)
    \/ Evaluate(p) \/ Compose(p) \/ Hash(p) \/ Body(p)

Next ==
    \/ Logs \/ Rotates \/ Deploys
    \/ \E p \in Runners : Start(p) \/ StartPages(p) \/ Proceed(p) \/ PatchFails(p) \/ Ends(p)

Spec == Init /\ [][Next]_vars

\* The command is run again and again, and one that runs is scheduled.
Fairness == \A p \in Runners : WF_vars(Start(p) \/ StartPages(p)) /\ WF_vars(Proceed(p))

FairSpec == Spec /\ Fairness

------------------------------------------------------------------------------
(***************************************************************************)
(* SignalsArrive: a line that names a project gets its row, unless it is   *)
(* rotated away first; and the deployment's row comes to show each stage   *)
(* the provider stays in.                                                  *)
(***************************************************************************)
SignalsArrive ==
    []<>(/\ \A l \in Resolved \cap (base + 1 .. logged) : ~Late(l) => RowsOf(l) # {}
         /\ stage # 0 => \E i \in RowsOf(Deploy) : signalRows[i].status = stage)
=============================================================================
