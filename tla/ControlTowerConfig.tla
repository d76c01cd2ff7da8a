------------------------- MODULE ControlTowerConfig -------------------------
(***************************************************************************)
(* The control-tower config file and the commands that load the whole of   *)
(* it, create the Notion databases it does not name yet, and save the      *)
(* whole of it again (src/notion/control-tower/config.ts, the ensure*      *)
(* functions and the commands that call them).  The loader hands on only   *)
(* the fields it knows, so a save after a load is also what forgets.       *)
(*                                                                         *)
(* The files and classes of value are those of ControlTowerSchema.  The    *)
(* weekly command and the replacement of the command-center page are in    *)
(* WeeklyRefresh.                                                          *)
(***************************************************************************)
EXTENDS ControlTowerSchema, FiniteSets, Functions

CONSTANTS
    Starts,     \* the files a person may begin with
    Asked,      \* the commands that are run: [name, phase]
    Runners,
    Phases,     \* the roadmap has phases 1 .. Phases
    MaxCommands, MaxCrashes   \* bounds

VARIABLES
    file,       \* the config file, or Torn
    databases,  \* databases[d]: the path of the reference it was created for
    buildLog,   \* the phases with a closeout page
    command,    \* the commands under way, and the config each has loaded
    kept,       \* history: what was written, and nobody overlapping saved over
    lost,       \* history: databases whose run died, saved nothing or was saved over
    centers,    \* how many command-center pages were created
    starts, crashes

tower == <<file, databases, centers, buildLog, command, starts, crashes, kept, lost>>

Torn == <<>>
ClassAt(config, p)  == IF p \in DOMAIN config THEN config[p][1] ELSE "absent"
NumberAt(config, p) == IF p \in DOMAIN config THEN config[p][2] ELSE 0
currentPhase(config)    == NumberAt(config, <<"phaseState", "currentPhase">>)
lastClosedPhase(config) == NumberAt(config, <<"phaseState", "lastClosedPhase">>)
Active(r) == command[r].pc # "idle"

Unstarted == [name |-> "none", phase |-> 0, pc |-> "idle", config |-> Torn, alone |-> TRUE]

------------------------------------------------------------------------------
Has(config)        == {p[1] : p \in DOMAIN config}
KnownPaths(config) == LET has == Has(config)
                      IN  {p \in DOMAIN AllSections : p[1] \in Optional => p[1] \in has}

\* A load takes a whole file whose every known field is acceptable, and
\* returns its known fields.
Loads(config) ==
    config # Torn /\ \A p \in KnownPaths(config) : ClassAt(config, p) \in AllSections[p]
parseLocalPortfolioControlTowerConfig(config) ==
    Restrict(config, DOMAIN config \cap KnownPaths(config))

------------------------------------------------------------------------------
\* What the ensure functions put where a section, or a group of it, is missing.
Value(class)  == <<class, 0>>
Texts         == Value("text")
Flags         == Value("flag")
Some          == Value("positive")
NoViews       == Value("views")
Default(config, section, defaults) ==
    config ++ LET groups == {SubSeq(p, 1, 2) : p \in {q \in DOMAIN config : Len(q) > 1}}
                  whole  == Within(section, defaults)
              IN  Restrict(whole, {p \in DOMAIN whole : SubSeq(p, 1, 2) \notin groups})
Told(phases) == {"phase1GaveUs"} \cup {Added(phases)[k] : k \in phases}

Phase3Defaults ==
    Of(Texts, {"scoringModelVersion"})
    ++ Within("cadence", Of(Flags, {"weeklyCanonical", "dailyDrillDown"}))
    ++ Within("confidenceThresholds", Of(Some, {"highSupportDensity", "suggestionMinimum"}))
    ++ Within("reviewRequirements", Of(Flags, {"weeklyRequiresHumanReview"}))
    ++ Within("viewIds", Of(NoViews, {"projects", "recommendationRuns", "linkSuggestions"}))
    ++ Within("phaseMemory", Of(Texts, Told({2, 3}) \cup {"phase4Brief", "phase5Brief"}))
Phase5Defaults ==
    Within("providerEnablement", Of(Flags, Providers))
    ++ Within("pollingCadenceMinutes", Of(Some, Providers))
    ++ Within("syncLimits", Of(Some, {"maxProjectsInFirstWave", "maxEventsPerSource"}))
    ++ Of(Texts, {"scoringModelVersion"})
    ++ Within("viewIds", Of(NoViews, {"sources", "events", "syncRuns", "projects"}))
    ++ Within("phaseMemory", Of(Texts, Told(2 .. 5) \cup {"phase6Brief", "phase7Brief"}))
ensurePhase6GovernanceState ==
    Within("receiver",
       Of(Value("shadow"), {"mode"}) ++ Of(Texts, {"spoolDirectory", "host"})
       ++ Within("pathRegistry", Of(Texts, Providers)))
    ++ Of(Value("app_first_least_privilege"), {"identityPosture"})
    ++ Within("providerStatus",
          Of(Value("shadow"), {"github"}) ++ Of(Value("disabled"), {"vercel", "googleCalendar"}))
    ++ Within("replayAndDedupe",
          LET rule == Of(Some, {"replayWindowMinutes"}) ++ Of(Texts, {"dedupeKey"})
          IN  Within("github", rule) ++ Within("vercel", rule) ++ Within("googleCalendar", rule))
    ++ Within("approvalDefaults",
          Of(Value("noWrite"), {"read"})
          ++ Of(Value("singleApproval"), {"comment", "issue", "deploymentControl"}))
    ++ Within("envRefs",
          Of(Texts, {"githubAppId", "githubAppPrivateKeyPem", "githubAppWebhookSecret",
                     "vercelWebhookSecret"})
          ++ Of(Value("texts"), {"breakGlassEnvVars"}))
    ++ Within("viewIds",
          Of(NoViews, {"policies", "actionRequests", "endpoints", "deliveries", "receipts"}))
    ++ Within("phaseMemory", Of(Texts, Told(2 .. 6) \cup {"phase7Brief"}))
    ++ Of(Texts, {"baselineCapturedAt"})

Intelligence == {"intelligence", "intelligenceBatch", "linkSuggestions", "recommendationRun"}
\* The references each ensure function needs, in the order it creates them,
\* and the sections it leaves filled.
Refs(section, names) == [i \in DOMAIN names |-> <<section, names[i]>>]
Ensured(name) ==
    CASE name \in {"execution", "executionBatch"} -> Refs("phase2Execution", <<"executionBriefs">>)
      [] name \in Intelligence ->
             Refs("phase3Intelligence",
                  <<"recommendationRuns", "linkSuggestions", "recommendationBriefs">>)
      [] name \in {"signals", "seedMappings"} ->
             Refs("phase5ExternalSignals",
                  <<"sources", "events", "syncRuns", "externalSignalBriefs">>)
      [] name \in {"actionRequests", "webhookDrain"} ->
             Refs("phase6Governance", <<"policies", "actionRequests", "webhookEndpoints",
                                        "webhookDeliveries", "webhookReceipts">>)
      [] OTHER -> <<>>
Filled(name, config) ==
    CASE name \in Intelligence ->
             Default(config, "phase3Intelligence", Phase3Defaults)
      [] name \in {"signals", "seedMappings"} ->
             Default(config, "phase5ExternalSignals", Phase5Defaults)
      [] name \in {"actionRequests", "webhookDrain"} ->
             Default(config, "phase6Governance", ensurePhase6GovernanceState)
      [] OTHER -> config

\* Only phase 6 takes the all-zero reference for a missing one.
ensureDataSourceRef(config, p) ==
    ClassAt(config, p) = "absent" \/ (p[1] = "phase6Governance" /\ ClassAt(config, p) = "blank")
Missing(name, config) == {i \in DOMAIN Ensured(name) : ensureDataSourceRef(config, Ensured(name)[i])}

------------------------------------------------------------------------------
\* What the commands write when they end.
SyncedAt(section, at, summary) ==
    Within(section, Of(Texts, {at}) ++ Of(Value("loose"), {summary}))
Baseline(section) == SyncedAt(section, "baselineCapturedAt", "baselineMetrics")
SyncRecorded(section, config) ==
    SyncedAt(section, "lastSyncAt", "lastSyncMetrics") ++ config ++ Baseline(section)
InProgress == Within("phaseState", Of(Texts, {"currentPhaseStatus"}))

\* metrics: "metrics", or "noMetrics" of a portfolio without projects.
buildNextControlTowerPhaseState(config, metrics) ==
    LET captured == Within("phaseState", Of(Texts, {"baselineCapturedAt"})
                                     ++ Of(Value(metrics), {"baselineMetrics"}))
    IN  Within("phaseState", Of(Texts, {"lastSyncAt"}) ++ Of(Value(metrics), {"lastSyncMetrics"}))
        ++ (IF <<"phaseState", "baselineMetrics">> \in DOMAIN config THEN <<>> ELSE captured)
        ++ config

PhaseIs(field, k) == Within("phaseState", Of(<<"positive", k>>, {field}))
\* Closing a phase before the current one fills a gap; any other moves on.
Closed(config, k) ==
    IF k < currentPhase(config)
    THEN PhaseIs("lastClosedPhase", IF lastClosedPhase(config) > k THEN lastClosedPhase(config)
                                    ELSE k) ++ config
    ELSE PhaseIs("currentPhase", k + 1) ++ PhaseIs("lastClosedPhase", k) ++ InProgress ++ config

center == <<"commandCenter", "page">>
Published(config, page) == Within("commandCenter", Of(<<"page", page>>, {"page"})) ++ config

\* The config a command saves when it ends.
Final(r, metrics) ==
    LET config == command[r].config
        name   == command[r].name
    IN  CASE name = "execution"    -> SyncRecorded("phase2Execution", config)
          [] name = "intelligence" -> InProgress ++ SyncRecorded("phase3Intelligence", config)
          [] name = "signals"      ->
                 (IF "phase3Intelligence" \in Has(config)
                  THEN Within("phase3Intelligence", Of(Texts, {"scoringModelVersion"})) ELSE <<>>)
                 ++ SyncRecorded("phase5ExternalSignals", config)
          [] name = "controlTower" -> buildNextControlTowerPhaseState(config, metrics)
          [] name = "nativeAudit"  ->
                 InProgress ++ SyncedAt("phase4Native", "lastAuditAt", "lastAuditSummary") ++ config
          [] name = "reviewPacket" ->
                 Within("weeklyMaintenance", Of(Texts, {"weeklyReviewLastPublishedAt"})) ++ config
          [] name = "closeout"      -> Closed(config, command[r].phase)

------------------------------------------------------------------------------
\* The commands that save what they ensured, and those that save a record.
Savers    == {"execution", "executionBatch", "intelligence", "intelligenceBatch",
              "signals", "actionRequests"}
Recorders == {"execution", "intelligence", "signals", "controlTower", "nativeAudit",
              "reviewPacket", "closeout"}
Commands  == Savers \cup Recorders \cup Intelligence \cup {"seedMappings", "webhookDrain"}

\* A first config names no database that a command created, and no closed phase.
ASSUME ConfigAssumption ==
    /\ \A f \in Starts :
           /\ \A p \in DOMAIN f : f[p][1] = "ref" => f[p][2] = 0
           /\ currentPhase(f) \in Nat /\ lastClosedPhase(f) = 0
    /\ \A c \in Asked : c.name \in Commands /\ c.phase \in Nat

Named(config) == {config[p][2] : p \in {q \in DOMAIN config : config[q][1] = "ref"}} \ {0}
GoesTo(r, pc) ==
    command' = [command EXCEPT ![r] = IF pc = "idle" THEN Unstarted ELSE [@ EXCEPT !.pc = pc]]

TowerInit == /\ file \in Starts
        /\ databases = <<>> /\ centers = 0 /\ buildLog = {}
        /\ command = [r \in Runners |-> Unstarted]
        /\ starts = 0 /\ crashes = 0
        /\ kept = {} /\ lost = {}

\* What a command asks of the config before it does anything.
Meets(config, c) ==
    /\ c.name \in {"execution", "executionBatch"} =>
           "phase2Execution" \in Has(config) /\ center \in DOMAIN config
    /\ c.name = "nativeAudit" => "phase4Native" \in Has(config) /\ center \in DOMAIN config
    /\ c.name = "closeout" => c.phase < Phases /\ currentPhase(config) < Phases

StartCommand(r, c) ==
    LET config == parseLocalPortfolioControlTowerConfig(file)
        phase  == IF c.phase = 0 THEN currentPhase(config) ELSE c.phase
    IN  /\ ~Active(r) /\ starts < MaxCommands /\ Loads(file) /\ Meets(config, c)
        /\ starts' = starts + 1
        /\ command' = [q \in Runners |->
               IF q = r THEN [name |-> c.name, phase |-> phase, config |-> config,
                              alone |-> \A o \in Runners : ~Active(o),
                              pc |-> CASE Ensured(c.name) # <<>> -> "ensure"
                                       [] c.name = "controlTower" -> "publish"
                                       [] c.name = "closeout" -> "log"
                                       [] OTHER -> "record"]
               ELSE IF Active(q) THEN [command[q] EXCEPT !.alone = FALSE] ELSE command[q]]
        /\ UNCHANGED <<file, databases, centers, buildLog, crashes, kept, lost>>

\* One missing database after another, then the defaults around them.
CreateDatabase(r) ==
    LET gaps == Missing(command[r].name, command[r].config)
        path == Ensured(command[r].name)[CHOOSE i \in gaps : \A j \in gaps : i <= j]
    IN  /\ command[r].pc = "ensure" /\ gaps # {}
        /\ databases' = Append(databases, path)
        /\ command' = [command EXCEPT ![r].config = [p \in {path} |-> <<"ref", Len(databases')>>] ++ @]
        /\ UNCHANGED <<file, centers, buildLog, starts, crashes, kept, lost>>

Complete(r) ==
    /\ command[r].pc = "ensure" /\ Missing(command[r].name, command[r].config) = {}
    /\ command' = [command EXCEPT ![r].config = Filled(command[r].name, @),
                          ![r].pc = IF command[r].name \in Savers THEN "save" ELSE "end"]
    /\ UNCHANGED <<file, databases, centers, buildLog, starts, crashes, kept, lost>>

\* The whole config over whatever the file holds by now.
SaveWhole(r, config) ==
    /\ file' = config
    /\ kept' = (IF command[r].alone THEN kept ELSE {}) \cup DOMAIN config
    /\ lost' = lost \cup (IF command[r].alone THEN {} ELSE Named(file) \ Named(config))
    /\ UNCHANGED <<databases, starts, crashes>>

SaveSchema(r) ==
    /\ command[r].pc = "save"
    /\ SaveWhole(r, command[r].config)
    /\ GoesTo(r, IF command[r].name \in Recorders THEN "record" ELSE "idle")
    /\ UNCHANGED <<centers, buildLog>>

\* The page is created when there is none, or when patching it fails on the wire.
PublishCommandCenter(r) ==
    /\ command[r].pc = "publish"
    /\ \/ /\ centers' = centers + 1
          /\ command' = [command EXCEPT ![r].pc = "record",
                                ![r].config = Published(command[r].config, centers')]
       \/ /\ center \in DOMAIN command[r].config
          /\ GoesTo(r, "record") /\ UNCHANGED centers
    /\ UNCHANGED <<file, databases, buildLog, starts, crashes, kept, lost>>

LogCloseout(r) ==
    /\ command[r].pc = "log"
    /\ buildLog' = buildLog \cup {command[r].phase}
    /\ GoesTo(r, "record")
    /\ UNCHANGED <<file, databases, centers, starts, crashes, kept, lost>>

SaveRecord(r) ==
    /\ command[r].pc = "record"
    /\ \E metrics \in {"metrics", "noMetrics"} :
           /\ command[r].name # "controlTower" => metrics = "metrics"
           /\ SaveWhole(r, Final(r, metrics))
    /\ GoesTo(r, "idle")
    /\ UNCHANGED <<centers, buildLog>>

\* A command that does not save takes the databases it created with it.
Dropped(r) == lost \cup (Named(command[r].config) \ (IF file = Torn THEN {} ELSE Named(file)))

EndUnsaved(r) ==
    /\ command[r].pc = "end"
    /\ lost' = Dropped(r)
    /\ GoesTo(r, "idle")
    /\ UNCHANGED <<file, databases, centers, buildLog, starts, crashes, kept>>

\* A command is killed, or a request of it fails; or its write is cut off.
Killed(r) ==
    /\ Active(r) /\ crashes < MaxCrashes
    /\ crashes' = crashes + 1
    /\ \/ lost' = Dropped(r) /\ UNCHANGED <<file, kept>>
       \/ /\ command[r].pc \in {"save", "record"}
          /\ file' = Torn /\ kept' = {}
          /\ lost' = lost \cup DOMAIN databases
    /\ GoesTo(r, "idle")
    /\ UNCHANGED <<databases, centers, buildLog, starts>>

TowerNext == \E r \in Runners :
           \/ \E c \in Asked : StartCommand(r, c)
           \/ CreateDatabase(r) \/ Complete(r) \/ SaveSchema(r) \/ PublishCommandCenter(r)
           \/ LogCloseout(r) \/ SaveRecord(r) \/ EndUnsaved(r) \/ Killed(r)

TowerSpec == TowerInit /\ [][TowerNext]_tower

------------------------------------------------------------------------------
\* A field that a command saved is there after every later command that
\* loads and saves the file while no other runs.
NothingForgotten == file # Torn => kept \subseteq DOMAIN file

\* A database that a command created is named in the file at its reference,
\* or held by a command still to save, unless the command died, does not
\* save, or was saved over by one that ran beside it.
DatabasesNamed ==
    \A d \in DOMAIN databases :
        \/ d \in lost
        \/ file # Torn /\ NumberAt(file, databases[d]) = d
        \/ \E r \in DOMAIN command : Active(r) /\ NumberAt(command[r].config, databases[d]) = d

\* The phase last closed comes before the current one, and has its closeout
\* page in the Build Log.
LadderHolds ==
    file # Torn /\ lastClosedPhase(file) > 0 =>
        lastClosedPhase(file) < currentPhase(file) /\ lastClosedPhase(file) \in buildLog

(***************************************************************************)
(* ConfigKept: the config file forgets nothing that commands one after     *)
(* another put there, names every database created for it, and counts the  *)
(* phases as the Build Log does.                                           *)
(***************************************************************************)
ConfigKept == NothingForgotten /\ DatabasesNamed /\ LadderHolds

(***************************************************************************)
(* What a command wrote whole, the next one can load, unless its metrics   *)
(* are of a portfolio without projects.                                    *)
(***************************************************************************)
WrittenConfigLoads ==
    file # Torn /\ (\A p \in DOMAIN file : file[p][1] # "noMetrics") => Loads(file)
=============================================================================
