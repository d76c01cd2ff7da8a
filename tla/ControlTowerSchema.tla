------------------------- MODULE ControlTowerSchema -------------------------
(***************************************************************************)
(* What the loader of the control-tower config file accepts and hands on   *)
(* (src/notion/control-tower/config.ts).  A file is a function from paths  *)
(* to values <<class, number>>: the class is what the parser tells apart,  *)
(* the number says which database, page or phase it is.  A database        *)
(* reference is one value ("blank": the all-zero id of a reference not yet *)
(* created), and so is the url and id of a page.  A parser is the set of   *)
(* classes it accepts for every path of its object.                        *)
(***************************************************************************)
EXTENDS Naturals, Sequences
LOCAL INSTANCE TLC   \* ToString

\* The fields of both; where both have one, that of f.
Overlaid(f, g) == [p \in DOMAIN f \cup DOMAIN g |-> IF p \in DOMAIN f THEN f[p] ELSE g[p]]
f ++ g       == Overlaid(f, g)

\* Every field of an object has the same kind; the object under a field.
Of(kind, fields) == [p \in {<<x>> : x \in fields} |-> kind]
Within(field, object) == [p \in {<<field>> \o q : q \in DOMAIN object} |-> object[Tail(p)]]

\* The primitives: the classes of value that each accepts.
requiredString            == {"text"}
optionalString            == {"text", "absent"}
requiredStringArray       == {"texts"}
requiredPositiveNumber    == {"positive"}
requiredNonNegativeNumber == {"positive", "zero"}
requiredBoolean           == {"flag"}
normalizeRequiredNotionId == {"id"}
optionalPage              == {"page", "absent"}
optionalNotionId          == {"id", "absent"}
parseExecutionDatabaseRef == {"ref", "blank"}
optionalDatabaseRef       == parseExecutionDatabaseRef \cup {"absent"}
parseOptionalViewIdRecord == {"views"}
\* MUTANT: the numbers of every phase are read as those of the portfolio.
optionalLooseMetricsStrict == {"metrics", "absent"}
optionalLooseMetrics == {"loose", "absent"}
\* Metrics of no projects have a total of 0, which is no positive number.
optionalMetrics           == {"metrics", "absent"}

\* The history every phase section keeps.
Captured == Of(optionalString, {"baselineCapturedAt"})
            ++ Of(optionalLooseMetrics, {"baselineMetrics"})
Synced   == Captured ++ Of(optionalString, {"lastSyncAt"})
            ++ Of(optionalLooseMetrics, {"lastSyncMetrics"})
Audited  == Captured ++ Of(optionalString, {"lastAuditAt"})
            ++ Of(optionalLooseMetrics, {"lastAuditSummary"})
Added(phases) == [k \in phases |-> "phase" \o ToString(k) \o "Added"]
Memory(added, other) ==
    Of(requiredString, {"phase1GaveUs"} \cup {Added(added)[k] : k \in added} \cup other)
Views(fields) == Of(parseOptionalViewIdRecord, fields)

------------------------------------------------------------------------------
\* What every config has.
parseDatabase == [p \in {<<>>} |-> parseExecutionDatabaseRef]
parseRelatedDataSources ==
    Of(normalizeRequiredNotionId,
       {"buildLogId", "weeklyReviewsId", "researchId", "skillsId", "toolsId"})
parseDestinations ==
    Of(requiredString, {"commandCenterAlias", "weeklyReviewAlias", "buildLogAlias"})
parseCommandCenter ==
    Of(requiredString, {"title", "parentPageUrl"}) ++ Of(optionalPage, {"page"})
parseFieldOwnership ==
    Of(requiredStringArray, {"manual", "derived", "legacyHidden"})
    ++ Of(requiredBoolean, {"hideLegacyInPrimaryViews"})
parseFreshnessWindows == Of(requiredPositiveNumber, {"freshMaxDays", "agingMaxDays"})
\* Every queue once; and one positive number for every review cadence.
parseQueuePrecedence   == [p \in {<<>>} |-> {"queues"}]
parsePositiveNumberMap == [p \in {<<>>} |-> {"numbers"}]
parseViewIds           == [p \in {<<>>} |-> parseOptionalViewIdRecord]
parsePhaseState ==
    Of(requiredPositiveNumber, {"currentPhase"})
    ++ Of(requiredString, {"currentPhaseStatus"})
    ++ Of(optionalString, {"baselineCapturedAt", "lastSyncAt"})
    ++ Of(optionalMetrics, {"baselineMetrics", "lastSyncMetrics"})
    ++ Of({"positive", "absent"}, {"lastClosedPhase"})

\* MUTANT: the field added last is not handed on.
parseWeeklyMaintenanceOld ==
    Of(optionalString, {"supportMaintenanceLastSyncAt", "weeklyRefreshLastRunAt"})
    ++ Of({"clean", "completed", "partial", "failed", "absent"}, {"weeklyRefreshLastStatus"})
    ++ Of(optionalLooseMetrics, {"weeklyRefreshLastSummary"})

parseWeeklyMaintenance ==
    Of(optionalString, {"supportMaintenanceLastSyncAt", "weeklyRefreshLastRunAt",
                        "weeklyReviewLastPublishedAt"})
    ++ Of({"clean", "completed", "partial", "failed", "absent"}, {"weeklyRefreshLastStatus"})
    ++ Of(optionalLooseMetrics, {"weeklyRefreshLastSummary"})

------------------------------------------------------------------------------
\* Phase 2: execution.
parseWipRules     == Of(requiredPositiveNumber, {"maxNowPackets", "maxStandbyPackets"})
parsePacketSizing ==
    Of(requiredPositiveNumber, {"targetMinWorkingDays", "targetMaxWorkingDays"})
    ++ Of(requiredStringArray, {"allowedSizeOptions"})
parseDecisionMateriality ==
    Of(requiredBoolean, {"trackOnlyMaterialDecisions"})
    ++ Of(requiredStringArray, {"allowedTypes"})
parsePhase2ViewIds == Views({"decisions", "packets", "tasks"})
parsePhaseMemory   == Memory({2}, {"phase3WillUse", "phase3Brief"})
parsePhase2Execution ==
    Of(optionalNotionId, {"defaultOwnerUserId"})
    ++ Of(parseExecutionDatabaseRef, {"decisions", "packets", "tasks"})
    ++ Of(optionalDatabaseRef, {"executionBriefs"})
    ++ Within("wipRules", parseWipRules) ++ Within("packetSizing", parsePacketSizing)
    ++ Within("decisionMateriality", parseDecisionMateriality)
    ++ Within("viewIds", parsePhase2ViewIds) ++ Within("phaseMemory", parsePhaseMemory) ++ Synced

\* Phase 3: intelligence.
parsePhase3Cadence == Of(requiredBoolean, {"weeklyCanonical", "dailyDrillDown"})
parsePhase3ConfidenceThresholds ==
    Of(requiredNonNegativeNumber, {"highSupportDensity", "suggestionMinimum"})
parsePhase3ReviewRequirements == Of(requiredBoolean, {"weeklyRequiresHumanReview"})
parsePhase3ViewIds == Views({"projects", "recommendationRuns", "linkSuggestions"})
parsePhase3Memory  == Memory({2, 3}, {"phase4Brief", "phase5Brief"})
parsePhase3Intelligence ==
    Of(parseExecutionDatabaseRef, {"recommendationRuns", "linkSuggestions"})
    ++ Of(optionalDatabaseRef, {"recommendationBriefs"})
    ++ Of(requiredString, {"scoringModelVersion"})
    ++ Within("cadence", parsePhase3Cadence)
    ++ Within("confidenceThresholds", parsePhase3ConfidenceThresholds)
    ++ Within("reviewRequirements", parsePhase3ReviewRequirements)
    ++ Within("viewIds", parsePhase3ViewIds) ++ Within("phaseMemory", parsePhase3Memory) ++ Synced

\* Phase 4: native overlays.
parseNativeStatus     == {"active", "deferred", "missing"}
parseNativeLiveMethod == {"playwright", "manual", "deferred"}
Notes == Of(optionalString, {"notes"})
parsePhase4Entitlements ==
    Of(requiredBoolean, {"businessPlanRequired", "businessWorkspaceVerified",
                         "customAgentsVisible", "syncedDatabasesVisible"})
    ++ Of(optionalString, {"verifiedAt"})
parsePhase4DashboardEntry(databaseKey) ==
    Of(requiredString, {"name"}) ++ Of({databaseKey}, {"databaseKey"})
    ++ Of(optionalPage, {"view"}) ++ Of(requiredNonNegativeNumber, {"widgetCount"})
    ++ Of(parseNativeStatus, {"status"}) ++ Notes
parsePhase4DashboardRegistry ==
    Within("portfolio", parsePhase4DashboardEntry("projects"))
    ++ Within("execution", parsePhase4DashboardEntry("tasks"))
parsePhase4AutomationEntry(databaseKey) ==
    Of(requiredString, {"name"}) ++ Of({databaseKey}, {"databaseKey"})
    ++ Of(requiredBoolean, {"nonCanonical"}) ++ Of(parseNativeStatus, {"status"})
    ++ Of(parseNativeLiveMethod, {"liveMethod"}) ++ Notes
    ++ Of(optionalString, {"deferReason"})
parsePhase4AutomationRegistry ==
    Within("projectReviewReminder", parsePhase4AutomationEntry("projects"))
    ++ Within("decisionRevisitReminder", parsePhase4AutomationEntry("decisions"))
    ++ Within("weeklyRunReviewReminder", parsePhase4AutomationEntry("recommendationRuns"))
\* Only the entry that requires an alias keeps its page.
parsePhase4PilotEntry(requireDestinationAlias) ==
    Of(requiredString, {"name"}) ++ Of(parseNativeStatus, {"status"})
    ++ Of(parseNativeLiveMethod, {"liveMethod"}) ++ Notes
    ++ Of(optionalString, {"deferReason"})
    ++ (IF requireDestinationAlias
        THEN Of(requiredString, {"destinationAlias"}) ++ Of(optionalPage, {"page"})
        ELSE <<>>)
parsePhase4PilotRegistry ==
    Within("githubDeliverySignals", parsePhase4PilotEntry(FALSE))
    ++ Within("weeklyNativeSummaryDraft", parsePhase4PilotEntry(TRUE))
parsePhase4Memory == Memory({2, 3, 4}, {"phase5Brief", "phase6Brief"})
parsePhase4Native ==
    Within("entitlements", parsePhase4Entitlements)
    ++ Within("dashboardRegistry", parsePhase4DashboardRegistry)
    ++ Within("automationRegistry", parsePhase4AutomationRegistry)
    ++ Within("pilotRegistry", parsePhase4PilotRegistry)
    ++ Within("phaseMemory", parsePhase4Memory) ++ Audited

\* Phase 5: external signals.
Providers == {"github", "vercel", "googleCalendar"}
parsePhase5ProviderEnablement == Of(requiredBoolean, Providers)
parsePhase5PollingCadence     == Of(requiredPositiveNumber, Providers)
parsePhase5SyncLimits ==
    Of(requiredPositiveNumber, {"maxProjectsInFirstWave", "maxEventsPerSource"})
parsePhase5ViewIds == Views({"sources", "events", "syncRuns", "projects"})
parsePhase5Memory  == Memory(2 .. 5, {"phase6Brief", "phase7Brief"})
parsePhase5ExternalSignals ==
    Of(parseExecutionDatabaseRef, {"sources", "events", "syncRuns"})
    ++ Of(optionalDatabaseRef, {"externalSignalBriefs"})
    ++ Within("providerEnablement", parsePhase5ProviderEnablement)
    ++ Within("pollingCadenceMinutes", parsePhase5PollingCadence)
    ++ Within("syncLimits", parsePhase5SyncLimits)
    ++ Of(requiredString, {"scoringModelVersion"})
    ++ Within("viewIds", parsePhase5ViewIds) ++ Within("phaseMemory", parsePhase5Memory) ++ Synced

\* Phase 6: governance.
parsePhase6ReceiverMode  == {"shadow"}
parsePhase6PathRegistry  == Of(requiredString, Providers)
parsePhase6Receiver ==
    Of(parsePhase6ReceiverMode, {"mode"}) ++ Of(requiredString, {"spoolDirectory"})
    ++ Of(optionalString, {"host"}) ++ Within("pathRegistry", parsePhase6PathRegistry)
parsePhase6IdentityPosture == {"app_first_least_privilege"}
parsePhase6ProviderMode    == {"disabled", "shadow", "live"}
parsePhase6ProviderStatus  == Of(parsePhase6ProviderMode, Providers)
parsePhase6ReplayRule ==
    Of(requiredPositiveNumber, {"replayWindowMinutes"}) ++ Of(requiredString, {"dedupeKey"})
parsePhase6ReplayAndDedupe ==
    Within("github", parsePhase6ReplayRule) ++ Within("vercel", parsePhase6ReplayRule)
    ++ Within("googleCalendar", parsePhase6ReplayRule)
parsePhase6ApprovalRule == {"noWrite", "singleApproval", "dualApproval", "Emergency"}
parsePhase6ApprovalDefaults ==
    Of(parsePhase6ApprovalRule, {"read", "comment", "issue", "deploymentControl"})
parsePhase6EnvRefs ==
    Of(requiredString, {"githubAppId", "githubAppPrivateKeyPem",
                        "githubAppWebhookSecret", "vercelWebhookSecret"})
    ++ Of(requiredStringArray, {"breakGlassEnvVars"})
parsePhase6ViewIds ==
    Views({"policies", "actionRequests", "endpoints", "deliveries", "receipts"})
parsePhase6Memory == Memory(2 .. 6, {"phase7Brief"})
parsePhase6Governance ==
    Of(parseExecutionDatabaseRef, {"policies", "actionRequests", "webhookEndpoints",
                                   "webhookDeliveries", "webhookReceipts"})
    ++ Within("receiver", parsePhase6Receiver)
    ++ Of(parsePhase6IdentityPosture, {"identityPosture"})
    ++ Within("providerStatus", parsePhase6ProviderStatus)
    ++ Within("replayAndDedupe", parsePhase6ReplayAndDedupe)
    ++ Within("approvalDefaults", parsePhase6ApprovalDefaults)
    ++ Within("envRefs", parsePhase6EnvRefs)
    ++ Within("viewIds", parsePhase6ViewIds) ++ Within("phaseMemory", parsePhase6Memory) ++ Audited

\* Phases 7 and 8: actuation, and what GitHub may be asked to do.
Limits ==
    Of({"serial"}, {"mode"})
    ++ Of(requiredPositiveNumber, {"maxLivePerRun", "maxDryRunsPerRun",
                                   "minSecondsBetweenWrites"})
Metrics ==
    Of(requiredString, {"dryRunSuccessRate", "liveSuccessRate", "actuationFailureRate",
                        "compensationNeededCount", "approvalToExecutionHours"})
parsePhase7RolloutProfile == {"github_first_issues_then_comments"}
parsePhase7RunnerLimits   == Limits
parsePhase7LiveGating ==
    Of(requiredBoolean, {"requireApproval", "requireNonExpiredRequest",
                         "requireActiveGitHubTarget", "requireFreshDryRunBeforeLive"})
    ++ Of(requiredPositiveNumber, {"freshDryRunMaxAgeHours"})
parsePhase7GitHubAuth ==
    Of({"githubApp"}, {"provider"}) ++ Of(requiredPositiveNumber, {"tokenLifetimeMinutes"})
    ++ Of(requiredBoolean, {"mintPerRun"})
parsePhase7MetricsRegistry == Metrics
parsePhase7ViewIds == Views({"actionRequests", "executions", "sources"})
parsePhase7Memory  == Memory(2 .. 7, {"phase8Brief"})
parsePhase7Actuation ==
    Of(parseExecutionDatabaseRef, {"executions"})
    ++ Of(parsePhase7RolloutProfile, {"rolloutProfile"})
    ++ Within("runnerLimits", parsePhase7RunnerLimits) ++ Within("liveGating", parsePhase7LiveGating)
    ++ Within("githubAuth", parsePhase7GitHubAuth)
    ++ Within("metricsRegistry", parsePhase7MetricsRegistry)
    ++ Within("viewIds", parsePhase7ViewIds) ++ Within("phaseMemory", parsePhase7Memory) ++ Audited

parsePhase8RolloutProfile == {"github_issue_lifecycle_then_pr_comments"}
parsePhase8ActionFamilies ==
    Of(requiredBoolean, {"createIssue", "updateIssue", "setLabels", "setAssignees",
                         "addIssueComment", "commentPullRequest"})
parsePhase8WriteSafety == Limits
parsePhase8PermissionPosture ==
    Of({"read_write"}, {"issues"}) ++ Of({"read_only"}, {"metadata"})
    ++ Of({"disabled"}, {"broaderRepositoryPermissions"})
parsePhase8WebhookFeedback ==
    Of({"shadow", "trusted_feedback"}, {"githubStatus"})
    ++ Of(requiredStringArray, {"subscribedEvents"}) ++ Of({"execution_first"}, {"reconcileMode"})
parsePhase8MetricsRegistry == Metrics ++ Of(requiredString, {"reconcileConfirmationRate"})
parsePhase8ViewIds == Views({"actionRequests", "executions", "sources"})
parsePhase8Memory  == Memory(2 .. 8, {"phase9Brief"})
parsePhase8GithubDeepening ==
    Of(parsePhase8RolloutProfile, {"rolloutProfile"})
    ++ Within("actionFamilies", parsePhase8ActionFamilies)
    ++ Within("writeSafety", parsePhase8WriteSafety)
    ++ Within("permissionPosture", parsePhase8PermissionPosture)
    ++ Within("webhookFeedback", parsePhase8WebhookFeedback)
    ++ Within("metricsRegistry", parsePhase8MetricsRegistry)
    ++ Within("viewIds", parsePhase8ViewIds) ++ Within("phaseMemory", parsePhase8Memory) ++ Audited

------------------------------------------------------------------------------
\* The sections a config may lack, and the parser of every path.
Optional == {"phase2Execution", "phase3Intelligence", "phase4Native",
             "phase5ExternalSignals", "phase6Governance", "phase7Actuation",
             "phase8GithubDeepening", "weeklyMaintenance"}
AllSections ==
    Within("database", parseDatabase) ++ Within("relatedDataSources", parseRelatedDataSources)
    ++ Within("destinations", parseDestinations) ++ Within("commandCenter", parseCommandCenter)
    ++ Within("fieldOwnership", parseFieldOwnership)
    ++ Within("reviewCadenceDays", parsePositiveNumberMap)
    ++ Within("freshnessWindows", parseFreshnessWindows)
    ++ Within("queuePrecedence", parseQueuePrecedence) ++ Within("viewIds", parseViewIds)
    ++ Within("phase2Execution", parsePhase2Execution)
    ++ Within("phase3Intelligence", parsePhase3Intelligence)
    ++ Within("phase4Native", parsePhase4Native)
    ++ Within("phase5ExternalSignals", parsePhase5ExternalSignals)
    ++ Within("phase6Governance", parsePhase6Governance)
    ++ Within("phase7Actuation", parsePhase7Actuation)
    ++ Within("phase8GithubDeepening", parsePhase8GithubDeepening)
    ++ Within("phaseState", parsePhaseState) ++ Within("weeklyMaintenance", parseWeeklyMaintenance)

=============================================================================
