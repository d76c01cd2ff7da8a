----------------------------- MODULE MCArrivals -----------------------------
(***************************************************************************)
(* What must arrive in the end: small instances of the bridge sync, the    *)
(* signal sync, the weekly refresh and the webhook drain, side by side,    *)
(* and the config file that commands share.  The parts share nothing, so a *)
(* behaviour is one of `part`, and the others stay as they begin.  Two     *)
(* drains overlap over two requests for one delivery.                      *)
(***************************************************************************)
EXTENDS WebhookSpool, BuildLog, WeeklyState, ControlTowerConfig

VARIABLES
    part,
    posted, sync,                                                   \* bridge
    base, logged, stage, signalRows, cursor, briefs, runner, overlaps, torn,
    data, support,                                                  \* weekly
    faults

\* Rows 1 and 4 have a project, row 2 only a standing policy.
BridgeLanes == <<"shipped", "shipped", "ops", "shipped">>
Bridge == INSTANCE BridgeSync WITH
    Disposition <- <<"settled", "ready", "none", "none">>,
    Routed <- {1, 4}, Limit <- 2, Syncs <- {1, 2}, MaxFaults <- 1

Sync == INSTANCE SignalSync WITH
    Day <- <<1, 1>>, Resolved <- {1, 2}, MaxEvents <- 1, LastStage <- 2,
    Runners <- {1}, Scope <- <<"full">>, MaxFaults <- 1

WeeklyLanes == <<"tower", "packet", "execution">>
Weekly == INSTANCE WeeklyRefresh WITH
    Tower <- "tower", Attempts <- 2, MaxVersion <- 1, MaxPages <- 2, MaxFaults <- 1

\* The theorem about every list of lanes is about these.
ASSUME ArrivalsAssumption == LanesAreListed

\* The config to begin with has no phases 3, 5 and 6, and phase 1 is current.
Begun == {p \in DOMAIN AllSections :
             /\ p[1] \in Optional => p[1] \in {"phase2Execution", "phase4Native"}
             /\ "absent" \in AllSections[p] => p = <<"commandCenter", "page">>}
Given(p) == IF p = <<"phaseState", "currentPhase">> THEN <<"positive", 1>>
            ELSE IF "ref" \in AllSections[p] THEN <<"ref", 0>>
            ELSE <<CHOOSE k \in AllSections[p] \ {"absent"} : TRUE, 0>>
TowerStarts == {[p \in Begun |-> Given(p)]}
TowerAsked ==
    {[name |-> n, phase |-> 0] :
        n \in {"execution", "intelligence", "signals", "actionRequests", "linkSuggestions",
              "controlTower", "nativeAudit", "reviewPacket", "closeout"}}
    \cup {[name |-> "closeout", phase |-> k] : k \in {1, 2}}

\* The webhook drain and the config are modules this one extends.
Redelivered == <<1, 1>>
SameKey     == <<1, 1>>
NoMatches   == <<{}, {}>>

bridge  == <<posted, synced, log, sync, excused>>
signals == <<base, logged, stage, signalRows, cursor, briefs, runner, overlaps, torn>>
weekly  == <<data, support, rows, pages, config, run, child, finished, claim, vouched>>
all     == <<part, bridge, signals, weekly, tower, vars, faults>>

ArrivalsInit ==
        /\ part \in {"bridge", "signals", "weekly", "webhook", "tower"}
        /\ Bridge!Init /\ Sync!Init /\ Weekly!Init /\ Init /\ TowerInit

\* An action of one part, the others left alone.
InBridge(A)  == part = "bridge"  /\ A /\ UNCHANGED <<part, signals, weekly, tower, vars>>
InSignals(A) == part = "signals" /\ A /\ UNCHANGED <<part, bridge, weekly, tower, vars>>
InWeekly(A)  == part = "weekly"  /\ A /\ UNCHANGED <<part, bridge, signals, tower, vars>>
InWebhook(A) == part = "webhook" /\ A /\ UNCHANGED <<part, bridge, signals, weekly, tower, faults>>
InTower(A)   == part = "tower"   /\ A /\ UNCHANGED <<part, bridge, signals, weekly, vars, faults>>

ArrivalsNext == \/ InBridge(Bridge!Next)   \/ InSignals(Sync!Next)
                \/ InWeekly(Weekly!Next)   \/ InWebhook(Next)
                \/ InTower(TowerNext)

\* The fairness of each part, see the FairSpec of its module; what is fair in
\* one part shares a formula with what is fair in another.
Fairness ==
    /\ WF_all(\/ InBridge(Bridge!Start(1))
               \/ InSignals(Sync!Start(1) \/ Sync!StartPages(1))
               \/ InWeekly(Weekly!Run)
               \/ InWebhook(Advance(1)))
    /\ WF_all(\/ InBridge(Bridge!Proceed(1))
               \/ InSignals(Sync!Proceed(1))
               \/ InWeekly(Weekly!Child)
               \/ InWebhook(Advance(2)))
    /\ WF_all(InBridge(Bridge!Start(2)) \/ InWeekly(Weekly!SupportCleaned))
    /\ WF_all(InBridge(Bridge!Proceed(2)) \/ InWeekly(Weekly!Restored))

ArrivalsSpec == ArrivalsInit /\ [][ArrivalsNext]_all /\ Fairness

------------------------------------------------------------------------------
\* BridgeSafe is that of BuildLog, WeeklySafe that of WeeklyState, and
\* ConfigKept that of ControlTowerConfig.

(***************************************************************************)
(* ConfigLoads: what a command wrote whole into the config file the next   *)
(* one can load (WrittenConfigLoads of ControlTowerConfig).                *)
(***************************************************************************)
ConfigLoads == WrittenConfigLoads

\* RecordsArrive: every shipped row with a target is confirmed in the end
\* (RowsArrive); every line of a project gets its row and every stage of a
\* deployment is shown (SignalsArrive); what a lane's sources say reaches its
\* rows and its section (Refreshes).
RecordsArrive == Bridge!RowsArrive /\ Sync!SignalsArrive /\ Weekly!Refreshes
\* DrainsEnd of WebhookSpool: every file a drain has listed is moved away.
=============================================================================
