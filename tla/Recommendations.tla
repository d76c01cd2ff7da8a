--------------------------- MODULE Recommendations ---------------------------
(***************************************************************************)
(* What the control tower, the intelligence sync and the signal sync       *)
(* derive from a project: its queue, freshness and review date, the        *)
(* summary of its external signals, and the recommendation.                *)
(*                                                                         *)
(* A project is a record of its page's fields; research, skills, tools,    *)
(* decisions, packets and tasks stand for the linked records by what is    *)
(* counted of them.  Dates are day numbers, 0 if there is none.  Scores    *)
(* are exact; the code computes them in floating point.                    *)
(***************************************************************************)
EXTENDS Naturals, Sequences, FiniteSets

CONSTANTS
    FreshMaxDays, AgingMaxDays,  \* freshnessWindows of the config
    Cadence                      \* reviewCadenceDays: a function of the state

CadenceOf(state) == IF state \in DOMAIN Cadence THEN Cadence[state] ELSE 14

\* As configured, an active project is to be reviewed before its evidence is stale.
ASSUME WindowsAssumption ==
    AgingMaxDays \in Nat /\ CadenceOf("Active Build") \in 0 .. AgingMaxDays

\* What people, providers and other commands keep of a project.
ProjectFacts == [
    state : STRING, call : STRING, runs : STRING, friction : STRING, ship : STRING,
    toShip : STRING, toDemo : STRING, maturity : STRING, confidence : STRING, docs : STRING,
    tests : STRING, relevance : STRING, review : BOOLEAN, move : BOOLEAN, activePacket : BOOLEAN,
    active : Nat, session : Nat, sessions : Nat, research : Nat, skills : Nat, tools : Nat,
    decisions : Nat, packets : Nat, tasks : Nat, blockedPackets : Nat, blockedTasks : Nat,
    rollovers : Nat, recentDone : Nat, mapped : Nat, sources : SUBSET STRING,
    events : Seq([type : STRING, status : STRING, provider : STRING, day : Nat]) ]

\* A table whose rows are the fields of a record.
Among(x, table) == IF x \in DOMAIN table THEN table[x] ELSE 0
If(b, x) == IF b THEN x ELSE 0
Least(x, y) == IF x <= y THEN x ELSE y
Less(x, y) == IF y <= x THEN x - y ELSE 0          \* x - y, at least 0
YesNo(x, score) == CASE x = "Yes" -> score [] x = "No" -> 0 [] OTHER -> (score + 1) \div 2
Clamp(x) == Least(100, x)
Rounded(x) == Clamp((x + 50) \div 100)             \* of hundredths
Newest(x, y) == IF x <= y THEN y ELSE x
Age(day, today) == IF day = 0 THEN 1000 ELSE Less(today, day)

-------------------------------------------------------------------------------
(***************************************************************************)
(* The control tower.                                                      *)
(***************************************************************************)
Queue(f) ==
    IF f.state = "Shipped" THEN "Shipped"
    ELSE IF f.review THEN "Needs Review"
    ELSE IF f.state = "Needs Decision" THEN "Needs Decision"
    ELSE IF f.call = "Finish" THEN "Worth Finishing"
    ELSE IF f.state = "Active Build" /\ f.runs # "No" /\ f.friction # "High"
         THEN "Resume Now"
    ELSE IF f.state \in {"Parked", "Archived"} THEN "Cold Storage" ELSE "Watch"

Evidence(f) == Newest(f.active, f.session)

Freshness(f, today) ==
    LET age == Age(Evidence(f), today)
    IN  IF age <= FreshMaxDays THEN "Fresh"
        ELSE IF age <= AgingMaxDays THEN "Aging" ELSE "Stale"

ReviewDate(f) == IF Evidence(f) = 0 THEN 0 ELSE Evidence(f) + CadenceOf(f.state)

Derived(f, today) == [queue |-> Queue(f), freshness |-> Freshness(f, today),
                      reviewDate |-> ReviewDate(f)]

\* Mutant: the milder reasons before the review date.
RescueReasonMildFirst(f, d, today) ==
    IF ~f.move THEN "missing-next-move"
    ELSE IF f.active = 0 THEN "missing-last-active"
    ELSE IF f.sessions = 0 THEN "no-build-evidence"
    ELSE IF d.reviewDate # 0 /\ d.reviewDate <= today THEN "overdue-review"
    ELSE "stale-evidence"

\* Why an active project with stale evidence is in the rescue list.
RescueReason(f, d, today) ==
    IF ~f.move THEN "missing-next-move"
    ELSE IF f.active = 0 THEN "missing-last-active"
    ELSE IF d.reviewDate # 0 /\ d.reviewDate <= today THEN "overdue-review"
    ELSE IF f.sessions = 0 THEN "no-build-evidence"
    ELSE IF f.research + f.skills + f.tools = 0 THEN "thin-support"
    ELSE IF f.confidence \notin {"", "High"} THEN "low-confidence"
    ELSE "stale-evidence"

RescuePriority(reason) ==
    CASE reason \in {"missing-next-move", "missing-last-active", "overdue-review"} -> "high"
      [] reason \in {"no-build-evidence", "thin-support", "low-confidence"} -> "medium"
      [] OTHER -> "low"

Rescued(f, d) == f.state = "Active Build" /\ d.freshness = "Stale"

-------------------------------------------------------------------------------
(***************************************************************************)
(* The external signals of a project: events newest first, and the types   *)
(* of its active sources.                                                  *)
(***************************************************************************)
Failing == {"failed", "failure", "error", "timed_out", "cancelled", "canceled"}
Good    == {"ready", "success", "succeeded"}
Moving  == {"building", "queued", "in_progress"}

OfType(events, type) == SelectSeq(events, LAMBDA e : e.type = type)
Deployments(events)  == OfType(events, "Deployment")
WorkflowRuns(events) == OfType(events, "Workflow Run")
FromGitHub(events)   == SelectSeq(events, LAMBDA e : e.provider = "GitHub")

Coverage(f) ==
    LET Has(type) == type \in f.sources
    IN  IF f.mapped = 0 THEN "None"
        ELSE IF Has("repo") /\ Has("deploy") THEN "Repo + Deploy"
        ELSE IF Has("repo") /\ ~Has("calendar") THEN "Repo Only"
        ELSE IF Has("calendar") /\ ~Has("repo") /\ ~Has("deploy") THEN "Calendar Only"
        ELSE "Mixed"

\* A repository and a deployment are at least two active sources.
CoverageScore(f) ==
    CASE Coverage(f) = "Repo + Deploy" -> 100 [] Coverage(f) = "Repo Only" -> 55
      [] Coverage(f) = "Calendar Only" -> 35 [] Coverage(f) = "Mixed" -> 70 [] OTHER -> 0

DeploymentStatus(f) ==
    LET seen == Deployments(f.events)
        s    == IF seen = <<>> THEN "" ELSE Head(seen).status
    IN  IF "deploy" \notin f.sources THEN "Not Deployed"
        ELSE CASE s \in Good -> "Success" [] s \in {"failed", "error", "failure"} -> "Failed"
               [] s \in Moving -> "Building" [] s \in {"canceled", "cancelled"} -> "Canceled"
               [] OTHER -> "Unknown"

\* The indices of events of a type that are in one of these states.
Those(events, type, states) ==
    {i \in DOMAIN events : events[i].type = type /\ events[i].status \in states}
OpenPrs(f) == Cardinality(Those(f.events, "Pull Request", {"open", "draft", "ready_for_review"}))
RecentFailures(f, today) ==
    Cardinality({i \in Those(f.events, "Workflow Run", Failing) : Age(f.events[i].day, today) <= 14})

RepoFreshness(f, today) ==
    LET seen == FromGitHub(f.events)
        age  == Age(Head(seen).day, today)
    IN  IF "repo" \notin f.sources THEN 0
        ELSE IF seen = <<>> THEN 35
        ELSE CASE age <= 3 -> 100 [] age \in 4 .. 7 -> 82 [] age \in 8 .. 14 -> 64
               [] age \in 15 .. 30 -> 38 [] OTHER -> 12

WorkflowHealth(f, today) ==
    LET seen == WorkflowRuns(f.events)
        bad  == RecentFailures(f, today)
        last == Head(seen).status \in Failing
    IN  IF "repo" \notin f.sources THEN 0
        ELSE IF seen = <<>> THEN 55
        ELSE IF bad = 0 /\ ~last THEN 92
        ELSE Less(88, 22 * bad + If(last, 18))

DeploymentHealth(f, today) ==
    LET seen == Deployments(f.events)
        s    == Head(seen).status
        age  == Age(Head(seen).day, today)
        new  == CASE age <= 7 -> 18 [] age \in 8 .. 21 -> 10 [] OTHER -> 0
    IN  IF "deploy" \notin f.sources THEN 0
        ELSE IF seen = <<>> THEN 45
        ELSE CASE s \in Good -> Clamp(82 + new) [] s \in Moving -> Clamp(58 + new)
               [] s \in {"failed", "error", "failure"} -> 16
               [] s \in {"canceled", "cancelled"} -> 28 [] OTHER -> 42

\* How far the signals contradict an optimistic page.
Contradiction(f, d, today) ==
    IF Coverage(f) = "None" \/ ~( \/ d.queue \in {"Resume Now", "Worth Finishing"}
                                  \/ f.ship \in {"Near Ship", "Ready to Demo"} )
    THEN 0
    ELSE Clamp( 25 * RecentFailures(f, today)
                + If(DeploymentStatus(f) = "Failed", 35)
                + If(RepoFreshness(f, today) <= 20, 18) )

\* The fields of the page that summarise the signals.
Summary(f) ==
    [ coverage |-> Coverage(f), deployment |-> DeploymentStatus(f), prs |-> OpenPrs(f),
      activity |-> IF f.events = <<>> THEN 0 ELSE Head(f.events).day ]

Nudge(x) == Least(15, (x + 50) \div 100)
Boosts(f, d, today) ==
    LET cover == 5 * CoverageScore(f)
        repo  == RepoFreshness(f, today)
        work  == WorkflowHealth(f, today)
        idle  == Nudge(10 * (100 - repo) + cover)
        down  == DeploymentStatus(f) = "Failed"
    IN  IF Coverage(f) = "None"
        THEN [Resume |-> 0, Finish |-> 0, Investigate |-> 0, Defer |-> 0]
        ELSE [ Resume |-> Nudge(8 * repo + 7 * work + cover),
               Finish |-> Nudge(12 * DeploymentHealth(f, today) + 8 * work + cover),
               Investigate |-> Nudge(18 * Contradiction(f, d, today) + If(down, 600)
                                     + If(RecentFailures(f, today) > 0, 600)),
               Defer |-> Least(15, idle + If(down, 4) + If(d.queue = "Cold Storage", 6)) ]

-------------------------------------------------------------------------------
(***************************************************************************)
(* The factors of the scoring model, each of 0 .. 100; d is what the page  *)
(* holds as derived.                                                       *)
(***************************************************************************)
QueueScore(queue) ==
    CASE queue = "Resume Now" -> 35 [] queue = "Worth Finishing" -> 30
      [] queue = "Needs Review" -> 18 [] queue = "Needs Decision" -> 12
      [] queue = "Cold Storage" -> 4 [] queue = "Shipped" -> 0 [] OTHER -> 10

ExecutionReadiness(f, d) == Clamp(
    QueueScore(d.queue) + If(f.move, 15) + YesNo(f.runs, 15)
    + Among(f.friction, [Low |-> 20, Medium |-> 12, High |-> 4])
    + If(f.activePacket, 10) + If(f.decisions = 0, 10))

ShipScore(ship) ==
    CASE ship = "Near Ship" -> 35 [] ship = "Ready to Demo" -> 28 [] ship = "Needs Proof" -> 18
      [] ship = "Unknown" -> 8 [] OTHER -> 0
TimeToShipScore(time) ==
    CASE time = "<30m" -> 20 [] time = "1h" -> 18 [] time = "Half day" -> 16 [] time = "1 day" -> 14
      [] time = "2-3 days" -> 10 [] time = "1 week" -> 6 [] time = "1-2 weeks" -> 4 [] OTHER -> 0
MaturityScore(maturity) ==
    CASE maturity = "Feature Complete" -> 25 [] maturity = "Working Core" -> 20
      [] maturity = "Prototype" -> 12 [] maturity = "Needs Setup" -> 5 [] OTHER -> 0

FinishProximity(f) == Clamp(
    ShipScore(f.ship) + TimeToShipScore(f.toShip) + MaturityScore(f.maturity)
    + 10 * Least(f.recentDone, 2))

EvidenceStrength(f, d) == Clamp(
    Among(d.freshness, [Fresh |-> 35, Aging |-> 20, Stale |-> 8])
    + Among(f.confidence, [High |-> 20, Medium |-> 12, Low |-> 5])
    + Among(f.docs, [Strong |-> 15, Usable |-> 10, Thin |-> 5])
    + Among(f.tests, [Strong |-> 15, Some |-> 10, Sparse |-> 5, Unknown |-> 3])
    + 5 * Least(f.research, 3))

Support(f) == f.research + f.skills + f.tools
SupportRich(f) == Support(f) >= 3

\* relevance is the one most of the linked skills have.
SupportFit(f) == Clamp(
    12 * Least(f.research, 3) + 10 * Least(f.skills, 3) + 10 * Least(f.tools, 3)
    + Among(f.relevance, [Core |-> 20, Useful |-> 12, Peripheral |-> 6])
    + If(SupportRich(f), 12))

Pain(f) == f.rollovers + f.blockedTasks

\* Mutant: a blocked packet counts like an active one.
ExecutionHealthByPackets(f) == Clamp(
    Less(100 + If(f.activePacket, 8) + 8 * f.blockedPackets,
         10 * f.blockedTasks + 8 * Pain(f) + 8 * f.decisions))

ExecutionHealth(f) == Clamp(
    Less(100 + If(f.activePacket, 8),
         20 * f.blockedPackets + 10 * f.blockedTasks + 8 * Pain(f) + 8 * f.decisions))

TimeToDemoScore(time) ==
    CASE time = "<30m" -> 35 [] time = "1h" -> 30 [] time = "Half day" -> 25 [] time = "1 day" -> 20
      [] time = "2-3 days" -> 12 [] time = "1 week" -> 8 [] OTHER -> 0

AttentionCost(f) == Clamp(
    Among(f.friction, [Low |-> 40, Medium |-> 24, High |-> 8]) + TimeToDemoScore(f.toDemo)
    + YesNo(f.runs, 20))

DriftScore(state) ==
    CASE state = "Parked" -> 25 [] state = "Archived" -> 30 [] state = "Needs Decision" -> 15
      [] state = "Active Build" -> 5 [] OTHER -> 0

ColdnessDrift(f, d, today) == Clamp(
    Among(d.freshness, [Stale |-> 30, Aging |-> 18, Fresh |-> 5]) + DriftScore(f.state)
    + If(Age(f.active, today) > 30, 25))

DecisionScore(state) ==
    CASE state = "Needs Decision" -> 45 [] state = "Ready for Review" -> 18
      [] state = "Active Build" -> 10 [] OTHER -> 0

DecisionStateFit(f) == Clamp(
    DecisionScore(f.state)
    + 15 * Least(f.decisions, 3) + 10 * Least(f.research, 2))

AmbiguityPenalty(f) ==
    Less(100, Among(f.confidence, [High |-> 70, Medium |-> 45, Low |-> 10])
              + 10 * Least(f.research, 2))

BlockerPenalty(f) == Clamp(40 * f.blockedPackets + 20 * f.blockedTasks + 15 * f.decisions)

FreshnessScore(f, d) == Clamp(
    Among(d.freshness, [Fresh |-> 70, Aging |-> 40, Stale |-> 10]) + If(f.active # 0, 30))

-------------------------------------------------------------------------------
(***************************************************************************)
(* The recommendation.                                                     *)
(***************************************************************************)
Scores(f, d, today) ==
    LET boost == Boosts(f, d, today)
        evidence == EvidenceStrength(f, d)
        support  == SupportFit(f)
        cost     == AttentionCost(f)
        health   == ExecutionHealth(f)
    IN [ Resume |-> Rounded(30 * ExecutionReadiness(f, d) + 20 * support + 15 * evidence
                            + 15 * health + 10 * cost + 10 * FreshnessScore(f, d)
                            + 100 * boost.Resume),
         Finish |-> Rounded(35 * FinishProximity(f) + 20 * health + 15 * evidence
                            + 10 * support + 10 * cost + 10 * (100 - BlockerPenalty(f))
                            + 100 * boost.Finish),
         Investigate |-> Rounded(30 * DecisionStateFit(f) + 25 * evidence + 20 * support
                            + 15 * FreshnessScore(f, d) + 10 * (100 - AmbiguityPenalty(f))
                            + 100 * boost.Investigate),
         Defer |-> Rounded(30 * ColdnessDrift(f, d, today) + 25 * (100 - evidence)
                            + 20 * (100 - cost) + 15 * (100 - support)
                            + 10 * Clamp(10 * Pain(f)) + 100 * boost.Defer) ]

\* The first of the lanes with the highest score, in the order of the code.
TopLane(s) ==
    LET top(l) == \A m \in DOMAIN s : s[m] <= s[l]
    IN  IF top("Resume") THEN "Resume" ELSE IF top("Finish") THEN "Finish"
        ELSE IF top("Investigate") THEN "Investigate" ELSE "Defer"

Finishing(f, d) ==
    /\ \/ f.state \in {"Ready for Review", "Ready to Demo"}
       \/ f.call = "Finish" \/ d.queue = "Worth Finishing"
    /\ \/ f.maturity \in {"Feature Complete", "Demoable", "Shippable"}
       \/ f.ship \in {"Near Ship", "Ship-Ready", "Needs Hardening"}

ChooseLane(f, d, s) ==
    IF f.state = "Shipped" \/ d.queue = "Shipped" THEN "Monitor"
    ELSE IF f.state = "Archived" \/ d.queue = "Cold Storage" \/ f.call = "Archive" THEN "Defer"
    ELSE IF f.state = "Needs Decision"
         THEN IF s.Investigate >= 35 THEN "Investigate" ELSE "Monitor"
    ELSE IF Finishing(f, d) THEN IF s.Finish >= 35 THEN "Finish" ELSE "Monitor"
    ELSE IF s[TopLane(s)] >= 45 THEN TopLane(s) ELSE "Monitor"

DetermineConfidence(f, d) ==
    LET density == Support(f) + f.packets + f.tasks + Least(f.sessions, 5)
                   + Cardinality(f.sources) + Least(Len(f.events), 4)
    IN  IF density >= 8 /\ d.freshness = "Fresh" THEN "High"
        ELSE IF density >= 4 THEN "Medium" ELSE "Low"

Recommendation(f, d, today) ==
    LET s    == Scores(f, d, today)
        lane == ChooseLane(f, d, s)
    IN  [ lane |-> lane, score |-> IF lane = "Monitor" THEN 40 ELSE s[TopLane(s)],
          confidence |-> DetermineConfidence(f, d) ]
=============================================================================
