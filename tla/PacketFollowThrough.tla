------------------------ MODULE PacketFollowThrough ------------------------
(***************************************************************************)
(* Work packets and their tasks: control-tower:packet-follow-through,      *)
(* which ranks the open packets and creates first tasks for signal-risk    *)
(* repairs (packet-follow-through.ts), the ranking of packet-prioritizer,  *)
(* and the metrics of local-portfolio-execution.  Runs may overlap and may *)
(* be cut off; people work on packets and tasks, and days go by.           *)
(*                                                                         *)
(* A packet stands for its title, titles are taken to be distinct.  A page *)
(* that was just created has its title only.  Left out: texts, and the     *)
(* build log page a live run publishes at its end.                         *)
(***************************************************************************)
EXTENDS Integers, FiniteSets, Sequences, FiniteSetsExt

CONSTANTS
    None,
    Packets,
    Kind,           \* of a packet's title: "kickoff", "risk" or "plain"
    Project,        \* of a packet: [orphan, queue, recommendation, evidence,
                    \* failedRuns, events], None without one; events are
                    \* [severity, day]
    StartPackets,   \* what the packets may look like at first
    StartTasks,     \* tasks there are at first
    StaleSupport,   \* rows of support databases that wait for a review
    Limit,          \* of items a report shows
    Lookback,       \* days for which a signal counts
    Runners, FirstDay, LastDay, MaxRuns, MaxEdits, MaxCrashes   \* bounds

VARIABLES
    packets,    \* [status, priority, finish, sessions]
    tasks,      \* sequence of [about, packet, status, due, created]:
                \* `about` is the packet of a follow-up's title
    today,
    run,
    starts, edits, crashes,
    overlap     \* two runs were at work at one time (history)

vars == <<packets, tasks, today, run, starts, edits, crashes, overlap>>

Stopped == [pc |-> "stopped", todo |-> {}, page |-> 0, about |-> None, report |-> {}, calm |-> FALSE]

------------------------------------------------------------------------------
PacketClosed(p) == packets[p].status \in {"Done", "Dropped"}
TaskClosed(k)   == tasks[k].status \in {"Done", "Canceled"}

Linked(p)    == {k \in DOMAIN tasks : tasks[k].packet = p}
Open(p)      == {k \in Linked(p) : ~TaskClosed(k)}
Completed(p) == {k \in Linked(p) : tasks[k].status = "Done"}
Blocked(p)   == {k \in Open(p) : tasks[k].status = "Blocked"}
Past(day)    == day # None /\ day < today
Overdue(p)   == {k \in Open(p) : Past(tasks[k].due)}

Unworked(p) == Open(p) = {} /\ Completed(p) = {} /\ packets[p].sessions = 0

(***************************************************************************)
(* The lane, the state and the score of an open packet.                    *)
(***************************************************************************)
Lane(p) ==
    CASE Kind[p] = "kickoff" /\ Project[p] # None /\ Project[p].orphan -> "orphan-kickoff"
      [] OTHER ->
    IF Kind[p] = "risk" THEN "signal-risk-repair"
    ELSE IF Blocked(p) # {} \/ packets[p].status = "Blocked" THEN "blocked-packet"
    ELSE IF Overdue(p) # {} \/ Past(packets[p].finish) THEN "overdue-packet"
    ELSE IF packets[p].priority # "Now" /\ packets[p].status # "In Progress" /\ Unworked(p)
         THEN "unworked-packet"
    ELSE "active-packet"

StateOf(p) ==
    IF packets[p].status = "Blocked" \/ Blocked(p) # {} THEN "Blocked"
    ELSE IF Overdue(p) # {} \/ Past(packets[p].finish) THEN "Overdue"
    ELSE IF packets[p].status = "Review" THEN "Needs review"
    ELSE IF packets[p].status = "In Progress" THEN "In progress"
    ELSE IF Unworked(p) THEN "Needs first task"
    ELSE IF packets[p].status = "Ready" THEN "Ready to start" ELSE "Open"

When(b, points) == IF b THEN points ELSE 0
LanePoints(lane) == CASE lane = "signal-risk-repair" -> 80 [] lane = "orphan-kickoff" -> 70
                      [] lane = "blocked-packet" -> 60     [] lane = "overdue-packet" -> 50
                      [] OTHER -> 0
Queue(p) == IF Project[p] = None THEN None ELSE Project[p].queue
PriorityPoints(p) == CASE packets[p].priority = "Now" -> 30
                       [] packets[p].priority = "Standby" -> 20 [] OTHER -> 0
Score(p) ==
    LET packet == packets[p] IN
      LanePoints(Lane(p))                     + PriorityPoints(p)
    + When(packet.status = "In Progress", 15) + When(packet.status = "Review", 12)
    + 8 * Cardinality(Blocked(p))             + 6 * Cardinality(Overdue(p))
    + When(Unworked(p), 10)
    + When(Queue(p) = "Resume Now", 8)        + When(Queue(p) = "Worth Finishing", 6)
    + When(Past(packet.finish), Min({today - packet.finish, 14}))

(***************************************************************************)
(* The report: open packets worth 20 points, and the stale support rows    *)
(* with 90 each; by score, then by the day they should finish.             *)
(***************************************************************************)
Items == {p \in Packets : ~PacketClosed(p) /\ Score(p) >= 20} \cup StaleSupport
Points(x) == IF x \in StaleSupport THEN 90 ELSE Score(x)
Finish(x) == IF x \in StaleSupport THEN None ELSE packets[x].finish
Sooner(x, y) == Finish(x) # None /\ (Finish(y) = None \/ Finish(x) < Finish(y))
Ahead(x, y)  == Points(x) > Points(y) \/ (Points(x) = Points(y) /\ Sooner(x, y))

\* What is reported: items behind fewer than Limit others; titles settle a tie.
Reports == {S \in SUBSET Items :
    /\ Cardinality(S) = Min({Limit, Cardinality(Items)})
    /\ \A x \in S, y \in Items \ S : ~Ahead(y, x)}

WantsTask(p) == p \notin StaleSupport /\ Lane(p) = "signal-risk-repair" /\ Open(p) = {}

------------------------------------------------------------------------------
(***************************************************************************)
(* packet-prioritizer: a product of factors, in twentieths or hundredths.  *)
(***************************************************************************)
Rank(severity) == CASE severity = "Risk" -> 3 [] severity = "Watch" -> 2
                    [] severity = "Info" -> 1 [] OTHER -> 0
Recent(events) == {e \in events : e.day = None \/ today - e.day <= Lookback}
Severity(project) ==
    LET recent == {e.severity : e \in Recent(project.events)}
        highest == CHOOSE s \in recent \cup {"None"} : \A t \in recent : Rank(t) <= Rank(s)
    IN IF highest = "None" /\ project.failedRuns > 0 THEN "Risk" ELSE highest

Recommended(project) ==
    IF project.recommendation # None THEN Max({30, Min({project.recommendation, 100})})
    ELSE CASE project.queue = "Resume Now" -> 76   [] project.queue = "Worth Finishing" -> 68
           [] project.queue = "Needs Review" -> 58 [] project.queue = "Needs Decision" -> 54
           [] project.queue = "Watch" -> 46        [] project.queue = "Cold Storage" -> 34
           [] project.queue = "Shipped" -> 30      [] OTHER -> 45

SignalFactor(severity)   == CASE severity = "Risk" -> 28 [] severity = "Watch" -> 23
                              [] severity = "Info" -> 20 [] OTHER -> 18
EvidenceFactor(freshness) == CASE freshness = "Stale" -> 27 [] freshness = "Aging" -> 23
                               [] freshness = "Fresh" -> 19 [] OTHER -> 21

\* Days since the latest task, whether closed or not; None without a task.
Staleness(p) == LET days == {tasks[k].created : k \in Linked(p)}
                IN IF days = {} THEN None ELSE Max({0, today - Max(days)})
StalenessFactor(days) == IF days = None THEN 27 ELSE IF days >= 30 THEN 26
                         ELSE IF days >= 14 THEN 24 ELSE IF days >= 7 THEN 22 ELSE 20
PriorityFactor(priority) == CASE priority = "Now" -> 25 [] priority = "Standby" -> 22
                              [] OTHER -> 20
StatusFactor(status) == CASE status = "Blocked" -> 125 [] status = "In Progress" -> 115
                          [] status = "Review" -> 108  [] OTHER -> 100

\* Rounded to the nearest point: the product is 3 200 000 times the score, of
\* which a factor 8 is divided out before the last factor (32-bit numbers).
Composite(p, project) ==
    LET product == Recommended(project) * SignalFactor(Severity(project))
                   * EvidenceFactor(project.evidence) * StalenessFactor(Staleness(p))
                   * PriorityFactor(packets[p].priority)
    IN ((product \div 8) * StatusFactor(packets[p].status) + 1000000) \div 2000000

------------------------------------------------------------------------------
(***************************************************************************)
(* The metrics of the execution system.                                    *)
(***************************************************************************)
OverdueTasks == {k \in DOMAIN tasks : Past(tasks[k].due) /\ ~TaskClosed(k)}
Actionable == {k \in OverdueTasks :
    tasks[k].packet # None /\ packets[tasks[k].packet].status = "In Progress"}
Now     == {p \in Packets : packets[p].priority = "Now" /\ ~PacketClosed(p)}
Standby == {p \in Packets : packets[p].priority = "Standby" /\ ~PacketClosed(p)}
Violations(maxNow, maxStandby) ==
    [ now      |-> Cardinality(Now) > maxNow,
      standby  |-> Cardinality(Standby) > maxStandby,
      packets  |-> {p \in Packets : ~PacketClosed(p) /\ Project[p] = None},
      tasks    |-> {k \in DOMAIN tasks : ~TaskClosed(k) /\ tasks[k].packet = None} ]
Metrics ==
    [ now |-> Cardinality(Now), standby |-> Cardinality(Standby),
      blockedPackets |-> Cardinality({p \in Packets : packets[p].status = "Blocked"}),
      blockedTasks |-> Cardinality({k \in DOMAIN tasks : tasks[k].status = "Blocked"}),
      overdue |-> Cardinality(Actionable),
      backlog |-> Cardinality(OverdueTasks) - Cardinality(Actionable),
      wip |-> Violations(1, 1) ]

------------------------------------------------------------------------------
Init ==
    /\ packets \in StartPackets
    /\ tasks \in StartTasks
    /\ today = FirstDay
    /\ run = [r \in Runners |-> Stopped]
    /\ starts = 0 /\ edits = 0 /\ crashes = 0
    /\ overlap = FALSE

AtWork == {r \in Runners : run[r].pc # "stopped"}

\* A live run reads the three databases and reports.
Begin(r) ==
    /\ run[r].pc = "stopped" /\ starts < MaxRuns
    /\ \E report \in Reports :
         run' = [run EXCEPT ![r] =
             [Stopped EXCEPT !.pc = "following up", !.report = report, !.calm = TRUE,
                 !.todo = {p \in report : WantsTask(p) /\ Project[p] # None}]]
    /\ starts' = starts + 1
    /\ overlap' = (overlap \/ AtWork # {})
    /\ UNCHANGED <<packets, tasks, today, edits, crashes>>

\* upsertPageByTitle: a follow-up of the title that exists is put back to Ready,
\* whatever became of it.
Titled(p) == {k \in DOMAIN tasks : tasks[k].about = p}
FollowUp(p) == [about |-> p, packet |-> p, status |-> "Ready", due |-> today + 1,
                created |-> today]
FollowUpExisting(r, p) ==
    /\ run[r].pc = "following up" /\ p \in run[r].todo /\ Titled(p) # {}
    /\ LET k == Min(Titled(p)) IN
         tasks' = [tasks EXCEPT ![k] = [FollowUp(p) EXCEPT !.created = tasks[k].created]]
    /\ run' = [run EXCEPT ![r].todo = @ \ {p}]
    /\ UNCHANGED <<packets, today, starts, edits, crashes, overlap>>

FollowUpAnew(r, p) ==
    /\ run[r].pc = "following up" /\ p \in run[r].todo /\ Titled(p) = {}
    /\ tasks' = Append(tasks, [about |-> p, packet |-> None, status |-> None, due |-> None,
                               created |-> today])
    /\ run' = [run EXCEPT ![r].todo = @ \ {p}, ![r].pc = "filling",
                          ![r].page = Len(tasks) + 1, ![r].about = p]
    /\ UNCHANGED <<packets, today, starts, edits, crashes, overlap>>

Fill(r) ==
    /\ run[r].pc = "filling"
    /\ tasks' = [tasks EXCEPT ![run[r].page] =
                    [FollowUp(run[r].about) EXCEPT !.created = @]]
    /\ run' = [run EXCEPT ![r].pc = "following up"]
    /\ UNCHANGED <<packets, today, starts, edits, crashes, overlap>>

Finished(r) == run[r].pc = "following up" /\ run[r].todo = {}
Publish(r) ==
    /\ Finished(r)
    /\ run' = [run EXCEPT ![r] = Stopped]
    /\ UNCHANGED <<packets, tasks, today, starts, edits, crashes, overlap>>

Crash(r) ==
    /\ run[r].pc # "stopped" /\ crashes < MaxCrashes
    /\ run' = [run EXCEPT ![r] = Stopped] /\ crashes' = crashes + 1
    /\ UNCHANGED <<packets, tasks, today, starts, edits, overlap>>

------------------------------------------------------------------------------
\* People start, block, finish and reopen packets and tasks.
Edit ==
    /\ edits < MaxEdits /\ edits' = edits + 1
    /\ \/ \E p \in Packets, s \in {"In Progress", "Blocked", "Review", "Done"} :
             /\ packets' = [packets EXCEPT ![p].status = s] /\ UNCHANGED tasks
       \/ \E k \in DOMAIN tasks, s \in {"Blocked", "Done", "Canceled"} :
             /\ tasks[k].status # None
             /\ tasks' = [tasks EXCEPT ![k].status = s] /\ UNCHANGED packets
    /\ run' = [r \in Runners |-> [run[r] EXCEPT !.calm = FALSE]]
    /\ UNCHANGED <<today, starts, crashes, overlap>>

NextDay ==
    /\ today < LastDay /\ AtWork = {}
    /\ today' = today + 1
    /\ UNCHANGED <<packets, tasks, run, starts, edits, crashes, overlap>>

Next == \/ \E r \in Runners : \/ Begin(r) \/ Fill(r) \/ Publish(r) \/ Crash(r)
                              \/ \E p \in Packets : FollowUpExisting(r, p) \/ FollowUpAnew(r, p)
        \/ Edit \/ NextDay

Spec == Init /\ [][Next]_vars

------------------------------------------------------------------------------
(***************************************************************************)
(* FollowedUp: when a run that nobody disturbed has followed up, every     *)
(* signal-risk packet of its report has an open task, due in the future.   *)
(***************************************************************************)
FollowedUp == \A r \in Runners : Finished(r) /\ run[r].calm /\ ~overlap =>
    \A p \in run[r].report : ~ (WantsTask(p) /\ Project[p] # None)

(***************************************************************************)
(* OneFollowUp: unless runs overlapped, a packet has one follow-up task, a *)
(* run that was cut off before it filled the page included.                *)
(***************************************************************************)
OneFollowUp == overlap \/ \A p \in Packets : Cardinality(Titled(p)) <= 1

(***************************************************************************)
(* TroubleShows: a packet that is blocked or past its day, or has a task   *)
(* that is, is an item whatever its lane.  A packet nobody has worked on   *)
(* is never ahead of it, and no other packet without trouble is, unless    *)
(* its priority is higher or it is a kickoff or a signal-risk repair.      *)
(* Those may be: one in progress on Now, with nothing wrong, has up to 63  *)
(* points where a packet that is only overdue has 51, a kickoff has 70, a  *)
(* repair 80 and a stale support row 90 (packet-follow-through.ts:511-547).*)
(***************************************************************************)
InTrouble(p) == ~PacketClosed(p) /\ StateOf(p) \in {"Blocked", "Overdue"}
Ordinary(p)  == Lane(p) \in {"active-packet", "unworked-packet"}
TroubleShows ==
    /\ \A p \in Packets : InTrouble(p) => p \in Items
    /\ \A p, q \in Packets :
           InTrouble(p) /\ Ordinary(q) /\ Ahead(q, p) =>
               Lane(q) = "active-packet" /\ PriorityPoints(q) > PriorityPoints(p)

(***************************************************************************)
(* RiskRanksFirst: a new risk signal of its project never lowers a packet  *)
(* in the ranking of the prioritizer.                                      *)
(***************************************************************************)
RiskRanksFirst == \A p \in Packets : Project[p] # None =>
    LET risk == [severity |-> "Risk", day |-> today]
    IN Composite(p, [Project[p] EXCEPT !.events = @ \cup {risk}]) >= Composite(p, Project[p])

(***************************************************************************)
(* BacklogIsSplit: an overdue task is either actionable, its packet in     *)
(* progress and then in trouble and reported, or backlog.                  *)
(***************************************************************************)
BacklogIsSplit == \A k \in Actionable : InTrouble(tasks[k].packet) /\ tasks[k].packet \in Items
=============================================================================
