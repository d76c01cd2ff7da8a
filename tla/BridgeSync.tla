----------------------------- MODULE BridgeSync -----------------------------
(***************************************************************************)
(* The sync of bridge-db events into the Notion Build Log                  *)
(* (src/notion/bridge-db-sync.ts, bridge-db-mcp-client.ts).  A shipped row *)
(* is looked up by its Sync Key, created when no page has it, and then     *)
(* confirmed to bridge-db; a personal-ops row is looked up and created,    *)
(* the page being the only record of it.  Commands may overlap, die and    *)
(* meet calls that fail before or after they take effect.  A dry run only  *)
(* reads and is left out.                                                  *)
(***************************************************************************)
EXTENDS BuildLog, SequencesExt

CONSTANTS
    Disposition, \* [1 .. rows -> Dispositions], a policy recorded for a row
    Routed,      \* rows whose project resolves to a page
    Limit,       \* rows read in one run
    Syncs,       \* processes that run the command
    MaxFaults    \* bound: deaths and failing calls

RowLanes == {"shipped", "ops"}

\* "ready": no_durable_target, superseded by a canonical page.
Dispositions == {"none", "ready", "settled"}

VARIABLES
    posted,  \* rows 1 .. posted are in bridge-db
    sync,    \* [Syncs -> record], the running commands
    faults

vars == <<posted, synced, log, sync, faults, excused>>

\* queue is what is left of the rows the command read; page is the page that
\* confirms its first one.
SyncStates == [ pc : {"idle", "shipped", "ops", "create", "confirm"},
                lane : RowLanes, queue : Seq(Rows), page : Nat ]
Resting == [pc |-> "idle", lane |-> "shipped", queue |-> <<>>, page |-> 0]

Init ==
    /\ posted = 0 /\ synced = [r \in Rows |-> 0]
    /\ log = <<>> /\ sync = [p \in Syncs |-> Resting]
    /\ faults = 0 /\ excused = {}

------------------------------------------------------------------------------
In(p, pc) == sync[p].pc = pc
Row(p) == Head(sync[p].queue)

\* A row of the queue is done, whatever became of it.
Done(p) == [sync[p] EXCEPT !.pc = sync[p].lane, !.queue = Tail(@), !.page = 0]
Move(p, state) == sync' = [sync EXCEPT ![p] = state]

Fault == faults < MaxFaults /\ faults' = faults + 1

RowsUpTo(n, lane) == SelectSeq([r \in 1 .. n |-> r], LAMBDA r : LaneOf[r] = lane)
FirstOf(s) == SubSeq(s, 1, IF Len(s) < Limit THEN Len(s) ELSE Limit)
LastOf(s)  == SubSeq(s, IF Len(s) < Limit THEN 1 ELSE Len(s) - Limit + 1, Len(s))

\* get_shipped_events returns what is not processed, oldest first.  Rows with
\* a standing policy or without a target are passed over, and come again.
Unprocessed == SelectSeq(RowsUpTo(posted, "shipped"), LAMBDA r : synced[r] = 0)
Wanted(s) == SelectSeq(s, LAMBDA r : Disposition[r] # "settled"
                                     /\ (r \in Routed \/ Disposition[r] = "ready"))

Post ==
    /\ posted < Len(LaneOf)
    /\ posted' = posted + 1
    /\ UNCHANGED <<synced, log, sync, faults, excused>>

Start(p) ==
    /\ In(p, "idle")
    /\ Move(p, [Resting EXCEPT !.pc = "shipped", !.queue = Wanted(FirstOf(Unprocessed))])
    /\ UNCHANGED <<posted, synced, log, faults, excused>>

\* getPersonalOpsEvents reads the most recent rows, synced or not.
ReadOps(p) ==
    /\ In(p, "shipped") /\ sync[p].queue = <<>>
    /\ Move(p, [Resting EXCEPT !.pc = "ops", !.lane = "ops",
                               !.queue = LastOf(RowsUpTo(posted, "ops"))])
    /\ UNCHANGED <<posted, synced, log, faults, excused>>

Stop(p) ==
    /\ In(p, "ops") /\ sync[p].queue = <<>>
    /\ Move(p, Resting)
    /\ UNCHANGED <<posted, synced, log, faults, excused>>

------------------------------------------------------------------------------
Looking(p) == sync[p].pc \in RowLanes /\ sync[p].queue # <<>>

LookupNothing(p) ==
    /\ Looking(p)
    /\ Move(p, [sync[p] EXCEPT !.pc = "create"])
    /\ UNCHANGED <<posted, synced, log, faults, excused>>

LookupForgets(p) ==
    /\ Looking(p)
    /\ Move(p, IF PagesOf(Row(p)) = {} THEN [sync[p] EXCEPT !.pc = "create"] ELSE Done(p))
    /\ UNCHANGED <<posted, synced, log, faults, excused>>

\* findBuildLogPageBySyncKey takes the first of the pages it is given.
Lookup(p) ==
    /\ Looking(p)
    /\ IF PagesOf(Row(p)) = {}
       THEN Move(p, [sync[p] EXCEPT !.pc = "create"])
       ELSE \E i \in PagesOf(Row(p)) :
              Move(p, IF sync[p].lane = "ops" THEN Done(p)
                      ELSE [sync[p] EXCEPT !.pc = "confirm", !.page = i])
    /\ UNCHANGED <<posted, synced, log, faults, excused>>

\* Another run is about to create the same page.
Overlapped(p) ==
    IF \E q \in Syncs \ {p} : In(q, "create") /\ Row(q) = Row(p) THEN {Row(p)} ELSE {}

CreatedEarlier(p) ==
    IF sync[p].lane = "ops" THEN Done(p)
    ELSE [sync[p] EXCEPT !.pc = "confirm", !.page = Len(log)]

\* After the create a shipped row is confirmed with the page it returned.
Created(p) ==
    IF sync[p].lane = "ops" THEN Done(p)
    ELSE [sync[p] EXCEPT !.pc = "confirm", !.page = Len(log')]

Create(p) ==
    /\ In(p, "create")
    /\ log' = Append(log, Row(p))
    /\ Move(p, Created(p))
    /\ excused' = excused \cup Overlapped(p)
    /\ UNCHANGED <<posted, synced, faults>>

\* The HTTP client repeats a create whose answer was lost.
CreateRepeated(p) ==
    /\ In(p, "create") /\ Fault
    /\ log' = log \o <<Row(p), Row(p)>>
    /\ Move(p, Created(p))
    /\ excused' = excused \cup {Row(p)}
    /\ UNCHANGED <<posted, synced>>

Confirm(p) ==
    /\ In(p, "confirm")
    /\ synced' = [synced EXCEPT ![Row(p)] = sync[p].page]
    /\ Move(p, Done(p))
    /\ UNCHANGED <<posted, log, faults, excused>>

\* A call fails, after its effect or without it; the next run tries again.
CallFails(p) ==
    /\ Looking(p) \/ In(p, "create") \/ In(p, "confirm")
    /\ Fault
    /\ log' \in {log} \cup (IF In(p, "create") THEN {Append(log, Row(p))} ELSE {})
    /\ synced' \in {synced} \cup (IF In(p, "confirm")
                                  THEN {[synced EXCEPT ![Row(p)] = sync[p].page]} ELSE {})
    /\ Move(p, Done(p))
    /\ excused' = IF log' = log THEN excused ELSE excused \cup Overlapped(p)
    /\ UNCHANGED posted

\* Reading the rows fails, which ends the command (shipped) or its ops half;
\* or the process dies.
Ends(p) ==
    /\ ~In(p, "idle") /\ Fault
    /\ Move(p, Resting)
    /\ UNCHANGED <<posted, synced, log, excused>>

Proceed(p) ==
    \/ ReadOps(p) \/ Stop(p) \/ Lookup(p) \/ Create(p) \/ CreateRepeated(p)
    \/ Confirm(p) \/ CallFails(p)

Next == Post \/ \E p \in Syncs : Start(p) \/ Proceed(p) \/ Ends(p)

Spec == Init /\ [][Next]_vars

\* The command is run again and again, and one that runs is scheduled.
Fairness == \A p \in Syncs : WF_vars(Start(p)) /\ WF_vars(Proceed(p))

FairSpec == Spec /\ Fairness

------------------------------------------------------------------------------
(***************************************************************************)
(* RowsArrive: a shipped row that has a target is confirmed in the end,    *)
(* though others are passed over in every run, as long as those do not     *)
(* fill the limit.                                                         *)
(***************************************************************************)
RowsArrive ==
    []<>(\A r \in 1 .. posted :
            LaneOf[r] = "shipped" /\ Wanted(<<r>>) # <<>> => synced[r] # 0)
=============================================================================
