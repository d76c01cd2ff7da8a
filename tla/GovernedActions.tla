--------------------------- MODULE GovernedActions ---------------------------
(***************************************************************************)
(* The governed action lane: the commands that rehearse an approved        *)
(* request, execute it at GitHub or Vercel, and expire it.  All of them    *)
(* share two Notion data sources, Action Requests and External Action      *)
(* Executions, that no lock or transaction protects.                       *)
(*                                                                         *)
(*   "preview"   action-dry-run --request            (action-dry-run.ts)   *)
(*   "rehearse"  action-runner --mode dry-run        (action-runner.ts)    *)
(*   "live"      action-runner --mode live           (action-runner.ts)    *)
(*   "sync"      action-request-sync --live, the expiry pass               *)
(*                                                                         *)
(* A command reads both data sources once and then works from that         *)
(* snapshot, one Notion or provider call per step, while operators edit    *)
(* requests, deployments move and other commands run.                      *)
(***************************************************************************)
EXTENDS ActionReadiness, FiniteSets

CONSTANTS
    Procs,             \* command-line processes
    Commands,          \* the commands this instance lets them run
    RowIds,            \* execution rows that can be created (bounds a behaviour)
    Signatures,        \* what the Approver property may hold in this instance
    MaxDay,            \* the last day of a behaviour
    MaxLivePerRun,     \* runnerLimits of phase7Actuation
    MaxDryRunsPerRun,
    Serial,            \* operators run one live command at a time
    Events             \* what may happen around the commands, see EventKinds

CommandKinds == {"preview", "rehearse", "live", "sync"}
EventKinds == {"decide", "sign", "edit", "deploy", "issue",   \* people
               "crash", "notion", "provider", "objection"}    \* failures

ASSUME CommandsAssumption == Commands \subseteq CommandKinds
ASSUME EventsAssumption == Events \subseteq EventKinds
ASSUME SignaturesAssumption == Signatures \subseteq Signed
ASSUME RowIdsAssumption == IsFiniteSet(RowIds) /\ None \notin RowIds
ASSUME LimitsAssumption ==
    MaxDay \in Nat /\ MaxLivePerRun \in Nat /\ MaxDryRunsPerRun \in Nat
ASSUME SerialAssumption == Serial \in BOOLEAN

VARIABLES
    request,   \* Action Requests: [Requests -> RequestRows]
    rows,      \* External Action Executions: [RowIds -> ExecutionRows]
    world,     \* the Vercel project: production deployment, other candidate
    issue,     \* the payload each GitHub issue carries
    day,       \* the current UTC date
    proc,      \* the commands
    passed,    \* history: rows of dry runs that were recorded as Succeeded
    effects,   \* history: rows whose provider write was accepted
    spent      \* history: effects of each request since it was last approved

stores  == <<request, rows, passed>>
outside == <<world, issue, day>>
history == <<effects, spent>>
vars    == <<stores, outside, history, proc>>

------------------------------------------------------------------------------
RequestRows ==
    [ status : Statuses, intent : Intents, latest : RowIds \cup {None},
      outcome : Outcomes, pin : Pins, payload : Payloads, signed : Signed ]

RowModes == {"Unset", "Dry Run", "Live"}
RowStatuses == {"Absent", "Unset", "Started", "Succeeded", "Failed",
                "Skipped", "Compensation Needed"}

ExecutionRows ==
    [ status : RowStatuses, mode : RowModes, request : Requests \cup {None},
      key : Keys, day : Nat ]

NoRow == [status |-> "Absent", mode |-> "Unset", request |-> None,
          key |-> NoKey, day |-> 0]

Unread == [r \in Requests |->
             [ status |-> "Canceled", intent |-> "Dry Run", latest |-> None,
               outcome |-> "None", pin |-> None, signed |-> "nobody",
               payload |-> CHOOSE q \in Payloads : TRUE ]]

\* The candidate is picked among the deployments that are not in production.
Worlds == { w \in [current : Pins, candidate : Pins] :
              w.candidate # None => w.current \notin {None, w.candidate} }

NoRows == [x \in RowIds |-> NoRow]

Pcs == {"idle", "load", "pick", "draft", "open", "call", "verify", "close",
        "settle", "packet", "undoRow", "undoRequest", "undoPacket", "expire"}

Processes ==
    [ pc : Pcs, cmd : CommandKinds, only : Requests \cup {None},
      got : SUBSET {"requests", "rows"}, snap : [Requests -> RequestRows],
      seen : [RowIds -> ExecutionRows], todo : SUBSET Requests,
      cur : Requests \cup {None}, pre : Preflights, blocked : BOOLEAN,
      now : Nat, row : RowIds \cup {None}, status : RowStatuses ]

Idle == [ pc |-> "idle", cmd |-> "sync", only |-> None, got |-> {},
          snap |-> Unread, seen |-> NoRows, todo |-> {}, cur |-> None,
          pre |-> Unresolved, blocked |-> FALSE, now |-> 0, row |-> None,
          status |-> "Unset" ]

\* A request as a recommendation, a review or an operator files it.
NewRequests ==
    [ status : {"Pending Approval", "Approved"}, intent : {"Dry Run"},
      latest : {None}, outcome : {"None"}, pin : {None}, payload : Payloads,
      signed : Signatures ]

Init ==
    /\ request \in [Requests -> NewRequests]
    /\ rows = NoRows
    /\ world \in Worlds
    /\ issue \in [Requests -> Payloads \cup {None}]
    /\ \A r \in Requests : Kind[r] # "additive" => issue[r] = None
    /\ day = 0
    /\ proc = [p \in Procs |-> Idle]
    /\ passed = {}
    /\ effects = {}
    /\ spent = [r \in Requests |-> {}]

------------------------------------------------------------------------------
At(p, pc) == proc[p].pc = pc
Runs(p, cmds) == proc[p].cmd \in cmds

Goto(p, pc) == proc' = [proc EXCEPT ![p].pc = pc]
Ends(p)     == proc' = [proc EXCEPT ![p] = Idle]

\* The request p works on, as p read it.
Snap(p) == proc[p].snap[proc[p].cur]

(***************************************************************************)
(* Starting a command and reading the snapshot.  Promise.all issues both   *)
(* reads at once, so that they may land in either order.                   *)
(***************************************************************************)
Limit(cmd) == CASE cmd = "live"     -> MaxLivePerRun
                [] cmd = "rehearse" -> MaxDryRunsPerRun
                [] cmd = "preview"  -> 1
                [] cmd = "sync"     -> 0

\* Bound: a command starts only while unused row ids cover all that run.
RowsLeft(cmd) ==
    LET busy == {p \in Procs : ~At(p, "idle")}
        most == IF MaxDryRunsPerRun > MaxLivePerRun
                THEN MaxDryRunsPerRun ELSE MaxLivePerRun
    IN  Limit(cmd) + most * Cardinality(busy)
            <= Cardinality({x \in RowIds : rows[x].status = "Absent"})

Start(p, cmd, only) ==
    /\ At(p, "idle")
    /\ cmd = "preview" => only # None
    /\ cmd = "sync" => only = None
    /\ Serial /\ cmd = "live" =>
         \A q \in Procs : At(q, "idle") \/ ~Runs(q, {"live"})
    /\ RowsLeft(cmd)
    /\ proc' = [proc EXCEPT ![p] = [Idle EXCEPT !.pc = "load", !.cmd = cmd,
                                               !.only = only, !.now = day]]
    /\ UNCHANGED <<stores, outside, history>>

ReadRequests(p) ==
    /\ At(p, "load") /\ "requests" \notin proc[p].got
    /\ proc' = [proc EXCEPT ![p].snap = request,
                            ![p].got = @ \cup {"requests"}]
    /\ UNCHANGED <<stores, outside, history>>

ReadRows(p) ==
    /\ At(p, "load") /\ "rows" \notin proc[p].got
    /\ proc' = [proc EXCEPT ![p].seen = rows, ![p].got = @ \cup {"rows"}]
    /\ UNCHANGED <<stores, outside, history>>

\* --request names one request whatever its status; otherwise the runner takes
\* the approved requests whose intent fits the mode.  The sync takes the
\* approved requests that are past their expiry.
Eligible(p) ==
    { r \in Requests :
        LET s == proc[p].snap[r] IN
        CASE proc[p].cmd = "sync" ->
               s.status = "Approved" /\ ExpiresOn[r] < proc[p].now
          [] ~Runs(p, {"sync"}) /\ proc[p].only # None -> r = proc[p].only
          [] OTHER ->
               /\ s.status = "Approved"
               /\ s.intent = IF Runs(p, {"live"}) THEN "Ready for Live"
                             ELSE "Dry Run" }

Select(p) ==
    /\ At(p, "load") /\ proc[p].got = {"requests", "rows"}
    /\ \E todo \in SUBSET Eligible(p) :
         /\ IF Runs(p, {"sync"}) THEN todo = Eligible(p)
            ELSE \/ Cardinality(todo) = Limit(proc[p].cmd)
                 \/ todo = Eligible(p)
                    /\ Cardinality(todo) < Limit(proc[p].cmd)
         /\ proc' = [proc EXCEPT
               ![p].todo = todo,
               ![p].pc = IF Runs(p, {"sync"}) THEN "expire" ELSE "pick"]
    /\ UNCHANGED <<stores, outside, history>>

------------------------------------------------------------------------------
(***************************************************************************)
(* Taking up one request: read the provider, judge readiness, and either   *)
(* pass over the request without a trace or go on to record an execution.  *)
(***************************************************************************)
Reads(r, payload) ==
    { [ resolved  |-> TRUE,
        from      |-> IF OnVercel(r) THEN world.current ELSE None,
        to        |-> IF Kind[r] = "rollback" THEN world.candidate ELSE None,
        settled   |-> Kind[r] = "additive" /\ issue[r] = payload,
        objection |-> o ] : o \in IF "objection" \in Events
                                  THEN BOOLEAN ELSE {FALSE} }
    \cup (IF "provider" \in Events THEN {Unresolved} ELSE {})

\* The latest execution the request names is a dry run that still counts.
DryFresh(p, r) ==
    LET latest == proc[p].snap[r].latest IN
    /\ latest # None
    /\ proc[p].seen[latest].mode = "Dry Run"
    /\ proc[p].seen[latest].status = "Succeeded"
    /\ Fresh(proc[p].seen[latest].day, day)

\* Mutant: the duplicate check never matches.
DuplicateNever(p, r, pre) == FALSE

\* A live execution with the same idempotency key already succeeded.
Duplicate(p, r, pre) ==
    \E x \in RowIds :
        /\ proc[p].seen[x].mode = "Live"
        /\ proc[p].seen[x].status = "Succeeded"
        /\ proc[p].seen[x].request = r
        /\ proc[p].seen[x].key = KeyOf(r, proc[p].snap[r].payload, pre)

NotReady(p, r, pre) ==
    Blocked(r, proc[p].snap[r], DryFresh(p, r), pre, day)

\* Mutants: a live run named with --request takes any intent; a live run trusts
\* the dry run and validates nothing again.
PassedOverAnyIntent(p, r, pre) ==
    /\ ~Runs(p, {"preview"})
    /\ \/ ~pre.resolved
       \/ PreparationFails(r, proc[p].snap[r].pin, pre)
       \/ Runs(p, {"live"}) /\ (NotReady(p, r, pre) \/ Duplicate(p, r, pre))

PassedOverOnTrust(p, r, pre) ==
    /\ ~Runs(p, {"preview"})
    /\ \/ ~pre.resolved
       \/ pre.to = None
       \/ /\ Runs(p, {"live"})
          /\ \/ proc[p].snap[r].intent # "Ready for Live"
             \/ Duplicate(p, r, pre)

\* The runner passes over a request it cannot prepare in any mode, and over one
\* that is not ready or was already done in live mode.
PassedOver(p, r, pre) ==
    /\ ~Runs(p, {"preview"})
    /\ \/ ~pre.resolved
       \/ PreparationFails(r, proc[p].snap[r].pin, pre)
       \/ /\ Runs(p, {"live"})
          /\ \/ proc[p].snap[r].intent # "Ready for Live"
             \/ NotReady(p, r, pre)
             \/ Duplicate(p, r, pre)

\* Mutant: a request that is passed over stays on the list.
PassOverAgain(p) ==
    /\ At(p, "pick")
    /\ \E r \in proc[p].todo : \E pre \in Reads(r, proc[p].snap[r].payload) :
         PassedOver(p, r, pre)
    /\ UNCHANGED vars

PassOver(p) ==
    /\ At(p, "pick")
    /\ \E r \in proc[p].todo : \E pre \in Reads(r, proc[p].snap[r].payload) :
         /\ PassedOver(p, r, pre)
         /\ proc' = [proc EXCEPT ![p].todo = @ \ {r}]
    /\ UNCHANGED <<stores, outside, history>>

\* action-dry-run goes on without a target when the preparation throws.
Prepared(p, r, pre) ==
    IF PreparationFails(r, proc[p].snap[r].pin, pre) THEN Unresolved ELSE pre

TakeUp(p) ==
    /\ At(p, "pick")
    /\ \E r \in proc[p].todo : \E pre \in Reads(r, proc[p].snap[r].payload) :
         /\ ~PassedOver(p, r, pre)
         /\ proc' = [proc EXCEPT
               ![p].pc = "draft", ![p].cur = r, ![p].todo = @ \ {r},
               ![p].pre = Prepared(p, r, pre),
               ![p].blocked = NotReady(p, r, Prepared(p, r, pre)),
               ![p].now = day]
    /\ UNCHANGED <<stores, outside, history>>

Finish(p) ==
    /\ proc[p].pc \in {"pick", "expire"} /\ proc[p].todo = {}
    /\ Ends(p)
    /\ UNCHANGED <<stores, outside, history>>

------------------------------------------------------------------------------
(***************************************************************************)
(* Recording the execution.  The page is created bare; the runner then     *)
(* writes everything but the result, action-dry-run everything at once.    *)
(***************************************************************************)
CreateRow(x) ==
    /\ rows[x].status = "Absent"
    /\ rows' = [rows EXCEPT ![x].status = "Unset"]
    /\ UNCHANGED <<request, passed>>

Draft(p) ==
    /\ At(p, "draft")
    /\ \E x \in RowIds :
         /\ CreateRow(x)
         /\ proc' = [proc EXCEPT
               ![p].row = x,
               ![p].now = IF Runs(p, {"preview"}) THEN @ ELSE day,
               ![p].pc = IF Runs(p, {"preview"}) THEN "close" ELSE "open"]
    /\ UNCHANGED <<outside, history>>

Described(p, status) ==
    [ status |-> status, mode |-> IF Runs(p, {"live"}) THEN "Live" ELSE "Dry Run",
      request |-> proc[p].cur,
      key |-> KeyOf(proc[p].cur, Snap(p).payload, proc[p].pre),
      day |-> proc[p].now ]

OpenRow(p) ==
    /\ rows' = [rows EXCEPT ![proc[p].row] = Described(p, "Started")]
    /\ UNCHANGED <<request, passed>>

Open(p) ==
    /\ At(p, "open")
    /\ OpenRow(p)
    /\ Goto(p, IF Runs(p, {"live"}) THEN "call" ELSE "close")
    /\ UNCHANGED <<outside, history>>

(***************************************************************************)
(* The provider write of a live execution.  Lands is the provider          *)
(* accepting it; whether production moves at once is the provider's        *)
(* business.  An additive action whose preflight found nothing to change   *)
(* returns Skipped without a call.                                         *)
(***************************************************************************)
Settled(p) == Kind[proc[p].cur] = "additive" /\ proc[p].pre.settled

Lands(p) ==
    LET r == proc[p].cur IN
    /\ effects' = effects \cup {proc[p].row}
    /\ spent' = [spent EXCEPT ![r] = @ \cup {proc[p].row}]
    /\ issue' = IF Kind[r] = "additive"
                THEN [issue EXCEPT ![r] = Snap(p).payload] ELSE issue
    /\ world' \in IF Kind[r] = "rollback"
                  THEN {world} \cup {w \in Worlds : w.current = proc[p].pre.to}
                  ELSE {world}
    /\ UNCHANGED <<stores, day>>

Call(p) ==
    /\ At(p, "call") /\ ~Settled(p)
    /\ Lands(p)
    /\ proc' = [proc EXCEPT
          ![p].status = "Succeeded",
          ![p].pc = IF OnVercel(proc[p].cur) THEN "verify" ELSE "close"]

SkipCall(p) ==
    /\ At(p, "call") /\ Settled(p)
    /\ proc' = [proc EXCEPT ![p].status = "Skipped", ![p].pc = "close"]
    /\ UNCHANGED <<stores, outside, history>>

\* The poll of the deployments, at most six reads: the step is the last of them.
\* A redeploy is confirmed when the new deployment names the right project.
Confirmed(p) == Kind[proc[p].cur] = "redeploy" \/ world.current = proc[p].pre.to

Verify(p) ==
    /\ At(p, "verify")
    /\ \E confirmed \in {Confirmed(p)} \cup
            (IF "provider" \in Events /\ Kind[proc[p].cur] = "redeploy"
             THEN {FALSE} ELSE {}) :
         proc' = [proc EXCEPT
           ![p].status = IF confirmed THEN "Succeeded" ELSE "Compensation Needed",
           ![p].pc = "close"]
    /\ UNCHANGED <<stores, outside, history>>

------------------------------------------------------------------------------
(***************************************************************************)
(* Recording the result on the execution row, on the request, and in the   *)
(* packet on the request page.                                             *)
(***************************************************************************)
\* Mutant: a live call that returns is a success.
FinalStatusOptimist(p) ==
    IF ~Runs(p, {"live"}) /\ proc[p].blocked THEN "Failed" ELSE "Succeeded"

FinalStatus(p) ==
    IF Runs(p, {"live"}) THEN proc[p].status
    ELSE IF proc[p].blocked THEN "Failed" ELSE "Succeeded"

CloseRow(p) ==
    /\ rows' = [rows EXCEPT ![proc[p].row] =
         IF Runs(p, {"preview"}) THEN Described(p, FinalStatus(p))
         ELSE [@ EXCEPT !.status = FinalStatus(p)]]
    /\ passed' = IF ~Runs(p, {"live"}) /\ ~proc[p].blocked
                 THEN passed \cup {proc[p].row} ELSE passed
    /\ UNCHANGED request

Close(p) ==
    /\ At(p, "close")
    /\ CloseRow(p)
    /\ Goto(p, "settle")
    /\ UNCHANGED <<outside, history>>

\* Mutants: the dry-run branch forgets the relation or the pin; the branch on
\* the result forgets the mode; or a live run closes the request in any case.
SettlementWithoutRelation(p, row) ==
    [row EXCEPT !.intent = PostDryRun(proc[p].cur, Snap(p), proc[p].blocked,
                                      proc[p].pre, proc[p].now).intent]

SettlementWithoutPin(p, row) ==
    [row EXCEPT !.latest = proc[p].row,
                !.intent = PostDryRun(proc[p].cur, Snap(p), proc[p].blocked,
                                      proc[p].pre, proc[p].now).intent]

SettlementAnyMode(p, row) ==
    IF FinalStatus(p) = "Succeeded"
    THEN [row EXCEPT !.latest = proc[p].row, !.intent = "Dry Run",
                     !.outcome = "Executed", !.status = "Executed"]
    ELSE [row EXCEPT !.latest = proc[p].row, !.intent = "Dry Run",
                     !.outcome = "Problem"]

SettlementAlwaysExecuted(p, row) ==
    IF Runs(p, {"live"})
    THEN [row EXCEPT !.latest = proc[p].row, !.intent = "Dry Run",
                     !.outcome = "Executed", !.status = "Executed"]
    ELSE LET post == PostDryRun(proc[p].cur, Snap(p), proc[p].blocked,
                                proc[p].pre, proc[p].now)
         IN  [row EXCEPT !.latest = proc[p].row, !.intent = post.intent,
                         !.outcome = post.outcome, !.pin = post.pin]

\* What each result leaves on the request: only the named properties are
\* written, the others keep what the row holds by now.  A live rollback keeps
\* the pin it read; any other live success writes the provider's result there.
Settlement(p, row) ==
    LET post == PostDryRun(proc[p].cur, Snap(p), proc[p].blocked,
                           proc[p].pre, proc[p].now)
    IN  CASE ~Runs(p, {"live"}) ->
               [row EXCEPT !.latest = proc[p].row, !.intent = post.intent,
                           !.outcome = post.outcome, !.pin = post.pin]
          [] Runs(p, {"live"}) /\ proc[p].status = "Succeeded" ->
               [row EXCEPT !.latest = proc[p].row, !.intent = "Dry Run",
                           !.outcome = "Executed", !.status = "Executed",
                           !.pin = IF Kind[proc[p].cur] = "rollback"
                                   THEN Snap(p).pin ELSE None]
          [] OTHER ->
               [row EXCEPT !.latest = proc[p].row, !.intent = "Dry Run",
                           !.outcome = "Problem"]

SettleRequest(p) ==
    /\ request' = [request EXCEPT ![proc[p].cur] = Settlement(p, @)]
    /\ UNCHANGED <<rows, passed>>

Settle(p) ==
    /\ At(p, "settle")
    /\ SettleRequest(p)
    /\ Goto(p, "packet")
    /\ UNCHANGED <<outside, history>>

Loops(p) == proc' = [proc EXCEPT ![p].pc = "pick", ![p].cur = None,
                                 ![p].pre = Unresolved, ![p].blocked = FALSE,
                                 ![p].row = None, ![p].status = "Unset"]

Packet(p) ==
    /\ proc[p].pc \in {"packet", "undoPacket"}
    /\ Loops(p)
    /\ UNCHANGED <<stores, outside, history>>

(***************************************************************************)
(* The runner's catch block, entered from everything after the row was     *)
(* opened.  It does not know how far the execution came.                   *)
(***************************************************************************)
\* Mutants: the catch block files the row under the request's vocabulary, or as
\* a skipped execution.
FailRowAsProblem(p) ==
    /\ rows' = [rows EXCEPT ![proc[p].row].status = "Problem"]
    /\ UNCHANGED <<request, passed>>

FailRowAsSkipped(p) ==
    /\ rows' = [rows EXCEPT ![proc[p].row].status = "Skipped"]
    /\ UNCHANGED <<request, passed>>

\* Mutant: the catch block files every failure as a dry run.
FailRowAsDryRun(p) ==
    /\ rows' = [rows EXCEPT ![proc[p].row].status = "Failed",
                            ![proc[p].row].mode = "Dry Run"]
    /\ UNCHANGED <<request, passed>>

FailRow(p) ==
    /\ rows' = [rows EXCEPT ![proc[p].row].status = "Failed"]
    /\ UNCHANGED <<request, passed>>

UndoRow(p) ==
    /\ At(p, "undoRow")
    /\ FailRow(p)
    /\ Goto(p, "undoRequest")
    /\ UNCHANGED <<outside, history>>

FailRequest(p) ==
    /\ request' = [request EXCEPT ![proc[p].cur].latest = proc[p].row,
                                  ![proc[p].cur].outcome = "Problem",
                                  ![proc[p].cur].intent = "Dry Run"]
    /\ UNCHANGED <<rows, passed>>

UndoRequest(p) ==
    /\ At(p, "undoRequest")
    /\ FailRequest(p)
    /\ Goto(p, "undoPacket")
    /\ UNCHANGED <<outside, history>>

\* The sync expires what its snapshot says is approved and past its date.
ExpireRequest(r) ==
    /\ request' = [request EXCEPT ![r].status = "Expired"]
    /\ UNCHANGED <<rows, passed>>

Expire(p) ==
    /\ At(p, "expire")
    /\ \E r \in proc[p].todo :
         /\ ExpireRequest(r)
         /\ proc' = [proc EXCEPT ![p].todo = @ \ {r}]
    /\ UNCHANGED <<outside, history>>

------------------------------------------------------------------------------
(***************************************************************************)
(* Failures.  A write to Notion or to the provider may fail with or        *)
(* without having taken effect; the exception reaches the runner's catch   *)
(* block or ends the command.  A crash ends it anywhere.                   *)
(***************************************************************************)
\* Mutant: the provider call stands before the try block.
InTryAfterCall(p) == /\ Runs(p, {"rehearse", "live"})
                     /\ proc[p].pc \in {"close", "settle", "packet"}

InTry(p) == /\ Runs(p, {"rehearse", "live"})
            /\ proc[p].pc \in {"call", "verify", "close", "settle", "packet"}

Throws(p) == IF InTry(p) THEN Goto(p, "undoRow") ELSE Ends(p)

Writes(p) ==
    \/ At(p, "draft")       /\ \E x \in RowIds : CreateRow(x)
    \/ At(p, "open")        /\ OpenRow(p)
    \/ At(p, "close")       /\ CloseRow(p)
    \/ At(p, "settle")      /\ SettleRequest(p)
    \/ At(p, "undoRow")     /\ FailRow(p)
    \/ At(p, "undoRequest") /\ FailRequest(p)
    \/ At(p, "expire")      /\ \E r \in proc[p].todo : ExpireRequest(r)

NotionFails(p) ==
    /\ "notion" \in Events
    /\ proc[p].pc \notin {"idle", "pick", "call", "verify"}
    /\ Writes(p) \/ UNCHANGED stores
    /\ Throws(p)
    /\ UNCHANGED <<outside, history>>

CallFails(p) ==
    /\ "provider" \in Events
    /\ proc[p].pc \in {"call", "verify"}
    /\ \/ At(p, "call") /\ ~Settled(p) /\ Lands(p)
       \/ UNCHANGED <<stores, outside, history>>
    /\ Throws(p)

Crash(p) ==
    /\ "crash" \in Events
    /\ ~At(p, "idle")
    /\ Ends(p)
    /\ UNCHANGED <<stores, outside, history>>

------------------------------------------------------------------------------
(***************************************************************************)
(* People and providers.  Operators edit a request in Notion at any time;  *)
(* they leave the properties the lane owns alone.                          *)
(***************************************************************************)
Decide(r, status) ==
    /\ "decide" \in Events
    /\ request[r].status # status
    /\ request' = [request EXCEPT ![r].status = status]
    /\ spent' = IF status = "Approved" THEN [spent EXCEPT ![r] = {}] ELSE spent
    /\ UNCHANGED <<rows, passed, effects, outside, proc>>

Sign(r, signed) ==
    /\ "sign" \in Events
    /\ request' = [request EXCEPT ![r].signed = signed]
    /\ UNCHANGED <<rows, passed, history, outside, proc>>

Edit(r, payload) ==
    /\ "edit" \in Events
    /\ request' = [request EXCEPT ![r].payload = payload]
    /\ UNCHANGED <<rows, passed, history, outside, proc>>

Deploy(w) ==
    /\ "deploy" \in Events
    /\ world' = w
    /\ UNCHANGED <<stores, history, issue, day, proc>>

IssueMoves(r, payload) ==
    /\ "issue" \in Events /\ Kind[r] = "additive"
    /\ issue' = [issue EXCEPT ![r] = payload]
    /\ UNCHANGED <<stores, history, world, day, proc>>

Tick ==
    /\ day < MaxDay
    /\ day' = day + 1
    /\ UNCHANGED <<stores, history, world, issue, proc>>

People ==
    \/ \E r \in Requests :
         \/ \E status \in {"Pending Approval", "Approved", "Canceled"} :
              Decide(r, status)
         \/ \E signed \in Signatures : Sign(r, signed)
         \/ \E payload \in Payloads : Edit(r, payload)
         \/ \E payload \in Payloads \cup {None} : IssueMoves(r, payload)
    \/ \E w \in Worlds : Deploy(w)
    \/ Tick

\* What the program does by itself once a command runs.
Advance(p) ==
    \/ ReadRequests(p) \/ ReadRows(p) \/ Select(p)
    \/ PassOver(p) \/ TakeUp(p) \/ Finish(p)
    \/ Draft(p) \/ Open(p) \/ Call(p) \/ SkipCall(p) \/ Verify(p)
    \/ Close(p) \/ Settle(p) \/ Packet(p)
    \/ UndoRow(p) \/ UndoRequest(p) \/ Expire(p)

Fails(p) == NotionFails(p) \/ CallFails(p) \/ Crash(p)

Next ==
    \/ \E p \in Procs :
         \/ \E cmd \in Commands, only \in Requests \cup {None} :
              Start(p, cmd, only)
         \/ Advance(p)
         \/ Fails(p)
    \/ People

Spec == Init /\ [][Next]_vars

\* A process that was started is scheduled until it ends.
FairSpec == Spec /\ \A p \in Procs : WF_vars(Advance(p))

------------------------------------------------------------------------------
\* TypeOK: the Notion rows, the provider and the running commands have their type.
TypeOK ==
    /\ request \in [Requests -> RequestRows]
    /\ rows \in [RowIds -> ExecutionRows]
    /\ world \in Worlds
    /\ issue \in [Requests -> Payloads \cup {None}]
    /\ day \in Nat
    /\ proc \in [Procs -> Processes]
    /\ passed \in SUBSET RowIds
    /\ effects \in SUBSET RowIds
    /\ spent \in [Requests -> SUBSET RowIds]

(***************************************************************************)
(* ReadyIsBacked: a request says Ready for Live only while the execution   *)
(* it names is a dry run of that same request that was recorded as         *)
(* succeeded, and the deployment it pins is the one that dry run showed.   *)
(* The intent, the relation and the pin are written by four different      *)
(* handlers of several processes, from snapshots of different ages.        *)
(***************************************************************************)
ReadyIsBacked ==
    \A r \in Requests : request[r].intent = "Ready for Live" =>
        /\ request[r].latest \in passed
        /\ rows[request[r].latest].request = r
        /\ Kind[r] = "rollback" =>
             request[r].pin = rows[request[r].latest].key.to

(***************************************************************************)
(* EffectWasRehearsed: nothing is written to a provider unless a dry run   *)
(* of the same request passed before; a rollback or promote goes to the    *)
(* very deployment such a dry run pinned, however production moved since.  *)
(***************************************************************************)
EffectWasRehearsed ==
    \A e \in effects : \E d \in passed :
        /\ rows[d].request = rows[e].request
        /\ Kind[rows[e].request] = "rollback" => rows[d].key.to = rows[e].key.to

(***************************************************************************)
(* LedgerIsTruthful: whatever fails, every accepted provider write has a   *)
(* live execution row that was opened before it and is not filed as        *)
(* Skipped, and no row claims a success that did not happen.               *)
(***************************************************************************)
LedgerIsTruthful ==
    /\ \A e \in effects :
         /\ rows[e].mode = "Live"
         /\ rows[e].status \notin {"Absent", "Unset", "Skipped"}
    /\ \A x \in RowIds :
         rows[x].mode = "Live"
         /\ rows[x].status \in {"Succeeded", "Compensation Needed"}
         => x \in effects

(***************************************************************************)
(* ExecutedHappened: a request is closed as Executed only by a live        *)
(* execution of it that reached the provider, and while its latest outcome *)
(* reads Executed the row it names is that execution.                      *)
(***************************************************************************)
ExecutedHappened ==
    \A r \in Requests :
        /\ request[r].status = "Executed" =>
             \E e \in effects : rows[e].request = r
        /\ request[r].outcome = "Executed" =>
             /\ request[r].latest \in effects
             /\ rows[request[r].latest].request = r

(***************************************************************************)
(* OneSuccessPerKey: while operators keep live runs serial, no two live    *)
(* executions with one idempotency key are both recorded as succeeded:     *)
(* the duplicate check of the second sees the row of the first.            *)
(***************************************************************************)
LiveSuccess(x) == rows[x].mode = "Live" /\ rows[x].status = "Succeeded"

OneSuccessPerKey ==
    \A x, y \in RowIds :
        /\ LiveSuccess(x) /\ LiveSuccess(y)
        /\ rows[x].request = rows[y].request /\ rows[x].key = rows[y].key
        => x = y

(***************************************************************************)
(* RowsKeepIdentity: once an execution row says what it is (mode, request, *)
(* idempotency key), no command ever makes it something else, and what the *)
(* history holds against a row stays.                                      *)
(***************************************************************************)
KeepsRows ==
    /\ passed \subseteq passed' /\ effects \subseteq effects'
    /\ \A x \in RowIds : rows[x].mode # "Unset" =>
         /\ rows'[x].mode = rows[x].mode
         /\ rows'[x].request = rows[x].request
         /\ rows'[x].key = rows[x].key

RowsKeepIdentity == [][KeepsRows]_vars

(***************************************************************************)
(* CommandsEnd: every started command ends.                                *)
(* RowsResolve: as long as the process lives and Notion answers, a Started *)
(* row is given a result, whatever the provider does.                      *)
(***************************************************************************)
CommandsEnd == \A p \in Procs : ~At(p, "idle") ~> At(p, "idle")

RowsResolve ==
    \A x \in RowIds : rows[x].status = "Started" ~> rows[x].status # "Started"

------------------------------------------------------------------------------
(***************************************************************************)
(* FailedMeansNoEffect: what docs/governance-incident-followup-runbook.md  *)
(* says of a Failed execution, that its write does not count even as a     *)
(* partial state change.                                                   *)
(***************************************************************************)
FailedMeansNoEffect ==
    \A e \in effects : rows[e].status # "Failed"

(***************************************************************************)
(* RedeployMatchesDryRun: docs/vercel-deployment-control-runbook.md has    *)
(* the operator confirm in the dry run the exact deployment that will be   *)
(* redeployed.                                                             *)
(***************************************************************************)
RedeployMatchesDryRun ==
    \A e \in effects : Kind[rows[e].request] = "redeploy" =>
        \E d \in passed : /\ rows[d].request = rows[e].request
                          /\ rows[d].key.from = rows[e].key.from

(***************************************************************************)
(* OneApprovalOneEffect: fable-explore/06-interesting-things.md says that  *)
(* one approval never authorizes two executions.                           *)
(***************************************************************************)
OneApprovalOneEffect == \A r \in Requests : Cardinality(spent[r]) <= 1
==============================================================================
