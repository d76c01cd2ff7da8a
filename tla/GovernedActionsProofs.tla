------------------------ MODULE GovernedActionsProofs ------------------------
(***************************************************************************)
(* What the governed action lane guarantees for any number of requests,    *)
(* processes, execution rows and deployments, with every failure allowed.  *)
(***************************************************************************)
EXTENDS GovernedActions, TLAPS

------------------------------------------------------------------------------
(***************************************************************************)
(* Types.  A step is well-typed because a command that is past its draft   *)
(* holds a request and an execution row; that it always does is part of    *)
(* the invariant (Owners and Sound).                                       *)
(***************************************************************************)
\* Where a command holds an execution row.
Holding == {"open", "call", "verify", "close", "settle", "packet",
            "undoRow", "undoRequest", "undoPacket"}

Live(p) == Runs(p, {"live"})

Works(p) ==
    /\ proc[p].pc \in Holding \cup {"draft"} => proc[p].cur \in Requests
    /\ proc[p].pc \in Holding =>
         proc[p].row \in RowIds /\ rows[proc[p].row].status # "Absent"
    /\ proc[p].pc \in {"call", "verify"} => Live(p)

------------------------------------------------------------------------------
LEMMA IdleType == Idle \in Processes /\ NoRows \in [RowIds -> ExecutionRows]
<1>1. NoRow \in ExecutionRows
  BY DEF NoRow, ExecutionRows, RowStatuses, RowModes, Keys, NoKey, Pins
<1>2. NoRows \in [RowIds -> ExecutionRows]
  BY <1>1 DEF NoRows
<1>3. Unread \in [Requests -> RequestRows]
  BY PayloadsAssumption DEF Unread, RequestRows, Statuses, Intents, Outcomes,
     Pins, Signed
<1>4. Unresolved \in Preflights
  BY DEF Unresolved, Preflights, Pins
<1> QED
  BY <1>2, <1>3, <1>4 DEF Idle, Processes, Pcs, CommandKinds, RowStatuses

LEMMA InitType == Init => TypeOK
<1> SUFFICES ASSUME Init PROVE TypeOK
  OBVIOUS
<1>1. request \in [Requests -> RequestRows]
  BY SignaturesAssumption DEF Init, NewRequests, RequestRows, Statuses, Intents,
     Outcomes, Pins
<1>2. rows \in [RowIds -> ExecutionRows] /\ proc \in [Procs -> Processes]
  BY IdleType DEF Init
<1>3. spent \in [Requests -> SUBSET RowIds]
  BY DEF Init
<1>4. world \in Worlds /\ issue \in [Requests -> Payloads \cup {None}]
  BY Zenon DEF Init
<1>5. day \in Nat /\ passed \in SUBSET RowIds /\ effects \in SUBSET RowIds
  <2>1. day = 0 /\ passed = {} /\ effects = {}
    BY Zenon DEF Init
  <2> QED
    BY <2>1
<1> QED
  BY <1>1, <1>2, <1>3, <1>4, <1>5 DEF TypeOK

LEMMA PostDryRunType ==
  ASSUME NEW r \in Requests, NEW req \in RequestRows, NEW blocked \in BOOLEAN,
         NEW pre \in Preflights, NEW today \in Nat
  PROVE  /\ PostDryRun(r, req, blocked, pre, today).intent \in Intents
         /\ PostDryRun(r, req, blocked, pre, today).outcome \in Outcomes
         /\ PostDryRun(r, req, blocked, pre, today).pin \in Pins
<1>1. PinAfter(r, req, pre) \in Pins /\ req.pin \in Pins
  BY DEF PinAfter, Preflights, RequestRows
<1> QED
  BY <1>1 DEF PostDryRun, Intents, Outcomes

LEMMA KeyType ==
  ASSUME NEW r \in Requests, NEW payload \in Payloads, NEW pre \in Preflights
  PROVE  KeyOf(r, payload, pre) \in Keys
BY DEF KeyOf, Keys, NoKey, Preflights, Pins

------------------------------------------------------------------------------
\* Every update of a process keeps it a process.
LEMMA IdleUpdate ==
  ASSUME TypeOK, NEW p \in Procs, Ends(p)
  PROVE  proc' \in [Procs -> Processes]
BY IdleType DEF TypeOK, Ends

LEMMA GotoType ==
  ASSUME TypeOK, NEW p \in Procs, NEW pc \in Pcs, Goto(p, pc)
  PROVE  proc' \in [Procs -> Processes]
<1>1. proc[p] \in Processes
  BY DEF TypeOK
<1>2. [proc[p] EXCEPT !.pc = pc] \in Processes
  BY <1>1 DEF Processes
<1> QED
  BY <1>2 DEF TypeOK, Goto

\* A step that moves one process and nothing else keeps the types.
LEMMA ProcOnly ==
  ASSUME TypeOK, proc' \in [Procs -> Processes],
         UNCHANGED <<stores, outside, history>>
  PROVE  TypeOK'
BY DEF TypeOK, stores, outside, history

LEMMA StoresOnly ==
  ASSUME TypeOK, proc' \in [Procs -> Processes],
         request' \in [Requests -> RequestRows],
         rows' \in [RowIds -> ExecutionRows], passed' \in SUBSET RowIds,
         UNCHANGED <<outside, history>>
  PROVE  TypeOK'
BY DEF TypeOK, outside, history

\* What each write to Notion leaves in the stores is well-typed.
StoresOK ==
    /\ request \in [Requests -> RequestRows]
    /\ rows \in [RowIds -> ExecutionRows]
    /\ passed \in SUBSET RowIds

LEMMA CreateRowType ==
  ASSUME TypeOK, NEW x \in RowIds, CreateRow(x) PROVE StoresOK'
<1>1. rows[x] \in ExecutionRows
  BY DEF TypeOK
<1>2. [rows[x] EXCEPT !.status = "Unset"] \in ExecutionRows
  BY <1>1 DEF ExecutionRows, RowStatuses
<1> QED
  BY <1>2 DEF CreateRow, TypeOK, StoresOK

LEMMA DescribedType ==
  ASSUME TypeOK, NEW p \in Procs, proc[p].cur \in Requests,
         NEW status \in RowStatuses
  PROVE  Described(p, status) \in ExecutionRows
<1>1. proc[p] \in Processes
  BY DEF TypeOK
<1>2. Snap(p).payload \in Payloads /\ proc[p].pre \in Preflights
      /\ proc[p].now \in Nat
  BY <1>1 DEF Snap, Processes, RequestRows
<1>3. KeyOf(proc[p].cur, Snap(p).payload, proc[p].pre) \in Keys
  BY <1>2, KeyType
<1> QED
  BY <1>2, <1>3 DEF Described, ExecutionRows, RowModes

LEMMA OpenRowType ==
  ASSUME TypeOK, NEW p \in Procs, proc[p].cur \in Requests, OpenRow(p)
  PROVE  StoresOK'
<1>1. Described(p, "Started") \in ExecutionRows
  BY DescribedType DEF RowStatuses
<1> QED
  BY <1>1 DEF OpenRow, TypeOK, StoresOK

LEMMA CloseRowType ==
  ASSUME TypeOK, NEW p \in Procs, proc[p].cur \in Requests,
         proc[p].row \in RowIds, CloseRow(p)
  PROVE  StoresOK'
<1>1. FinalStatus(p) \in RowStatuses
  <2>1. proc[p].status \in RowStatuses
    BY DEF TypeOK, Processes
  <2> QED
    BY <2>1 DEF FinalStatus, RowStatuses
<1>2. Described(p, FinalStatus(p)) \in ExecutionRows
  BY <1>1, DescribedType
<1>3. [rows[proc[p].row] EXCEPT !.status = FinalStatus(p)] \in ExecutionRows
  <2>1. rows[proc[p].row] \in ExecutionRows
    BY DEF TypeOK
  <2> QED
    BY <2>1, <1>1 DEF ExecutionRows
<1>4. rows' \in [RowIds -> ExecutionRows]
  BY <1>2, <1>3 DEF CloseRow, TypeOK
<1>5. passed' \in SUBSET RowIds /\ request' = request
  BY DEF CloseRow, TypeOK
<1> QED
  BY <1>4, <1>5 DEF TypeOK, StoresOK

LEMMA SettlementType ==
  ASSUME TypeOK, NEW p \in Procs, proc[p].cur \in Requests,
         proc[p].row \in RowIds, NEW row \in RequestRows
  PROVE  Settlement(p, row) \in RequestRows
<1> DEFINE post == PostDryRun(proc[p].cur, Snap(p), proc[p].blocked,
                              proc[p].pre, proc[p].now)
<1>1. proc[p] \in Processes
  BY DEF TypeOK
<1>2. Snap(p) \in RequestRows /\ Snap(p).pin \in Pins
  BY <1>1 DEF Snap, Processes, RequestRows
<1>3. post.intent \in Intents /\ post.outcome \in Outcomes /\ post.pin \in Pins
  BY <1>1, <1>2, PostDryRunType DEF Processes
<1>4. None \in Pins
  BY DEF Pins
<1> HIDE DEF post
<1>5. [row EXCEPT !.latest = proc[p].row, !.intent = post.intent,
                  !.outcome = post.outcome, !.pin = post.pin] \in RequestRows
  BY <1>3 DEF RequestRows
<1>6. [row EXCEPT !.latest = proc[p].row, !.intent = "Dry Run",
                  !.outcome = "Executed", !.status = "Executed",
                  !.pin = IF Kind[proc[p].cur] = "rollback"
                          THEN Snap(p).pin ELSE None] \in RequestRows
  BY <1>2, <1>4 DEF RequestRows, Intents, Outcomes, Statuses
<1>7. [row EXCEPT !.latest = proc[p].row, !.intent = "Dry Run",
                  !.outcome = "Problem"] \in RequestRows
  BY DEF RequestRows, Intents, Outcomes
<1> QED
  BY <1>5, <1>6, <1>7 DEF Settlement, post

LEMMA SettleRequestType ==
  ASSUME TypeOK, NEW p \in Procs, proc[p].cur \in Requests,
         proc[p].row \in RowIds, SettleRequest(p)
  PROVE  StoresOK'
<1>1. Settlement(p, request[proc[p].cur]) \in RequestRows
  BY SettlementType DEF TypeOK
<1> QED
  BY <1>1 DEF SettleRequest, TypeOK, StoresOK

LEMMA FailRowType ==
  ASSUME TypeOK, NEW p \in Procs, proc[p].row \in RowIds, FailRow(p)
  PROVE  StoresOK'
<1>1. rows[proc[p].row] \in ExecutionRows
  BY DEF TypeOK
<1>2. [rows[proc[p].row] EXCEPT !.status = "Failed"] \in ExecutionRows
  BY <1>1 DEF ExecutionRows, RowStatuses
<1> QED
  BY <1>2 DEF FailRow, TypeOK, StoresOK

LEMMA FailRequestType ==
  ASSUME TypeOK, NEW p \in Procs, proc[p].cur \in Requests,
         proc[p].row \in RowIds, FailRequest(p)
  PROVE  StoresOK'
<1> DEFINE r == proc[p].cur
<1>1. request[r] \in RequestRows
  BY DEF TypeOK
<1>2. [request[r] EXCEPT !.latest = proc[p].row, !.outcome = "Problem",
                         !.intent = "Dry Run"] \in RequestRows
  BY <1>1 DEF RequestRows, Outcomes, Intents
<1> QED
  BY <1>2 DEF FailRequest, TypeOK, StoresOK

LEMMA StatusType ==
  ASSUME TypeOK, NEW r \in Requests, NEW status \in Statuses,
         request' = [request EXCEPT ![r].status = status]
  PROVE  request' \in [Requests -> RequestRows]
<1>1. request[r] \in RequestRows
  BY DEF TypeOK
<1>2. [request[r] EXCEPT !.status = status] \in RequestRows
  BY <1>1 DEF RequestRows
<1> QED
  BY <1>2 DEF TypeOK

LEMMA ExpireRequestType ==
  ASSUME TypeOK, NEW r \in Requests, ExpireRequest(r) PROVE StoresOK'
BY StatusType DEF ExpireRequest, TypeOK, StoresOK, Statuses

\* A step of p that updates its record within Processes.
LEMMA ProcUpdate ==
  ASSUME TypeOK, NEW p \in Procs, NEW new \in Processes,
         proc' = [proc EXCEPT ![p] = new]
  PROVE  proc' \in [Procs -> Processes]
BY DEF TypeOK

LEMMA StartType ==
  ASSUME TypeOK, NEW p \in Procs, NEW cmd \in Commands,
         NEW only \in Requests \cup {None}, Start(p, cmd, only)
  PROVE  TypeOK'
<1>1. [Idle EXCEPT !.pc = "load", !.cmd = cmd, !.only = only, !.now = day]
        \in Processes
  BY IdleType, CommandsAssumption DEF TypeOK, Processes, Pcs
<1>2. proc' \in [Procs -> Processes]
  BY <1>1, ProcUpdate DEF Start
<1> QED
  BY <1>2, ProcOnly DEF Start

LEMMA ReadType ==
  ASSUME TypeOK, NEW p \in Procs, ReadRequests(p) \/ ReadRows(p)
  PROVE  TypeOK'
<1>1. proc[p] \in Processes /\ rows \in [RowIds -> ExecutionRows]
      /\ request \in [Requests -> RequestRows]
  BY DEF TypeOK
<1>2. CASE ReadRequests(p)
  <2>1. [proc[p] EXCEPT !.snap = request, !.got = @ \cup {"requests"}]
          \in Processes
    BY <1>1 DEF Processes
  <2>2. proc' \in [Procs -> Processes]
    BY <1>2, <2>1 DEF ReadRequests, TypeOK
  <2> QED
    BY <1>2, <2>2, ProcOnly DEF ReadRequests
<1>3. CASE ReadRows(p)
  <2>1. [proc[p] EXCEPT !.seen = rows, !.got = @ \cup {"rows"}] \in Processes
    BY <1>1 DEF Processes
  <2>2. proc' \in [Procs -> Processes]
    BY <1>3, <2>1 DEF ReadRows, TypeOK
  <2> QED
    BY <1>3, <2>2, ProcOnly DEF ReadRows
<1> QED
  BY <1>2, <1>3

LEMMA SelectType ==
  ASSUME TypeOK, NEW p \in Procs, Select(p) PROVE TypeOK'
<1> DEFINE pc == IF Runs(p, {"sync"}) THEN "expire" ELSE "pick"
<1>1. PICK todo \in SUBSET Eligible(p) :
        proc' = [proc EXCEPT ![p].todo = todo, ![p].pc = pc]
  BY DEF Select
<1>2. todo \in SUBSET Requests
  BY <1>1 DEF Eligible
<1>3. proc[p] \in Processes /\ pc \in Pcs
  BY DEF TypeOK, Pcs
<1>4. [proc[p] EXCEPT !.todo = todo, !.pc = pc] \in Processes
  <2> HIDE DEF pc
  <2> QED
    BY <1>2, <1>3 DEF Processes
<1>5. proc' \in [Procs -> Processes]
  BY <1>1, <1>4 DEF TypeOK
<1> QED
  BY <1>5, ProcOnly DEF Select

LEMMA ReadsType ==
  ASSUME TypeOK, NEW r \in Requests, NEW payload \in Payloads,
         NEW pre \in Reads(r, payload)
  PROVE  pre \in Preflights
<1>1. world.current \in Pins /\ world.candidate \in Pins /\ None \in Pins
  BY DEF TypeOK, Worlds, Pins
<1>2. CASE pre = Unresolved
  BY <1>1, <1>2 DEF Preflights, Unresolved
<1>3. CASE pre # Unresolved
  <2> DEFINE read(o) ==
        [ resolved  |-> TRUE,
          from      |-> IF OnVercel(r) THEN world.current ELSE None,
          to        |-> IF Kind[r] = "rollback" THEN world.candidate ELSE None,
          settled   |-> Kind[r] = "additive" /\ issue[r] = payload,
          objection |-> o ]
  <2>1. PICK o \in BOOLEAN : pre = read(o)
    BY <1>3 DEF Reads
  <2>2. read(o) \in Preflights
    BY <1>1 DEF Preflights
  <2> QED
    BY <2>1, <2>2
<1> QED
  BY <1>2, <1>3

LEMMA PickType ==
  ASSUME TypeOK, NEW p \in Procs, PassOver(p) \/ TakeUp(p) PROVE TypeOK'
<1>1. proc[p] \in Processes /\ day \in Nat
  BY DEF TypeOK
<1>2. ASSUME NEW r \in proc[p].todo
      PROVE  r \in Requests /\ proc[p].snap[r].payload \in Payloads
  BY <1>1, <1>2 DEF Processes, RequestRows
<1>3. CASE PassOver(p)
  <2>1. PICK r \in proc[p].todo : proc' = [proc EXCEPT ![p].todo = @ \ {r}]
    BY <1>3 DEF PassOver
  <2>2. [proc[p] EXCEPT !.todo = @ \ {r}] \in Processes
    BY <1>1 DEF Processes
  <2>3. proc' \in [Procs -> Processes]
    BY <2>1, <2>2 DEF TypeOK
  <2> QED
    BY <1>3, <2>3, ProcOnly DEF PassOver
<1>4. CASE TakeUp(p)
  <2>0. PICK r \in proc[p].todo :
          \E pre \in Reads(r, proc[p].snap[r].payload) :
            /\ ~PassedOver(p, r, pre)
            /\ proc' = [proc EXCEPT
                 ![p].pc = "draft", ![p].cur = r, ![p].todo = @ \ {r},
                 ![p].pre = Prepared(p, r, pre),
                 ![p].blocked = NotReady(p, r, Prepared(p, r, pre)),
                 ![p].now = day]
    BY <1>4 DEF TakeUp
  <2>1. PICK pre \in Reads(r, proc[p].snap[r].payload) :
          proc' = [proc EXCEPT
               ![p].pc = "draft", ![p].cur = r, ![p].todo = @ \ {r},
               ![p].pre = Prepared(p, r, pre),
               ![p].blocked = NotReady(p, r, Prepared(p, r, pre)),
               ![p].now = day]
    BY <2>0
  <2>2. pre \in Preflights /\ r \in Requests
    BY <1>2, ReadsType
  <2>3. Prepared(p, r, pre) \in Preflights
    BY <2>2, IdleType DEF Prepared, Idle, Processes
  <2>4. NotReady(p, r, Prepared(p, r, pre)) \in BOOLEAN
    BY DEF NotReady, Blocked
  <2> DEFINE prepared == Prepared(p, r, pre)
             notReady == NotReady(p, r, prepared)
  <2>5. [proc[p] EXCEPT !.pc = "draft", !.cur = r, !.todo = @ \ {r},
                        !.pre = prepared, !.blocked = notReady, !.now = day]
          \in Processes
    <3>1. prepared \in Preflights /\ notReady \in BOOLEAN
      BY <2>3, <2>4
    <3> HIDE DEF prepared, notReady
    <3> QED
      BY <1>1, <2>2, <3>1 DEF Processes, Pcs
  <2>6. proc' \in [Procs -> Processes]
    BY <2>1, <2>5 DEF TypeOK
  <2> QED
    BY <1>4, <2>6, ProcOnly, ZenonT(60) DEF TakeUp
<1> QED
  BY <1>3, <1>4

LEMMA FinishType ==
  ASSUME TypeOK, NEW p \in Procs, Finish(p) \/ Packet(p) \/ Crash(p)
  PROVE  TypeOK'
<1>1. proc[p] \in Processes /\ Unresolved \in Preflights
  BY IdleType DEF TypeOK, Idle, Processes
<1>2. [proc[p] EXCEPT !.pc = "pick", !.cur = None, !.pre = Unresolved,
         !.blocked = FALSE, !.row = None, !.status = "Unset"] \in Processes
  BY <1>1 DEF Processes, Pcs, RowStatuses
<1>3. proc' \in [Procs -> Processes]
  BY <1>2, IdleUpdate, ZenonT(60) DEF Finish, Packet, Crash, Loops, TypeOK
<1> QED
  BY <1>3, ProcOnly DEF Finish, Packet, Crash

LEMMA DraftType ==
  ASSUME TypeOK, NEW p \in Procs, Draft(p) PROVE TypeOK'
<1> DEFINE now == IF Runs(p, {"preview"}) THEN proc[p].now ELSE day
           pc  == IF Runs(p, {"preview"}) THEN "close" ELSE "open"
<1>1. PICK x \in RowIds :
        /\ CreateRow(x)
        /\ proc' = [proc EXCEPT ![p].row = x, ![p].now = now, ![p].pc = pc]
  BY DEF Draft
<1>2. proc[p] \in Processes /\ now \in Nat /\ pc \in Pcs
  BY DEF TypeOK, Processes, Pcs
<1>3. [proc[p] EXCEPT !.row = x, !.now = now, !.pc = pc] \in Processes
  <2> HIDE DEF now, pc
  <2> QED
    BY <1>2 DEF Processes
<1>4. proc' \in [Procs -> Processes]
  BY <1>1, <1>3 DEF TypeOK
<1> QED
  BY <1>1, <1>4, CreateRowType, StoresOnly DEF Draft, StoresOK

LEMMA LandsType ==
  ASSUME TypeOK, NEW p \in Procs, proc[p].cur \in Requests,
         proc[p].row \in RowIds, Lands(p), proc' \in [Procs -> Processes]
  PROVE  TypeOK'
<1>1. Snap(p).payload \in Payloads
  <2>1. proc[p] \in Processes
    BY DEF TypeOK
  <2> QED
    BY <2>1 DEF Snap, Processes, RequestRows
<1>2. effects' \in SUBSET RowIds /\ spent' \in [Requests -> SUBSET RowIds]
  BY DEF Lands, TypeOK
<1>3. issue' \in [Requests -> Payloads \cup {None}] /\ world' \in Worlds
  BY <1>1 DEF Lands, TypeOK
<1> QED
  BY <1>2, <1>3 DEF Lands, TypeOK, stores

LEMMA CallType ==
  ASSUME TypeOK, NEW p \in Procs, Works(p),
         Call(p) \/ SkipCall(p) \/ Verify(p)
  PROVE  TypeOK'
<1>1. proc[p] \in Processes
  BY DEF TypeOK
<1>2. ASSUME NEW status \in RowStatuses, NEW pc \in Pcs,
             proc' = [proc EXCEPT ![p].status = status, ![p].pc = pc]
      PROVE  proc' \in [Procs -> Processes]
  <2>1. [proc[p] EXCEPT !.status = status, !.pc = pc] \in Processes
    BY <1>1 DEF Processes
  <2> QED
    BY <1>2, <2>1 DEF TypeOK
<1>3. CASE Call(p)
  <2> DEFINE pc == IF OnVercel(proc[p].cur) THEN "verify" ELSE "close"
  <2>1. proc' = [proc EXCEPT ![p].status = "Succeeded", ![p].pc = pc]
    BY <1>3 DEF Call
  <2>2. "Succeeded" \in RowStatuses /\ pc \in Pcs
    BY DEF RowStatuses, Pcs
  <2>3. proc' \in [Procs -> Processes]
    <3> HIDE DEF pc
    <3> QED
      BY <2>1, <2>2, <1>2
  <2>4. proc[p].cur \in Requests /\ proc[p].row \in RowIds
    BY <1>3 DEF Call, At, Works, Holding
  <2> QED
    BY <1>3, <2>3, <2>4, LandsType DEF Call
<1>4. CASE SkipCall(p)
  <2>1. "Skipped" \in RowStatuses /\ "close" \in Pcs
    BY DEF RowStatuses, Pcs
  <2>2. proc' \in [Procs -> Processes]
    BY <1>4, <2>1, <1>2 DEF SkipCall
  <2> QED
    BY <1>4, <2>2, ProcOnly DEF SkipCall
<1>5. CASE Verify(p)
  <2>1. PICK confirmed \in BOOLEAN :
          proc' = [proc EXCEPT
            ![p].status = IF confirmed THEN "Succeeded" ELSE "Compensation Needed",
            ![p].pc = "close"]
    BY <1>5 DEF Verify, Confirmed
  <2> DEFINE status == IF confirmed THEN "Succeeded" ELSE "Compensation Needed"
  <2>2. status \in RowStatuses /\ "close" \in Pcs
    BY DEF RowStatuses, Pcs
  <2>3. proc' \in [Procs -> Processes]
    BY <2>1, <2>2, <1>2
  <2> QED
    BY <1>5, <2>3, ProcOnly DEF Verify
<1> QED
  BY <1>3, <1>4, <1>5

LEMMA WriteType ==
  ASSUME TypeOK, NEW p \in Procs, Works(p),
         Open(p) \/ Close(p) \/ Settle(p) \/ UndoRow(p) \/ UndoRequest(p)
  PROVE  TypeOK'
<1>1. proc[p].cur \in Requests /\ proc[p].row \in RowIds
  BY DEF Works, Holding, Open, Close, Settle, UndoRow, UndoRequest, At
<1>2. \E pc \in Pcs : Goto(p, pc)
  BY DEF Open, Close, Settle, UndoRow, UndoRequest, Pcs
<1>3. proc' \in [Procs -> Processes]
  BY <1>2, GotoType
<1>4. StoresOK'
  BY <1>1, OpenRowType, CloseRowType, SettleRequestType, FailRowType,
     FailRequestType DEF Open, Close, Settle, UndoRow, UndoRequest
<1> QED
  BY <1>3, <1>4, StoresOnly
     DEF StoresOK, Open, Close, Settle, UndoRow, UndoRequest

LEMMA ExpireType ==
  ASSUME TypeOK, NEW p \in Procs, Expire(p) PROVE TypeOK'
<1>1. proc[p] \in Processes
  BY DEF TypeOK
<1>2. PICK r \in proc[p].todo :
        ExpireRequest(r) /\ proc' = [proc EXCEPT ![p].todo = @ \ {r}]
  BY DEF Expire
<1>3. r \in Requests /\ [proc[p] EXCEPT !.todo = @ \ {r}] \in Processes
  BY <1>1 DEF Processes
<1>4. proc' \in [Procs -> Processes]
  BY <1>2, <1>3 DEF TypeOK
<1> QED
  BY <1>2, <1>3, <1>4, ExpireRequestType, StoresOnly DEF Expire, StoresOK

LEMMA ThrowsType ==
  ASSUME TypeOK, NEW p \in Procs, Throws(p)
  PROVE  proc' \in [Procs -> Processes]
<1>1. "undoRow" \in Pcs
  BY DEF Pcs
<1> QED
  BY <1>1, GotoType, IdleUpdate DEF Throws

LEMMA NotionFailsType ==
  ASSUME TypeOK, NEW p \in Procs, Works(p), NotionFails(p) PROVE TypeOK'
<1>1. proc[p] \in Processes
  BY DEF TypeOK
<1>2. ASSUME Writes(p) PROVE StoresOK'
  <2>1. proc[p].todo \subseteq Requests
    BY <1>1 DEF Processes
  <2>2. ASSUME ~At(p, "draft"), ~At(p, "expire")
        PROVE  proc[p].cur \in Requests /\ proc[p].row \in RowIds
    BY <1>2, <2>2 DEF Writes, Works, Holding, At
  <2> QED
    BY <1>2, <2>1, <2>2, CreateRowType, OpenRowType, CloseRowType,
       SettleRequestType, FailRowType, FailRequestType, ExpireRequestType
       DEF Writes, At
<1>3. ASSUME UNCHANGED stores PROVE StoresOK'
  BY <1>3 DEF stores, TypeOK, StoresOK
<1>4. StoresOK' /\ UNCHANGED <<outside, history>>
  BY <1>2, <1>3 DEF NotionFails
<1>5. proc' \in [Procs -> Processes]
  BY ThrowsType DEF NotionFails
<1> QED
  BY <1>4, <1>5, StoresOnly DEF StoresOK

LEMMA CallFailsType ==
  ASSUME TypeOK, NEW p \in Procs, Works(p), CallFails(p) PROVE TypeOK'
<1>1. proc' \in [Procs -> Processes]
  BY ThrowsType DEF CallFails
<1>2. proc[p].cur \in Requests /\ proc[p].row \in RowIds
  BY DEF CallFails, Works, Holding
<1> QED
  BY <1>1, <1>2, LandsType, ProcOnly DEF CallFails

LEMMA PeopleType ==
  ASSUME TypeOK, People PROVE TypeOK'
<1>1. ASSUME NEW r \in Requests,
             NEW status \in {"Pending Approval", "Approved", "Canceled"},
             Decide(r, status)
      PROVE  TypeOK'
  <2>1. request' \in [Requests -> RequestRows]
    BY <1>1, StatusType DEF Decide, Statuses
  <2>2. spent' \in [Requests -> SUBSET RowIds]
    BY <1>1 DEF Decide, TypeOK
  <2> QED
    BY <1>1, <2>1, <2>2 DEF Decide, TypeOK, outside
<1>2. ASSUME NEW r \in Requests, NEW signed \in Signatures, Sign(r, signed)
      PROVE  TypeOK'
  <2>1. request[r] \in RequestRows
    BY DEF TypeOK
  <2>2. [request[r] EXCEPT !.signed = signed] \in RequestRows
    BY <2>1, SignaturesAssumption DEF RequestRows
  <2>3. request' \in [Requests -> RequestRows]
    BY <1>2, <2>2 DEF Sign, TypeOK
  <2> QED
    BY <1>2, <2>3 DEF Sign, TypeOK, outside, history
<1>3. ASSUME NEW r \in Requests, NEW payload \in Payloads, Edit(r, payload)
      PROVE  TypeOK'
  <2>1. request[r] \in RequestRows
    BY DEF TypeOK
  <2>2. [request[r] EXCEPT !.payload = payload] \in RequestRows
    BY <2>1 DEF RequestRows
  <2>3. request' \in [Requests -> RequestRows]
    BY <1>3, <2>2 DEF Edit, TypeOK
  <2> QED
    BY <1>3, <2>3 DEF Edit, TypeOK, outside, history
<1>4. ASSUME NEW r \in Requests, NEW payload \in Payloads \cup {None},
             IssueMoves(r, payload)
      PROVE  TypeOK'
  BY <1>4 DEF IssueMoves, TypeOK, stores, history
<1>5. ASSUME NEW w \in Worlds, Deploy(w) PROVE TypeOK'
  BY <1>5 DEF Deploy, TypeOK, stores, history
<1>6. ASSUME Tick PROVE TypeOK'
  BY <1>6 DEF Tick, TypeOK, stores, history
<1> QED
  BY <1>1, <1>2, <1>3, <1>4, <1>5, <1>6 DEF People

LEMMA TypeStep ==
  ASSUME TypeOK, \A p \in Procs : Works(p), [Next]_vars PROVE TypeOK'
<1>1. CASE UNCHANGED vars
  BY <1>1 DEF vars, TypeOK, stores, outside, history
<1>2. ASSUME NEW p \in Procs, NEW cmd \in Commands,
             NEW only \in Requests \cup {None}, Start(p, cmd, only)
      PROVE  TypeOK'
  BY <1>2, StartType
<1>3. ASSUME NEW p \in Procs, Advance(p) PROVE TypeOK'
  BY <1>3, ReadType, SelectType, PickType, FinishType, DraftType, CallType,
     WriteType, ExpireType DEF Advance
<1>4. ASSUME NEW p \in Procs, Fails(p) PROVE TypeOK'
  BY <1>4, NotionFailsType, CallFailsType, FinishType DEF Fails
<1>5. CASE People
  BY <1>5, PeopleType
<1> QED
  BY <1>1, <1>2, <1>3, <1>4, <1>5 DEF Next

------------------------------------------------------------------------------
(***************************************************************************)
(* The inductive invariant.  ReadyIsBacked and EffectWasRehearsed speak of *)
(* the stores alone; they are kept because every command carries a         *)
(* snapshot that was backed when it was read, because the row it holds is  *)
(* its own, and because described rows keep their identity.                *)
(***************************************************************************)
\* A request row that says Ready for Live is backed by a passed dry run.
Backed(r, row) ==
    row.intent = "Ready for Live" =>
        /\ row.latest \in passed
        /\ rows[row.latest].request = r
        /\ Kind[r] = "rollback" => row.pin = rows[row.latest].key.to

Rehearsed(r, to) ==
    \E d \in passed : /\ rows[d].request = r
                      /\ Kind[r] = "rollback" => rows[d].key.to = to

\* The row p holds is described as p describes it.
Describes(p) ==
    /\ rows[proc[p].row].mode = IF Live(p) THEN "Live" ELSE "Dry Run"
    /\ rows[proc[p].row].request = proc[p].cur
    /\ rows[proc[p].row].key =
         KeyOf(proc[p].cur, Snap(p).payload, proc[p].pre)

BareAt(p)      == At(p, "open") \/ (At(p, "close") /\ Runs(p, {"preview"}))
DescribedAt(p) == \/ proc[p].pc \in {"call", "verify", "settle"}
                  \/ At(p, "close") /\ ~Runs(p, {"preview"})

Describing(p) ==
    /\ At(p, "open") => ~Runs(p, {"preview"})
    /\ BareAt(p) => rows[proc[p].row].mode = "Unset"
    /\ DescribedAt(p) => Describes(p)

Judged(p) ==
    /\ Live(p) /\ proc[p].pc \in Holding \cup {"draft"} =>
         proc[p].pre.resolved /\ Rehearsed(proc[p].cur, proc[p].pre.to)
    /\ ~Live(p) /\ At(p, "settle") /\ ~proc[p].blocked =>
         proc[p].row \in passed

Called(p) ==
    /\ At(p, "call") => /\ proc[p].row \notin effects
                        /\ rows[proc[p].row].status = "Started"
    /\ At(p, "verify") => proc[p].row \in effects
    /\ Live(p) /\ proc[p].pc \in {"close", "settle"} =>
         /\ proc[p].status \in {"Succeeded", "Compensation Needed", "Skipped"}
         /\ proc[p].status = "Skipped" <=> proc[p].row \notin effects

Informed(p) == \A r \in Requests : Backed(r, proc[p].snap[r])

Owners ==
    \A p, q \in Procs :
        proc[p].pc \in Holding /\ proc[q].pc \in Holding
        /\ proc[p].row = proc[q].row => p = q

RowsMarked ==
    /\ \A x \in RowIds : rows[x].status = "Absent" => rows[x].mode = "Unset"
    /\ \A d \in passed : rows[d].mode = "Dry Run"

Sound(p) ==
    Works(p) /\ Describing(p) /\ Judged(p) /\ Called(p) /\ Informed(p)

\* What the data sources and the history say together.
Stored ==
    /\ RowsMarked
    /\ LedgerIsTruthful
    /\ ReadyIsBacked
    /\ EffectWasRehearsed
    /\ ExecutedHappened

IInv ==
    /\ TypeOK
    /\ Stored
    /\ Owners
    /\ \A p \in Procs : Sound(p)

------------------------------------------------------------------------------
(***************************************************************************)
(* The invariants about the stores, and what a step may do to them.        *)
(***************************************************************************)
BackedNext(r, row) ==
    row.intent = "Ready for Live" =>
        /\ row.latest \in passed'
        /\ rows'[row.latest].request = r
        /\ Kind[r] = "rollback" => row.pin = rows'[row.latest].key.to

RehearsedNext(r, to) ==
    \E d \in passed' : /\ rows'[d].request = r
                       /\ Kind[r] = "rollback" => rows'[d].key.to = to

\* The only row p may change is the one it holds; it may also take a fresh one.
OthersRows(p) ==
    \A x \in RowIds :
        \/ proc[p].pc \in Holding /\ x = proc[p].row
        \/ rows[x].status = "Absent"
        \/ /\ rows'[x] = rows[x]
           /\ x \in passed' <=> x \in passed
           /\ x \in effects' <=> x \in effects

LEMMA BackedKeeps ==
  ASSUME TypeOK, RowsMarked, KeepsRows, NEW r \in Requests,
         NEW row, Backed(r, row)
  PROVE  BackedNext(r, row)
<1>1. ASSUME NEW d \in passed
      PROVE  /\ d \in passed' /\ rows'[d].request = rows[d].request
             /\ rows'[d].key = rows[d].key
  <2>1. d \in RowIds /\ rows[d].mode # "Unset"
    BY <1>1 DEF TypeOK, RowsMarked
  <2> QED
    BY <1>1, <2>1 DEF KeepsRows
<1> QED
  BY <1>1 DEF Backed, BackedNext

LEMMA RehearsedKeeps ==
  ASSUME TypeOK, RowsMarked, KeepsRows, NEW r, NEW to, Rehearsed(r, to)
  PROVE  RehearsedNext(r, to)
<1>1. PICK d \in passed : /\ rows[d].request = r
                          /\ Kind[r] = "rollback" => rows[d].key.to = to
  BY DEF Rehearsed
<1>2. d \in RowIds /\ rows[d].mode # "Unset"
  BY DEF TypeOK, RowsMarked
<1>3. d \in passed' /\ rows'[d].request = rows[d].request
      /\ rows'[d].key = rows[d].key
  BY <1>2 DEF KeepsRows
<1>4. rows'[d].request = r
  BY <1>1, <1>3
<1>5. Kind[r] = "rollback" => rows'[d].key.to = to
  BY <1>1, <1>3
<1> QED
  BY <1>3, <1>4, <1>5, Zenon DEF RehearsedNext

\* A write to the execution rows that keeps their identity and the ledger.
LEMMA RowsWritten ==
  ASSUME TypeOK, Stored, KeepsRows, RowsMarked', LedgerIsTruthful',
         request' = request, effects' = effects
  PROVE  Stored'
<1>1. ReadyIsBacked'
  <2> SUFFICES ASSUME NEW r \in Requests PROVE BackedNext(r, request[r])
    BY DEF ReadyIsBacked, BackedNext
  <2>1. Backed(r, request[r])
    BY DEF Stored, ReadyIsBacked, Backed
  <2> QED
    BY <2>1, BackedKeeps DEF Stored
<1>2. ASSUME NEW e \in effects
      PROVE  /\ e \in RowIds /\ rows'[e].request = rows[e].request
             /\ rows'[e].key = rows[e].key
  <2>1. e \in RowIds /\ rows[e].mode # "Unset"
    BY DEF Stored, LedgerIsTruthful, TypeOK
  <2> QED
    BY <2>1 DEF KeepsRows
<1>3. EffectWasRehearsed'
  <2> SUFFICES ASSUME NEW e \in effects
               PROVE  RehearsedNext(rows[e].request, rows[e].key.to)
    BY <1>2 DEF EffectWasRehearsed, RehearsedNext
  <2>1. Rehearsed(rows[e].request, rows[e].key.to)
    BY DEF Stored, EffectWasRehearsed, Rehearsed
  <2> QED
    BY <2>1, RehearsedKeeps DEF Stored
<1>4. ExecutedHappened'
  <2> SUFFICES ASSUME NEW r \in Requests
        PROVE  /\ request[r].status = "Executed" =>
                    \E e \in effects : rows'[e].request = r
               /\ request[r].outcome = "Executed" =>
                    /\ request[r].latest \in effects
                    /\ rows'[request[r].latest].request = r
    BY DEF ExecutedHappened
  <2> QED
    BY <1>2 DEF Stored, ExecutedHappened
<1> QED
  BY <1>1, <1>3, <1>4 DEF Stored

\* A write to the requests that leaves each of them backed and truthful.
LEMMA RequestsWritten ==
  ASSUME TypeOK, Stored, rows' = rows, passed' = passed, effects' = effects,
         \A r \in Requests :
           /\ Backed(r, request'[r])
           /\ request'[r].status = "Executed" =>
                \/ request[r].status = "Executed"
                \/ \E e \in effects : rows[e].request = r
           /\ request'[r].outcome = "Executed" =>
                \/ /\ request[r].outcome = "Executed"
                   /\ request'[r].latest = request[r].latest
                \/ /\ request'[r].latest \in effects
                   /\ rows[request'[r].latest].request = r
  PROVE  Stored'
<1>1. RowsMarked' /\ LedgerIsTruthful'
  BY DEF Stored, RowsMarked, LedgerIsTruthful
<1>2. ReadyIsBacked'
  BY DEF ReadyIsBacked, Backed
<1>4. EffectWasRehearsed'
  BY DEF Stored, EffectWasRehearsed
<1>3. ExecutedHappened'
  BY DEF Stored, ExecutedHappened
<1> QED
  BY <1>1, <1>2, <1>3, <1>4 DEF Stored

\* A step that keeps the invariants of the stores and writes no foreign row.
StoreStep(p) == Stored' /\ KeepsRows /\ OthersRows(p)

LEMMA StoresQuiet ==
  ASSUME TypeOK, Stored, UNCHANGED <<stores, effects>>, NEW p
  PROVE  StoreStep(p)
<1>1. request' = request /\ rows' = rows /\ passed' = passed
      /\ effects' = effects
  BY DEF stores
<1>2. KeepsRows /\ OthersRows(p)
  BY <1>1 DEF KeepsRows, OthersRows
<1>3. RowsMarked' /\ LedgerIsTruthful'
  BY <1>1 DEF Stored, RowsMarked, LedgerIsTruthful
<1> QED
  BY <1>1, <1>2, <1>3, RowsWritten DEF StoreStep

LEMMA CreateRowStores ==
  ASSUME TypeOK, Stored, NEW p, NEW x \in RowIds, CreateRow(x),
         effects' = effects
  PROVE  StoreStep(p)
<1>1. \A y \in RowIds : rows'[y] = IF y = x THEN [rows[x] EXCEPT !.status = "Unset"]
                                  ELSE rows[y]
  BY DEF CreateRow, TypeOK
<1>2. rows[x] \in ExecutionRows /\ rows[x].status = "Absent"
  BY DEF CreateRow, TypeOK
<1>3. KeepsRows
  BY <1>1, <1>2 DEF KeepsRows, CreateRow, ExecutionRows
<1>4. OthersRows(p)
  BY <1>1, <1>2 DEF OthersRows, CreateRow
<1>5. RowsMarked'
  BY <1>1, <1>2 DEF Stored, RowsMarked, CreateRow, ExecutionRows, TypeOK
<1>6. LedgerIsTruthful'
  BY <1>1, <1>2 DEF Stored, RowsMarked, LedgerIsTruthful, ExecutionRows, TypeOK
<1> QED
  BY <1>3, <1>4, <1>5, <1>6, RowsWritten DEF StoreStep, CreateRow

LEMMA OpenRowStores ==
  ASSUME TypeOK, Stored, NEW p \in Procs, Sound(p), At(p, "open"), OpenRow(p),
         effects' = effects
  PROVE  StoreStep(p)
<1> DEFINE x == proc[p].row
<1>1. x \in RowIds /\ rows[x].mode = "Unset" /\ proc[p].pc \in Holding
  BY DEF Sound, Works, Holding, At, Describing, BareAt
<1>2. \A y \in RowIds : rows'[y] = IF y = x THEN Described(p, "Started")
                                  ELSE rows[y]
  BY DEF OpenRow, TypeOK
<1>3. Described(p, "Started").status = "Started"
  BY DEF Described
<1>4. x \notin passed /\ x \notin effects
  BY <1>1 DEF Stored, RowsMarked, LedgerIsTruthful
<1> HIDE DEF x
<1>5. KeepsRows
  BY <1>1, <1>2 DEF KeepsRows, OpenRow
<1>6. OthersRows(p)
  BY <1>1, <1>2 DEF OthersRows, OpenRow, x
<1>7. RowsMarked'
  BY <1>1, <1>2, <1>3, <1>4 DEF Stored, RowsMarked, OpenRow, TypeOK
<1>8. LedgerIsTruthful'
  BY <1>1, <1>2, <1>3, <1>4 DEF Stored, LedgerIsTruthful, TypeOK
<1> QED
  BY <1>5, <1>6, <1>7, <1>8, RowsWritten DEF StoreStep, OpenRow

LEMMA CloseRowStores ==
  ASSUME TypeOK, Stored, NEW p \in Procs, Sound(p), At(p, "close"), CloseRow(p),
         effects' = effects
  PROVE  /\ StoreStep(p)
         /\ ~Live(p) /\ ~proc[p].blocked => proc[p].row \in passed'
         /\ rows'[proc[p].row].status # "Absent"
         /\ rows'[proc[p].row].mode = IF Live(p) THEN "Live" ELSE "Dry Run"
         /\ rows'[proc[p].row].request = proc[p].cur
         /\ rows'[proc[p].row].key =
              KeyOf(proc[p].cur, Snap(p).payload, proc[p].pre)
<1> DEFINE x == proc[p].row
           mode == IF Live(p) THEN "Live" ELSE "Dry Run"
           key  == KeyOf(proc[p].cur, Snap(p).payload, proc[p].pre)
<1>1. x \in RowIds /\ proc[p].pc \in Holding
  BY DEF Sound, Works, Holding, At
<1>2. \A y \in RowIds : y # x => rows'[y] = rows[y]
  BY DEF CloseRow, TypeOK
<1>3. /\ rows'[x].status = FinalStatus(p) /\ rows'[x].mode = mode
      /\ rows'[x].request = proc[p].cur /\ rows'[x].key = key
      /\ rows[x].mode # "Unset" =>
           /\ rows'[x].mode = rows[x].mode /\ rows'[x].key = rows[x].key
           /\ rows'[x].request = rows[x].request
  <2>1. CASE Runs(p, {"preview"})
    <3>1. rows'[x] = Described(p, FinalStatus(p))
      BY <1>1, <2>1 DEF CloseRow, TypeOK
    <3>2. rows[x].mode = "Unset"
      BY <2>1 DEF Sound, Describing, BareAt
    <3>3. /\ Described(p, FinalStatus(p)).status = FinalStatus(p)
          /\ Described(p, FinalStatus(p)).mode = mode
          /\ Described(p, FinalStatus(p)).request = proc[p].cur
          /\ Described(p, FinalStatus(p)).key = key
      BY DEF Described, Live
    <3> HIDE DEF mode, key
    <3> QED
      BY <3>1, <3>2, <3>3
  <2>2. CASE ~Runs(p, {"preview"})
    <3>1. rows'[x] = [rows[x] EXCEPT !.status = FinalStatus(p)]
      BY <1>1, <2>2 DEF CloseRow, TypeOK
    <3>2. rows[x] \in ExecutionRows /\ Describes(p)
      BY <1>1, <2>2 DEF TypeOK, Sound, Describing, DescribedAt
    <3> QED
      BY <3>1, <3>2 DEF ExecutionRows, Describes
  <2> QED
    BY <2>1, <2>2
<1>4. /\ Live(p) => /\ FinalStatus(p) \in {"Succeeded", "Compensation Needed", "Skipped"}
                    /\ FinalStatus(p) = "Skipped" <=> x \notin effects
      /\ ~Live(p) => FinalStatus(p) \in {"Succeeded", "Failed"}
  <2>1. ASSUME Live(p) PROVE FinalStatus(p) = proc[p].status
    BY <2>1 DEF FinalStatus, Live
  <2>2. ASSUME ~Live(p) PROVE FinalStatus(p) \in {"Succeeded", "Failed"}
    BY <2>2 DEF FinalStatus, Live
  <2> QED
    BY <2>1, <2>2 DEF Sound, Called, At
<1>5. passed' = IF ~Live(p) /\ ~proc[p].blocked THEN passed \cup {x} ELSE passed
  BY DEF CloseRow, Live
<1>6. Live(p) => x \notin passed
  <2>1. ASSUME Live(p) PROVE Describes(p)
    BY <2>1 DEF Live, Runs, Sound, Describing, DescribedAt, TypeOK
  <2> QED
    BY <2>1 DEF Describes, Stored, RowsMarked
<1>7. ~Live(p) => x \notin effects
  <2>1. ASSUME ~Live(p) PROVE rows[x].mode # "Live"
    BY <2>1 DEF Sound, Describing, BareAt, DescribedAt, Describes
  <2> QED
    BY <2>1 DEF Stored, LedgerIsTruthful
<1> HIDE DEF x, key
<1>8. KeepsRows
  BY <1>1, <1>2, <1>3, <1>5 DEF KeepsRows
<1>9. OthersRows(p)
  BY <1>1, <1>2, <1>5 DEF OthersRows, x
<1>10. RowsMarked'
  BY <1>1, <1>2, <1>3, <1>4, <1>5, <1>6 DEF Stored, RowsMarked, TypeOK
<1>11. LedgerIsTruthful'
  BY <1>1, <1>2, <1>3, <1>4, <1>7 DEF Stored, LedgerIsTruthful, TypeOK
<1>12. StoreStep(p)
  BY <1>8, <1>9, <1>10, <1>11, RowsWritten DEF StoreStep, CloseRow
<1> QED
  BY <1>3, <1>4, <1>5, <1>12 DEF x, key

LEMMA FailRowStores ==
  ASSUME TypeOK, Stored, NEW p \in Procs, proc[p].pc \in Holding,
         proc[p].row \in RowIds, rows[proc[p].row].status # "Absent",
         FailRow(p), effects' = effects
  PROVE  StoreStep(p) /\ rows'[proc[p].row].status = "Failed"
<1> DEFINE x == proc[p].row
<1>1. \A y \in RowIds : y # x => rows'[y] = rows[y]
  BY DEF FailRow, TypeOK
<1>2. rows[x] \in ExecutionRows /\ rows'[x] = [rows[x] EXCEPT !.status = "Failed"]
  BY DEF FailRow, TypeOK
<1>3. /\ rows'[x].status = "Failed" /\ rows'[x].mode = rows[x].mode
      /\ rows'[x].request = rows[x].request /\ rows'[x].key = rows[x].key
  BY <1>2 DEF ExecutionRows
<1>4. KeepsRows /\ OthersRows(p)
  BY <1>1, <1>3 DEF KeepsRows, OthersRows, FailRow
<1>5. RowsMarked' /\ LedgerIsTruthful'
  BY <1>1, <1>3, ZenonT(60) DEF Stored, RowsMarked, LedgerIsTruthful, FailRow, TypeOK
<1> QED
  BY <1>3, <1>4, <1>5, RowsWritten DEF StoreStep, FailRow

\* A write to one request that changes neither its intent, its execution, its
\* outcome nor its pin, or that takes the intent back.
LEMMA RequestStores ==
  ASSUME TypeOK, Stored, NEW p, NEW r \in Requests, NEW row,
         request' = [request EXCEPT ![r] = row],
         UNCHANGED <<rows, passed, effects>>,
         Backed(r, row),
         row.status = "Executed" =>
           \/ request[r].status = "Executed"
           \/ \E e \in effects : rows[e].request = r,
         row.outcome = "Executed" =>
           \/ /\ request[r].outcome = "Executed"
              /\ row.latest = request[r].latest
           \/ /\ row.latest \in effects
              /\ rows[row.latest].request = r
  PROVE  StoreStep(p)
<1>1. KeepsRows /\ OthersRows(p)
  BY DEF KeepsRows, OthersRows
<1>2. \A q \in Requests : request'[q] = IF q = r THEN row ELSE request[q]
  BY DEF TypeOK
<1>3. \A q \in Requests : Backed(q, request'[q])
  <2> SUFFICES ASSUME NEW q \in Requests PROVE Backed(q, request'[q])
    OBVIOUS
  <2>1. CASE q = r
    BY <1>2, <2>1
  <2>2. CASE q # r
    <3>1. Backed(q, request[q])
      BY DEF Stored, ReadyIsBacked, Backed
    <3>2. request'[q] = request[q]
      BY <1>2, <2>2
    <3> QED
      BY <3>1, <3>2
  <2> QED
    BY <2>1, <2>2
<1> QED
  BY <1>1, <1>2, <1>3, RequestsWritten DEF StoreStep

LEMMA ChangedRequest ==
  ASSUME TypeOK, Stored, NEW p, NEW r \in Requests, NEW row,
         request' = [request EXCEPT ![r] = row],
         UNCHANGED <<rows, passed, effects>>,
         row.intent = request[r].intent, row.latest = request[r].latest,
         row.pin = request[r].pin, row.outcome = request[r].outcome,
         row.status # "Executed"
  PROVE  StoreStep(p)
<1>1. Backed(r, request[r])
  BY DEF Stored, ReadyIsBacked, Backed
<1>2. Backed(r, row)
  BY <1>1 DEF Backed
<1> QED
  BY <1>2, RequestStores

LEMMA FailRequestStores ==
  ASSUME TypeOK, Stored, NEW p \in Procs, proc[p].cur \in Requests,
         FailRequest(p), effects' = effects
  PROVE  StoreStep(p)
<1> DEFINE r   == proc[p].cur
           row == [request[r] EXCEPT !.latest = proc[p].row,
                                     !.outcome = "Problem", !.intent = "Dry Run"]
<1>1. request[r] \in RequestRows
  BY DEF TypeOK
<1>2. row.intent = "Dry Run" /\ row.outcome = "Problem"
      /\ row.status = request[r].status
  BY <1>1 DEF RequestRows
<1>3. request' = [request EXCEPT ![r] = row]
  BY DEF FailRequest, TypeOK
<1> HIDE DEF row
<1>4. Backed(r, row)
  BY <1>2 DEF Backed
<1> QED
  BY <1>2, <1>3, <1>4, RequestStores DEF FailRequest

LEMMA ExpireRequestStores ==
  ASSUME TypeOK, Stored, NEW p, NEW r \in Requests, ExpireRequest(r),
         effects' = effects
  PROVE  StoreStep(p)
<1> DEFINE row == [request[r] EXCEPT !.status = "Expired"]
<1>1. request[r] \in RequestRows
  BY DEF TypeOK
<1>2. /\ row.intent = request[r].intent /\ row.latest = request[r].latest
      /\ row.pin = request[r].pin /\ row.outcome = request[r].outcome
      /\ row.status # "Executed"
  BY <1>1 DEF RequestRows
<1>3. request' = [request EXCEPT ![r] = row]
  BY DEF ExpireRequest, TypeOK
<1> HIDE DEF row
<1> QED
  BY <1>2, <1>3, ChangedRequest DEF ExpireRequest

\* A dry run makes its request Ready for Live only with the row it passed in and
\* the target it saw.
LEMMA PostDryRunBacked ==
  ASSUME NEW r \in Requests, NEW req \in RequestRows, NEW blocked \in BOOLEAN,
         NEW pre \in Preflights, NEW today \in Nat,
         PostDryRun(r, req, blocked, pre, today).intent = "Ready for Live"
  PROVE  /\ ~blocked /\ pre.resolved
         /\ Kind[r] = "rollback" =>
              PostDryRun(r, req, blocked, pre, today).pin = pre.to
<1>1. ~blocked /\ LiveNow(r, req, pre, today)
  BY DEF PostDryRun
<1>2. pre.resolved
  BY <1>1 DEF LiveNow, Blocked
<1>3. PostDryRun(r, req, blocked, pre, today).pin = PinAfter(r, req, pre)
  BY <1>1 DEF PostDryRun
<1> QED
  BY <1>1, <1>2, <1>3 DEF PinAfter

LEMMA KeyTo ==
  ASSUME NEW r, NEW payload, NEW pre, pre.resolved
  PROVE  KeyOf(r, payload, pre).to = pre.to
BY DEF KeyOf

LEMMA SettleRequestStores ==
  ASSUME TypeOK, Stored, NEW p \in Procs, Sound(p), At(p, "settle"),
         SettleRequest(p), effects' = effects
  PROVE  StoreStep(p)
<1> DEFINE r    == proc[p].cur
           x    == proc[p].row
           row  == Settlement(p, request[r])
           post == PostDryRun(r, Snap(p), proc[p].blocked, proc[p].pre,
                              proc[p].now)
<1>1. r \in Requests /\ x \in RowIds /\ Describes(p)
  BY DEF Sound, Works, Describing, DescribedAt, Holding, At
<1>2. request[r] \in RequestRows /\ proc[p] \in Processes
  BY <1>1 DEF TypeOK
<1>3. post.outcome # "Executed"
  BY DEF PostDryRun
<1>7. /\ Snap(p) \in RequestRows /\ proc[p].pre \in Preflights
      /\ proc[p].blocked \in BOOLEAN /\ proc[p].now \in Nat
  BY <1>1, <1>2 DEF Processes, Snap
<1>4. CASE ~Live(p)
  <2> HIDE DEF post
  <2>1. row = [request[r] EXCEPT !.latest = x, !.intent = post.intent,
                                 !.outcome = post.outcome, !.pin = post.pin]
    BY <1>4 DEF Settlement, Live, post
  <2>2. /\ row.latest = x /\ row.intent = post.intent /\ row.pin = post.pin
        /\ row.outcome = post.outcome /\ row.status = request[r].status
    BY <1>2, <2>1 DEF RequestRows
  <2>3. ASSUME post.intent = "Ready for Live"
        PROVE  /\ x \in passed /\ rows[x].request = r
               /\ Kind[r] = "rollback" => post.pin = rows[x].key.to
    <3>1. /\ ~proc[p].blocked /\ proc[p].pre.resolved
          /\ Kind[r] = "rollback" => post.pin = proc[p].pre.to
      BY <1>1, <1>7, <2>3, PostDryRunBacked DEF post
    <3>2. x \in passed /\ rows[x].request = r
      BY <1>1, <1>4, <3>1 DEF Sound, Judged, Describes
    <3>3. rows[x].key.to = proc[p].pre.to
      <4>1. rows[x].key = KeyOf(r, Snap(p).payload, proc[p].pre)
        BY <1>1 DEF Describes
      <4>2. KeyOf(r, Snap(p).payload, proc[p].pre).to = proc[p].pre.to
        BY <3>1, KeyTo
      <4> QED
        BY <4>1, <4>2
    <3> QED
      BY <3>1, <3>2, <3>3
  <2>4. Backed(r, row)
    BY <2>2, <2>3 DEF Backed
  <2> QED
    BY <1>1, <1>3, <2>2, <2>4, RequestStores DEF SettleRequest
<1>5. CASE Live(p) /\ proc[p].status = "Succeeded"
  <2>1. row = [request[r] EXCEPT !.latest = x, !.intent = "Dry Run",
                 !.outcome = "Executed", !.status = "Executed",
                 !.pin = IF Kind[r] = "rollback" THEN Snap(p).pin ELSE None]
    BY <1>5 DEF Settlement, Live
  <2>2. row.latest = x /\ row.intent = "Dry Run"
    BY <1>2, <2>1 DEF RequestRows
  <2>3. x \in effects /\ rows[x].request = r
    BY <1>1, <1>5 DEF Sound, Called, Describes, At
  <2>4. Backed(r, row)
    BY <2>2 DEF Backed
  <2> QED
    BY <1>1, <2>2, <2>3, <2>4, RequestStores DEF SettleRequest
<1>6. CASE Live(p) /\ proc[p].status # "Succeeded"
  <2>1. row = [request[r] EXCEPT !.latest = x, !.intent = "Dry Run",
                                 !.outcome = "Problem"]
    BY <1>6 DEF Settlement, Live
  <2>2. row.intent = "Dry Run" /\ row.outcome = "Problem"
        /\ row.status = request[r].status
    BY <1>2, <2>1 DEF RequestRows
  <2>3. Backed(r, row)
    BY <2>2 DEF Backed
  <2> QED
    BY <1>1, <2>2, <2>3, RequestStores DEF SettleRequest
<1> QED
  BY <1>4, <1>5, <1>6

LEMMA LandsStores ==
  ASSUME TypeOK, Stored, NEW p \in Procs, Sound(p), At(p, "call"), Lands(p)
  PROVE  StoreStep(p) /\ effects' = effects \cup {proc[p].row}
<1> DEFINE x == proc[p].row
<1>1. /\ proc[p].pc \in Holding /\ Live(p) /\ Describes(p) /\ x \in RowIds
      /\ proc[p].pre.resolved /\ Rehearsed(proc[p].cur, proc[p].pre.to)
      /\ rows[x].status = "Started"
  BY DEF Sound, Works, Describing, DescribedAt, Judged, Called, Holding, At
<1>2. /\ request' = request /\ rows' = rows /\ passed' = passed
      /\ effects' = effects \cup {x}
  BY DEF Lands, stores
<1>3. KeepsRows /\ OthersRows(p)
  BY <1>1, <1>2 DEF KeepsRows, OthersRows
<1>4. RowsMarked' /\ ReadyIsBacked'
  BY <1>2 DEF Stored, RowsMarked, ReadyIsBacked
<1>5. LedgerIsTruthful'
  BY <1>1, <1>2 DEF Stored, LedgerIsTruthful, Describes
<1>6. ExecutedHappened'
  BY <1>2 DEF Stored, ExecutedHappened
<1>7. EffectWasRehearsed'
  <2> SUFFICES ASSUME NEW e \in effects'
               PROVE  Rehearsed(rows[e].request, rows[e].key.to)
    BY <1>2 DEF EffectWasRehearsed, Rehearsed
  <2>1. CASE e = x
    BY <1>1, <2>1, KeyTo DEF Describes
  <2>2. CASE e \in effects
    BY <2>2 DEF Stored, EffectWasRehearsed, Rehearsed
  <2> QED
    BY <1>2, <2>1, <2>2
<1> QED
  BY <1>2, <1>3, <1>4, <1>5, <1>6, <1>7 DEF Stored, StoreStep

------------------------------------------------------------------------------
(***************************************************************************)
(* What each command knows, after steps of others and of its own.          *)
(***************************************************************************)
LEMMA InformedKeeps ==
  ASSUME TypeOK, RowsMarked, KeepsRows, NEW p \in Procs, Informed(p),
         proc'[p].snap = proc[p].snap
  PROVE  Informed(p)'
<1> SUFFICES ASSUME NEW r \in Requests PROVE BackedNext(r, proc[p].snap[r])
  BY DEF Informed, Backed, BackedNext
<1> QED
  BY BackedKeeps DEF Informed

LEMMA SoundKeeps ==
  ASSUME TypeOK, RowsMarked, KeepsRows, NEW q \in Procs, Sound(q),
         proc'[q] = proc[q],
         proc[q].pc \in Holding =>
           /\ rows'[proc[q].row] = rows[proc[q].row]
           /\ proc[q].row \in passed' <=> proc[q].row \in passed
           /\ proc[q].row \in effects' <=> proc[q].row \in effects
  PROVE  Sound(q)'
<1> DEFINE x == proc[q].row
<1>1. Works(q)'
  BY DEF Sound, Works, Live, Runs
<1>2. Describing(q)'
  <2>1. BareAt(q) \/ DescribedAt(q) => rows'[x] = rows[x]
    BY DEF BareAt, DescribedAt, At, Holding
  <2>2. /\ BareAt(q)' <=> BareAt(q)
        /\ DescribedAt(q)' <=> DescribedAt(q)
    BY DEF BareAt, DescribedAt, At, Runs
  <2> QED
    BY <2>1, <2>2 DEF Sound, Describing, Describes, Live, Runs, At, Snap
<1>3. Judged(q)'
  <2>1. ASSUME Live(q), proc[q].pc \in Holding \cup {"draft"}
        PROVE  /\ proc[q].pre.resolved
               /\ RehearsedNext(proc[q].cur, proc[q].pre.to)
    BY <2>1, RehearsedKeeps DEF Sound, Judged
  <2>2. ASSUME ~Live(q), At(q, "settle"), ~proc[q].blocked
        PROVE  x \in passed'
    BY <2>2 DEF Sound, Judged, Holding, At
  <2>3. Live(q)' <=> Live(q)
    BY DEF Live, Runs
  <2>4. RehearsedNext(proc[q].cur, proc[q].pre.to)
          => Rehearsed(proc[q].cur, proc[q].pre.to)'
    BY DEF Rehearsed, RehearsedNext
  <2> QED
    BY <2>1, <2>2, <2>3, <2>4 DEF Judged, At
<1>4. Called(q)'
  <2>1. proc[q].pc \in {"call", "verify", "close", "settle"}
          => /\ x \in effects' <=> x \in effects
             /\ rows'[x] = rows[x]
    BY DEF Holding
  <2> QED
    BY <2>1 DEF Sound, Called, At, Live, Runs
<1>5. Informed(q)'
  BY InformedKeeps DEF Sound
<1> QED
  BY <1>1, <1>2, <1>3, <1>4, <1>5 DEF Sound

\* The commands other than p keep their row, whatever p does with its own.
LEMMA OthersSound ==
  ASSUME IInv, NEW p \in Procs, NEW q \in Procs, p # q, StoreStep(p),
         proc'[q] = proc[q]
  PROVE  Sound(q)'
<1>1. ASSUME proc[q].pc \in Holding
      PROVE  /\ rows'[proc[q].row] = rows[proc[q].row]
             /\ proc[q].row \in passed' <=> proc[q].row \in passed
             /\ proc[q].row \in effects' <=> proc[q].row \in effects
  <2>1. proc[q].row \in RowIds /\ rows[proc[q].row].status # "Absent"
    BY <1>1 DEF IInv, Sound, Works
  <2>2. ~(proc[p].pc \in Holding /\ proc[q].row = proc[p].row)
    BY <1>1 DEF IInv, Owners
  <2> QED
    BY <2>1, <2>2 DEF StoreStep, OthersRows
<1> QED
  BY <1>1, SoundKeeps DEF IInv, Stored, StoreStep

\* A command that holds no execution row.
LEMMA RestSound ==
  ASSUME NEW p \in Procs, proc'[p].pc \notin Holding \cup {"draft"},
         Informed(p)'
  PROVE  Sound(p)'
<1>1. Works(p)' /\ Describing(p)'
  BY DEF Works, Describing, BareAt, DescribedAt, At, Holding
<1>2. Judged(p)' /\ Called(p)'
  BY DEF Judged, Called, At, Holding
<1> QED
  BY <1>1, <1>2 DEF Sound

\* A command that only has its result left to file.
LEMMA FilingSound ==
  ASSUME TypeOK, RowsMarked, KeepsRows, NEW p \in Procs, Sound(p),
         proc[p].pc \in Holding, rows'[proc[p].row].status # "Absent",
         NEW pc \in {"packet", "undoRow", "undoRequest", "undoPacket"},
         Goto(p, pc)
  PROVE  Sound(p)'
<1>1. proc'[p] = [proc[p] EXCEPT !.pc = pc] /\ proc[p] \in Processes
  BY DEF Goto, TypeOK
<1>2. /\ proc'[p].pc = pc /\ proc'[p].cmd = proc[p].cmd
      /\ proc'[p].cur = proc[p].cur /\ proc'[p].pre = proc[p].pre
      /\ proc'[p].row = proc[p].row /\ proc'[p].snap = proc[p].snap
  BY <1>1 DEF Processes
<1>3. Works(p)' /\ Describing(p)' /\ Called(p)'
  BY <1>2 DEF Sound, Works, Describing, BareAt, DescribedAt, Called, At,
     Holding
<1>4. Judged(p)'
  <2>1. Live(p)' <=> Live(p)
    BY <1>2 DEF Live, Runs
  <2>2. ASSUME Live(p)
        PROVE  proc[p].pre.resolved /\ Rehearsed(proc[p].cur, proc[p].pre.to)
    BY <2>2 DEF Sound, Judged
  <2>3. ASSUME Live(p) PROVE Rehearsed(proc[p].cur, proc[p].pre.to)'
    <3>1. RehearsedNext(proc[p].cur, proc[p].pre.to)
      BY <2>2, <2>3, RehearsedKeeps
    <3> QED
      BY <1>2, <3>1 DEF Rehearsed, RehearsedNext
  <2> QED
    BY <1>2, <2>1, <2>2, <2>3 DEF Judged, At
<1>5. Informed(p)'
  BY <1>2, InformedKeeps DEF Sound
<1> QED
  BY <1>3, <1>4, <1>5 DEF Sound

------------------------------------------------------------------------------
(***************************************************************************)
(* The invariant is kept by every step.                                    *)
(***************************************************************************)
\* A step keeps the invariant and the identity of every execution row.
Kept == IInv' /\ KeepsRows

LEMMA OwnersKeep ==
  ASSUME TypeOK, Owners, NEW p \in Procs, NEW new,
         proc' = [proc EXCEPT ![p] = new],
         new.pc \in Holding => proc[p].pc \in Holding /\ new.row = proc[p].row
  PROVE  Owners'
<1>1. \A q \in Procs : proc'[q].pc \in Holding =>
        proc[q].pc \in Holding /\ proc'[q].row = proc[q].row
  BY DEF TypeOK
<1> QED
  BY <1>1 DEF Owners

\* A step of p that takes no new execution row.
LEMMA OwnStep ==
  ASSUME IInv, TypeOK', NEW p \in Procs, NEW new, StoreStep(p), Sound(p)',
         proc' = [proc EXCEPT ![p] = new],
         new.pc \in Holding => proc[p].pc \in Holding /\ new.row = proc[p].row
  PROVE  Kept
<1>1. ASSUME NEW q \in Procs PROVE Sound(q)'
  <2>1. CASE q = p
    BY <2>1
  <2>2. CASE q # p
    <3>1. proc'[q] = proc[q]
      BY <2>2 DEF IInv, TypeOK
    <3> QED
      BY <2>2, <3>1, OthersSound
  <2> QED
    BY <2>1, <2>2
<1>2. Owners'
  BY OwnersKeep DEF IInv
<1> QED
  BY <1>1, <1>2 DEF IInv, StoreStep, Kept

\* A step of p after which it holds no execution row.
LEMMA RestStep ==
  ASSUME IInv, TypeOK', NEW p \in Procs, NEW new, StoreStep(p),
         proc' = [proc EXCEPT ![p] = new], new.pc \notin Holding \cup {"draft"},
         \A r \in Requests : Backed(r, new.snap[r])
  PROVE  Kept
<1>1. proc'[p] = new
  BY DEF IInv, TypeOK
<1>2. ASSUME NEW r \in Requests PROVE BackedNext(r, new.snap[r])
  BY BackedKeeps DEF IInv, Stored, StoreStep
<1>3. Informed(p)'
  BY <1>1, <1>2 DEF Informed, Backed, BackedNext
<1>4. Sound(p)'
  BY <1>1, <1>3, RestSound
<1> QED
  BY <1>4, OwnStep

\* The snapshot of a command keeps its promise while the command keeps it.
LEMMA SameSnapStep ==
  ASSUME IInv, TypeOK', NEW p \in Procs, NEW new, StoreStep(p),
         proc' = [proc EXCEPT ![p] = new], new.pc \notin Holding \cup {"draft"},
         new.snap = proc[p].snap
  PROVE  Kept
BY RestStep DEF IInv, Sound, Informed

LEMMA IdleStep ==
  ASSUME IInv, TypeOK', NEW p \in Procs, StoreStep(p), NEW new,
         proc' = [proc EXCEPT ![p] = new], new.pc \notin Holding \cup {"draft"},
         new.snap = Unread
  PROVE  Kept
<1>1. \A r \in Requests : Backed(r, Unread[r])
  BY DEF Unread, Backed
<1> QED
  BY <1>1, RestStep

LEMMA Quiet ==
  ASSUME IInv, UNCHANGED <<stores, outside, history>>, NEW p
  PROVE  StoreStep(p)
BY StoresQuiet DEF IInv, history

LEMMA EndsStep ==
  ASSUME IInv, TypeOK', NEW p \in Procs, StoreStep(p), Ends(p)
  PROVE  Kept
<1>1. Idle.pc \notin Holding \cup {"draft"} /\ Idle.snap = Unread
  BY DEF Idle, Holding
<1> QED
  BY <1>1, IdleStep DEF Ends

LEMMA StartStep ==
  ASSUME IInv, TypeOK', NEW p \in Procs, NEW cmd \in Commands,
         NEW only \in Requests \cup {None}, Start(p, cmd, only)
  PROVE  Kept
<1> DEFINE new == [Idle EXCEPT !.pc = "load", !.cmd = cmd, !.only = only,
                               !.now = day]
<1>1. new.pc \notin Holding \cup {"draft"} /\ new.snap = Unread
  BY DEF Idle, Holding
<1>2. proc' = [proc EXCEPT ![p] = new] /\ StoreStep(p)
  BY Quiet DEF Start
<1> HIDE DEF new
<1> QED
  BY <1>1, <1>2, IdleStep

LEMMA ReadStep ==
  ASSUME IInv, TypeOK', NEW p \in Procs, ReadRequests(p) \/ ReadRows(p)
  PROVE  Kept
<1>1. proc[p] \in Processes /\ StoreStep(p)
  BY Quiet DEF IInv, TypeOK, ReadRequests, ReadRows
<1>2. CASE ReadRequests(p)
  <2> DEFINE new == [proc[p] EXCEPT !.snap = request,
                                    !.got = @ \cup {"requests"}]
  <2>1. new.pc = "load" /\ new.snap = request
    BY <1>1, <1>2 DEF Processes, ReadRequests, At
  <2>2. proc' = [proc EXCEPT ![p] = new]
    BY <1>2 DEF ReadRequests, IInv, TypeOK
  <2>3. \A r \in Requests : Backed(r, request[r])
    BY DEF IInv, Stored, ReadyIsBacked, Backed
  <2> HIDE DEF new
  <2> QED
    BY <1>1, <2>1, <2>2, <2>3, RestStep DEF Holding
<1>3. CASE ReadRows(p)
  <2> DEFINE new == [proc[p] EXCEPT !.seen = rows, !.got = @ \cup {"rows"}]
  <2>1. new.pc = "load" /\ new.snap = proc[p].snap
    BY <1>1, <1>3 DEF Processes, ReadRows, At
  <2>2. proc' = [proc EXCEPT ![p] = new]
    BY <1>3 DEF ReadRows, IInv, TypeOK
  <2> HIDE DEF new
  <2> QED
    BY <1>1, <2>1, <2>2, SameSnapStep DEF Holding
<1> QED
  BY <1>2, <1>3

LEMMA ListStep ==
  ASSUME IInv, TypeOK', NEW p \in Procs,
         Select(p) \/ PassOver(p) \/ Finish(p) \/ Packet(p) \/ Crash(p)
         \/ Expire(p)
  PROVE  Kept
<1>1. proc[p] \in Processes
  BY DEF IInv, TypeOK
<1>2. CASE Select(p)
  <2> DEFINE pc == IF Runs(p, {"sync"}) THEN "expire" ELSE "pick"
  <2>1. PICK todo \in SUBSET Eligible(p) :
          proc' = [proc EXCEPT ![p].todo = todo, ![p].pc = pc]
    BY <1>2 DEF Select
  <2> DEFINE new == [proc[p] EXCEPT !.todo = todo, !.pc = pc]
  <2>2. proc' = [proc EXCEPT ![p] = new] /\ StoreStep(p)
    BY <1>2, <2>1, Quiet DEF Select, IInv, TypeOK
  <2>3. new.pc \notin Holding \cup {"draft"} /\ new.snap = proc[p].snap
    <3>1. pc \notin Holding \cup {"draft"}
      BY DEF Holding
    <3> HIDE DEF pc
    <3> QED
      BY <1>1, <3>1 DEF Processes
  <2> HIDE DEF new, pc
  <2> QED
    BY <2>2, <2>3, SameSnapStep
<1>3. CASE PassOver(p) \/ Expire(p)
  <2>1. PICK r \in proc[p].todo : proc' = [proc EXCEPT ![p].todo = @ \ {r}]
    BY <1>3 DEF PassOver, Expire
  <2> DEFINE new == [proc[p] EXCEPT !.todo = @ \ {r}]
  <2>2. proc' = [proc EXCEPT ![p] = new]
    BY <1>1, <2>1 DEF IInv, TypeOK
  <2>3. new.pc \notin Holding \cup {"draft"} /\ new.snap = proc[p].snap
    BY <1>1, <1>3 DEF Processes, Holding, PassOver, Expire, At
  <2>4. StoreStep(p)
    <3>1. CASE PassOver(p)
      BY <3>1, Quiet DEF PassOver
    <3>2. CASE Expire(p)
      <4>1. PICK s \in proc[p].todo : ExpireRequest(s)
        BY <3>2 DEF Expire
      <4>2. s \in Requests /\ effects' = effects
        BY <1>1, <3>2 DEF Processes, Expire, history
      <4> QED
        BY <4>1, <4>2, ExpireRequestStores DEF IInv
    <3> QED
      BY <1>3, <3>1, <3>2
  <2> HIDE DEF new
  <2> QED
    BY <2>2, <2>3, <2>4, SameSnapStep
<1>4. CASE Finish(p) \/ Crash(p)
  BY <1>4, Quiet, EndsStep DEF Finish, Crash
<1>5. CASE Packet(p)
  <2> DEFINE new == [proc[p] EXCEPT !.pc = "pick", !.cur = None,
        !.pre = Unresolved, !.blocked = FALSE, !.row = None, !.status = "Unset"]
  <2>1. proc' = [proc EXCEPT ![p] = new] /\ StoreStep(p)
    BY <1>1, <1>5, Quiet DEF Packet, Loops, IInv, TypeOK
  <2>2. new.pc \notin Holding \cup {"draft"} /\ new.snap = proc[p].snap
    BY <1>1 DEF Processes, Holding
  <2> HIDE DEF new
  <2> QED
    BY <2>1, <2>2, SameSnapStep
<1> QED
  BY <1>2, <1>3, <1>4, <1>5

\* Taking up a request for a live run: the snapshot said Ready for Live, and the
\* target of the preflight is the pinned one.
LEMMA TakenUpLive ==
  ASSUME IInv, NEW p \in Procs, NEW r \in Requests, NEW pre \in Preflights,
         Live(p), ~PassedOver(p, r, pre)
  PROVE  /\ Prepared(p, r, pre).resolved
         /\ Rehearsed(r, Prepared(p, r, pre).to)
<1> DEFINE s == proc[p].snap[r]
<1>1. ~Runs(p, {"preview"})
  BY DEF Live, Runs
<1>2. /\ pre.resolved /\ ~PreparationFails(r, s.pin, pre)
      /\ s.intent = "Ready for Live" /\ ~NotReady(p, r, pre)
  BY <1>1 DEF PassedOver, Live
<1>3. Prepared(p, r, pre) = pre
  BY <1>2 DEF Prepared
<1>4. Backed(r, s)
  BY DEF IInv, Sound, Informed
<1>5. Kind[r] = "rollback" => s.pin = pre.to
  BY <1>2 DEF NotReady, Blocked, PinNotes
<1>6. /\ s.latest \in passed /\ rows[s.latest].request = r
      /\ Kind[r] = "rollback" => rows[s.latest].key.to = pre.to
  BY <1>2, <1>4, <1>5 DEF Backed
<1> QED
  BY <1>2, <1>3, <1>6 DEF Rehearsed

LEMMA TakeUpStep ==
  ASSUME IInv, TypeOK', NEW p \in Procs, TakeUp(p) PROVE Kept
<1>1. proc[p] \in Processes
  BY DEF IInv, TypeOK
<1>2. PICK r \in proc[p].todo : \E pre \in Reads(r, proc[p].snap[r].payload) :
        /\ ~PassedOver(p, r, pre)
        /\ proc' = [proc EXCEPT
             ![p].pc = "draft", ![p].cur = r, ![p].todo = @ \ {r},
             ![p].pre = Prepared(p, r, pre),
             ![p].blocked = NotReady(p, r, Prepared(p, r, pre)),
             ![p].now = day]
  BY DEF TakeUp
<1>3. PICK pre \in Reads(r, proc[p].snap[r].payload) :
        /\ ~PassedOver(p, r, pre)
        /\ proc' = [proc EXCEPT
             ![p].pc = "draft", ![p].cur = r, ![p].todo = @ \ {r},
             ![p].pre = Prepared(p, r, pre),
             ![p].blocked = NotReady(p, r, Prepared(p, r, pre)),
             ![p].now = day]
  BY <1>2
<1>4. r \in Requests /\ pre \in Preflights
  <2>1. r \in Requests /\ proc[p].snap[r].payload \in Payloads
    BY <1>1 DEF Processes, RequestRows
  <2> QED
    BY <2>1, ReadsType DEF IInv
<1> DEFINE prepared == Prepared(p, r, pre)
           blocked  == NotReady(p, r, prepared)
           new == [proc[p] EXCEPT !.pc = "draft", !.cur = r, !.todo = @ \ {r},
                     !.pre = prepared, !.blocked = blocked, !.now = day]
<1>5. proc' = [proc EXCEPT ![p] = new] /\ StoreStep(p)
  BY <1>3, Quiet, ZenonT(60) DEF TakeUp, IInv, TypeOK
<1>6. Live(p) => prepared.resolved /\ Rehearsed(r, prepared.to)
  BY <1>3, <1>4, TakenUpLive
<1> HIDE DEF prepared, blocked
<1>7. /\ new.pc = "draft" /\ new.cur = r /\ new.pre = prepared
      /\ new.snap = proc[p].snap /\ new.cmd = proc[p].cmd
  BY <1>1 DEF Processes
<1> HIDE DEF new
<1>8. proc'[p] = new
  BY <1>5 DEF IInv, TypeOK
<1>9. Works(p)' /\ Describing(p)' /\ Called(p)'
  BY <1>4, <1>7, <1>8 DEF Works, Describing, BareAt, DescribedAt, Called, At,
     Holding
<1>10. Judged(p)'
  <2>1. Live(p)' <=> Live(p)
    BY <1>7, <1>8 DEF Live, Runs
  <2>2. ASSUME Live(p) PROVE RehearsedNext(r, prepared.to)
    BY <1>6, <2>2, <1>5, RehearsedKeeps DEF IInv, Stored, StoreStep
  <2>3. ASSUME Live(p) PROVE Rehearsed(proc[p].cur, proc[p].pre.to)'
    <3>1. RehearsedNext(proc'[p].cur, proc'[p].pre.to)
      BY <2>2, <2>3, <1>7, <1>8
    <3> QED
      BY <3>1 DEF Rehearsed, RehearsedNext
  <2>4. Live(p) => proc'[p].pre.resolved
    BY <1>6, <1>7, <1>8
  <2> QED
    BY <1>7, <1>8, <2>1, <2>3, <2>4 DEF Judged, At, Holding
<1>11. Informed(p)'
  BY <1>5, <1>7, <1>8, InformedKeeps DEF IInv, Sound, Stored, StoreStep
<1> QED
  BY <1>5, <1>7, <1>9, <1>10, <1>11, OwnStep DEF Sound, Holding

\* What p judged when it took the request up still holds after its own step.
LEMMA JudgedKeeps ==
  ASSUME IInv, NEW p \in Procs, StoreStep(p),
         proc[p].pc \in Holding \cup {"draft"},
         proc'[p].cmd = proc[p].cmd, proc'[p].cur = proc[p].cur,
         proc'[p].pre = proc[p].pre,
         ~Live(p) /\ proc'[p].pc = "settle" /\ ~proc'[p].blocked
           => proc'[p].row \in passed'
  PROVE  Judged(p)'
<1>1. Live(p)' <=> Live(p)
  BY DEF Live, Runs
<1>2. ASSUME Live(p)
      PROVE  proc'[p].pre.resolved /\ Rehearsed(proc[p].cur, proc[p].pre.to)
  BY <1>2 DEF IInv, Sound, Judged
<1>3. ASSUME Live(p) PROVE Rehearsed(proc[p].cur, proc[p].pre.to)'
  <2>1. RehearsedNext(proc'[p].cur, proc'[p].pre.to)
    BY <1>2, <1>3, RehearsedKeeps DEF IInv, Stored, StoreStep
  <2> QED
    BY <2>1 DEF Rehearsed, RehearsedNext
<1> QED
  BY <1>1, <1>2, <1>3 DEF Judged, At

LEMMA DraftStep ==
  ASSUME IInv, TypeOK', NEW p \in Procs, Draft(p) PROVE Kept
<1> DEFINE now == IF Runs(p, {"preview"}) THEN proc[p].now ELSE day
           pc  == IF Runs(p, {"preview"}) THEN "close" ELSE "open"
<1>1. PICK x \in RowIds :
        /\ CreateRow(x)
        /\ proc' = [proc EXCEPT ![p].row = x, ![p].now = now, ![p].pc = pc]
  BY DEF Draft
<1> DEFINE new == [proc[p] EXCEPT !.row = x, !.now = now, !.pc = pc]
<1>2. proc[p] \in Processes /\ proc[p].pc = "draft" /\ effects' = effects
  BY DEF IInv, TypeOK, Draft, At, history
<1>3. proc' = [proc EXCEPT ![p] = new] /\ StoreStep(p)
  BY <1>1, <1>2, CreateRowStores DEF IInv, TypeOK
<1>4. rows[x].status = "Absent" /\ rows'[x].status = "Unset"
      /\ rows'[x].mode = "Unset"
  <2>1. rows[x] \in ExecutionRows /\ rows[x].status = "Absent"
    BY <1>1 DEF IInv, TypeOK, CreateRow
  <2>2. rows'[x] = [rows[x] EXCEPT !.status = "Unset"]
    BY <1>1 DEF IInv, TypeOK, CreateRow
  <2>3. rows[x].mode = "Unset"
    BY <2>1 DEF IInv, Stored, RowsMarked
  <2> QED
    BY <2>1, <2>2, <2>3 DEF ExecutionRows
<1>5. pc = IF Runs(p, {"preview"}) THEN "close" ELSE "open"
  OBVIOUS
<1> HIDE DEF now, pc
<1>6. /\ new.pc = pc /\ new.row = x /\ new.cur = proc[p].cur
      /\ new.pre = proc[p].pre /\ new.snap = proc[p].snap
      /\ new.cmd = proc[p].cmd
  BY <1>2 DEF Processes
<1> HIDE DEF new
<1>7. proc'[p] = new
  BY <1>3 DEF IInv, TypeOK
<1>8. proc[p].cur \in Requests
  BY <1>2 DEF IInv, Sound, Works
<1>9. Works(p)' /\ Describing(p)'
  BY <1>4, <1>5, <1>6, <1>7, <1>8 DEF Works, Describing, BareAt, DescribedAt,
     At, Holding, Runs
<1>10. Called(p)'
  BY <1>5, <1>6, <1>7 DEF Called, At, Live, Runs
<1>11. Judged(p)'
  BY <1>2, <1>3, <1>5, <1>6, <1>7, JudgedKeeps
<1>12. Informed(p)'
  BY <1>3, <1>6, <1>7, InformedKeeps DEF IInv, Sound, Stored, StoreStep
<1>13. ASSUME NEW q \in Procs, q # p PROVE proc'[q] = proc[q] /\ Sound(q)'
  <2>1. proc'[q] = proc[q]
    BY <1>3, <1>13 DEF IInv, TypeOK
  <2> QED
    BY <1>3, <1>13, <2>1, OthersSound
<1>14. \A q \in Procs : proc[q].pc \in Holding => proc[q].row # x
  BY <1>4 DEF IInv, Sound, Works
<1>15. Owners'
  BY <1>2, <1>6, <1>7, <1>13, <1>14 DEF IInv, Owners, Holding
<1>16. Sound(p)'
  BY <1>9, <1>10, <1>11, <1>12 DEF Sound
<1>17. \A q \in Procs : Sound(q)'
  BY <1>13, <1>16
<1> QED
  BY <1>3, <1>15, <1>17 DEF IInv, StoreStep, Kept

LEMMA OpenStep ==
  ASSUME IInv, TypeOK', NEW p \in Procs, Open(p) PROVE Kept
<1> DEFINE x   == proc[p].row
           pc  == IF Live(p) THEN "call" ELSE "close"
           new == [proc[p] EXCEPT !.pc = pc]
<1>1. proc[p] \in Processes /\ Sound(p) /\ proc[p].pc = "open"
      /\ effects' = effects
  BY DEF IInv, TypeOK, Open, At, history
<1>2. proc' = [proc EXCEPT ![p] = new] /\ StoreStep(p)
  BY <1>1, OpenRowStores DEF Open, Goto, Live, IInv, TypeOK
<1>3. /\ x \in RowIds /\ proc[p].cur \in Requests /\ rows[x].mode = "Unset"
      /\ ~Runs(p, {"preview"})
  BY <1>1 DEF Sound, Works, Describing, BareAt, At, Holding
<1>4. rows'[x] = Described(p, "Started")
  BY <1>3 DEF Open, OpenRow, IInv, TypeOK
<1>5. /\ Described(p, "Started").status = "Started"
      /\ Described(p, "Started").mode = IF Live(p) THEN "Live" ELSE "Dry Run"
      /\ Described(p, "Started").request = proc[p].cur
      /\ Described(p, "Started").key =
           KeyOf(proc[p].cur, Snap(p).payload, proc[p].pre)
  BY DEF Described, Live
<1>6. x \notin effects
  BY <1>3 DEF IInv, Stored, LedgerIsTruthful
<1>7. /\ new.pc = pc /\ new.row = x /\ new.cur = proc[p].cur
      /\ new.pre = proc[p].pre /\ new.snap = proc[p].snap
      /\ new.cmd = proc[p].cmd
  <2> HIDE DEF pc
  <2> QED
    BY <1>1 DEF Processes
<1>8. proc'[p] = new
  BY <1>2 DEF IInv, TypeOK
<1>9. pc = IF Live(p) THEN "call" ELSE "close"
  OBVIOUS
<1> HIDE DEF new, pc
<1>10. (Live(p)' <=> Live(p)) /\ Snap(p)' = Snap(p)
  BY <1>7, <1>8 DEF Live, Runs, Snap
<1>11. Works(p)'
  BY <1>3, <1>4, <1>5, <1>7, <1>8, <1>9, <1>10 DEF Works, Holding
<1>12. Describing(p)'
  <2>1. ~At(p, "open")' /\ ~BareAt(p)'
    BY <1>3, <1>7, <1>8, <1>9 DEF At, BareAt, Runs, Live
  <2>2. Describes(p)'
    <3> HIDE DEF x
    <3>1. proc'[p].row = x
      BY <1>7, <1>8
    <3>2. rows'[x].mode = (IF Live(p) THEN "Live" ELSE "Dry Run")
          /\ rows'[x].request = proc[p].cur
          /\ rows'[x].key = KeyOf(proc[p].cur, Snap(p).payload, proc[p].pre)
      BY <1>4, <1>5
    <3>3. KeyOf(proc'[p].cur, Snap(p)'.payload, proc'[p].pre)
            = KeyOf(proc[p].cur, Snap(p).payload, proc[p].pre)
      BY <1>7, <1>8, <1>10
    <3> QED
      BY <3>1, <3>2, <3>3, <1>7, <1>8, <1>10 DEF Describes
  <2> QED
    BY <2>1, <2>2 DEF Describing
<1>13. Called(p)'
  <2>1. rows'[x].status = "Started" /\ effects' = effects
    BY <1>1, <1>4, <1>5
  <2> QED
    BY <1>6, <1>7, <1>8, <1>9, <1>10, <2>1 DEF Called, At
<1>14. Judged(p)'
  BY <1>1, <1>2, <1>7, <1>8, <1>9, JudgedKeeps DEF Holding
<1>15. Informed(p)'
  BY <1>2, <1>7, <1>8, InformedKeeps DEF IInv, Sound, Stored, StoreStep
<1> QED
  BY <1>1, <1>2, <1>7, <1>11, <1>12, <1>13, <1>14, <1>15, OwnStep
     DEF Sound, Holding

LEMMA DescribesKeeps ==
  ASSUME NEW p \in Procs, proc'[p].row = proc[p].row,
         proc'[p].cmd = proc[p].cmd, proc'[p].cur = proc[p].cur,
         proc'[p].pre = proc[p].pre, proc'[p].snap = proc[p].snap,
         rows'[proc[p].row].mode = IF Live(p) THEN "Live" ELSE "Dry Run",
         rows'[proc[p].row].request = proc[p].cur,
         rows'[proc[p].row].key =
           KeyOf(proc[p].cur, Snap(p).payload, proc[p].pre)
  PROVE  Describes(p)'
<1>1. (Live(p)' <=> Live(p)) /\ Snap(p)' = Snap(p)
  BY DEF Live, Runs, Snap
<1>2. KeyOf(proc'[p].cur, Snap(p)'.payload, proc'[p].pre)
        = KeyOf(proc[p].cur, Snap(p).payload, proc[p].pre)
  BY <1>1
<1> QED
  BY <1>1, <1>2 DEF Describes

\* The provider call and its verification: the row stays as it was opened, the
\* command learns a status.
LEMMA CallStep ==
  ASSUME IInv, TypeOK', NEW p \in Procs, Call(p) \/ SkipCall(p) \/ Verify(p)
  PROVE  Kept
<1> DEFINE x == proc[p].row
<1>1. /\ proc[p] \in Processes /\ Sound(p) /\ proc[p].pc \in {"call", "verify"}
      /\ x \in RowIds /\ proc[p].cur \in Requests /\ rows[x].status # "Absent"
      /\ Live(p) /\ Describes(p)
  <2>1. Sound(p) /\ proc[p].pc \in {"call", "verify"}
    BY DEF IInv, Call, SkipCall, Verify, At
  <2> QED
    BY <2>1 DEF Sound, Works, Describing, DescribedAt, Holding, IInv, TypeOK
<1>2. PICK status \in {"Succeeded", "Compensation Needed", "Skipped"},
           pc \in {"verify", "close"} :
        /\ proc' = [proc EXCEPT ![p].status = status, ![p].pc = pc]
        /\ Call(p) => status = "Succeeded"
        /\ SkipCall(p) => status = "Skipped" /\ pc = "close"
        /\ Verify(p) => status # "Skipped" /\ pc = "close"
  <2>1. CASE Call(p)
    <3>1. At(p, "call") /\ Call(p)
      BY <2>1 DEF Call
    <3>2. ~SkipCall(p) /\ ~Verify(p)
      BY <3>1 DEF Call, SkipCall, Verify, At
    <3> QED
      BY <3>1, <3>2 DEF Call
  <2>2. CASE SkipCall(p)
    <3>1. ~Call(p) /\ ~Verify(p)
      BY <2>2 DEF Call, SkipCall, Verify, At
    <3> QED
      BY <2>2, <3>1 DEF SkipCall
  <2>3. CASE Verify(p)
    <3>1. ~Call(p) /\ ~SkipCall(p)
      BY <2>3 DEF Call, SkipCall, Verify, At
    <3>2. PICK confirmed \in BOOLEAN : proc' = [proc EXCEPT
             ![p].status = IF confirmed THEN "Succeeded" ELSE "Compensation Needed",
             ![p].pc = "close"]
      BY <2>3 DEF Verify, Confirmed
    <3> QED
      BY <3>1, <3>2
  <2> QED
    BY <2>1, <2>2, <2>3
<1> DEFINE new == [proc[p] EXCEPT !.status = status, !.pc = pc]
<1>3. proc' = [proc EXCEPT ![p] = new]
  BY <1>2 DEF IInv, TypeOK
<1>4. StoreStep(p) /\ rows' = rows /\ passed' = passed
      /\ effects' = IF Call(p) THEN effects \cup {x} ELSE effects
  <2>1. CASE Call(p)
    BY <1>1, <2>1, LandsStores DEF Call, Lands, stores, IInv
  <2>2. CASE ~Call(p)
    <3>1. UNCHANGED <<stores, outside, history>>
      BY <2>2 DEF SkipCall, Verify
    <3> QED
      BY <2>2, <3>1, Quiet DEF stores, history
  <2> QED
    BY <2>1, <2>2
<1>5. /\ new.pc = pc /\ new.status = status /\ new.row = x
      /\ new.cur = proc[p].cur /\ new.pre = proc[p].pre
      /\ new.snap = proc[p].snap /\ new.cmd = proc[p].cmd
  BY <1>1 DEF Processes
<1> HIDE DEF new
<1>6. proc'[p] = new
  BY <1>3 DEF IInv, TypeOK
<1>7. Live(p)' /\ ~Runs(p, {"preview"})'
  BY <1>1, <1>5, <1>6 DEF Live, Runs
<1>8. Works(p)'
  BY <1>1, <1>4, <1>5, <1>6, <1>7 DEF Works
<1>9. Describing(p)'
  <2>1. Describes(p)'
    BY <1>1, <1>4, <1>5, <1>6, DescribesKeeps DEF Describes
  <2> QED
    BY <1>5, <1>6, <1>7, <2>1 DEF Describing, BareAt, At
<1>10. Called(p)'
  <2>1. pc = "verify" => x \in effects'
    BY <1>1, <1>2, <1>4
  <2>2. status = "Skipped" <=> x \notin effects'
    <3>1. CASE Call(p)
      BY <1>2, <1>4, <3>1
    <3>2. CASE SkipCall(p)
      BY <1>1, <1>2, <1>4, <3>2 DEF SkipCall, Call, Sound, Called, At
    <3>3. CASE Verify(p)
      BY <1>1, <1>2, <1>4, <3>3 DEF Verify, Sound, Called, At
    <3> QED
      BY <3>1, <3>2, <3>3
  <2> QED
    BY <1>2, <1>5, <1>6, <2>1, <2>2 DEF Called, At
<1>11. Judged(p)'
  BY <1>1, <1>4, <1>5, <1>6, JudgedKeeps DEF Holding
<1>12. Informed(p)'
  BY <1>1, <1>4, <1>5, <1>6, InformedKeeps DEF IInv, Sound, Stored, StoreStep
<1> QED
  BY <1>1, <1>3, <1>4, <1>5, <1>8, <1>9, <1>10, <1>11, <1>12, OwnStep
     DEF Sound, Holding

LEMMA CloseStep ==
  ASSUME IInv, TypeOK', NEW p \in Procs, Close(p) PROVE Kept
<1> DEFINE x   == proc[p].row
           new == [proc[p] EXCEPT !.pc = "settle"]
<1>1. /\ proc[p] \in Processes /\ Sound(p) /\ proc[p].pc = "close"
      /\ x \in RowIds /\ proc[p].cur \in Requests /\ effects' = effects
  BY DEF IInv, TypeOK, Close, At, history, Sound, Works, Holding
<1>2. /\ StoreStep(p)
      /\ ~Live(p) /\ ~proc[p].blocked => x \in passed'
      /\ rows'[x].status # "Absent"
      /\ rows'[x].mode = IF Live(p) THEN "Live" ELSE "Dry Run"
      /\ rows'[x].request = proc[p].cur
      /\ rows'[x].key = KeyOf(proc[p].cur, Snap(p).payload, proc[p].pre)
  BY <1>1, CloseRowStores DEF Close, IInv
<1>3. proc' = [proc EXCEPT ![p] = new]
  BY DEF Close, Goto, IInv, TypeOK
<1>4. /\ new.pc = "settle" /\ new.status = proc[p].status /\ new.row = x
      /\ new.cur = proc[p].cur /\ new.pre = proc[p].pre
      /\ new.snap = proc[p].snap /\ new.cmd = proc[p].cmd
      /\ new.blocked = proc[p].blocked
  BY <1>1 DEF Processes
<1> HIDE DEF new
<1>5. proc'[p] = new
  BY <1>3 DEF IInv, TypeOK
<1>6. Works(p)'
  BY <1>1, <1>2, <1>4, <1>5 DEF Works
<1>7. Describing(p)'
  <2>1. Describes(p)'
    BY <1>2, <1>4, <1>5, DescribesKeeps
  <2> QED
    BY <1>4, <1>5, <2>1 DEF Describing, BareAt, At
<1>8. Called(p)'
  <2>1. Live(p)' <=> Live(p)
    BY <1>4, <1>5 DEF Live, Runs
  <2> QED
    BY <1>1, <1>4, <1>5, <2>1 DEF Sound, Called, At
<1>9. Judged(p)'
  BY <1>1, <1>2, <1>4, <1>5, JudgedKeeps DEF Holding
<1>10. Informed(p)'
  BY <1>1, <1>2, <1>4, <1>5, InformedKeeps DEF IInv, Sound, Stored, StoreStep
<1> QED
  BY <1>1, <1>2, <1>3, <1>4, <1>6, <1>7, <1>8, <1>9, <1>10, OwnStep
     DEF Sound, Holding

\* A step of p to one of the places where only the result is left to file.
LEMMA FilingStep ==
  ASSUME IInv, TypeOK', NEW p \in Procs, StoreStep(p),
         proc[p].pc \in Holding, rows'[proc[p].row].status # "Absent",
         NEW pc \in {"packet", "undoRow", "undoRequest", "undoPacket"},
         Goto(p, pc)
  PROVE  Kept
<1> DEFINE new == [proc[p] EXCEPT !.pc = pc]
<1>1. proc' = [proc EXCEPT ![p] = new] /\ proc[p] \in Processes
  BY DEF Goto, IInv, TypeOK
<1>2. new.row = proc[p].row
  BY <1>1 DEF Processes
<1>3. Sound(p)'
  BY FilingSound DEF IInv, Stored, StoreStep
<1> HIDE DEF new
<1> QED
  BY <1>1, <1>2, <1>3, OwnStep

LEMMA FileStep ==
  ASSUME IInv, TypeOK', NEW p \in Procs,
         Settle(p) \/ UndoRow(p) \/ UndoRequest(p)
  PROVE  Kept
<1>1. /\ proc[p].pc \in Holding /\ Sound(p) /\ effects' = effects
      /\ proc[p].row \in RowIds /\ rows[proc[p].row].status # "Absent"
      /\ proc[p].cur \in Requests
  BY DEF IInv, Settle, UndoRow, UndoRequest, At, Holding, history, Sound, Works
<1>2. CASE Settle(p)
  <2>1. StoreStep(p) /\ rows' = rows /\ Goto(p, "packet")
    BY <1>1, <1>2, SettleRequestStores DEF Settle, SettleRequest, IInv
  <2> QED
    BY <1>1, <2>1, FilingStep
<1>3. CASE UndoRow(p)
  <2>1. StoreStep(p) /\ rows'[proc[p].row].status = "Failed"
        /\ Goto(p, "undoRequest")
    BY <1>1, <1>3, FailRowStores DEF UndoRow, IInv
  <2> QED
    BY <1>1, <2>1, FilingStep
<1>4. CASE UndoRequest(p)
  <2>1. StoreStep(p) /\ rows' = rows /\ Goto(p, "undoPacket")
    BY <1>1, <1>4, FailRequestStores DEF UndoRequest, FailRequest, IInv
  <2> QED
    BY <1>1, <2>1, FilingStep
<1> QED
  BY <1>2, <1>3, <1>4

LEMMA ThrowsStep ==
  ASSUME IInv, TypeOK', NEW p \in Procs, StoreStep(p), Throws(p),
         InTry(p) => rows'[proc[p].row].status # "Absent"
  PROVE  Kept
<1>1. CASE InTry(p)
  <2>1. proc[p].pc \in Holding
    BY <1>1 DEF InTry, Holding
  <2> QED
    BY <1>1, <2>1, FilingStep DEF Throws
<1>2. CASE ~InTry(p)
  BY <1>2, EndsStep DEF Throws
<1> QED
  BY <1>1, <1>2

LEMMA NotionFailsStep ==
  ASSUME IInv, TypeOK', NEW p \in Procs, NotionFails(p) PROVE Kept
<1>1. Sound(p) /\ proc[p] \in Processes /\ effects' = effects
  BY DEF IInv, TypeOK, NotionFails, history
<1>2. CASE UNCHANGED stores
  <2>1. StoreStep(p) /\ rows' = rows
    BY <1>1, <1>2, StoresQuiet DEF IInv, stores
  <2>2. InTry(p) => rows[proc[p].row].status # "Absent"
    BY <1>1 DEF InTry, Sound, Works, Holding
  <2> QED
    BY <2>1, <2>2, ThrowsStep DEF NotionFails
<1>3. CASE At(p, "draft") /\ \E x \in RowIds : CreateRow(x)
  <2>1. StoreStep(p)
    BY <1>1, <1>3, CreateRowStores DEF IInv
  <2>2. ~InTry(p)
    BY <1>3 DEF InTry, At
  <2> QED
    BY <2>1, <2>2, ThrowsStep DEF NotionFails
<1>4. CASE At(p, "open") /\ OpenRow(p)
  <2>1. StoreStep(p)
    BY <1>1, <1>4, OpenRowStores DEF IInv
  <2>2. ~InTry(p)
    BY <1>4 DEF InTry, At
  <2> QED
    BY <2>1, <2>2, ThrowsStep DEF NotionFails
<1>5. CASE At(p, "close") /\ CloseRow(p)
  BY <1>1, <1>5, CloseRowStores, ThrowsStep DEF IInv, NotionFails
<1>6. CASE At(p, "settle") /\ SettleRequest(p)
  <2>1. StoreStep(p) /\ rows' = rows
    BY <1>1, <1>6, SettleRequestStores DEF IInv, SettleRequest
  <2>2. rows[proc[p].row].status # "Absent"
    BY <1>1, <1>6 DEF Sound, Works, Holding, At
  <2> QED
    BY <2>1, <2>2, ThrowsStep DEF NotionFails
<1>7. CASE At(p, "undoRow") /\ FailRow(p)
  <2>1. /\ proc[p].row \in RowIds /\ rows[proc[p].row].status # "Absent"
        /\ proc[p].pc \in Holding
    BY <1>1, <1>7 DEF Sound, Works, Holding, At
  <2>2. StoreStep(p) /\ ~InTry(p)
    BY <1>1, <1>7, <2>1, FailRowStores DEF IInv, InTry, At
  <2> QED
    BY <2>2, ThrowsStep DEF NotionFails
<1>8. CASE At(p, "undoRequest") /\ FailRequest(p)
  <2>1. proc[p].cur \in Requests
    BY <1>1, <1>8 DEF Sound, Works, Holding, At
  <2>2. StoreStep(p) /\ ~InTry(p)
    BY <1>1, <1>8, <2>1, FailRequestStores DEF IInv, InTry, At
  <2> QED
    BY <2>2, ThrowsStep DEF NotionFails
<1>9. CASE At(p, "expire") /\ \E r \in proc[p].todo : ExpireRequest(r)
  <2>1. PICK r \in proc[p].todo : ExpireRequest(r)
    BY <1>9
  <2>2. r \in Requests
    BY <1>1 DEF Processes
  <2>3. StoreStep(p) /\ ~InTry(p)
    BY <1>1, <1>9, <2>1, <2>2, ExpireRequestStores DEF IInv, InTry, At
  <2> QED
    BY <2>3, ThrowsStep DEF NotionFails
<1> QED
  BY <1>2, <1>3, <1>4, <1>5, <1>6, <1>7, <1>8, <1>9 DEF NotionFails, Writes

LEMMA CallFailsStep ==
  ASSUME IInv, TypeOK', NEW p \in Procs, CallFails(p) PROVE Kept
<1>1. /\ Sound(p) /\ proc[p].pc \in Holding
      /\ rows[proc[p].row].status # "Absent"
  BY DEF IInv, CallFails, Sound, Works, Holding
<1>2. StoreStep(p) /\ rows' = rows
  <2>1. CASE At(p, "call") /\ Lands(p)
    BY <1>1, <2>1, LandsStores DEF IInv, Lands, stores
  <2>2. CASE UNCHANGED <<stores, outside, history>>
    BY <2>2, Quiet DEF stores
  <2> QED
    BY <2>1, <2>2 DEF CallFails
<1> QED
  BY <1>1, <1>2, ThrowsStep DEF CallFails

\* A step that moves no command and touches no execution row.
LEMMA StandingStep ==
  ASSUME IInv, TypeOK', Stored', proc' = proc,
         UNCHANGED <<rows, passed, effects>>
  PROVE  Kept
<1>1. KeepsRows
  BY DEF KeepsRows
<1>2. ASSUME NEW q \in Procs PROVE Sound(q)'
  BY <1>1, SoundKeeps DEF IInv, Stored
<1>3. Owners'
  BY DEF IInv, Owners
<1> QED
  BY <1>1, <1>2, <1>3 DEF IInv, Kept

\* An operator's edit of a request leaves what the lane owns alone.
LEMMA EditStep ==
  ASSUME IInv, TypeOK', NEW r \in Requests, NEW row,
         request' = [request EXCEPT ![r] = row],
         row.intent = request[r].intent, row.latest = request[r].latest,
         row.pin = request[r].pin, row.outcome = request[r].outcome,
         row.status = request[r].status \/ row.status # "Executed",
         proc' = proc, UNCHANGED <<rows, passed, effects>>
  PROVE  Kept
<1>1. Backed(r, request[r])
  BY DEF IInv, Stored, ReadyIsBacked, Backed
<1>2. Backed(r, row)
  BY <1>1 DEF Backed
<1>3. StoreStep(r)
  BY <1>2, RequestStores DEF IInv
<1> QED
  BY <1>3, StandingStep DEF StoreStep

LEMMA PeopleStep ==
  ASSUME IInv, TypeOK', People PROVE Kept
<1>1. ASSUME NEW r \in Requests,
             NEW status \in {"Pending Approval", "Approved", "Canceled"},
             Decide(r, status)
      PROVE  Kept
  <2> DEFINE row == [request[r] EXCEPT !.status = status]
  <2>1. request[r] \in RequestRows
    BY DEF IInv, TypeOK
  <2>2. /\ row.intent = request[r].intent /\ row.latest = request[r].latest
        /\ row.pin = request[r].pin /\ row.outcome = request[r].outcome
        /\ row.status # "Executed"
    BY <2>1 DEF RequestRows
  <2>3. request' = [request EXCEPT ![r] = row]
    BY <1>1 DEF Decide, IInv, TypeOK
  <2> HIDE DEF row
  <2> QED
    BY <1>1, <2>2, <2>3, EditStep DEF Decide
<1>2. ASSUME NEW r \in Requests, NEW signed \in Signatures, Sign(r, signed)
      PROVE  Kept
  <2> DEFINE row == [request[r] EXCEPT !.signed = signed]
  <2>1. request[r] \in RequestRows
    BY DEF IInv, TypeOK
  <2>2. /\ row.intent = request[r].intent /\ row.latest = request[r].latest
        /\ row.pin = request[r].pin /\ row.outcome = request[r].outcome
        /\ row.status = request[r].status
    BY <2>1 DEF RequestRows
  <2>3. request' = [request EXCEPT ![r] = row]
    BY <1>2 DEF Sign, IInv, TypeOK
  <2> HIDE DEF row
  <2> QED
    BY <1>2, <2>2, <2>3, EditStep DEF Sign, history
<1>3. ASSUME NEW r \in Requests, NEW payload \in Payloads, Edit(r, payload)
      PROVE  Kept
  <2> DEFINE row == [request[r] EXCEPT !.payload = payload]
  <2>1. request[r] \in RequestRows
    BY DEF IInv, TypeOK
  <2>2. /\ row.intent = request[r].intent /\ row.latest = request[r].latest
        /\ row.pin = request[r].pin /\ row.outcome = request[r].outcome
        /\ row.status = request[r].status
    BY <2>1 DEF RequestRows
  <2>3. request' = [request EXCEPT ![r] = row]
    BY <1>3 DEF Edit, IInv, TypeOK
  <2> HIDE DEF row
  <2> QED
    BY <1>3, <2>2, <2>3, EditStep DEF Edit, history
<1>4. ASSUME UNCHANGED <<stores, history, proc>> PROVE Kept
  <2>1. StoreStep(0)
    BY <1>4, StoresQuiet DEF IInv, history
  <2> QED
    BY <1>4, <2>1, StandingStep DEF StoreStep, stores, history
<1> QED
  BY <1>1, <1>2, <1>3, <1>4 DEF People, IssueMoves, Deploy, Tick

LEMMA StepKept ==
  ASSUME IInv, [Next]_vars PROVE Kept
<1>1. TypeOK'
  BY TypeStep DEF IInv, Sound
<1>2. CASE UNCHANGED vars
  <2>1. UNCHANGED <<stores, history, proc>>
    BY <1>2 DEF vars
  <2>2. StoreStep(0)
    BY <2>1, StoresQuiet DEF IInv, history
  <2> QED
    BY <1>1, <2>1, <2>2, StandingStep DEF StoreStep, stores, history
<1>3. ASSUME NEW p \in Procs, NEW cmd \in Commands,
             NEW only \in Requests \cup {None}, Start(p, cmd, only)
      PROVE  Kept
  BY <1>1, <1>3, StartStep
<1>4. ASSUME NEW p \in Procs, Advance(p) PROVE Kept
  BY <1>1, <1>4, ReadStep, ListStep, TakeUpStep, DraftStep, OpenStep, CallStep,
     CloseStep, FileStep DEF Advance
<1>5. ASSUME NEW p \in Procs, Fails(p) PROVE Kept
  BY <1>1, <1>5, NotionFailsStep, CallFailsStep, ListStep DEF Fails
<1>6. CASE People
  BY <1>1, <1>6, PeopleStep
<1> QED
  BY <1>2, <1>3, <1>4, <1>5, <1>6 DEF Next

LEMMA InitKept == Init => IInv
<1> SUFFICES ASSUME Init PROVE IInv
  OBVIOUS
<1>1. TypeOK
  BY InitType
<1>2. rows = NoRows /\ passed = {} /\ effects = {}
      /\ proc = [p \in Procs |-> Idle]
  BY Zenon DEF Init
<1>3. ASSUME NEW r \in Requests
      PROVE  /\ request[r].intent = "Dry Run"
             /\ request[r].status \in {"Pending Approval", "Approved"}
             /\ request[r].outcome = "None"
  BY DEF Init, NewRequests
<1>4. ASSUME NEW x \in RowIds
      PROVE  rows[x].status = "Absent" /\ rows[x].mode = "Unset"
  BY <1>2 DEF NoRows, NoRow
<1>5. ASSUME NEW p \in Procs
      PROVE  proc[p].pc \notin Holding \cup {"draft"} /\ proc[p].snap = Unread
  BY <1>2 DEF Idle, Holding
<1>6. Owners
  BY <1>5 DEF Owners
<1>7. Stored
  <2>1. RowsMarked
    BY <1>2, <1>4 DEF RowsMarked
  <2>2. LedgerIsTruthful
    BY <1>2, <1>4 DEF LedgerIsTruthful
  <2>3. ReadyIsBacked
    BY <1>3 DEF ReadyIsBacked
  <2>4. EffectWasRehearsed
    BY <1>2 DEF EffectWasRehearsed
  <2>5. ExecutedHappened
    BY <1>3 DEF ExecutedHappened
  <2> QED
    BY <2>1, <2>2, <2>3, <2>4, <2>5 DEF Stored
<1>8. ASSUME NEW p \in Procs PROVE Sound(p)
  <2>1. Works(p) /\ Describing(p) /\ Judged(p) /\ Called(p)
    BY <1>5 DEF Works, Describing, BareAt, DescribedAt, Judged, Called, At,
       Holding
  <2>2. Informed(p)
    <3>1. \A r \in Requests : Backed(r, Unread[r])
      BY DEF Backed, Unread
    <3> QED
      BY <1>5, <3>1 DEF Informed
  <2> QED
    BY <2>1, <2>2 DEF Sound
<1> QED
  BY <1>1, <1>6, <1>7, <1>8 DEF IInv

(***************************************************************************)
(* Invariance: the inductive invariant holds in every reachable state.     *)
(***************************************************************************)
THEOREM Invariance == Spec => []IInv
<1>1. Init => IInv
  BY InitKept
<1>2. IInv /\ [Next]_vars => IInv'
  BY StepKept DEF Kept
<1> QED
  BY <1>1, <1>2, PTL DEF Spec

------------------------------------------------------------------------------
(***************************************************************************)
(* TypeCorrect: every reachable state is well-typed, whatever fails.       *)
(***************************************************************************)
THEOREM TypeCorrect == Spec => []TypeOK
<1>1. IInv => TypeOK
  BY DEF IInv
<1> QED
  BY <1>1, Invariance, PTL

(***************************************************************************)
(* ReadyAlwaysBacked: however many commands settle requests from snapshots *)
(* of whatever age, Ready for Live is always backed by a passed dry run of *)
(* the same request and the target that dry run pinned.                    *)
(***************************************************************************)
THEOREM ReadyAlwaysBacked == Spec => []ReadyIsBacked
<1>1. IInv => ReadyIsBacked
  BY DEF IInv, Stored
<1> QED
  BY <1>1, Invariance, PTL

(***************************************************************************)
(* EffectsAlwaysRehearsed: no provider write without a passed dry run of   *)
(* the request, and no rollback to a deployment that was not rehearsed.    *)
(***************************************************************************)
THEOREM EffectsAlwaysRehearsed == Spec => []EffectWasRehearsed
<1>1. IInv => EffectWasRehearsed
  BY DEF IInv, Stored
<1> QED
  BY <1>1, Invariance, PTL

(***************************************************************************)
(* LedgerAlwaysTruthful: every accepted provider write has a live row that *)
(* is not filed as Skipped, and no row claims a write that did not happen. *)
(***************************************************************************)
THEOREM LedgerAlwaysTruthful == Spec => []LedgerIsTruthful
<1>1. IInv => LedgerIsTruthful
  BY DEF IInv, Stored
<1> QED
  BY <1>1, Invariance, PTL

(***************************************************************************)
(* ExecutedAlwaysHappened: a request that is closed as Executed has a live *)
(* execution that reached the provider.                                    *)
(***************************************************************************)
THEOREM ExecutedAlwaysHappened == Spec => []ExecutedHappened
<1>1. IInv => ExecutedHappened
  BY DEF IInv, Stored
<1> QED
  BY <1>1, Invariance, PTL

(***************************************************************************)
(* IdentityKept: no command ever makes a described execution row something *)
(* else, or takes back what the history holds against it.                  *)
(***************************************************************************)
THEOREM IdentityKept == Spec => RowsKeepIdentity
<1>1. IInv /\ [Next]_vars => [KeepsRows]_vars
  BY StepKept DEF Kept
<1> QED
  BY <1>1, Invariance, PTL DEF Spec, RowsKeepIdentity

------------------------------------------------------------------------------
(***************************************************************************)
(* One success for each key.  With one live command at a time, every live  *)
(* success there is was either in the rows that the command read, or is a  *)
(* result of the command itself, whose requests are off its list by then;  *)
(* so the duplicate check has seen all that could have the key.            *)
(***************************************************************************)
Busy == Holding \cup {"draft"}

LiveUnderWay(p) == Live(p) /\ ~At(p, "idle")

Saw(p, x) ==
    /\ proc[p].seen[x].mode = "Live" /\ proc[p].seen[x].status = "Succeeded"
    /\ proc[p].seen[x].request = rows[x].request
    /\ proc[p].seen[x].key = rows[x].key

Did(p, x) ==
    /\ ~At(p, "load") /\ rows[x].request \notin proc[p].todo
    /\ proc[p].pc \in Busy =>
         \/ rows[x].request # proc[p].cur
         \/ proc[p].pc \in Holding /\ x = proc[p].row

Watches(p) == LiveUnderWay(p) =>
    /\ (At(p, "load") => "rows" \in proc[p].got) =>
         \A x \in RowIds : LiveSuccess(x) => Saw(p, x) \/ Did(p, x)
    /\ proc[p].pc \in Busy =>
         /\ proc[p].cur \notin proc[p].todo
         /\ ~Duplicate(p, proc[p].cur, proc[p].pre)

Alone == \A p, q \in Procs : LiveUnderWay(p) /\ LiveUnderWay(q) => p = q

SInv == /\ Alone
        /\ \A p \in Procs : Watches(p)
        /\ OneSuccessPerKey

\* A live success of the next state that is one by now.
Stands(x) ==
    /\ LiveSuccess(x)
    /\ rows'[x].request = rows[x].request /\ rows'[x].key = rows[x].key

\* A live success that p records in this step.
Scored(p, x) ==
    /\ LiveUnderWay(p) /\ At(p, "close") /\ x = proc[p].row
    /\ rows'[x].request = proc[p].cur
    /\ rows'[x].key = KeyOf(proc[p].cur, Snap(p).payload, proc[p].pre)

LEMMA OldSuccess ==
  ASSUME KeepsRows, NEW x \in RowIds, LiveSuccess(x)
  PROVE  Stands(x)
BY DEF KeepsRows, LiveSuccess, Stands

LEMMA NoRowScores ==
  ASSUME KeepsRows, NEW x \in RowIds, rows'[x] = rows[x], LiveSuccess(x)'
  PROVE  Stands(x)
BY OldSuccess DEF LiveSuccess

\* The writes to an execution row that make no success.
LEMMA CreateRowScores ==
  ASSUME IInv, KeepsRows, NEW y \in RowIds, CreateRow(y)
  PROVE  \A x \in RowIds : LiveSuccess(x)' => Stands(x)
<1> SUFFICES ASSUME NEW x \in RowIds, LiveSuccess(x)' PROVE Stands(x)
  OBVIOUS
<1>1. CASE x = y
  <2>1. rows'[x] = [rows[x] EXCEPT !.status = "Unset"] /\ rows[x] \in ExecutionRows
    BY <1>1 DEF CreateRow, IInv, TypeOK
  <2>2. rows'[x].status = "Unset"
    BY <2>1 DEF ExecutionRows
  <2> QED
    BY <2>2 DEF LiveSuccess
<1>2. CASE x # y
  BY <1>2, NoRowScores DEF CreateRow, IInv, TypeOK
<1> QED
  BY <1>1, <1>2

LEMMA OpenRowScores ==
  ASSUME IInv, KeepsRows, NEW p \in Procs, OpenRow(p)
  PROVE  \A x \in RowIds : LiveSuccess(x)' => Stands(x)
<1> SUFFICES ASSUME NEW x \in RowIds, LiveSuccess(x)' PROVE Stands(x)
  OBVIOUS
<1>1. CASE x = proc[p].row
  <2>1. rows'[x] = Described(p, "Started")
    BY <1>1 DEF OpenRow, IInv, TypeOK
  <2>2. Described(p, "Started").status = "Started"
    BY DEF Described
  <2> QED
    BY <2>1, <2>2 DEF LiveSuccess
<1>2. CASE x # proc[p].row
  BY <1>2, NoRowScores DEF OpenRow, IInv, TypeOK
<1> QED
  BY <1>1, <1>2

LEMMA FailRowScores ==
  ASSUME IInv, KeepsRows, NEW p \in Procs, FailRow(p)
  PROVE  \A x \in RowIds : LiveSuccess(x)' => Stands(x)
<1> SUFFICES ASSUME NEW x \in RowIds, LiveSuccess(x)' PROVE Stands(x)
  OBVIOUS
<1>1. CASE x = proc[p].row
  <2>1. rows'[x] = [rows[x] EXCEPT !.status = "Failed"] /\ rows[x] \in ExecutionRows
    BY <1>1 DEF FailRow, IInv, TypeOK
  <2>2. rows'[x].status = "Failed"
    BY <2>1 DEF ExecutionRows
  <2> QED
    BY <2>2 DEF LiveSuccess
<1>2. CASE x # proc[p].row
  BY <1>2, NoRowScores DEF FailRow, IInv, TypeOK
<1> QED
  BY <1>1, <1>2

LEMMA CloseRowScores ==
  ASSUME IInv, KeepsRows, NEW p \in Procs, At(p, "close"), CloseRow(p),
         effects' = effects
  PROVE  \A x \in RowIds : LiveSuccess(x)' => Stands(x) \/ Scored(p, x)
<1> SUFFICES ASSUME NEW x \in RowIds, LiveSuccess(x)'
             PROVE  Stands(x) \/ Scored(p, x)
  OBVIOUS
<1>1. CASE x = proc[p].row
  <2>1. /\ rows'[x].mode = IF Live(p) THEN "Live" ELSE "Dry Run"
        /\ rows'[x].request = proc[p].cur
        /\ rows'[x].key = KeyOf(proc[p].cur, Snap(p).payload, proc[p].pre)
    BY <1>1, CloseRowStores DEF IInv
  <2>2. Live(p)
    BY <2>1 DEF LiveSuccess
  <2> QED
    BY <1>1, <2>1, <2>2 DEF Scored, LiveUnderWay, At
<1>2. CASE x # proc[p].row
  BY <1>2, NoRowScores DEF CloseRow, IInv, TypeOK
<1> QED
  BY <1>1, <1>2

LEMMA NothingScores ==
  ASSUME KeepsRows, rows' = rows
  PROVE  \A x \in RowIds : LiveSuccess(x)' => Stands(x)
BY NoRowScores

------------------------------------------------------------------------------
\* A step of p keeps the invariant if it keeps what p watches.
LEMMA OthersWatch ==
  ASSUME IInv, SInv, NEW p \in Procs, NEW q \in Procs, q # p,
         proc'[q] = proc[q],
         \A x \in RowIds : LiveSuccess(x)' => Stands(x) \/ Scored(p, x)
  PROVE  Watches(q)'
<1> SUFFICES ASSUME LiveUnderWay(q) PROVE Watches(q)'
  BY DEF Watches, LiveUnderWay, Live, Runs, At
<1>1. \A x \in RowIds : LiveSuccess(x)' => Stands(x)
  BY DEF SInv, Alone, Scored
<1>2. ASSUME NEW x \in RowIds, Stands(x)
      PROVE  /\ Saw(q, x) => Saw(q, x)'
             /\ Did(q, x) => Did(q, x)'
  BY <1>2 DEF Stands, Saw, Did, At
<1>3. Duplicate(q, proc[q].cur, proc[q].pre)' <=> Duplicate(q, proc[q].cur, proc[q].pre)
  BY DEF Duplicate
<1> QED
  BY <1>1, <1>2, <1>3 DEF SInv, Watches, Stands, At

LEMMA OneSuccessStep ==
  ASSUME IInv, SInv, NEW p \in Procs,
         \A x \in RowIds : LiveSuccess(x)' => Stands(x) \/ Scored(p, x)
  PROVE  OneSuccessPerKey'
<1> SUFFICES ASSUME NEW x \in RowIds, NEW y \in RowIds,
                    LiveSuccess(x)', LiveSuccess(y)',
                    rows'[x].request = rows'[y].request,
                    rows'[x].key = rows'[y].key
             PROVE  x = y
  BY DEF OneSuccessPerKey
<1>1. CASE Stands(x) /\ Stands(y)
  BY <1>1 DEF SInv, OneSuccessPerKey, Stands
<1>2. CASE Scored(p, x) /\ Scored(p, y)
  BY <1>2 DEF Scored
<1>3. ASSUME NEW u \in RowIds, NEW v \in RowIds, Scored(p, u), Stands(v),
             rows'[u].request = rows'[v].request, rows'[u].key = rows'[v].key
      PROVE  u = v
  <2>1. /\ rows[v].request = proc[p].cur
        /\ rows[v].key = KeyOf(proc[p].cur, Snap(p).payload, proc[p].pre)
    BY <1>3 DEF Scored, Stands
  <2>2. /\ Saw(p, v) \/ Did(p, v)
        /\ proc[p].cur \notin proc[p].todo
        /\ ~Duplicate(p, proc[p].cur, proc[p].pre)
    BY <1>3 DEF SInv, Watches, Scored, Stands, At, Busy, Holding
  <2>3. ~Saw(p, v)
    BY <2>1, <2>2 DEF Saw, Duplicate, Snap
  <2>4. Did(p, v) => v = proc[p].row
    BY <1>3, <2>1 DEF Did, Scored, At, Busy, Holding
  <2> QED
    BY <1>3, <2>2, <2>3, <2>4 DEF Scored
<1> QED
  BY <1>1, <1>2, <1>3

LEMMA OwnWatch ==
  ASSUME IInv, SInv, NEW p \in Procs, NEW new,
         proc' = [proc EXCEPT ![p] = new],
         new.cmd = "live" /\ new.pc # "idle" =>
           LiveUnderWay(p) \/ \A q \in Procs : ~LiveUnderWay(q),
         Watches(p)',
         \A x \in RowIds : LiveSuccess(x)' => Stands(x) \/ Scored(p, x)
  PROVE  SInv'
<1>1. /\ proc'[p] = new
      /\ \A q \in Procs : q # p => proc'[q] = proc[q]
  BY DEF IInv, TypeOK
<1>2. Alone'
  <2>1. \A q \in Procs : q # p => (LiveUnderWay(q)' <=> LiveUnderWay(q))
    BY <1>1 DEF LiveUnderWay, Live, Runs, At
  <2>2. LiveUnderWay(p)' =>
          LiveUnderWay(p) \/ \A q \in Procs : ~LiveUnderWay(q)
    BY <1>1 DEF LiveUnderWay, Live, Runs, At
  <2> QED
    BY <2>1, <2>2 DEF SInv, Alone
<1>3. ASSUME NEW q \in Procs PROVE Watches(q)'
  BY <1>1, OthersWatch
<1>4. OneSuccessPerKey'
  BY OneSuccessStep
<1> QED
  BY <1>2, <1>3, <1>4 DEF SInv

\* A command that ends watches nothing any more.
LEMMA EndWatch ==
  ASSUME IInv, SInv, NEW p \in Procs, Ends(p),
         \A x \in RowIds : LiveSuccess(x)' => Stands(x) \/ Scored(p, x)
  PROVE  SInv'
<1>1. proc' = [proc EXCEPT ![p] = Idle] /\ Idle.cmd = "sync"
  BY DEF Ends, Idle
<1>2. proc'[p].cmd = "sync"
  BY <1>1 DEF IInv, TypeOK
<1>3. Watches(p)'
  BY <1>2 DEF Watches, LiveUnderWay, Live, Runs
<1> QED
  BY <1>1, <1>3, OwnWatch

\* A step between the requests: the list only gets shorter.
LEMMA ListWatch ==
  ASSUME IInv, SInv, NEW p \in Procs, NEW new,
         proc' = [proc EXCEPT ![p] = new], new.cmd = proc[p].cmd,
         proc[p].pc \notin {"idle", "load"}, new.pc \notin Busy \cup {"load"},
         new.seen = proc[p].seen, new.todo \subseteq proc[p].todo,
         \A x \in RowIds : LiveSuccess(x)' => Stands(x)
  PROVE  SInv'
<1>1. proc'[p] = new
  BY DEF IInv, TypeOK
<1>2. LiveUnderWay(p)' => LiveUnderWay(p)
  BY <1>1 DEF LiveUnderWay, Live, Runs, At
<1>3. ASSUME LiveUnderWay(p), NEW x \in RowIds, LiveSuccess(x)'
      PROVE  Saw(p, x)' \/ Did(p, x)'
  <2>1. Stands(x) /\ (Saw(p, x) \/ Did(p, x))
    BY <1>3 DEF SInv, Watches, Stands, At
  <2> QED
    BY <1>1, <2>1 DEF Stands, Saw, Did, At
<1>4. Watches(p)'
  BY <1>1, <1>2, <1>3 DEF Watches
<1>5. new.cmd = "live" /\ new.pc # "idle" => LiveUnderWay(p)
  BY DEF LiveUnderWay, Live, Runs, At
<1> QED
  BY <1>4, <1>5, OwnWatch

\* A step of p on the row it holds.
LEMMA HoldWatch ==
  ASSUME IInv, SInv, NEW p \in Procs, NEW new,
         proc' = [proc EXCEPT ![p] = new], new.cmd = proc[p].cmd,
         proc[p].pc \in Holding, new.pc \in Holding,
         new.todo = proc[p].todo, new.cur = proc[p].cur,
         new.row = proc[p].row, new.pre = proc[p].pre,
         new.seen = proc[p].seen, new.snap = proc[p].snap,
         \A x \in RowIds : LiveSuccess(x)' => Stands(x) \/ Scored(p, x)
  PROVE  SInv'
<1>1. proc'[p] = new
  BY DEF IInv, TypeOK
<1>2. LiveUnderWay(p)' => LiveUnderWay(p)
  BY <1>1 DEF LiveUnderWay, Live, Runs, At, Holding
<1>3. ASSUME LiveUnderWay(p)
      PROVE  /\ proc[p].cur \notin proc[p].todo
             /\ ~Duplicate(p, proc[p].cur, proc[p].pre)
             /\ \A x \in RowIds : LiveSuccess(x) => Saw(p, x) \/ Did(p, x)
  BY <1>3 DEF SInv, Watches, Busy, At, Holding
<1>4. ASSUME LiveUnderWay(p), NEW x \in RowIds, LiveSuccess(x)'
      PROVE  Saw(p, x)' \/ Did(p, x)'
  <2>1. CASE Stands(x)
    BY <1>1, <1>3, <1>4, <2>1 DEF Stands, Saw, Did, At, Holding, Busy
  <2>2. CASE Scored(p, x)
    BY <1>1, <1>3, <1>4, <2>2 DEF Scored, Did, At, Holding, Busy
  <2> QED
    BY <1>4, <2>1, <2>2
<1>5. Duplicate(p, proc[p].cur, proc[p].pre)'
        <=> Duplicate(p, proc[p].cur, proc[p].pre)
  BY <1>1 DEF Duplicate
<1>6. Watches(p)'
  BY <1>1, <1>2, <1>3, <1>4, <1>5 DEF Watches
<1>7. new.cmd = "live" /\ new.pc # "idle" => LiveUnderWay(p)
  BY DEF LiveUnderWay, Live, Runs, At, Holding
<1> QED
  BY <1>6, <1>7, OwnWatch

LEMMA GotoWatch ==
  ASSUME IInv, SInv, NEW p \in Procs, NEW pc \in Holding, Goto(p, pc),
         proc[p].pc \in Holding,
         \A x \in RowIds : LiveSuccess(x)' => Stands(x) \/ Scored(p, x)
  PROVE  SInv'
<1> DEFINE new == [proc[p] EXCEPT !.pc = pc]
<1>1. proc[p] \in Processes
  BY DEF IInv, TypeOK
<1>2. /\ new.pc = pc /\ new.cmd = proc[p].cmd /\ new.todo = proc[p].todo
      /\ new.cur = proc[p].cur /\ new.row = proc[p].row
      /\ new.pre = proc[p].pre /\ new.seen = proc[p].seen
      /\ new.snap = proc[p].snap
  BY <1>1 DEF Processes
<1>3. proc' = [proc EXCEPT ![p] = new]
  BY DEF Goto
<1> HIDE DEF new
<1> QED
  BY <1>2, <1>3, HoldWatch

------------------------------------------------------------------------------
LEMMA StartWatch ==
  ASSUME Serial, IInv, SInv, KeepsRows, NEW p \in Procs, NEW cmd \in Commands,
         NEW only \in Requests \cup {None}, Start(p, cmd, only)
  PROVE  SInv'
<1> DEFINE new == [Idle EXCEPT !.pc = "load", !.cmd = cmd, !.only = only,
                               !.now = day]
<1>1. proc' = [proc EXCEPT ![p] = new] /\ rows' = rows
  BY DEF Start, stores
<1>2. new.pc = "load" /\ new.cmd = cmd /\ new.got = {}
  BY DEF Idle
<1>3. cmd = "live" => \A q \in Procs : ~LiveUnderWay(q)
  BY DEF Start, LiveUnderWay, Live
<1> HIDE DEF new
<1>4. proc'[p] = new
  BY <1>1 DEF IInv, TypeOK
<1>5. Watches(p)'
  BY <1>2, <1>4 DEF Watches, At, Busy, Holding
<1> QED
  BY <1>1, <1>2, <1>3, <1>5, NothingScores, OwnWatch

LEMMA ReadWatch ==
  ASSUME IInv, SInv, KeepsRows, NEW p \in Procs, ReadRequests(p) \/ ReadRows(p)
  PROVE  SInv'
<1>1. proc[p] \in Processes /\ At(p, "load") /\ rows' = rows
  BY DEF IInv, TypeOK, ReadRequests, ReadRows, stores
<1>2. CASE ReadRequests(p)
  <2> DEFINE new == [proc[p] EXCEPT !.snap = request, !.got = @ \cup {"requests"}]
  <2>1. /\ new.pc = "load" /\ new.cmd = proc[p].cmd /\ new.seen = proc[p].seen
        /\ new.got = proc[p].got \cup {"requests"}
    BY <1>1 DEF Processes, At
  <2>2. proc' = [proc EXCEPT ![p] = new]
    BY <1>2 DEF ReadRequests
  <2> HIDE DEF new
  <2>3. proc'[p] = new
    BY <2>2 DEF IInv, TypeOK
  <2>4. LiveUnderWay(p)' => LiveUnderWay(p)
    BY <1>1, <2>1, <2>3 DEF LiveUnderWay, Live, Runs, At
  <2>5. ASSUME LiveUnderWay(p), "rows" \in proc[p].got, NEW x \in RowIds,
               LiveSuccess(x)'
        PROVE  Saw(p, x)'
    <3>1. Stands(x)
      BY <1>1, <2>5, NothingScores
    <3>2. Saw(p, x)
      BY <1>1, <2>5, <3>1 DEF SInv, Watches, Did, Stands
    <3> QED
      BY <2>1, <2>3, <3>1, <3>2 DEF Saw, Stands
  <2>6. Watches(p)'
    BY <2>1, <2>3, <2>4, <2>5 DEF Watches, At, Busy, Holding
  <2>7. new.cmd = "live" => LiveUnderWay(p)
    BY <1>1, <2>1 DEF LiveUnderWay, Live, Runs, At
  <2> QED
    BY <1>1, <2>2, <2>6, <2>7, NothingScores, OwnWatch
<1>3. CASE ReadRows(p)
  <2> DEFINE new == [proc[p] EXCEPT !.seen = rows, !.got = @ \cup {"rows"}]
  <2>1. new.pc = "load" /\ new.cmd = proc[p].cmd /\ new.seen = rows
    BY <1>1 DEF Processes, At
  <2>2. proc' = [proc EXCEPT ![p] = new]
    BY <1>3 DEF ReadRows
  <2> HIDE DEF new
  <2>3. proc'[p] = new
    BY <2>2 DEF IInv, TypeOK
  <2>4. ASSUME NEW x \in RowIds, LiveSuccess(x)' PROVE Saw(p, x)'
    BY <1>1, <2>1, <2>3, <2>4 DEF Saw, LiveSuccess
  <2>5. Watches(p)'
    BY <2>1, <2>3, <2>4 DEF Watches, At, Busy, Holding
  <2>6. new.cmd = "live" => LiveUnderWay(p)
    BY <1>1, <2>1 DEF LiveUnderWay, Live, Runs, At
  <2> QED
    BY <1>1, <2>2, <2>5, <2>6, NothingScores, OwnWatch
<1> QED
  BY <1>2, <1>3

LEMMA SelectWatch ==
  ASSUME IInv, SInv, KeepsRows, NEW p \in Procs, Select(p)
  PROVE  SInv'
<1> DEFINE pc == IF Runs(p, {"sync"}) THEN "expire" ELSE "pick"
<1>1. PICK todo \in SUBSET Eligible(p) :
        proc' = [proc EXCEPT ![p].todo = todo, ![p].pc = pc]
  BY DEF Select
<1> DEFINE new == [proc[p] EXCEPT !.todo = todo, !.pc = pc]
<1>2. proc[p] \in Processes /\ At(p, "load") /\ "rows" \in proc[p].got
      /\ rows' = rows
  BY DEF IInv, TypeOK, Select, stores
<1>3. proc' = [proc EXCEPT ![p] = new]
  BY <1>1 DEF IInv, TypeOK
<1>4. /\ new.pc \in {"expire", "pick"} /\ new.cmd = proc[p].cmd
      /\ new.seen = proc[p].seen
  BY <1>2 DEF Processes
<1> HIDE DEF new
<1>5. proc'[p] = new
  BY <1>3 DEF IInv, TypeOK
<1>6. LiveUnderWay(p)' => LiveUnderWay(p)
  BY <1>2, <1>4, <1>5 DEF LiveUnderWay, Live, Runs, At
<1>7. ASSUME LiveUnderWay(p), NEW x \in RowIds, LiveSuccess(x)'
      PROVE  Saw(p, x)'
  <2>1. Stands(x)
    BY <1>2, <1>7, NothingScores
  <2>2. Saw(p, x)
    BY <1>2, <1>7, <2>1 DEF SInv, Watches, Did, Stands
  <2> QED
    BY <1>4, <1>5, <2>1, <2>2 DEF Saw, Stands
<1>8. Watches(p)'
  BY <1>4, <1>5, <1>6, <1>7 DEF Watches, At, Busy, Holding
<1>9. new.cmd = "live" => LiveUnderWay(p)
  BY <1>2, <1>4 DEF LiveUnderWay, Live, Runs, At
<1> QED
  BY <1>2, <1>3, <1>8, <1>9, NothingScores, OwnWatch

LEMMA PassWatch ==
  ASSUME IInv, SInv, KeepsRows, NEW p \in Procs, PassOver(p) \/ Expire(p),
         rows' = rows
  PROVE  SInv'
<1>1. PICK r \in proc[p].todo : proc' = [proc EXCEPT ![p].todo = @ \ {r}]
  BY DEF PassOver, Expire
<1> DEFINE new == [proc[p] EXCEPT !.todo = @ \ {r}]
<1>2. proc[p] \in Processes /\ proc[p].pc \in {"pick", "expire"}
  BY DEF IInv, TypeOK, PassOver, Expire, At
<1>3. proc' = [proc EXCEPT ![p] = new]
  BY <1>1
<1>4. /\ new.pc = proc[p].pc /\ new.cmd = proc[p].cmd
      /\ new.seen = proc[p].seen /\ new.todo \subseteq proc[p].todo
  BY <1>2 DEF Processes
<1> HIDE DEF new
<1> QED
  BY <1>2, <1>3, <1>4, NothingScores, ListWatch DEF Busy, Holding

LEMMA TakeUpWatch ==
  ASSUME IInv, SInv, KeepsRows, NEW p \in Procs, TakeUp(p)
  PROVE  SInv'
<1>0. PICK r \in proc[p].todo :
        \E pre \in Reads(r, proc[p].snap[r].payload) :
          /\ ~PassedOver(p, r, pre)
          /\ proc' = [proc EXCEPT
               ![p].pc = "draft", ![p].cur = r, ![p].todo = @ \ {r},
               ![p].pre = Prepared(p, r, pre),
               ![p].blocked = NotReady(p, r, Prepared(p, r, pre)),
               ![p].now = day]
  BY DEF TakeUp
<1>1. PICK pre \in Reads(r, proc[p].snap[r].payload) :
        /\ ~PassedOver(p, r, pre)
        /\ proc' = [proc EXCEPT
             ![p].pc = "draft", ![p].cur = r, ![p].todo = @ \ {r},
             ![p].pre = Prepared(p, r, pre),
             ![p].blocked = NotReady(p, r, Prepared(p, r, pre)),
             ![p].now = day]
  BY <1>0
<1> DEFINE prepared == Prepared(p, r, pre)
           notReady == NotReady(p, r, prepared)
           new == [proc[p] EXCEPT !.pc = "draft", !.cur = r, !.todo = @ \ {r},
                                  !.pre = prepared, !.blocked = notReady,
                                  !.now = day]
<1>2. proc[p] \in Processes /\ At(p, "pick") /\ rows' = rows
  BY DEF IInv, TypeOK, TakeUp, stores
<1> HIDE DEF prepared, notReady
<1>3. proc' = [proc EXCEPT ![p] = new]
  BY <1>1 DEF prepared, notReady
<1>4. /\ new.pc = "draft" /\ new.cmd = proc[p].cmd /\ new.cur = r
      /\ new.seen = proc[p].seen /\ new.snap = proc[p].snap
      /\ new.todo = proc[p].todo \ {r} /\ new.pre = prepared
  BY <1>2 DEF Processes
<1> HIDE DEF new
<1>5. proc'[p] = new
  BY <1>3 DEF IInv, TypeOK
<1>6. LiveUnderWay(p)' <=> Live(p)
  BY <1>4, <1>5 DEF LiveUnderWay, Live, Runs, At
<1>7. LiveUnderWay(p) <=> Live(p)
  BY <1>2 DEF LiveUnderWay, At
<1>8. ASSUME Live(p) PROVE ~Duplicate(p, r, prepared)
  BY <1>1, <1>8 DEF PassedOver, Live, Runs, Prepared, prepared
<1>9. ~Duplicate(p, r, prepared) => ~Duplicate(p, proc[p].cur, proc[p].pre)'
  BY <1>4, <1>5 DEF Duplicate
<1>10. ASSUME Live(p), NEW x \in RowIds, LiveSuccess(x)'
       PROVE  Saw(p, x)' \/ Did(p, x)'
  <2>1. Stands(x)
    BY <1>2, <1>10, NothingScores
  <2>2. Saw(p, x) \/ Did(p, x)
    BY <1>2, <1>7, <1>10, <2>1 DEF SInv, Watches, Stands, At
  <2>3. CASE Saw(p, x)
    BY <1>4, <1>5, <2>1, <2>3 DEF Saw, Stands
  <2>4. CASE Did(p, x)
    BY <1>4, <1>5, <2>1, <2>4 DEF Did, Stands, At
  <2> QED
    BY <2>2, <2>3, <2>4
<1>11. Watches(p)'
  BY <1>4, <1>5, <1>6, <1>8, <1>9, <1>10 DEF Watches
<1>12. new.cmd = "live" => LiveUnderWay(p)
  BY <1>4, <1>7 DEF Live, Runs
<1> QED
  BY <1>2, <1>3, <1>11, <1>12, NothingScores, OwnWatch

LEMMA DraftWatch ==
  ASSUME IInv, SInv, KeepsRows, NEW p \in Procs, Draft(p)
  PROVE  SInv'
<1> DEFINE now == IF Runs(p, {"preview"}) THEN proc[p].now ELSE day
           pc  == IF Runs(p, {"preview"}) THEN "close" ELSE "open"
<1>1. PICK y \in RowIds :
        /\ CreateRow(y)
        /\ proc' = [proc EXCEPT ![p].row = y, ![p].now = now, ![p].pc = pc]
  BY DEF Draft
<1> DEFINE new == [proc[p] EXCEPT !.row = y, !.now = now, !.pc = pc]
<1>2. proc[p] \in Processes /\ At(p, "draft") /\ pc \in {"close", "open"}
  BY DEF IInv, TypeOK, Draft
<1> HIDE DEF now, pc
<1>3. proc' = [proc EXCEPT ![p] = new]
  BY <1>1
<1>4. /\ new.pc \in {"close", "open"} /\ new.cmd = proc[p].cmd
      /\ new.cur = proc[p].cur /\ new.seen = proc[p].seen
      /\ new.snap = proc[p].snap /\ new.todo = proc[p].todo
      /\ new.pre = proc[p].pre
  BY <1>2 DEF Processes
<1> HIDE DEF new
<1>5. proc'[p] = new
  BY <1>3 DEF IInv, TypeOK
<1>6. \A x \in RowIds : LiveSuccess(x)' => Stands(x)
  BY <1>1, CreateRowScores
<1>7. LiveUnderWay(p)' => LiveUnderWay(p)
  BY <1>2, <1>4, <1>5 DEF LiveUnderWay, Live, Runs, At
<1>8. ASSUME LiveUnderWay(p)
      PROVE  /\ proc[p].cur \notin proc[p].todo
             /\ ~Duplicate(p, proc[p].cur, proc[p].pre)
             /\ \A x \in RowIds : LiveSuccess(x) => Saw(p, x) \/ Did(p, x)
  BY <1>2, <1>8 DEF SInv, Watches, Busy, At
<1>9. ASSUME LiveUnderWay(p), NEW x \in RowIds, LiveSuccess(x)'
      PROVE  Saw(p, x)' \/ Did(p, x)'
  <2>1. Stands(x) /\ (Saw(p, x) \/ Did(p, x))
    BY <1>6, <1>8, <1>9 DEF Stands
  <2>2. CASE Saw(p, x)
    BY <1>4, <1>5, <2>1, <2>2 DEF Saw, Stands
  <2>3. CASE Did(p, x)
    BY <1>2, <1>4, <1>5, <2>1, <2>3 DEF Did, Stands, At, Busy, Holding
  <2> QED
    BY <2>1, <2>2, <2>3
<1>10. Duplicate(p, proc[p].cur, proc[p].pre)'
         <=> Duplicate(p, proc[p].cur, proc[p].pre)
  BY <1>4, <1>5 DEF Duplicate
<1>11. Watches(p)'
  BY <1>4, <1>5, <1>7, <1>8, <1>9, <1>10 DEF Watches
<1>12. new.cmd = "live" /\ new.pc # "idle" => LiveUnderWay(p)
  BY <1>2, <1>4 DEF LiveUnderWay, Live, Runs, At
<1> QED
  BY <1>3, <1>6, <1>11, <1>12, OwnWatch

LEMMA OpenWatch ==
  ASSUME IInv, SInv, KeepsRows, NEW p \in Procs, Open(p)
  PROVE  SInv'
<1>1. \A x \in RowIds : LiveSuccess(x)' => Stands(x)
  BY OpenRowScores DEF Open
<1>2. proc[p].pc \in Holding
  BY DEF Open, At, Holding
<1>3. (IF Runs(p, {"live"}) THEN "call" ELSE "close") \in Holding
  BY DEF Holding
<1> QED
  BY <1>1, <1>2, <1>3, GotoWatch DEF Open

LEMMA CallWatch ==
  ASSUME IInv, SInv, KeepsRows, NEW p \in Procs,
         Call(p) \/ SkipCall(p) \/ Verify(p)
  PROVE  SInv'
<1>1. rows' = rows /\ proc[p].pc \in {"call", "verify"}
  BY DEF Call, SkipCall, Verify, Lands, stores, At
<1>2. proc[p] \in Processes
  BY DEF IInv, TypeOK
<1>3. PICK status \in RowStatuses, pc \in {"verify", "close"} :
        proc' = [proc EXCEPT ![p].status = status, ![p].pc = pc]
  <2>1. CASE Call(p)
    <3>1. proc' = [proc EXCEPT ![p].status = "Succeeded",
             ![p].pc = IF OnVercel(proc[p].cur) THEN "verify" ELSE "close"]
      BY <2>1 DEF Call
    <3> QED
      BY <3>1 DEF RowStatuses
  <2>2. CASE SkipCall(p)
    <3>1. proc' = [proc EXCEPT ![p].status = "Skipped", ![p].pc = "close"]
      BY <2>2 DEF SkipCall
    <3> QED
      BY <3>1 DEF RowStatuses
  <2>3. CASE Verify(p)
    <3>1. PICK confirmed \in BOOLEAN :
            proc' = [proc EXCEPT
              ![p].status = IF confirmed THEN "Succeeded"
                            ELSE "Compensation Needed",
              ![p].pc = "close"]
      BY <2>3 DEF Verify, Confirmed
    <3> QED
      BY <3>1 DEF RowStatuses
  <2> QED
    BY <2>1, <2>2, <2>3
<1> DEFINE new == [proc[p] EXCEPT !.status = status, !.pc = pc]
<1>4. proc' = [proc EXCEPT ![p] = new]
  BY <1>3
<1>5. /\ new.pc \in Holding /\ new.cmd = proc[p].cmd
      /\ new.cur = proc[p].cur /\ new.seen = proc[p].seen
      /\ new.snap = proc[p].snap /\ new.todo = proc[p].todo
      /\ new.pre = proc[p].pre /\ new.row = proc[p].row
  BY <1>2 DEF Processes, Holding
<1>6. proc[p].pc \in Holding
  BY <1>1 DEF Holding
<1> HIDE DEF new
<1> QED
  BY <1>1, <1>4, <1>5, <1>6, NothingScores, HoldWatch

LEMMA FileWatch ==
  ASSUME IInv, SInv, KeepsRows, NEW p \in Procs,
         Close(p) \/ Settle(p) \/ UndoRow(p) \/ UndoRequest(p)
  PROVE  SInv'
<1>1. CASE Close(p)
  <2>1. \A x \in RowIds : LiveSuccess(x)' => Stands(x) \/ Scored(p, x)
    BY <1>1, CloseRowScores DEF Close, history
  <2> QED
    BY <1>1, <2>1, GotoWatch DEF Close, At, Holding
<1>2. CASE Settle(p)
  BY <1>2, NothingScores, GotoWatch DEF Settle, SettleRequest, At, Holding
<1>3. CASE UndoRow(p)
  BY <1>3, FailRowScores, GotoWatch DEF UndoRow, At, Holding
<1>4. CASE UndoRequest(p)
  BY <1>4, NothingScores, GotoWatch DEF UndoRequest, FailRequest, At, Holding
<1> QED
  BY <1>1, <1>2, <1>3, <1>4

LEMMA PacketWatch ==
  ASSUME IInv, SInv, KeepsRows, NEW p \in Procs, Packet(p)
  PROVE  SInv'
<1> DEFINE new == [proc[p] EXCEPT !.pc = "pick", !.cur = None,
                     !.pre = Unresolved, !.blocked = FALSE, !.row = None,
                     !.status = "Unset"]
<1>1. proc[p] \in Processes /\ proc[p].pc \in {"packet", "undoPacket"}
      /\ rows' = rows
  BY DEF IInv, TypeOK, Packet, stores
<1>2. proc' = [proc EXCEPT ![p] = new]
  BY DEF Packet, Loops
<1>3. /\ new.pc = "pick" /\ new.cmd = proc[p].cmd
      /\ new.seen = proc[p].seen /\ new.todo = proc[p].todo
  BY <1>1 DEF Processes
<1> HIDE DEF new
<1> QED
  BY <1>1, <1>2, <1>3, NothingScores, ListWatch DEF Busy, Holding

LEMMA ThrowsWatch ==
  ASSUME IInv, SInv, NEW p \in Procs, Throws(p),
         \A x \in RowIds : LiveSuccess(x)' => Stands(x) \/ Scored(p, x)
  PROVE  SInv'
<1>1. CASE InTry(p)
  BY <1>1, GotoWatch DEF Throws, InTry, Holding
<1>2. CASE ~InTry(p)
  BY <1>2, EndWatch DEF Throws
<1> QED
  BY <1>1, <1>2

LEMMA FailsWatch ==
  ASSUME IInv, SInv, KeepsRows, NEW p \in Procs, Fails(p)
  PROVE  SInv'
<1>1. CASE rows' = rows
  <2>1. \A x \in RowIds : LiveSuccess(x)' => Stands(x)
    BY <1>1, NothingScores
  <2>2. Throws(p) \/ Ends(p)
    BY DEF Fails, NotionFails, CallFails, Crash
  <2> QED
    BY <2>1, <2>2, ThrowsWatch, EndWatch
<1>2. CASE NotionFails(p) /\ Writes(p)
  <2>1. \A x \in RowIds : LiveSuccess(x)' => Stands(x) \/ Scored(p, x)
    <3>1. effects' = effects
      BY <1>2 DEF NotionFails, history
    <3>2. CASE \E x \in RowIds : CreateRow(x)
      BY <3>2, CreateRowScores
    <3>3. CASE OpenRow(p)
      BY <3>3, OpenRowScores
    <3>4. CASE At(p, "close") /\ CloseRow(p)
      BY <3>1, <3>4, CloseRowScores
    <3>5. CASE FailRow(p)
      BY <3>5, FailRowScores
    <3>6. CASE rows' = rows
      BY <3>6, NothingScores
    <3> QED
      BY <1>2, <3>2, <3>3, <3>4, <3>5, <3>6
      DEF Writes, SettleRequest, FailRequest, ExpireRequest
  <2> QED
    BY <1>2, <2>1, ThrowsWatch DEF NotionFails
<1> QED
  BY <1>1, <1>2 DEF Fails, NotionFails, CallFails, Crash, Lands, stores

LEMMA StandingWatch ==
  ASSUME IInv, SInv, KeepsRows, rows' = rows, proc' = proc
  PROVE  SInv'
<1>1. Alone'
  BY DEF SInv, Alone, LiveUnderWay, Live, Runs, At
<1>2. ASSUME NEW p \in Procs PROVE Watches(p)'
  <2>1. Watches(p)
    BY DEF SInv
  <2> QED
    BY <2>1 DEF Watches, LiveUnderWay, Live, Runs, At, LiveSuccess, Saw, Did,
                Duplicate
<1>3. OneSuccessPerKey'
  BY DEF SInv, OneSuccessPerKey, LiveSuccess
<1> QED
  BY <1>1, <1>2, <1>3 DEF SInv

LEMMA SerialStep ==
  ASSUME Serial, IInv, SInv, [Next]_vars
  PROVE  SInv'
<1>1. KeepsRows
  BY StepKept DEF Kept
<1>2. CASE UNCHANGED vars
  BY <1>1, <1>2, StandingWatch DEF vars, stores
<1>3. CASE People
  <2>1. rows' = rows /\ proc' = proc
    BY <1>3 DEF People, Decide, Sign, Edit, IssueMoves, Deploy, Tick, stores
  <2> QED
    BY <1>1, <2>1, StandingWatch
<1>4. ASSUME NEW p \in Procs, NEW cmd \in Commands,
             NEW only \in Requests \cup {None}, Start(p, cmd, only)
      PROVE  SInv'
  BY <1>1, <1>4, StartWatch
<1>5. ASSUME NEW p \in Procs, Advance(p) PROVE SInv'
  <2>1. CASE ReadRequests(p) \/ ReadRows(p) \/ Select(p)
    BY <1>1, <2>1, ReadWatch, SelectWatch
  <2>2. CASE PassOver(p) \/ Expire(p)
    <3>1. rows' = rows
      BY <2>2 DEF PassOver, Expire, ExpireRequest, stores
    <3> QED
      BY <1>1, <2>2, <3>1, PassWatch
  <2>3. CASE TakeUp(p) \/ Draft(p) \/ Open(p)
    BY <1>1, <2>3, TakeUpWatch, DraftWatch, OpenWatch
  <2>4. CASE Finish(p)
    BY <1>1, <2>4, NothingScores, EndWatch DEF Finish, stores
  <2>5. CASE Call(p) \/ SkipCall(p) \/ Verify(p)
    BY <1>1, <2>5, CallWatch
  <2>6. CASE Close(p) \/ Settle(p) \/ UndoRow(p) \/ UndoRequest(p)
    BY <1>1, <2>6, FileWatch
  <2>7. CASE Packet(p)
    BY <1>1, <2>7, PacketWatch
  <2> QED
    BY <1>5, <2>1, <2>2, <2>3, <2>4, <2>5, <2>6, <2>7 DEF Advance
<1>6. ASSUME NEW p \in Procs, Fails(p) PROVE SInv'
  BY <1>1, <1>6, FailsWatch
<1> QED
  BY <1>2, <1>3, <1>4, <1>5, <1>6 DEF Next

LEMMA SerialInit ==
  ASSUME Init PROVE SInv
<1>1. rows = NoRows /\ proc = [p \in Procs |-> Idle]
  BY Zenon DEF Init
<1>2. ASSUME NEW x \in RowIds PROVE ~LiveSuccess(x)
  BY <1>1 DEF NoRows, NoRow, LiveSuccess
<1>3. ASSUME NEW p \in Procs PROVE ~LiveUnderWay(p)
  BY <1>1 DEF LiveUnderWay, Idle, At
<1>4. \A p \in Procs : Watches(p)
  BY <1>3 DEF Watches
<1>5. Alone /\ OneSuccessPerKey
  BY <1>2, <1>3 DEF Alone, OneSuccessPerKey
<1> QED
  BY <1>4, <1>5 DEF SInv

(***************************************************************************)
(* OneSuccessForEachKey: while operators keep live runs serial, two live   *)
(* executions with one idempotency key are never both recorded as          *)
(* succeeded, whatever fails and however many other commands run beside.   *)
(***************************************************************************)
THEOREM OneSuccessForEachKey ==
  ASSUME Serial PROVE Spec => []OneSuccessPerKey
<1>1. Init => SInv
  BY SerialInit
<1>2. IInv /\ SInv /\ [Next]_vars => SInv'
  BY SerialStep
<1>3. SInv => OneSuccessPerKey
  BY DEF SInv
<1> QED
  BY <1>1, <1>2, <1>3, Invariance, PTL DEF Spec
=============================================================================
