---------------------------- MODULE WebhookSpool ----------------------------
(***************************************************************************)
(* The webhook shadow loop: the receiver writes one spool file per request *)
(* (webhook-shadow-server.ts) and the drain turns every pending file into  *)
(* a Delivery, an External Signal Event and a Receipt page in Notion, may  *)
(* confirm an execution of the governed lane, and only then moves the file *)
(* to processed/ (webhook-shadow-drain.ts).                                *)
(*                                                                         *)
(* A page is created with its title alone and described by a second call,  *)
(* so a run that ends in between leaves a bare page behind.  Pages are     *)
(* never deleted: each data source is a sequence, a page's id its index.   *)
(***************************************************************************)
EXTENDS WebhookRecords

CONSTANTS
    Broken,         \* files whose body is not JSON
    Exact,          \* [Files -> SUBSET Executions]: same comment id
    Drainers,       \* drain processes
    MaxRuns,        \* bound: drain runs of a behaviour
    MaxCreations,   \* pages one create leaves when its answer is lost
    Serial,         \* operators run one drain at a time
    Events,         \* what may happen around the drain, see EventKinds
    None

EventKinds == {"crash", "torn", "lane"}

ASSUME FilesAssumption == IsFiniteSet(Files) /\ Files \subseteq Nat
ASSUME ValidAssumption == Signals \subseteq Valid /\ Valid \subseteq Files
ASSUME BrokenAssumption == Broken \subseteq Files
ASSUME MatchAssumption ==
    /\ Matches \in [Files -> SUBSET Executions]
    /\ Exact \in [Files -> SUBSET Executions]
    /\ \A f \in Files : /\ Exact[f] \subseteq Matches[f]
                        /\ Matches[f] # {} => f \in Signals
ASSUME BoundsAssumption == MaxRuns \in Nat /\ MaxCreations \in Nat \ {0}
ASSUME SerialAssumption == Serial \in BOOLEAN
ASSUME EventsAssumption == Events \subseteq EventKinds
ASSUME NoneAssumption == None \notin Ids \cup EventKeys \cup Files

VARIABLES
    runs,         \* drain runs started so far
    drain         \* the drain processes

records == <<deliveries, events, receipts>>
vars  == <<spool, records, exec, runs, drain>>

------------------------------------------------------------------------------
\* A file is opened empty before it is written; "gone" is in processed/.
SpoolStates == {"unsent", "torn", "pending", "gone"}

DeliveryRows ==
    [ id : Ids \cup {None}, count : Nat, event : Nat,
      verification : {"None", "Valid", "Invalid Signature"},
      status : {"None", "Verified", "Rejected", "Duplicate", "Processed"} ]

\* A page that has its title only.
BareDelivery == [id |-> None, count |-> 0, event |-> 0,
                 verification |-> "None", status |-> "None"]
BareReceipt  == [file |-> None, page |-> 0, duplicate |-> FALSE]

ReceiptRows == [file : Files \cup {None}, page : Nat, duplicate : BOOLEAN]

\* Of the lane's rows: Started rows whose run may still live or have died,
\* rows that succeeded, rows its catch block filed as Failed.
ExecutionRows ==
    [ status : {"Started", "Succeeded", "Failed"},
      reconcile : {"Pending", "Confirmed", "Mismatch"} ]

\* What a run keeps of a delivery page: its id and the count it last saw.
Known == [page : Nat, count : Nat]
NoCount == [page |-> 0, count |-> 0]

Pcs == {"idle", "load", "pick", "delivery", "describe", "event", "keyEvent",
        "receipt", "fileReceipt", "link", "reconcile", "rename"}

Reads == {"deliveries", "events", "executions"}

Processes ==
    [ pc : Pcs, got : SUBSET Reads, todo : SUBSET Files,
      file : Files \cup {None}, map : [Ids -> Known], keys : SUBSET EventKeys,
      waiting : SUBSET Executions, repeat : BOOLEAN, new : Nat, event : Nat ]

Idle == [ pc |-> "idle", got |-> {}, todo |-> {}, file |-> None,
          map |-> [i \in Ids |-> NoCount], keys |-> {}, waiting |-> {},
          repeat |-> FALSE, new |-> 0, event |-> 0 ]

Init ==
    /\ spool = [f \in Files |-> "unsent"]
    /\ deliveries = <<>> /\ events = <<>> /\ receipts = <<>>
    /\ exec \in [Executions -> {[status |-> s, reconcile |-> "Pending"] :
                                  s \in {"Started", "Succeeded"}}]
    /\ runs = 0
    /\ drain = [p \in Drainers |-> Idle]

------------------------------------------------------------------------------
(***************************************************************************)
(* The receiver.  Requests are handled concurrently: files appear in any   *)
(* order, and a receiver that dies while it writes leaves a torn file.     *)
(***************************************************************************)
Receive(f) ==
    /\ spool[f] = "unsent"
    /\ spool' = [spool EXCEPT ![f] = IF "torn" \in Events THEN "torn"
                                                          ELSE "pending"]
    /\ UNCHANGED <<records, exec, runs, drain>>

FinishWrite(f) ==
    /\ spool[f] = "torn"
    /\ spool' = [spool EXCEPT ![f] = "pending"]
    /\ UNCHANGED <<records, exec, runs, drain>>

\* The lane records its own result, or files its row as Failed after all.
LaneRecords(e) ==
    /\ "lane" \in Events
    /\ \/ /\ exec[e].status = "Started"
          /\ exec' = [exec EXCEPT ![e] = [status |-> "Succeeded",
                                          reconcile |-> "Pending"]]
       \/ /\ exec[e].status \in {"Started", "Succeeded"}
          /\ exec' = [exec EXCEPT ![e] = [status |-> "Failed",
                                          reconcile |-> "Mismatch"]]
    /\ UNCHANGED <<spool, records, runs, drain>>

------------------------------------------------------------------------------
At(p, pc) == drain[p].pc = pc
Goto(p, pc) == drain' = [drain EXCEPT ![p].pc = pc]
First(files) == CHOOSE f \in files : \A g \in files : f <= g
Spooled == {f \in Files : spool[f] \in {"torn", "pending"}}

\* readdir(pending), before anything is read from Notion.
Start(p) ==
    /\ At(p, "idle") /\ runs < MaxRuns
    /\ Serial => \A q \in Drainers : At(q, "idle")
    /\ runs' = runs + 1
    /\ drain' = [drain EXCEPT ![p] = [Idle EXCEPT !.pc = "load",
                                                 !.todo = Spooled]]
    /\ UNCHANGED <<spool, records, exec>>

Loaded(p, read, run) ==
    drain' = [drain EXCEPT ![p] =
                [run EXCEPT !.got = @ \cup {read},
                            !.pc = IF drain[p].got \cup {read} = Reads
                                   THEN "pick" ELSE "load"]]

\* The three reads that vary are issued together and land in any order.  Of
\* several pages with one delivery id, the last the query returns is kept.
ReadDeliveries(p) ==
    /\ At(p, "load") /\ "deliveries" \notin drain[p].got
    /\ \E map \in [Ids -> 0 .. Len(deliveries)] :
         /\ \A i \in Ids :
              IF \E d \in 1 .. Len(deliveries) : deliveries[d].id = i
              THEN map[i] > 0 /\ deliveries[map[i]].id = i
              ELSE map[i] = 0
         /\ Loaded(p, "deliveries",
              [drain[p] EXCEPT !.map = [i \in Ids |->
                 IF map[i] = 0 THEN NoCount
                 ELSE [page |-> map[i], count |-> deliveries[map[i]].count]]])
    /\ UNCHANGED <<spool, records, exec, runs>>

ReadEvents(p) ==
    /\ At(p, "load") /\ "events" \notin drain[p].got
    /\ Loaded(p, "events",
         [drain[p] EXCEPT !.keys = {k \in EventKeys :
                              \E n \in 1 .. Len(events) : events[n] = k}])
    /\ UNCHANGED <<spool, records, exec, runs>>

\* Live GitHub rows that succeeded and are not confirmed yet.
ReadExecutions(p) ==
    /\ At(p, "load") /\ "executions" \notin drain[p].got
    /\ Loaded(p, "executions",
         [drain[p] EXCEPT !.waiting = {e \in Executions :
            exec[e].status = "Succeeded" /\ exec[e].reconcile # "Confirmed"}])
    /\ UNCHANGED <<spool, records, exec, runs>>

------------------------------------------------------------------------------
(***************************************************************************)
(* One file.  A torn file, and a verified one whose body is not JSON, make *)
(* the drain throw; a file another drain has moved is passed over.         *)
(***************************************************************************)
Unreadable(f) == spool[f] = "torn" \/ f \in Valid \cap Broken

Current(p) == First(drain[p].todo)

Take(p) ==
    /\ At(p, "pick") /\ drain[p].todo # {}
    /\ spool[Current(p)] = "pending" /\ ~Unreadable(Current(p))
    /\ drain' = [drain EXCEPT ![p].pc = "delivery", ![p].file = Current(p),
           ![p].repeat = drain[p].map[Delivery[Current(p)]].page # 0,
           ![p].new = 0, ![p].event = 0]
    /\ UNCHANGED <<spool, records, exec, runs>>

PassOverAgain(p) ==
    /\ At(p, "pick") /\ drain[p].todo # {} /\ spool[Current(p)] = "gone"
    /\ UNCHANGED vars

PassOver(p) ==
    /\ At(p, "pick") /\ drain[p].todo # {} /\ spool[Current(p)] = "gone"
    /\ drain' = [drain EXCEPT ![p].todo = @ \ {Current(p)}]
    /\ UNCHANGED <<spool, records, exec, runs>>

Choke(p) ==
    /\ At(p, "pick") /\ drain[p].todo # {}
    /\ spool[Current(p)] # "gone" /\ Unreadable(Current(p))
    /\ drain' = [drain EXCEPT ![p] = Idle]
    /\ UNCHANGED <<spool, records, exec, runs>>

Finish(p) ==
    /\ At(p, "pick") /\ drain[p].todo = {}
    /\ drain' = [drain EXCEPT ![p] = Idle]
    /\ UNCHANGED <<spool, records, exec, runs>>

\* A create whose answer is lost is repeated by the HTTP client; the caller
\* learns the id of the last page.
Created(rows, bare, n) == rows \o [i \in 1 .. n |-> bare]

F(p) == drain[p].file
Id(p) == Delivery[F(p)]

CreateDelivery(p) ==
    /\ At(p, "delivery") /\ ~drain[p].repeat
    /\ \E n \in 1 .. MaxCreations :
         /\ deliveries' = Created(deliveries, BareDelivery, n)
         /\ drain' = [drain EXCEPT ![p].pc = "describe",
                                   ![p].new = Len(deliveries) + n]
    /\ UNCHANGED <<spool, events, receipts, exec, runs>>

DescribedByVerification(p) ==
    [ id |-> Id(p), count |-> 1, event |-> 0,
      verification |-> IF F(p) \in Valid THEN "Valid" ELSE "Invalid Signature",
      status |-> IF F(p) \in Valid THEN "Valid" ELSE "Invalid Signature" ]

Described(p) ==
    [ id |-> Id(p), count |-> 1, event |-> 0,
      verification |-> IF F(p) \in Valid THEN "Valid" ELSE "Invalid Signature",
      status |-> IF F(p) \in Valid THEN "Verified" ELSE "Rejected" ]

DescribeDelivery(p) ==
    /\ At(p, "describe")
    /\ deliveries' = [deliveries EXCEPT ![drain[p].new] = Described(p)]
    /\ drain' = [drain EXCEPT ![p].pc = "event",
           ![p].map[Id(p)] = [page |-> drain[p].new, count |-> 1]]
    /\ UNCHANGED <<spool, events, receipts, exec, runs>>

RepeatDeliveryUncounted(p) ==
    /\ At(p, "delivery") /\ drain[p].repeat
    /\ deliveries' = [deliveries EXCEPT ![drain[p].map[Id(p)].page].status =
                                                             "Duplicate"]
    /\ Goto(p, "event")
    /\ UNCHANGED <<spool, events, receipts, exec, runs>>

RepeatDelivery(p) ==
    LET known == drain[p].map[Id(p)] IN
    /\ At(p, "delivery") /\ drain[p].repeat
    /\ deliveries' = [deliveries EXCEPT ![known.page].status = "Duplicate",
                                        ![known.page].count = known.count + 1]
    /\ drain' = [drain EXCEPT ![p].pc = "event",
                              ![p].map[Id(p)].count = known.count + 1]
    /\ UNCHANGED <<spool, events, receipts, exec, runs>>

NewEventIfNewDelivery(p) ==
    F(p) \in Signals /\ Key[F(p)] \notin drain[p].keys /\ ~drain[p].repeat

NewEvent(p) == F(p) \in Signals /\ Key[F(p)] \notin drain[p].keys

CreateEventUnremembered(p) ==
    /\ At(p, "event") /\ NewEvent(p)
    /\ events' = Append(events, None)
    /\ drain' = [drain EXCEPT ![p].pc = "keyEvent",
                              ![p].event = Len(events) + 1]
    /\ UNCHANGED <<spool, deliveries, receipts, exec, runs>>

CreateEvent(p) ==
    /\ At(p, "event") /\ NewEvent(p)
    /\ \E n \in 1 .. MaxCreations :
         /\ events' = Created(events, None, n)
         /\ drain' = [drain EXCEPT ![p].pc = "keyEvent",
                                   ![p].event = Len(events) + n,
                                   ![p].keys = @ \cup {Key[F(p)]}]
    /\ UNCHANGED <<spool, deliveries, receipts, exec, runs>>

KeyEvent(p) ==
    /\ At(p, "keyEvent")
    /\ events' = [events EXCEPT ![drain[p].event] = Key[F(p)]]
    /\ Goto(p, "receipt")
    /\ UNCHANGED <<spool, deliveries, receipts, exec, runs>>

KeepEvent(p) ==
    /\ At(p, "event") /\ ~NewEvent(p)
    /\ Goto(p, "receipt")
    /\ UNCHANGED <<spool, records, exec, runs>>

CreateReceipt(p) ==
    /\ At(p, "receipt")
    /\ \E n \in 1 .. MaxCreations :
         /\ receipts' = Created(receipts, BareReceipt, n)
         /\ drain' = [drain EXCEPT ![p].pc = "fileReceipt",
                                   ![p].new = Len(receipts) + n]
    /\ UNCHANGED <<spool, deliveries, events, exec, runs>>

FileReceipt(p) ==
    /\ At(p, "fileReceipt")
    /\ receipts' = [receipts EXCEPT ![drain[p].new] =
           [ file |-> F(p), page |-> drain[p].map[Id(p)].page,
             duplicate |-> drain[p].repeat ]]
    /\ Goto(p, "link")
    /\ UNCHANGED <<spool, deliveries, events, exec, runs>>

LinkWithoutEvent(p) ==
    /\ At(p, "link")
    /\ deliveries' = [deliveries EXCEPT ![drain[p].map[Id(p)].page].status =
                                                             "Processed"]
    /\ Goto(p, "reconcile")
    /\ UNCHANGED <<spool, events, receipts, exec, runs>>

\* Only a run that created the event itself links the delivery to it.
Link(p) ==
    /\ At(p, "link")
    /\ LET page == drain[p].map[Id(p)].page IN
       deliveries' = IF drain[p].event = 0 THEN deliveries
                     ELSE [deliveries EXCEPT ![page].event = drain[p].event,
                                             ![page].status = "Processed"]
    /\ Goto(p, "reconcile")
    /\ UNCHANGED <<spool, events, receipts, exec, runs>>

\* The execution a webhook confirms: the exact comment, else any candidate.
AnyMatch(p) == Matches[F(p)]
Candidates(p) == Matches[F(p)] \cap drain[p].waiting
Confirms(p) == IF Exact[F(p)] \cap Candidates(p) # {}
               THEN Exact[F(p)] \cap Candidates(p) ELSE Candidates(p)

Reconcile(p) ==
    /\ At(p, "reconcile")
    /\ \/ \E e \in Confirms(p) :
            /\ exec' = [exec EXCEPT ![e].reconcile = "Confirmed"]
            /\ drain' = [drain EXCEPT ![p].pc = "rename",
                                      ![p].waiting = @ \ {e}]
       \/ /\ Confirms(p) = {}
          /\ Goto(p, "rename")
          /\ UNCHANGED exec
    /\ UNCHANGED <<spool, records, runs>>

\* ENOENT is tolerated: another drain moved the file first.
Rename(p) ==
    /\ At(p, "rename")
    /\ spool' = [spool EXCEPT ![F(p)] = "gone"]
    /\ drain' = [drain EXCEPT ![p].pc = "pick", ![p].file = None,
                              ![p].todo = @ \ {F(p)}]
    /\ UNCHANGED <<records, exec, runs>>

\* The process ends between two calls: it dies, or a call throws, which
\* nothing in the drain catches.  A write that threw although it took effect
\* is the write's own step followed by this one.
Dies(p) ==
    /\ "crash" \in Events
    /\ ~At(p, "idle")
    /\ drain' = [drain EXCEPT ![p] = Idle]
    /\ UNCHANGED <<spool, records, exec, runs>>

------------------------------------------------------------------------------
Advance(p) ==
    \/ ReadDeliveries(p) \/ ReadEvents(p) \/ ReadExecutions(p)
    \/ Take(p) \/ PassOver(p) \/ Choke(p) \/ Finish(p)
    \/ CreateDelivery(p) \/ DescribeDelivery(p) \/ RepeatDelivery(p)
    \/ CreateEvent(p) \/ KeyEvent(p) \/ KeepEvent(p)
    \/ CreateReceipt(p) \/ FileReceipt(p)
    \/ Link(p) \/ Reconcile(p) \/ Rename(p)

Next ==
    \/ \E f \in Files : Receive(f) \/ FinishWrite(f)
    \/ \E e \in Executions : LaneRecords(e)
    \/ \E p \in Drainers : Start(p) \/ Advance(p) \/ Dies(p)

Spec == Init /\ [][Next]_vars

\* A drain that was started is scheduled until it ends.
FairSpec == Spec /\ \A p \in Drainers : WF_vars(Advance(p))

------------------------------------------------------------------------------
\* TypeOK: the spool, the delivery rows and the drains have their type.
TypeOK ==
    /\ spool \in [Files -> SpoolStates]
    /\ deliveries \in Seq(DeliveryRows)
    /\ events \in Seq(EventKeys \cup {None})
    /\ receipts \in Seq(ReceiptRows)
    /\ exec \in [Executions -> ExecutionRows]
    /\ runs \in Nat
    /\ drain \in [Drainers -> Processes]

(***************************************************************************)
(* DrainsEnd: every started drain ends, and if nothing dies and every file *)
(* parses, each file it listed is in processed/ by then.                   *)
(***************************************************************************)
DrainsEnd ==
    \A p \in Drainers : \A f \in Files :
        f \in drain[p].todo ~> spool[f] = "gone" /\ At(p, "idle")

------------------------------------------------------------------------------
(***************************************************************************)
(* DuplicatesAreListed: tests/webhook-reconcile.test.ts has the reconcile  *)
(* command list duplicates among the deliveries that still need reconcile. *)
(* The command looks for them in Verification Result, see NeedsReconcile.  *)
(***************************************************************************)
NeedsReconcile(d) == \/ deliveries[d].status = "Failed"
                     \/ deliveries[d].verification = "Duplicate"

DuplicatesAreListed ==
    \A d \in 1 .. Len(deliveries) :
        deliveries[d].status = "Duplicate" => NeedsReconcile(d)
==============================================================================
