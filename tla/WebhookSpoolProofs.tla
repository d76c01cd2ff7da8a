-------------------------- MODULE WebhookSpoolProofs --------------------------
(***************************************************************************)
(* What the webhook drain guarantees for any spool files, deliveries, keys *)
(* and matches, any number of drains that overlap and die, torn files and  *)
(* a lane that files its rows meanwhile.                                   *)
(***************************************************************************)
EXTENDS WebhookSpool, TLAPS, WellFoundedInduction, FiniteSetTheorems

------------------------------------------------------------------------------
\* The drain takes the first of its files, and there is one.
LEMMA Least ==
  ASSUME NEW T \in SUBSET Nat, T # {}
  PROVE  \E x \in T : \A y \in T : x <= y
<1> DEFINE R == {ss \in Nat \X Nat : ss[1] < ss[2]}
<1>1. IsWellFoundedOn(R, Nat)
  BY NatLessThanWellFounded DEF OpToRel
<1>2. \A x, y \in Nat : <<y, x>> \in R <=> y < x
  OBVIOUS
<1> HIDE DEF R
<1>3. PICK x \in T : \A y \in T : ~(<<y, x>> \in R)
  BY <1>1, WFMin
<1>4. \A y \in T : ~(y < x)
  BY <1>2, <1>3
<1>5. \A y \in T : x <= y
  BY <1>4
<1> QED
  BY <1>5

LEMMA FirstIsOne ==
  ASSUME NEW T \in SUBSET Files, T # {}
  PROVE  First(T) \in T
<1>1. \E x \in T : \A y \in T : x <= y
  BY Least, FilesAssumption
<1> QED
  BY <1>1 DEF First

\* Pages that one create leaves behind the others.
LEMMA CreatedRows ==
  ASSUME NEW S, NEW rows \in Seq(S), NEW bare \in S, NEW n \in Nat
  PROVE  /\ Created(rows, bare, n) \in Seq(S)
         /\ Len(rows) \in Nat
         /\ Len(Created(rows, bare, n)) = Len(rows) + n
         /\ \A i \in 1 .. Len(rows) : Created(rows, bare, n)[i] = rows[i]
         /\ \A i \in Len(rows) + 1 .. Len(rows) + n :
              Created(rows, bare, n)[i] = bare
<1> DEFINE more == [i \in 1 .. n |-> bare]
<1>1. more \in Seq(S) /\ Len(more) = n /\ \A i \in 1 .. n : more[i] = bare
  OBVIOUS
<1> HIDE DEF more
<1>2. /\ rows \o more \in Seq(S) /\ Len(rows) \in Nat
      /\ Len(rows \o more) = Len(rows) + n
      /\ \A i \in 1 .. Len(rows) : (rows \o more)[i] = rows[i]
      /\ \A i \in Len(rows) + 1 .. Len(rows) + n :
           (rows \o more)[i] = more[i - Len(rows)]
  BY <1>1
<1>3. Created(rows, bare, n) = rows \o more
  BY DEF Created, more
<1> QED
  BY <1>1, <1>2, <1>3

LEMMA BareTypes ==
    BareDelivery \in DeliveryRows /\ BareReceipt \in ReceiptRows
BY DEF BareDelivery, DeliveryRows, BareReceipt, ReceiptRows

LEMMA IdsOfFiles ==
    \A f \in Files : Delivery[f] \in Ids /\ Key[f] \in EventKeys /\ f # None
                     /\ Delivery[f] # None /\ Key[f] # None
BY NoneAssumption DEF Ids, EventKeys

------------------------------------------------------------------------------
\* A step of a drain turns its record into another one.
Turns(p, n) == drain' = [drain EXCEPT ![p] = n]
Elsewhere(p) == \A q \in Drainers \ {p} : drain'[q] = drain[q]

LEMMA TurnStep ==
  ASSUME drain \in [Drainers -> Processes], NEW p \in Drainers,
         NEW n \in Processes, Turns(p, n)
  PROVE  /\ drain' \in [Drainers -> Processes] /\ drain'[p] = n /\ Elsewhere(p)
BY DEF Turns, Elsewhere

LEMMA IdleType == Idle \in Processes
BY DEF Idle, Processes, Pcs, Known, NoCount

LEMMA GotoType ==
  ASSUME NEW o \in Processes, NEW pc \in Pcs, NEW n, n = [o EXCEPT !.pc = pc]
  PROVE  /\ n \in Processes /\ n.pc = pc
         /\ n.map = o.map /\ n.keys = o.keys /\ n.waiting = o.waiting
         /\ n.file = o.file /\ n.new = o.new /\ n.event = o.event
         /\ n.got = o.got /\ n.todo = o.todo
BY DEF Processes

------------------------------------------------------------------------------
\* A receipt on file that points to the described delivery of f.
Filed(f, ds, rs) ==
    \E r \in DOMAIN rs : /\ rs[r].file = f /\ rs[r].page \in DOMAIN ds
                         /\ ds[rs[r].page].id = Delivery[f]

Keyed(k, es) == \E n \in DOMAIN es : es[n] = k

Working == {"delivery", "describe", "event", "keyEvent", "receipt",
            "fileReceipt", "link", "reconcile", "rename"}
BeforeEvent  == {"delivery", "describe", "event"}
AfterEvent   == {"receipt", "fileReceipt", "link", "reconcile", "rename"}
AfterReceipt == {"link", "reconcile", "rename"}

\* What a drain remembers of the pages is so; pages it has created and not
\* described yet are bare.
Knows(o, ds, es, rs, xs) ==
    /\ \A i \in Ids : o.map[i].page # 0 =>
         o.map[i].page \in DOMAIN ds /\ ds[o.map[i].page].id = i
    /\ \A k \in o.keys : Keyed(k, es) \/ (o.pc = "keyEvent" /\ k = Key[o.file])
    /\ \A e \in o.waiting : xs[e].status # "Started"
    /\ o.pc \in Working => o.file \in Files
    /\ o.pc = "delivery" /\ o.repeat => o.map[Delivery[o.file]].page # 0
    /\ o.pc = "describe" => o.new \in DOMAIN ds /\ ds[o.new] = BareDelivery
    /\ o.pc \in Working \ {"delivery", "describe"} => o.map[Delivery[o.file]].page # 0
    /\ o.pc \in BeforeEvent => o.event = 0
    /\ o.pc = "keyEvent" => /\ o.event \in DOMAIN es /\ es[o.event] = None
                            /\ o.file \in Signals
    /\ o.pc \in AfterEvent =>
         /\ o.file \in Signals => Keyed(Key[o.file], es)
         /\ o.event # 0 => /\ o.event \in DOMAIN es /\ es[o.event] = Key[o.file]
                           /\ o.file \in Signals
    /\ o.pc = "fileReceipt" => o.new \in DOMAIN rs /\ rs[o.new] = BareReceipt
    /\ o.pc \in AfterReceipt => Filed(o.file, ds, rs)

\* Two drains do not describe one page.
Apart(o, n) ==
    /\ o.pc = "describe" /\ n.pc = "describe" => o.new # n.new
    /\ o.pc = "keyEvent" /\ n.pc = "keyEvent" => o.event # n.event
    /\ o.pc = "fileReceipt" /\ n.pc = "fileReceipt" => o.new # n.new

\* What is on record.
Recorded ==
    \A f \in Files : spool[f] = "gone" =>
        Filed(f, deliveries, receipts) /\ (f \in Signals => Keyed(Key[f], events))

Linked ==
    \A d \in DOMAIN deliveries : deliveries[d].status = "Processed" =>
        \E f \in Signals : /\ Delivery[f] = deliveries[d].id
                           /\ deliveries[d].event \in DOMAIN events
                           /\ events[deliveries[d].event] = Key[f]

Evident ==
    \A e \in Executions : exec[e].reconcile = "Confirmed" =>
        /\ exec[e].status # "Started"
        /\ \E f \in Valid : e \in Matches[f] /\ Filed(f, deliveries, receipts)

Honest ==
    /\ \A p \in Drainers : Knows(drain[p], deliveries, events, receipts, exec)
    /\ \A p, q \in Drainers : p # q => Apart(drain[p], drain[q])
    /\ Recorded /\ Linked /\ Evident

------------------------------------------------------------------------------
\* Pages only come, and what is described stays described; a lane's row does
\* not start again.
Grows ==
    /\ \A d \in DOMAIN deliveries : /\ d \in DOMAIN deliveries'
                                    /\ deliveries[d].id # None =>
                                         deliveries'[d].id = deliveries[d].id
    /\ \A n \in DOMAIN events : /\ n \in DOMAIN events'
                                /\ events[n] # None => events'[n] = events[n]
    /\ \A r \in DOMAIN receipts : /\ r \in DOMAIN receipts'
                                  /\ receipts[r].file # None =>
                                       receipts'[r] = receipts[r]
    /\ \A e \in Executions :
         exec[e].status # "Started" => exec'[e].status # "Started"

\* The bare page in the hands of a drain is left alone.
Spares(o) ==
    /\ o.pc = "describe" /\ o.new \in DOMAIN deliveries =>
         deliveries'[o.new] = deliveries[o.new]
    /\ o.pc = "keyEvent" /\ o.event \in DOMAIN events =>
         events'[o.event] = events[o.event]
    /\ o.pc = "fileReceipt" /\ o.new \in DOMAIN receipts =>
         receipts'[o.new] = receipts[o.new]

LEMMA FiledOn ==
  ASSUME Grows, NEW f \in Files, Filed(f, deliveries, receipts)
  PROVE  Filed(f, deliveries', receipts')
BY IdsOfFiles DEF Grows, Filed

LEMMA KeyedOn ==
  ASSUME Grows, NEW k \in EventKeys, Keyed(k, events)
  PROVE  Keyed(k, events')
BY NoneAssumption DEF Grows, Keyed

\* The memory of a drain outlives the writes of all.
LEMMA MemoryOn ==
  ASSUME Grows, NEW o \in Processes, Knows(o, deliveries, events, receipts, exec)
  PROVE  /\ \A i \in Ids : o.map[i].page # 0 =>
              o.map[i].page \in DOMAIN deliveries' /\ deliveries'[o.map[i].page].id = i
         /\ \A k \in o.keys : Keyed(k, events') \/ (o.pc = "keyEvent" /\ k = Key[o.file])
         /\ \A e \in o.waiting : exec'[e].status # "Started"
<1>1. \A i \in Ids : o.map[i].page # 0 =>
        o.map[i].page \in DOMAIN deliveries' /\ deliveries'[o.map[i].page].id = i
  BY NoneAssumption DEF Knows, Grows
<1>2. \A k \in o.keys : Keyed(k, events') \/ (o.pc = "keyEvent" /\ k = Key[o.file])
  BY KeyedOn DEF Knows, Processes
<1>3. \A e \in o.waiting : exec'[e].status # "Started"
  BY DEF Knows, Grows, Processes
<1> QED
  BY <1>1, <1>2, <1>3

LEMMA KnowsOn ==
  ASSUME Grows, NEW o \in Processes, Spares(o),
         Knows(o, deliveries, events, receipts, exec)
  PROVE  Knows(o, deliveries', events', receipts', exec')
<1>1. /\ \A i \in Ids : o.map[i].page # 0 =>
           o.map[i].page \in DOMAIN deliveries' /\ deliveries'[o.map[i].page].id = i
      /\ \A k \in o.keys : Keyed(k, events') \/ (o.pc = "keyEvent" /\ k = Key[o.file])
      /\ \A e \in o.waiting : exec'[e].status # "Started"
  BY MemoryOn
<1>4. o.pc \in Working => o.file \in Files
  BY DEF Knows
<1>5. /\ o.pc = "delivery" /\ o.repeat => o.map[Delivery[o.file]].page # 0
      /\ o.pc \in Working \ {"delivery", "describe"} => o.map[Delivery[o.file]].page # 0
      /\ o.pc \in BeforeEvent => o.event = 0
  BY DEF Knows
<1>6. o.pc = "describe" => o.new \in DOMAIN deliveries' /\ deliveries'[o.new] = BareDelivery
  BY DEF Knows, Grows, Spares
<1>7. o.pc = "keyEvent" => /\ o.event \in DOMAIN events' /\ events'[o.event] = None
                           /\ o.file \in Signals
  BY DEF Knows, Grows, Spares
<1>8. o.pc \in AfterEvent =>
         /\ o.file \in Signals => Keyed(Key[o.file], events')
         /\ o.event # 0 => /\ o.event \in DOMAIN events' /\ events'[o.event] = Key[o.file]
                           /\ o.file \in Signals
  <2> SUFFICES ASSUME o.pc \in AfterEvent
               PROVE  /\ o.file \in Signals => Keyed(Key[o.file], events')
                      /\ o.event # 0 => /\ o.event \in DOMAIN events'
                                        /\ events'[o.event] = Key[o.file]
                                        /\ o.file \in Signals
    OBVIOUS
  <2>1. o.file \in Files
    BY <1>4 DEF AfterEvent, Working
  <2>2. Key[o.file] \in EventKeys /\ Key[o.file] # None
    BY <2>1, IdsOfFiles
  <2> QED
    BY <2>2, KeyedOn DEF Knows, Grows
<1>9. o.pc = "fileReceipt" => o.new \in DOMAIN receipts' /\ receipts'[o.new] = BareReceipt
  BY DEF Knows, Grows, Spares
<1>10. o.pc \in AfterReceipt => Filed(o.file, deliveries', receipts')
  BY <1>4, FiledOn DEF Knows, AfterReceipt, Working
<1> QED
  BY <1>1, <1>4, <1>5, <1>6, <1>7, <1>8, <1>9, <1>10 DEF Knows

LEMMA RecordedOn == ASSUME Grows, Recorded, UNCHANGED spool PROVE Recorded'
BY FiledOn, KeyedOn, IdsOfFiles DEF Recorded

LEMMA EvidentOn == ASSUME Grows, Evident, UNCHANGED exec PROVE Evident'
BY FiledOn, ValidAssumption DEF Evident

\* A step of a drain.
LEMMA HonestStep ==
  ASSUME TypeOK, Honest, NEW p \in Drainers, NEW n \in Processes, Turns(p, n), Grows,
         \A q \in Drainers \ {p} : Spares(drain[q]),
         Knows(n, deliveries', events', receipts', exec'),
         \A q \in Drainers \ {p} : Apart(n, drain[q]) /\ Apart(drain[q], n),
         Recorded', Linked', Evident'
  PROVE  Honest' /\ drain' \in [Drainers -> Processes]
<1>1. drain \in [Drainers -> Processes]
  BY DEF TypeOK
<1>2. drain' \in [Drainers -> Processes] /\ drain'[p] = n /\ Elsewhere(p)
  BY <1>1, TurnStep
<1>3. ASSUME NEW q \in Drainers
      PROVE  Knows(drain'[q], deliveries', events', receipts', exec')
  <2>1. CASE q = p
    BY <1>2, <2>1
  <2>2. CASE q # p
    <3>1. drain'[q] = drain[q]
      BY <1>2, <2>2 DEF Elsewhere
    <3>2. Knows(drain[q], deliveries, events, receipts, exec) /\ drain[q] \in Processes
      BY <1>1 DEF Honest
    <3>3. Spares(drain[q])
      BY <2>2
    <3>4. PICK o : o = drain[q]
      OBVIOUS
    <3>5. Knows(o, deliveries', events', receipts', exec')
      BY <3>2, <3>3, <3>4, KnowsOn
    <3> QED
      BY <3>1, <3>4, <3>5
  <2> QED
    BY <2>1, <2>2
<1>4. ASSUME NEW q \in Drainers, NEW r \in Drainers, q # r
      PROVE  Apart(drain'[q], drain'[r])
  BY <1>2, <1>4 DEF Honest, Elsewhere
<1> QED
  BY <1>2, <1>3, <1>4 DEF Honest

\* One that neither writes nor holds a bare page.
LEMMA QuietStep ==
  ASSUME TypeOK, Honest, NEW p \in Drainers, NEW n \in Processes, Turns(p, n),
         UNCHANGED <<spool, records, exec, runs>>,
         Knows(n, deliveries, events, receipts, exec),
         n.pc \notin {"describe", "keyEvent", "fileReceipt"}
  PROVE  Honest' /\ TypeOK'
<1>1. /\ deliveries' = deliveries /\ events' = events /\ receipts' = receipts
      /\ exec' = exec /\ spool' = spool /\ runs' = runs
  BY DEF records
<1>2. Grows /\ \A q \in Drainers : Spares(drain[q])
  BY <1>1 DEF Grows, Spares
<1>3. \A q \in Drainers \ {p} : Apart(n, drain[q]) /\ Apart(drain[q], n)
  BY DEF Apart
<1>4. Recorded' /\ Linked' /\ Evident'
  BY <1>1 DEF Honest, Recorded, Linked, Evident
<1>5. Honest' /\ drain' \in [Drainers -> Processes]
  BY <1>1, <1>2, <1>3, <1>4, HonestStep
<1> QED
  BY <1>1, <1>5 DEF TypeOK

------------------------------------------------------------------------------
\* Start, listing and reading.
LEMMA RestHonest ==
  ASSUME TypeOK, Honest, NEW p \in Drainers, Choke(p) \/ Finish(p) \/ Dies(p)
  PROVE  Honest' /\ TypeOK'
<1>1. Turns(p, Idle) /\ UNCHANGED <<spool, records, exec, runs>>
  BY DEF Choke, Finish, Dies, Turns
<1>2. Knows(Idle, deliveries, events, receipts, exec)
  BY DEF Knows, Idle, NoCount, Working, BeforeEvent, AfterEvent, AfterReceipt
<1>3. Idle.pc = "idle"
  BY DEF Idle
<1> QED
  BY <1>1, <1>2, <1>3, IdleType, QuietStep

LEMMA StartHonest ==
  ASSUME TypeOK, Honest, NEW p \in Drainers, Start(p)
  PROVE  Honest' /\ TypeOK'
<1>1. PICK n, todo : /\ todo = Spooled /\ Turns(p, n)
                     /\ n = [Idle EXCEPT !.pc = "load", !.todo = todo]
  BY DEF Start, Turns
<1>2. todo \in SUBSET Files
  BY <1>1 DEF Spooled
<1>3. n \in Processes /\ n.pc = "load" /\ n.keys = {} /\ n.waiting = {}
      /\ \A i \in Ids : n.map[i].page = 0
  BY <1>1, <1>2 DEF Idle, Processes, Pcs, Known, NoCount
<1>4. Knows(n, deliveries, events, receipts, exec)
  BY <1>3 DEF Knows, Working, BeforeEvent, AfterEvent, AfterReceipt
<1>5. /\ deliveries' = deliveries /\ events' = events /\ receipts' = receipts
      /\ exec' = exec /\ spool' = spool /\ runs' \in Nat
  BY DEF Start, records, TypeOK
<1>6. Grows /\ \A q \in Drainers : Spares(drain[q])
  BY <1>5 DEF Grows, Spares
<1>7. \A q \in Drainers \ {p} : Apart(n, drain[q]) /\ Apart(drain[q], n)
  BY <1>3 DEF Apart
<1>8. Recorded' /\ Linked' /\ Evident'
  BY <1>5 DEF Honest, Recorded, Linked, Evident
<1>9. Honest' /\ drain' \in [Drainers -> Processes]
  BY <1>1, <1>3, <1>4, <1>5, <1>6, <1>7, <1>8, HonestStep
<1> QED
  BY <1>5, <1>9 DEF TypeOK

\* What a read brings is so when it comes.
LEMMA ReadHonest ==
  ASSUME TypeOK, Honest, NEW p \in Drainers,
         NEW read \in Reads, NEW run \in Processes, Loaded(p, read, run),
         UNCHANGED <<spool, records, exec, runs>>,
         \A i \in Ids : run.map[i].page # 0 =>
           /\ run.map[i].page \in DOMAIN deliveries
           /\ deliveries[run.map[i].page].id = i,
         \A k \in run.keys : Keyed(k, events),
         \A e \in run.waiting : exec[e].status # "Started"
  PROVE  Honest' /\ TypeOK'
<1>1. PICK pc, got : /\ pc = IF drain[p].got \cup {read} = Reads THEN "pick" ELSE "load"
                     /\ got = run.got \cup {read}
  OBVIOUS
<1>2. PICK n : n = [run EXCEPT !.got = got, !.pc = pc] /\ Turns(p, n)
  BY <1>1 DEF Loaded, Turns
<1>3. pc \in {"pick", "load"} /\ got \in SUBSET Reads
  BY <1>1 DEF Processes
<1>4. n \in Processes /\ n.pc = pc /\ n.map = run.map /\ n.keys = run.keys
      /\ n.waiting = run.waiting
  BY <1>2, <1>3 DEF Processes, Pcs
<1>5. Knows(n, deliveries, events, receipts, exec)
  BY <1>3, <1>4 DEF Knows, Working, BeforeEvent, AfterEvent, AfterReceipt
<1> QED
  BY <1>2, <1>3, <1>4, <1>5, QuietStep

LEMMA LoadHonest ==
  ASSUME TypeOK, Honest, NEW p \in Drainers,
         ReadDeliveries(p) \/ ReadEvents(p) \/ ReadExecutions(p)
  PROVE  Honest' /\ TypeOK'
<1>1. /\ drain[p] \in Processes /\ drain[p].pc = "load"
      /\ UNCHANGED <<spool, records, exec, runs>>
      /\ deliveries \in Seq(DeliveryRows)
  BY DEF TypeOK, ReadDeliveries, ReadEvents, ReadExecutions, At
<1>2. /\ \A i \in Ids : drain[p].map[i].page # 0 =>
           /\ drain[p].map[i].page \in DOMAIN deliveries
           /\ deliveries[drain[p].map[i].page].id = i
      /\ \A k \in drain[p].keys : Keyed(k, events)
      /\ \A e \in drain[p].waiting : exec[e].status # "Started"
  BY <1>1 DEF Honest, Knows
<1>3. CASE ReadDeliveries(p)
  <2>1. PICK map \in [Ids -> 0 .. Len(deliveries)] :
          /\ \A i \in Ids : map[i] # 0 => deliveries[map[i]].id = i
          /\ Loaded(p, "deliveries",
               [drain[p] EXCEPT !.map = [i \in Ids |->
                  IF map[i] = 0 THEN NoCount
                  ELSE [page |-> map[i], count |-> deliveries[map[i]].count]]])
    BY <1>3 DEF ReadDeliveries
  <2>2. PICK known : known = [i \in Ids |->
                  IF map[i] = 0 THEN NoCount
                  ELSE [page |-> map[i], count |-> deliveries[map[i]].count]]
    OBVIOUS
  <2>3. \A i \in Ids : map[i] # 0 => deliveries[map[i]] \in DeliveryRows
    BY <1>1
  <2>4. ASSUME NEW i \in Ids
        PROVE  /\ known[i] \in Known
               /\ known[i].page = map[i]
    <3>1. map[i] # 0 => deliveries[map[i]].count \in Nat
      BY <2>3 DEF DeliveryRows
    <3> QED
      BY <1>1, <2>2, <3>1 DEF Known, NoCount
  <2>5. known \in [Ids -> Known]
    BY <2>2, <2>4
  <2>6. PICK run : run = [drain[p] EXCEPT !.map = known]
    OBVIOUS
  <2>7. /\ run \in Processes /\ run.map = known /\ run.keys = drain[p].keys
        /\ run.waiting = drain[p].waiting
    BY <1>1, <2>5, <2>6 DEF Processes
  <2>8. Loaded(p, "deliveries", run)
    BY <2>1, <2>2, <2>6
  <2>9. \A i \in Ids : run.map[i].page # 0 =>
           /\ run.map[i].page \in DOMAIN deliveries
           /\ deliveries[run.map[i].page].id = i
    BY <1>1, <2>1, <2>4, <2>7
  <2> QED
    BY <1>1, <1>2, <2>7, <2>8, <2>9, ReadHonest DEF Reads
<1>4. CASE ReadEvents(p)
  <2>1. PICK keys : keys = {k \in EventKeys :
                              \E n \in 1 .. Len(events) : events[n] = k}
    OBVIOUS
  <2>2. PICK run : run = [drain[p] EXCEPT !.keys = keys]
    OBVIOUS
  <2>3. keys \in SUBSET EventKeys /\ \A k \in keys : Keyed(k, events)
    BY <2>1 DEF TypeOK, Keyed
  <2>4. /\ run \in Processes /\ run.keys = keys /\ run.map = drain[p].map
        /\ run.waiting = drain[p].waiting
    BY <1>1, <2>2, <2>3 DEF Processes
  <2>5. Loaded(p, "events", run)
    BY <1>4, <2>1, <2>2 DEF ReadEvents
  <2> QED
    BY <1>1, <1>2, <2>3, <2>4, <2>5, ReadHonest DEF Reads
<1>5. CASE ReadExecutions(p)
  <2>1. PICK waiting : waiting = {e \in Executions :
            exec[e].status = "Succeeded" /\ exec[e].reconcile # "Confirmed"}
    OBVIOUS
  <2>2. PICK run : run = [drain[p] EXCEPT !.waiting = waiting]
    OBVIOUS
  <2>3. waiting \in SUBSET Executions /\ \A e \in waiting : exec[e].status # "Started"
    BY <2>1
  <2>4. /\ run \in Processes /\ run.waiting = waiting /\ run.map = drain[p].map
        /\ run.keys = drain[p].keys
    BY <1>1, <2>2, <2>3 DEF Processes
  <2>5. Loaded(p, "executions", run)
    BY <1>5, <2>1, <2>2 DEF ReadExecutions
  <2> QED
    BY <1>1, <1>2, <2>3, <2>4, <2>5, ReadHonest DEF Reads
<1> QED
  BY <1>3, <1>4, <1>5

LEMMA PickHonest ==
  ASSUME TypeOK, Honest, NEW p \in Drainers, Take(p) \/ PassOver(p)
  PROVE  Honest' /\ TypeOK'
<1>0. PICK o : o = drain[p]
  OBVIOUS
<1>1. /\ o \in Processes /\ o.pc = "pick" /\ o.todo # {} /\ o.todo \in SUBSET Files
      /\ UNCHANGED <<spool, records, exec, runs>>
      /\ Knows(o, deliveries, events, receipts, exec)
  BY <1>0 DEF TypeOK, Take, PassOver, At, Honest, Processes
<1>2. PICK f \in o.todo : f = Current(p)
  BY <1>0, <1>1, FirstIsOne DEF Current
<1>3. CASE Take(p)
  <2> DEFINE again == drain[p].map[Delivery[Current(p)]].page # 0
  <2>1. PICK n : n = [o EXCEPT !.pc = "delivery", !.file = f, !.repeat = again,
                               !.new = 0, !.event = 0]
    OBVIOUS
  <2>7. Turns(p, n)
    <3>1. drain' = [drain EXCEPT ![p].pc = "delivery", ![p].file = Current(p),
                      ![p].repeat = again, ![p].new = 0, ![p].event = 0]
      BY <1>3, Zenon DEF Take
    <3> HIDE DEF again
    <3> QED
      BY <1>0, <1>2, <2>1, <3>1 DEF Turns
  <2>2. again \in BOOLEAN
    OBVIOUS
  <2>3. again => o.map[Delivery[f]].page # 0
    BY <1>0, <1>2
  <2> HIDE DEF again
  <2>4. /\ n \in Processes /\ n.pc = "delivery" /\ n.file = f /\ n.repeat = again
        /\ n.event = 0 /\ n.map = o.map /\ n.keys = o.keys /\ n.waiting = o.waiting
    <3>1. f \in Files /\ o \in Processes
      BY <1>1
    <3>2. n.repeat = again
      BY <2>1, <3>1, Zenon DEF Processes
    <3>3. /\ n \in Processes /\ n.pc = "delivery" /\ n.file = f
          /\ n.event = 0 /\ n.map = o.map /\ n.keys = o.keys /\ n.waiting = o.waiting
      BY <2>1, <2>2, <3>1 DEF Processes, Pcs
    <3> QED
      BY <3>2, <3>3
  <2>5. n.repeat => n.map[Delivery[n.file]].page # 0
    BY <2>3, <2>4, Zenon
  <2>6. Knows(n, deliveries, events, receipts, exec)
    BY <1>1, <2>4, <2>5 DEF Knows, Working, BeforeEvent, AfterEvent, AfterReceipt
  <2> QED
    BY <1>1, <2>4, <2>6, <2>7, QuietStep
<1>4. CASE PassOver(p)
  <2>1. PICK n : n = [o EXCEPT !.todo = o.todo \ {f}] /\ Turns(p, n)
    BY <1>0, <1>2, <1>4 DEF PassOver, Turns
  <2>2. /\ n \in Processes /\ n.pc = "pick" /\ n.map = o.map /\ n.keys = o.keys
        /\ n.waiting = o.waiting
    BY <1>1, <2>1 DEF Processes
  <2>3. Knows(n, deliveries, events, receipts, exec)
    BY <1>1, <2>2 DEF Knows, Working, BeforeEvent, AfterEvent, AfterReceipt
  <2> QED
    BY <1>1, <2>1, <2>2, <2>3, QuietStep
<1> QED
  BY <1>3, <1>4

LEMMA KeepHonest ==
  ASSUME TypeOK, Honest, NEW p \in Drainers, KeepEvent(p)
  PROVE  Honest' /\ TypeOK'
<1>1. PICK o, n : o = drain[p] /\ n = [o EXCEPT !.pc = "receipt"]
  OBVIOUS
<1>2. /\ o \in Processes /\ o.pc = "event" /\ Turns(p, n)
      /\ UNCHANGED <<spool, records, exec, runs>>
      /\ Knows(o, deliveries, events, receipts, exec)
      /\ o.file \in Signals => Key[o.file] \in o.keys
  BY <1>1 DEF TypeOK, KeepEvent, At, Honest, Goto, Turns, NewEvent, F
<1>3. /\ n \in Processes /\ n.pc = "receipt" /\ n.map = o.map /\ n.keys = o.keys
      /\ n.waiting = o.waiting /\ n.file = o.file /\ n.event = o.event
  BY <1>1, <1>2, GotoType DEF Pcs
<1>4. Knows(n, deliveries, events, receipts, exec)
  BY <1>2, <1>3 DEF Knows, Working, BeforeEvent, AfterEvent, AfterReceipt
<1> QED
  BY <1>2, <1>3, <1>4, QuietStep

------------------------------------------------------------------------------
\* Writes to the deliveries.
LEMMA DeliveryStep ==
  ASSUME TypeOK, Honest, NEW p \in Drainers, NEW n \in Processes, Turns(p, n),
         UNCHANGED <<spool, events, receipts, exec, runs>>,
         deliveries' \in Seq(DeliveryRows), Grows, Linked',
         \A q \in Drainers \ {p} : Spares(drain[q]),
         n.pc \notin {"keyEvent", "fileReceipt"},
         n.pc = "describe" =>
           \A q \in Drainers \ {p} : drain[q].pc = "describe" => drain[q].new # n.new,
         Knows(n, deliveries', events', receipts', exec')
  PROVE  Honest' /\ TypeOK'
<1>1. \A q \in Drainers \ {p} : Apart(n, drain[q]) /\ Apart(drain[q], n)
  BY DEF Apart
<1>2. Recorded' /\ Evident'
  BY RecordedOn, EvidentOn DEF Honest
<1>3. Honest' /\ drain' \in [Drainers -> Processes]
  BY <1>1, <1>2, HonestStep
<1> QED
  BY <1>3 DEF TypeOK

LEMMA CreateDeliveryHonest ==
  ASSUME TypeOK, Honest, NEW p \in Drainers, CreateDelivery(p)
  PROVE  Honest' /\ TypeOK'
<1>1. PICK k \in 1 .. MaxCreations :
         /\ deliveries' = Created(deliveries, BareDelivery, k)
         /\ drain' = [drain EXCEPT ![p].pc = "describe",
                                   ![p].new = Len(deliveries) + k]
  BY DEF CreateDelivery
<1>2. PICK o, m, n : /\ o = drain[p] /\ m = Len(deliveries) + k
                     /\ n = [o EXCEPT !.pc = "describe", !.new = m]
  OBVIOUS
<1>3. /\ o \in Processes /\ o.pc = "delivery" /\ deliveries \in Seq(DeliveryRows)
      /\ Knows(o, deliveries, events, receipts, exec) /\ Turns(p, n)
      /\ UNCHANGED <<spool, events, receipts, exec, runs>>
  BY <1>1, <1>2 DEF TypeOK, CreateDelivery, At, Honest, Turns
<1>4. k \in Nat /\ k > 0
  BY BoundsAssumption
<1>5. /\ deliveries' \in Seq(DeliveryRows)
      /\ Len(deliveries) \in Nat /\ Len(deliveries') = Len(deliveries) + k
      /\ \A i \in 1 .. Len(deliveries) : deliveries'[i] = deliveries[i]
      /\ \A i \in Len(deliveries) + 1 .. Len(deliveries) + k :
           deliveries'[i] = BareDelivery
  BY <1>1, <1>3, <1>4, BareTypes, CreatedRows
<1>6. /\ DOMAIN deliveries = 1 .. Len(deliveries)
      /\ DOMAIN deliveries' = 1 .. Len(deliveries) + k
      /\ m \in Nat /\ m \in DOMAIN deliveries' /\ deliveries'[m] = BareDelivery
  BY <1>2, <1>3, <1>4, <1>5
<1>7. Grows
  BY <1>3, <1>4, <1>5, <1>6 DEF Grows
<1>8. \A q \in Drainers : Spares(drain[q])
  BY <1>3, <1>5, <1>6 DEF Spares
<1>9. Linked'
  BY <1>3, <1>5, <1>6, SMTT(60) DEF Honest, Linked, BareDelivery
<1>10. /\ n \in Processes /\ n.pc = "describe" /\ n.new = m /\ n.map = o.map
       /\ n.keys = o.keys /\ n.waiting = o.waiting /\ n.file = o.file
       /\ n.event = o.event
  BY <1>2, <1>3, <1>6 DEF Processes, Pcs
<1>11. \A q \in Drainers \ {p} : drain[q].pc = "describe" => drain[q].new # n.new
  <2>1. \A q \in Drainers : drain[q].pc = "describe" => drain[q].new \in DOMAIN deliveries
    BY DEF Honest, Knows
  <2> QED
    BY <1>2, <1>4, <1>5, <1>6, <1>10, <2>1
<1>12. Knows(n, deliveries', events', receipts', exec')
  <2>1. /\ \A i \in Ids : o.map[i].page # 0 =>
             o.map[i].page \in DOMAIN deliveries' /\ deliveries'[o.map[i].page].id = i
        /\ \A j \in o.keys : Keyed(j, events')
        /\ \A e \in o.waiting : exec'[e].status # "Started"
    BY <1>3, <1>7, MemoryOn
  <2>2. o.file \in Files /\ o.event = 0
    BY <1>3 DEF Knows, Working, BeforeEvent
  <2> QED
    BY <1>6, <1>10, <2>1, <2>2 DEF Knows, Working, AfterEvent, AfterReceipt
<1> QED
  BY <1>3, <1>5, <1>7, <1>8, <1>9, <1>10, <1>11, <1>12, DeliveryStep

LEMMA DescribeHonest ==
  ASSUME TypeOK, Honest, NEW p \in Drainers, DescribeDelivery(p)
  PROVE  Honest' /\ TypeOK'
<1>1. PICK o, id, new, row, map, n :
        /\ o = drain[p] /\ id = Id(p) /\ new = drain[p].new /\ row = Described(p)
        /\ map = [o.map EXCEPT ![id] = [page |-> new, count |-> 1]]
        /\ n = [o EXCEPT !.pc = "event", !.map = map]
  OBVIOUS
<1>2. /\ o \in Processes /\ o.pc = "describe" /\ deliveries \in Seq(DeliveryRows)
      /\ Knows(o, deliveries, events, receipts, exec)
      /\ UNCHANGED <<spool, events, receipts, exec, runs>>
      /\ deliveries' = [deliveries EXCEPT ![new] = row]
      /\ o.map \in [Ids -> Known]
  BY <1>1 DEF TypeOK, DescribeDelivery, At, Honest, Processes
<1>3. Turns(p, n)
  <2>1. drain' = [drain EXCEPT ![p].pc = "event", ![p].map[id] = [page |-> new, count |-> 1]]
    BY <1>1 DEF DescribeDelivery
  <2> QED
    BY <1>1, <2>1 DEF Turns
<1>4. /\ o.file \in Files /\ new \in DOMAIN deliveries
      /\ deliveries[new] = BareDelivery /\ o.event = 0
  BY <1>1, <1>2 DEF Knows, Working, BeforeEvent
<1>5. /\ id = Delivery[o.file] /\ id \in Ids /\ id # None
      /\ row \in DeliveryRows /\ row.id = id /\ row.status \in {"Verified", "Rejected"}
  <2>1. id = Delivery[o.file] /\ id \in Ids /\ id # None
    BY <1>1, <1>4, IdsOfFiles DEF Id, F
  <2>2. row = [ id |-> id, count |-> 1, event |-> 0,
                verification |-> IF o.file \in Valid THEN "Valid" ELSE "Invalid Signature",
                status |-> IF o.file \in Valid THEN "Verified" ELSE "Rejected" ]
    BY <1>1 DEF Described, F
  <2> QED
    BY <2>1, <2>2 DEF DeliveryRows
<1>6. /\ DOMAIN deliveries' = DOMAIN deliveries /\ deliveries'[new] = row
      /\ \A d \in DOMAIN deliveries \ {new} : deliveries'[d] = deliveries[d]
      /\ deliveries' \in Seq(DeliveryRows) /\ new \in Nat
  BY <1>2, <1>4, <1>5
<1>7. Grows
  BY <1>2, <1>4, <1>6 DEF Grows, BareDelivery
<1>8. \A q \in Drainers \ {p} : Spares(drain[q])
  BY <1>1, <1>2, <1>6 DEF Spares, Honest, Apart
<1>9. Linked'
  BY <1>2, <1>5, <1>6 DEF Honest, Linked
<1>10. /\ map \in [Ids -> Known] /\ map[id].page = new
       /\ \A i \in Ids \ {id} : map[i] = o.map[i]
  BY <1>1, <1>2, <1>5, <1>6 DEF Known
<1>11. /\ n \in Processes /\ n.pc = "event" /\ n.map = map
       /\ n.keys = o.keys /\ n.waiting = o.waiting /\ n.file = o.file
       /\ n.event = o.event
  BY <1>1, <1>2, <1>10 DEF Processes, Pcs
<1>12. Knows(n, deliveries', events', receipts', exec')
  <2>1. /\ \A i \in Ids : o.map[i].page # 0 =>
             o.map[i].page \in DOMAIN deliveries' /\ deliveries'[o.map[i].page].id = i
        /\ \A j \in o.keys : Keyed(j, events')
        /\ \A e \in o.waiting : exec'[e].status # "Started"
    BY <1>2, <1>7, MemoryOn
  <2>2. \A i \in Ids : map[i].page # 0 =>
             map[i].page \in DOMAIN deliveries' /\ deliveries'[map[i].page].id = i
    BY <1>4, <1>5, <1>6, <1>10, <2>1
  <2>3. map[id].page # 0
    BY <1>2, <1>4, <1>10
  <2> QED
    BY <1>4, <1>5, <1>11, <2>1, <2>2, <2>3
       DEF Knows, Working, AfterEvent, AfterReceipt
<1> QED
  BY <1>2, <1>3, <1>6, <1>7, <1>8, <1>9, <1>11, <1>12, DeliveryStep

LEMMA RepeatHonest ==
  ASSUME TypeOK, Honest, NEW p \in Drainers, RepeatDelivery(p)
  PROVE  Honest' /\ TypeOK'
<1>1. PICK o, id, page, count, map, n :
        /\ o = drain[p] /\ id = Id(p) /\ page = o.map[id].page
        /\ count = o.map[id].count + 1
        /\ map = [o.map EXCEPT ![id] = [o.map[id] EXCEPT !.count = count]]
        /\ n = [o EXCEPT !.pc = "event", !.map = map]
  OBVIOUS
<1>2. /\ o \in Processes /\ o.pc = "delivery" /\ deliveries \in Seq(DeliveryRows)
      /\ Knows(o, deliveries, events, receipts, exec)
      /\ UNCHANGED <<spool, events, receipts, exec, runs>>
      /\ o.map \in [Ids -> Known]
  BY <1>1, SMTT(60) DEF TypeOK, RepeatDelivery, At, Honest, Processes
<1>3. o.repeat
  BY <1>1, Zenon DEF RepeatDelivery
<1>4. o.file \in Files /\ id = Delivery[o.file] /\ id \in Ids /\ o.event = 0
      /\ page # 0 /\ page \in DOMAIN deliveries /\ deliveries[page].id = id
  <2>1. o.file \in Files /\ o.event = 0 /\ o.map[Delivery[o.file]].page # 0
    BY <1>2, <1>3, SMTT(60) DEF Knows, Working, BeforeEvent
  <2>2. id = Delivery[o.file] /\ id \in Ids
    BY <1>1, <2>1, IdsOfFiles, Zenon DEF Id, F
  <2> QED
    BY <1>1, <1>2, <2>1, <2>2, Zenon DEF Knows
<1>5. count \in Nat /\ page \in Nat
  BY <1>1, <1>2, <1>4, SMTT(60) DEF Known
<1>6. PICK row : row = [deliveries[page] EXCEPT !.status = "Duplicate", !.count = count]
  OBVIOUS
<1>7. /\ row \in DeliveryRows /\ row.status = "Duplicate" /\ row.id = id
      /\ deliveries' = [deliveries EXCEPT ![page] = row]
  <2>1. deliveries[page] \in DeliveryRows
    BY <1>2, <1>4
  <2>2. deliveries' = [deliveries EXCEPT ![page].status = "Duplicate",
                                         ![page].count = count]
    BY <1>1, Zenon DEF RepeatDelivery
  <2>3. deliveries' = [deliveries EXCEPT ![page] = row]
    BY <1>2, <1>6, <2>2
  <2> QED
    BY <1>4, <1>5, <1>6, <2>1, <2>3 DEF DeliveryRows
<1>8. /\ DOMAIN deliveries' = DOMAIN deliveries /\ deliveries'[page] = row
      /\ \A d \in DOMAIN deliveries \ {page} : deliveries'[d] = deliveries[d]
      /\ deliveries' \in Seq(DeliveryRows)
  BY <1>2, <1>4, <1>7
<1>9. Grows
  BY <1>2, <1>4, <1>7, <1>8 DEF Grows
<1>10. \A q \in Drainers \ {p} : Spares(drain[q])
  <2>1. \A q \in Drainers : drain[q].pc = "describe" => drain[q].new # page
    BY <1>4, IdsOfFiles DEF Honest, Knows, BareDelivery
  <2> QED
    BY <1>2, <1>8, <2>1 DEF Spares
<1>11. Linked'
  BY <1>2, <1>7, <1>8 DEF Honest, Linked
<1>12. Turns(p, n)
  <2>1. drain' = [drain EXCEPT ![p].pc = "event", ![p].map[id].count = count]
    BY <1>1, Zenon DEF RepeatDelivery
  <2> QED
    BY <1>1, <2>1 DEF Turns
<1>13. map \in [Ids -> Known] /\ \A i \in Ids : map[i].page = o.map[i].page
  BY <1>1, <1>2, <1>4, <1>5, ZenonT(60) DEF Known
<1>14. /\ n \in Processes /\ n.pc = "event" /\ n.map = map
       /\ n.keys = o.keys /\ n.waiting = o.waiting /\ n.file = o.file
       /\ n.event = o.event
  BY <1>1, <1>2, <1>13, ZenonT(60) DEF Processes, Pcs
<1>15. Knows(n, deliveries', events', receipts', exec')
  <2>1. /\ \A i \in Ids : o.map[i].page # 0 =>
             o.map[i].page \in DOMAIN deliveries' /\ deliveries'[o.map[i].page].id = i
        /\ \A j \in o.keys : Keyed(j, events')
        /\ \A e \in o.waiting : exec'[e].status # "Started"
    BY <1>2, <1>9, MemoryOn
  <2>2. \A i \in Ids : map[i].page # 0 =>
             map[i].page \in DOMAIN deliveries' /\ deliveries'[map[i].page].id = i
    BY <1>13, <2>1
  <2>3. map[id].page # 0
    BY <1>1, <1>4, <1>13
  <2> QED
    BY <1>4, <1>14, <2>1, <2>2, <2>3 DEF Knows, Working, AfterEvent, AfterReceipt
<1> QED
  BY <1>2, <1>8, <1>9, <1>10, <1>11, <1>12, <1>14, <1>15, DeliveryStep

\* Link sets the event of the delivery, or leaves it to whoever created it.
LEMMA LinkHonest ==
  ASSUME TypeOK, Honest, NEW p \in Drainers, Link(p)
  PROVE  Honest' /\ TypeOK'
<1>1. PICK o, page, event, n :
        /\ o = drain[p] /\ page = o.map[Id(p)].page /\ event = o.event
        /\ n = [o EXCEPT !.pc = "reconcile"]
  OBVIOUS
<1>2. /\ o \in Processes /\ o.pc = "link" /\ deliveries \in Seq(DeliveryRows)
      /\ Knows(o, deliveries, events, receipts, exec) /\ Turns(p, n)
      /\ UNCHANGED <<spool, events, receipts, exec, runs>> /\ event \in Nat
  BY <1>1 DEF TypeOK, Link, At, Honest, Processes, Goto, Turns
<1>3. /\ o.file \in Files /\ Filed(o.file, deliveries, receipts)
      /\ page # 0 /\ page \in DOMAIN deliveries /\ deliveries[page].id = Delivery[o.file]
      /\ o.file \in Signals => Keyed(Key[o.file], events)
      /\ event # 0 => /\ event \in DOMAIN events /\ events[event] = Key[o.file]
                      /\ o.file \in Signals
  <2>1. o.file \in Files /\ Filed(o.file, deliveries, receipts)
    BY <1>2 DEF Knows, Working, AfterReceipt
  <2>2. page # 0 /\ page = o.map[Delivery[o.file]].page
    BY <1>1, <1>2 DEF Knows, Working, Id, F
  <2>3. page \in DOMAIN deliveries /\ deliveries[page].id = Delivery[o.file]
    BY <1>2, <2>1, <2>2, IdsOfFiles DEF Knows
  <2>4. /\ o.file \in Signals => Keyed(Key[o.file], events)
        /\ event # 0 => /\ event \in DOMAIN events /\ events[event] = Key[o.file]
                        /\ o.file \in Signals
    BY <1>1, <1>2 DEF Knows, AfterEvent
  <2> QED
    BY <2>1, <2>2, <2>3, <2>4
<1>4. PICK row : row = IF event = 0 THEN deliveries[page]
                       ELSE [deliveries[page] EXCEPT !.event = event,
                                                     !.status = "Processed"]
  OBVIOUS
<1>5. /\ row \in DeliveryRows /\ row.id = deliveries[page].id
      /\ event # 0 => row.event = event
      /\ event = 0 => row = deliveries[page]
  <2>1. deliveries[page] \in DeliveryRows
    BY <1>2, <1>3
  <2> QED
    BY <1>2, <1>4, <2>1 DEF DeliveryRows
<1>6. deliveries' = [deliveries EXCEPT ![page] = row]
  <2>1. deliveries' = IF event = 0 THEN deliveries
                      ELSE [deliveries EXCEPT ![page].event = event,
                                              ![page].status = "Processed"]
    BY <1>1 DEF Link
  <2>2. CASE event = 0
    <3>1. deliveries' = deliveries /\ row = deliveries[page]
      BY <1>4, <2>1, <2>2
    <3> QED
      BY <1>2, <1>3, <3>1
  <2>3. CASE event # 0
    <3>1. row = [deliveries[page] EXCEPT !.event = event, !.status = "Processed"]
      BY <1>4, <2>3
    <3>2. deliveries' = [deliveries EXCEPT ![page].event = event,
                                           ![page].status = "Processed"]
      BY <2>1, <2>3
    <3> QED
      BY <3>1, <3>2
  <2> QED
    BY <2>2, <2>3, SMTT(60)
<1>7. /\ DOMAIN deliveries' = DOMAIN deliveries /\ deliveries'[page] = row
      /\ \A d \in DOMAIN deliveries \ {page} : deliveries'[d] = deliveries[d]
      /\ deliveries' \in Seq(DeliveryRows)
  BY <1>2, <1>3, <1>5, <1>6
<1>8. Grows
  BY <1>2, <1>5, <1>7 DEF Grows
<1>9. \A q \in Drainers \ {p} : Spares(drain[q])
  <2>1. \A q \in Drainers : drain[q].pc = "describe" => drain[q].new # page
    BY <1>3, IdsOfFiles DEF Honest, Knows, BareDelivery
  <2> QED
    BY <1>2, <1>7, <2>1 DEF Spares
<1>10. Linked'
  <2> SUFFICES ASSUME NEW d \in DOMAIN deliveries, deliveries'[d].status = "Processed"
               PROVE  \E f \in Signals : /\ Delivery[f] = deliveries'[d].id
                                         /\ deliveries'[d].event \in DOMAIN events
                                         /\ events[deliveries'[d].event] = Key[f]
    BY <1>2, <1>7 DEF Linked
  <2>1. CASE d # page \/ event = 0
    <3>1. deliveries'[d] = deliveries[d]
      BY <1>5, <1>7, <2>1
    <3> QED
      BY <3>1 DEF Honest, Linked
  <2>2. CASE d = page /\ event # 0
    BY <1>3, <1>5, <1>7, <2>2
  <2> QED
    BY <2>1, <2>2
<1>11. /\ n \in Processes /\ n.pc = "reconcile" /\ n.map = o.map
       /\ n.keys = o.keys /\ n.waiting = o.waiting /\ n.file = o.file
       /\ n.event = o.event
  BY <1>1, <1>2 DEF Processes, Pcs
<1>12. Knows(n, deliveries', events', receipts', exec')
  <2>1. Knows(o, deliveries', events', receipts', exec')
    BY <1>2, <1>8, KnowsOn DEF Spares
  <2> QED
    BY <1>2, <1>11, <2>1 DEF Knows, Working, BeforeEvent, AfterEvent, AfterReceipt
<1> QED
  BY <1>2, <1>7, <1>8, <1>9, <1>10, <1>11, <1>12, DeliveryStep

------------------------------------------------------------------------------
\* Writes to the events and to the receipts.
LEMMA EventStep ==
  ASSUME TypeOK, Honest, NEW p \in Drainers, NEW n \in Processes, Turns(p, n),
         UNCHANGED <<spool, deliveries, receipts, exec, runs>>,
         events' \in Seq(EventKeys \cup {None}), Grows,
         \A q \in Drainers \ {p} : Spares(drain[q]),
         n.pc \notin {"describe", "fileReceipt"},
         n.pc = "keyEvent" =>
           \A q \in Drainers \ {p} : drain[q].pc = "keyEvent" => drain[q].event # n.event,
         Knows(n, deliveries', events', receipts', exec')
  PROVE  Honest' /\ TypeOK'
<1>1. \A q \in Drainers \ {p} : Apart(n, drain[q]) /\ Apart(drain[q], n)
  BY DEF Apart
<1>2. Recorded' /\ Evident'
  BY RecordedOn, EvidentOn DEF Honest
<1>3. Linked'
  <2>1. \A f \in Signals : Key[f] # None
    BY IdsOfFiles, ValidAssumption
  <2> QED
    BY <2>1 DEF Honest, Linked, Grows
<1>4. Honest' /\ drain' \in [Drainers -> Processes]
  BY <1>1, <1>2, <1>3, HonestStep
<1> QED
  BY <1>4 DEF TypeOK

\* The same of event pages, which are bare while they have no key.
LEMMA CreatedEvents ==
  ASSUME NEW rows \in Seq(EventKeys \cup {None}), NEW k \in Nat
  PROVE  /\ Created(rows, None, k) \in Seq(EventKeys \cup {None})
         /\ Len(rows) \in Nat /\ Len(Created(rows, None, k)) = Len(rows) + k
         /\ \A i \in 1 .. Len(rows) : Created(rows, None, k)[i] = rows[i]
         /\ \A i \in Len(rows) + 1 .. Len(rows) + k : Created(rows, None, k)[i] = None
<1> DEFINE S == EventKeys \cup {None}
           more == [i \in 1 .. k |-> None]
<1>1. more \in Seq(S) /\ Len(more) = k /\ \A i \in 1 .. k : more[i] = None
  OBVIOUS
<1>2. rows \in Seq(S)
  OBVIOUS
<1> HIDE DEF S, more
<1>3. /\ rows \o more \in Seq(S) /\ Len(rows) \in Nat
      /\ Len(rows \o more) = Len(rows) + k
      /\ \A i \in 1 .. Len(rows) : (rows \o more)[i] = rows[i]
      /\ \A i \in Len(rows) + 1 .. Len(rows) + k :
           (rows \o more)[i] = more[i - Len(rows)]
  BY <1>1, <1>2
<1>4. Created(rows, None, k) = rows \o more
  BY DEF Created, more
<1>5. \A i \in Len(rows) + 1 .. Len(rows) + k : more[i - Len(rows)] = None
  BY <1>1, <1>3
<1> QED
  BY <1>3, <1>4, <1>5 DEF S

LEMMA CreateEventHonest ==
  ASSUME TypeOK, Honest, NEW p \in Drainers, CreateEvent(p)
  PROVE  Honest' /\ TypeOK'
<1>1. PICK k \in 1 .. MaxCreations :
         /\ events' = Created(events, None, k)
         /\ drain' = [drain EXCEPT ![p].pc = "keyEvent",
                                   ![p].event = Len(events) + k,
                                   ![p].keys = @ \cup {Key[F(p)]}]
  BY DEF CreateEvent
<1>2. PICK o, m, keys, n :
        /\ o = drain[p] /\ m = Len(events) + k /\ keys = o.keys \cup {Key[o.file]}
        /\ n = [o EXCEPT !.pc = "keyEvent", !.event = m, !.keys = keys]
  OBVIOUS
<1>3. /\ o \in Processes /\ o.pc = "event" /\ events \in Seq(EventKeys \cup {None})
      /\ Knows(o, deliveries, events, receipts, exec) /\ o.file \in Signals
      /\ UNCHANGED <<spool, deliveries, receipts, exec, runs>>
  BY <1>2 DEF TypeOK, CreateEvent, At, Honest, NewEvent, F
<1>4. k \in Nat /\ k > 0
  BY BoundsAssumption
<1>5. /\ events' \in Seq(EventKeys \cup {None})
      /\ Len(events) \in Nat /\ Len(events') = Len(events) + k
      /\ \A i \in 1 .. Len(events) : events'[i] = events[i]
      /\ \A i \in Len(events) + 1 .. Len(events) + k : events'[i] = None
  BY <1>1, <1>3, <1>4, CreatedEvents
<1>6. /\ DOMAIN events = 1 .. Len(events) /\ DOMAIN events' = 1 .. Len(events) + k
      /\ m \in Nat /\ m \in DOMAIN events' /\ events'[m] = None
  BY <1>2, <1>3, <1>4, <1>5
<1>7. Grows
  BY <1>3, <1>4, <1>5, <1>6 DEF Grows
<1>8. \A q \in Drainers : Spares(drain[q])
  BY <1>3, <1>5, <1>6 DEF Spares
<1>9. o.file \in Files /\ Key[o.file] \in EventKeys /\ keys \in SUBSET EventKeys
  <2>1. o.file \in Files
    BY <1>3 DEF Knows, Working
  <2> QED
    BY <1>2, <1>3, <2>1, IdsOfFiles DEF Processes
<1>10. Turns(p, n)
  <2>1. drain' = [drain EXCEPT ![p].pc = "keyEvent", ![p].event = m,
                               ![p].keys = drain[p].keys \cup {Key[o.file]}]
    BY <1>1, <1>2 DEF F
  <2> QED
    BY <1>2, <2>1 DEF Turns
<1>11. /\ n \in Processes /\ n.pc = "keyEvent" /\ n.event = m /\ n.keys = keys
       /\ n.map = o.map /\ n.waiting = o.waiting /\ n.file = o.file
  BY <1>2, <1>3, <1>6, <1>9 DEF Processes, Pcs
<1>12. \A q \in Drainers \ {p} : drain[q].pc = "keyEvent" => drain[q].event # n.event
  <2>1. \A q \in Drainers : drain[q].pc = "keyEvent" => drain[q].event \in DOMAIN events
    BY DEF Honest, Knows
  <2> QED
    BY <1>2, <1>4, <1>5, <1>6, <1>11, <2>1
<1>13. Knows(n, deliveries', events', receipts', exec')
  <2>1. /\ \A i \in Ids : o.map[i].page # 0 =>
             o.map[i].page \in DOMAIN deliveries' /\ deliveries'[o.map[i].page].id = i
        /\ \A j \in o.keys : Keyed(j, events')
        /\ \A e \in o.waiting : exec'[e].status # "Started"
    BY <1>3, <1>7, MemoryOn
  <2>2. \A j \in keys : Keyed(j, events') \/ j = Key[o.file]
    BY <1>2, <2>1
  <2>3. o.map[Delivery[o.file]].page # 0
    BY <1>3 DEF Knows, Working
  <2> QED
    BY <1>3, <1>6, <1>9, <1>11, <2>1, <2>2, <2>3
       DEF Knows, Working, BeforeEvent, AfterEvent, AfterReceipt
<1> QED
  BY <1>3, <1>5, <1>7, <1>8, <1>10, <1>11, <1>12, <1>13, EventStep

LEMMA KeyHonest ==
  ASSUME TypeOK, Honest, NEW p \in Drainers, KeyEvent(p)
  PROVE  Honest' /\ TypeOK'
<1>1. PICK o, event, key, n :
        /\ o = drain[p] /\ event = o.event /\ key = Key[o.file]
        /\ n = [o EXCEPT !.pc = "receipt"]
  OBVIOUS
<1>2. /\ o \in Processes /\ o.pc = "keyEvent" /\ Turns(p, n)
      /\ events \in Seq(EventKeys \cup {None})
      /\ Knows(o, deliveries, events, receipts, exec)
      /\ UNCHANGED <<spool, deliveries, receipts, exec, runs>>
      /\ events' = [events EXCEPT ![event] = key]
  BY <1>1 DEF TypeOK, KeyEvent, At, Honest, Goto, Turns, F
<1>3. /\ o.file \in Files /\ o.file \in Signals /\ event \in DOMAIN events
      /\ events[event] = None /\ o.map[Delivery[o.file]].page # 0
  BY <1>1, <1>2 DEF Knows, Working
<1>4. key \in EventKeys
  BY <1>1, <1>3, IdsOfFiles
<1>5. /\ DOMAIN events' = DOMAIN events /\ events'[event] = key
      /\ \A m \in DOMAIN events \ {event} : events'[m] = events[m]
      /\ events' \in Seq(EventKeys \cup {None}) /\ event # 0
  BY <1>2, <1>3, <1>4
<1>6. Grows
  BY <1>2, <1>3, <1>5 DEF Grows
<1>7. \A q \in Drainers \ {p} : Spares(drain[q])
  BY <1>1, <1>2, <1>5 DEF Spares, Honest, Apart
<1>8. /\ n \in Processes /\ n.pc = "receipt" /\ n.event = event /\ n.keys = o.keys
      /\ n.map = o.map /\ n.waiting = o.waiting /\ n.file = o.file
  BY <1>1, <1>2 DEF Processes, Pcs
<1>9. Knows(n, deliveries', events', receipts', exec')
  <2>1. /\ \A i \in Ids : o.map[i].page # 0 =>
             o.map[i].page \in DOMAIN deliveries' /\ deliveries'[o.map[i].page].id = i
        /\ \A j \in o.keys : Keyed(j, events') \/ j = key
        /\ \A e \in o.waiting : exec'[e].status # "Started"
    BY <1>1, <1>2, <1>6, MemoryOn
  <2>2. Keyed(key, events')
    BY <1>3, <1>5 DEF Keyed
  <2> QED
    BY <1>1, <1>3, <1>5, <1>8, <2>1, <2>2
       DEF Knows, Working, BeforeEvent, AfterEvent, AfterReceipt
<1> QED
  BY <1>2, <1>5, <1>6, <1>7, <1>8, <1>9, EventStep

LEMMA ReceiptStep ==
  ASSUME TypeOK, Honest, NEW p \in Drainers, NEW n \in Processes, Turns(p, n),
         UNCHANGED <<spool, deliveries, events, exec, runs>>,
         receipts' \in Seq(ReceiptRows), Grows,
         \A q \in Drainers \ {p} : Spares(drain[q]),
         n.pc \notin {"describe", "keyEvent"},
         n.pc = "fileReceipt" =>
           \A q \in Drainers \ {p} : drain[q].pc = "fileReceipt" => drain[q].new # n.new,
         Knows(n, deliveries', events', receipts', exec')
  PROVE  Honest' /\ TypeOK'
<1>1. \A q \in Drainers \ {p} : Apart(n, drain[q]) /\ Apart(drain[q], n)
  BY DEF Apart
<1>2. Recorded' /\ Evident' /\ Linked'
  BY RecordedOn, EvidentOn DEF Honest, Linked
<1>3. Honest' /\ drain' \in [Drainers -> Processes]
  BY <1>1, <1>2, HonestStep
<1> QED
  BY <1>3 DEF TypeOK

LEMMA CreateReceiptHonest ==
  ASSUME TypeOK, Honest, NEW p \in Drainers, CreateReceipt(p)
  PROVE  Honest' /\ TypeOK'
<1>1. PICK k \in 1 .. MaxCreations :
         /\ receipts' = Created(receipts, BareReceipt, k)
         /\ drain' = [drain EXCEPT ![p].pc = "fileReceipt",
                                   ![p].new = Len(receipts) + k]
  BY DEF CreateReceipt
<1>2. PICK o, m, n : /\ o = drain[p] /\ m = Len(receipts) + k
                     /\ n = [o EXCEPT !.pc = "fileReceipt", !.new = m]
  OBVIOUS
<1>3. /\ o \in Processes /\ o.pc = "receipt" /\ receipts \in Seq(ReceiptRows)
      /\ Knows(o, deliveries, events, receipts, exec) /\ Turns(p, n)
      /\ UNCHANGED <<spool, deliveries, events, exec, runs>>
  BY <1>1, <1>2 DEF TypeOK, CreateReceipt, At, Honest, Turns
<1>4. k \in Nat /\ k > 0
  BY BoundsAssumption
<1>5. /\ receipts' \in Seq(ReceiptRows)
      /\ Len(receipts) \in Nat /\ Len(receipts') = Len(receipts) + k
      /\ \A i \in 1 .. Len(receipts) : receipts'[i] = receipts[i]
      /\ \A i \in Len(receipts) + 1 .. Len(receipts) + k :
           receipts'[i] = BareReceipt
  BY <1>1, <1>3, <1>4, BareTypes, CreatedRows
<1>6. /\ DOMAIN receipts = 1 .. Len(receipts)
      /\ DOMAIN receipts' = 1 .. Len(receipts) + k
      /\ m \in Nat /\ m \in DOMAIN receipts' /\ receipts'[m] = BareReceipt
  BY <1>2, <1>3, <1>4, <1>5
<1>7. Grows
  BY <1>3, <1>4, <1>5, <1>6 DEF Grows
<1>8. \A q \in Drainers : Spares(drain[q])
  BY <1>3, <1>5, <1>6 DEF Spares
<1>9. /\ n \in Processes /\ n.pc = "fileReceipt" /\ n.new = m /\ n.map = o.map
      /\ n.keys = o.keys /\ n.waiting = o.waiting /\ n.file = o.file
      /\ n.event = o.event
  BY <1>2, <1>3, <1>6 DEF Processes, Pcs
<1>10. \A q \in Drainers \ {p} : drain[q].pc = "fileReceipt" => drain[q].new # n.new
  <2>1. \A q \in Drainers : drain[q].pc = "fileReceipt" => drain[q].new \in DOMAIN receipts
    BY DEF Honest, Knows
  <2> QED
    BY <1>2, <1>4, <1>5, <1>6, <1>9, <2>1
<1>11. Knows(n, deliveries', events', receipts', exec')
  <2>1. Knows(o, deliveries', events', receipts', exec')
    BY <1>3, <1>7, KnowsOn DEF Spares
  <2> QED
    BY <1>3, <1>6, <1>9, <2>1 DEF Knows, Working, BeforeEvent, AfterEvent, AfterReceipt
<1> QED
  BY <1>3, <1>5, <1>7, <1>8, <1>9, <1>10, <1>11, ReceiptStep

LEMMA FileHonest ==
  ASSUME TypeOK, Honest, NEW p \in Drainers, FileReceipt(p)
  PROVE  Honest' /\ TypeOK'
<1>1. PICK o, new, page, row, n :
        /\ o = drain[p] /\ new = o.new /\ page = o.map[Id(p)].page
        /\ row = [file |-> F(p), page |-> page, duplicate |-> drain[p].repeat]
        /\ n = [o EXCEPT !.pc = "link"]
  OBVIOUS
<1>2. /\ o \in Processes /\ o.pc = "fileReceipt" /\ receipts \in Seq(ReceiptRows)
      /\ Knows(o, deliveries, events, receipts, exec) /\ Turns(p, n)
      /\ UNCHANGED <<spool, deliveries, events, exec, runs>>
      /\ receipts' = [receipts EXCEPT ![new] = row]
      /\ o.map \in [Ids -> Known]
  BY <1>1 DEF TypeOK, FileReceipt, At, Honest, Goto, Turns, Processes
<1>3. /\ o.file \in Files /\ new \in DOMAIN receipts /\ receipts[new] = BareReceipt
      /\ page # 0 /\ page = o.map[Delivery[o.file]].page
  BY <1>1, <1>2 DEF Knows, Working, Id, F
<1>4. /\ page \in DOMAIN deliveries /\ deliveries[page].id = Delivery[o.file]
      /\ page \in Nat
  BY <1>2, <1>3, IdsOfFiles DEF Knows, Known
<1>5. row \in ReceiptRows /\ row.file = o.file /\ row.page = page
  <2>1. o.repeat \in BOOLEAN
    BY <1>2 DEF Processes
  <2>2. row = [file |-> o.file, page |-> page, duplicate |-> o.repeat]
    BY <1>1, Zenon DEF F
  <2> QED
    BY <1>3, <1>4, <2>1, <2>2 DEF ReceiptRows
<1>6. /\ DOMAIN receipts' = DOMAIN receipts /\ receipts'[new] = row
      /\ \A m \in DOMAIN receipts \ {new} : receipts'[m] = receipts[m]
      /\ receipts' \in Seq(ReceiptRows)
  BY <1>2, <1>3, <1>5
<1>7. Grows
  BY <1>2, <1>3, <1>6 DEF Grows, BareReceipt
<1>8. \A q \in Drainers \ {p} : Spares(drain[q])
  BY <1>1, <1>2, <1>6 DEF Spares, Honest, Apart
<1>9. /\ n \in Processes /\ n.pc = "link" /\ n.map = o.map
      /\ n.keys = o.keys /\ n.waiting = o.waiting /\ n.file = o.file
      /\ n.event = o.event
  BY <1>1, <1>2 DEF Processes, Pcs
<1>10. Filed(o.file, deliveries', receipts')
  BY <1>2, <1>3, <1>4, <1>5, <1>6 DEF Filed
<1>11. Knows(n, deliveries', events', receipts', exec')
  <2>1. /\ \A i \in Ids : o.map[i].page # 0 =>
             o.map[i].page \in DOMAIN deliveries' /\ deliveries'[o.map[i].page].id = i
        /\ \A j \in o.keys : Keyed(j, events')
        /\ \A e \in o.waiting : exec'[e].status # "Started"
    BY <1>2, <1>7, MemoryOn
  <2>2. /\ o.file \in Signals => Keyed(Key[o.file], events')
        /\ o.event # 0 => /\ o.event \in DOMAIN events' /\ events'[o.event] = Key[o.file]
                          /\ o.file \in Signals
    BY <1>2 DEF Knows, AfterEvent
  <2> QED
    BY <1>3, <1>9, <1>10, <2>1, <2>2
       DEF Knows, Working, BeforeEvent, AfterEvent, AfterReceipt
<1> QED
  BY <1>2, <1>6, <1>7, <1>8, <1>9, <1>11, ReceiptStep

------------------------------------------------------------------------------
\* A match is confirmed only when the file has been filed, on a row that has
\* been read as done.
LEMMA ReconcileHonest ==
  ASSUME TypeOK, Honest, NEW p \in Drainers, Reconcile(p)
  PROVE  Honest' /\ TypeOK'
<1>1. /\ drain[p] \in Processes /\ drain[p].pc = "reconcile"
      /\ Knows(drain[p], deliveries, events, receipts, exec)
      /\ UNCHANGED <<spool, deliveries, events, receipts, runs>>
      /\ exec \in [Executions -> ExecutionRows]
  BY SMTT(60) DEF TypeOK, Reconcile, At, Honest, records
<1>2. PICK o, waiting, n :
        /\ o = drain[p] /\ waiting \in SUBSET o.waiting /\ Turns(p, n)
        /\ n = [o EXCEPT !.pc = "rename", !.waiting = waiting]
        /\ \/ exec' = exec
           \/ \E e \in Matches[o.file] \cap o.waiting :
                exec' = [exec EXCEPT ![e].reconcile = "Confirmed"]
  <2>1. CASE \E e \in Confirms(p) :
               /\ exec' = [exec EXCEPT ![e].reconcile = "Confirmed"]
               /\ drain' = [drain EXCEPT ![p].pc = "rename",
                                         ![p].waiting = @ \ {e}]
    <3>1. PICK e \in Confirms(p) :
               /\ exec' = [exec EXCEPT ![e].reconcile = "Confirmed"]
               /\ drain' = [drain EXCEPT ![p].pc = "rename",
                                         ![p].waiting = @ \ {e}]
      BY <2>1
    <3>2. e \in Matches[drain[p].file] \cap drain[p].waiting
      BY DEF Confirms, Candidates, F
    <3>3. PICK o, waiting, n :
            /\ o = drain[p] /\ waiting = drain[p].waiting \ {e}
            /\ n = [o EXCEPT !.pc = "rename", !.waiting = waiting]
      OBVIOUS
    <3>4. drain' = [drain EXCEPT ![p].pc = "rename", ![p].waiting = waiting]
      BY <3>1, <3>3
    <3>5. Turns(p, n)
      BY <3>3, <3>4 DEF Turns
    <3> QED
      BY <3>1, <3>2, <3>3, <3>5
  <2>2. CASE exec' = exec /\ Goto(p, "rename")
    <3>1. PICK o, waiting, n :
            /\ o = drain[p] /\ waiting = drain[p].waiting
            /\ n = [o EXCEPT !.pc = "rename", !.waiting = waiting]
      OBVIOUS
    <3>2. drain' = [drain EXCEPT ![p].pc = "rename"]
      BY <2>2 DEF Goto
    <3>3. n = [o EXCEPT !.pc = "rename"]
      BY <1>1, <3>1 DEF Processes
    <3>4. Turns(p, n)
      BY <3>1, <3>2, <3>3 DEF Turns
    <3> QED
      BY <2>2, <3>1, <3>4
  <2> QED
    BY <2>1, <2>2 DEF Reconcile
<1>3. /\ o.file \in Files /\ Filed(o.file, deliveries, receipts)
      /\ o.waiting \in SUBSET Executions
      /\ \A e \in o.waiting : exec[e].status # "Started"
  BY <1>1, <1>2 DEF Knows, Working, AfterReceipt, Processes
<1>4. /\ exec' \in [Executions -> ExecutionRows]
      /\ \A e \in Executions :
           /\ exec'[e].status = exec[e].status
           /\ exec'[e].reconcile = exec[e].reconcile
              \/ e \in Matches[o.file] \cap o.waiting
  BY <1>1, <1>2 DEF ExecutionRows
<1>5. Grows /\ \A q \in Drainers : Spares(drain[q])
  BY <1>1, <1>4 DEF Grows, Spares
<1>6. /\ n \in Processes /\ n.pc = "rename" /\ n.waiting = waiting
      /\ n.map = o.map /\ n.keys = o.keys /\ n.file = o.file
      /\ n.event = o.event
  BY <1>1, <1>2, <1>3 DEF Processes, Pcs
<1>7. Knows(n, deliveries', events', receipts', exec')
  <2>1. Knows(o, deliveries', events', receipts', exec')
    BY <1>1, <1>2, <1>5, KnowsOn
  <2> QED
    BY <1>1, <1>2, <1>6, <2>1 DEF Knows, Working, BeforeEvent, AfterEvent, AfterReceipt
<1>8. Evident'
  <2> SUFFICES ASSUME NEW e \in Executions, exec'[e].reconcile = "Confirmed"
               PROVE  /\ exec'[e].status # "Started"
                      /\ \E f \in Valid :
                           e \in Matches[f] /\ Filed(f, deliveries, receipts)
    BY <1>1 DEF Evident
  <2>1. CASE e \in Matches[o.file] \cap o.waiting
    BY <1>3, <1>4, <2>1, MatchAssumption, ValidAssumption
  <2>2. CASE exec'[e].reconcile = exec[e].reconcile
    BY <1>4, <2>2 DEF Honest, Evident
  <2> QED
    BY <1>4, <2>1, <2>2
<1>9. Recorded' /\ Linked'
  BY <1>1 DEF Honest, Recorded, Linked
<1>10. \A q \in Drainers \ {p} : Apart(n, drain[q]) /\ Apart(drain[q], n)
  BY <1>6 DEF Apart
<1>11. Honest' /\ drain' \in [Drainers -> Processes]
  BY <1>2, <1>5, <1>6, <1>7, <1>8, <1>9, <1>10, HonestStep
<1> QED
  BY <1>1, <1>4, <1>11 DEF TypeOK

\* A file leaves pending/ when it is on record.
LEMMA RenameHonest ==
  ASSUME TypeOK, Honest, NEW p \in Drainers, Rename(p)
  PROVE  Honest' /\ TypeOK'
<1>1. PICK o, todo, n :
        /\ o = drain[p] /\ todo = o.todo \ {o.file}
        /\ n = [o EXCEPT !.pc = "pick", !.file = None, !.todo = todo]
  OBVIOUS
<1>2. /\ o \in Processes /\ o.pc = "rename"
      /\ Knows(o, deliveries, events, receipts, exec)
      /\ UNCHANGED <<deliveries, events, receipts, exec, runs>>
      /\ spool' = [spool EXCEPT ![o.file] = "gone"]
      /\ spool \in [Files -> SpoolStates]
  BY <1>1 DEF TypeOK, Rename, At, Honest, records, F
<1>3. Turns(p, n)
  <2>1. drain' = [drain EXCEPT ![p].pc = "pick", ![p].file = None, ![p].todo = todo]
    BY <1>1 DEF Rename, F
  <2> QED
    BY <1>1, <2>1 DEF Turns
<1>4. /\ n \in Processes /\ n.pc = "pick" /\ n.map = o.map
      /\ n.keys = o.keys /\ n.waiting = o.waiting
  BY <1>1, <1>2 DEF Processes, Pcs
<1>5. Grows /\ \A q \in Drainers : Spares(drain[q])
  BY <1>2 DEF Grows, Spares
<1>6. Knows(n, deliveries', events', receipts', exec')
  BY <1>2, <1>4 DEF Knows, Working, BeforeEvent, AfterEvent, AfterReceipt
<1>7. Recorded'
  <2>1. /\ Filed(o.file, deliveries, receipts)
        /\ o.file \in Signals => Keyed(Key[o.file], events)
    BY <1>2 DEF Knows, AfterReceipt, AfterEvent
  <2>2. \A f \in Files : spool'[f] = "gone" => spool[f] = "gone" \/ f = o.file
    BY <1>2
  <2> QED
    BY <1>2, <2>1, <2>2 DEF Honest, Recorded
<1>8. Linked' /\ Evident'
  BY <1>2 DEF Honest, Linked, Evident
<1>9. \A q \in Drainers \ {p} : Apart(n, drain[q]) /\ Apart(drain[q], n)
  BY <1>4 DEF Apart
<1>10. Honest' /\ drain' \in [Drainers -> Processes]
  BY <1>3, <1>4, <1>5, <1>6, <1>7, <1>8, <1>9, HonestStep
<1> QED
  BY <1>2, <1>10 DEF TypeOK, SpoolStates

------------------------------------------------------------------------------
\* The receiver and the lane.
LEMMA AroundHonest ==
  ASSUME TypeOK, Honest,
         UNCHANGED <<deliveries, events, receipts, runs, drain>>,
         spool' \in [Files -> SpoolStates],
         \A f \in Files : spool'[f] = "gone" => spool[f] = "gone",
         exec' \in [Executions -> ExecutionRows],
         \A e \in Executions :
           /\ exec[e].status # "Started" => exec'[e].status # "Started"
           /\ exec'[e].reconcile = "Confirmed" =>
                exec[e].reconcile = "Confirmed" /\ exec'[e].status # "Started"
  PROVE  Honest' /\ TypeOK'
<1>1. Grows /\ \A q \in Drainers : Spares(drain[q])
  BY DEF Grows, Spares
<1>2. ASSUME NEW q \in Drainers
      PROVE  Knows(drain'[q], deliveries', events', receipts', exec')
  <2>1. PICK o : o = drain[q]
    OBVIOUS
  <2>2. o \in Processes /\ Spares(o) /\ Knows(o, deliveries, events, receipts, exec)
    BY <1>1, <2>1 DEF TypeOK, Honest
  <2> QED
    BY <1>1, <2>1, <2>2, KnowsOn
<1>3. Recorded' /\ Linked' /\ Evident'
  BY DEF Honest, Recorded, Linked, Evident
<1>4. \A q, r \in Drainers : q # r => Apart(drain'[q], drain'[r])
  BY DEF Honest
<1> QED
  BY <1>2, <1>3, <1>4 DEF Honest, TypeOK

LEMMA ReceiverHonest ==
  ASSUME TypeOK, Honest, NEW f \in Files, Receive(f) \/ FinishWrite(f)
  PROVE  Honest' /\ TypeOK'
<1>1. /\ UNCHANGED <<deliveries, events, receipts, runs, drain, exec>>
      /\ \E s \in {"torn", "pending"} : spool' = [spool EXCEPT ![f] = s]
  BY DEF Receive, FinishWrite, records
<1>2. /\ spool' \in [Files -> SpoolStates]
      /\ \A g \in Files : spool'[g] = "gone" => spool[g] = "gone"
  BY <1>1 DEF TypeOK, SpoolStates
<1>3. /\ exec' \in [Executions -> ExecutionRows]
      /\ \A e \in Executions :
           exec[e].reconcile = "Confirmed" => exec[e].status # "Started"
  BY <1>1 DEF TypeOK, Honest, Evident
<1> QED
  BY <1>1, <1>2, <1>3, AroundHonest

LEMMA LaneHonest ==
  ASSUME TypeOK, Honest, NEW e \in Executions, LaneRecords(e)
  PROVE  Honest' /\ TypeOK'
<1>1. /\ UNCHANGED <<deliveries, events, receipts, runs, drain, spool>>
      /\ \E row \in ExecutionRows :
           /\ row.status # "Started" /\ row.reconcile # "Confirmed"
           /\ exec' = [exec EXCEPT ![e] = row]
  BY DEF LaneRecords, records, ExecutionRows
<1>2. /\ exec' \in [Executions -> ExecutionRows]
      /\ \A x \in Executions :
           /\ exec[x].status # "Started" => exec'[x].status # "Started"
           /\ exec'[x].reconcile = "Confirmed" =>
                exec[x].reconcile = "Confirmed" /\ exec'[x].status # "Started"
  BY <1>1 DEF TypeOK, Honest, Evident
<1>3. /\ spool' \in [Files -> SpoolStates]
      /\ \A f \in Files : spool'[f] = "gone" => spool[f] = "gone"
  BY <1>1 DEF TypeOK
<1> QED
  BY <1>1, <1>2, <1>3, AroundHonest

------------------------------------------------------------------------------
LEMMA InitHonest == Init => TypeOK /\ Honest
<1> SUFFICES ASSUME Init PROVE TypeOK /\ Honest
  OBVIOUS
<1>1. TypeOK
  <2>1. deliveries = <<>> /\ events = <<>> /\ receipts = <<>> /\ runs = 0
    BY DEF Init
  <2>2. drain \in [Drainers -> Processes]
    BY IdleType DEF Init
  <2>3. /\ spool \in [Files -> SpoolStates]
        /\ exec \in [Executions -> ExecutionRows]
    BY DEF Init, SpoolStates, ExecutionRows
  <2> QED
    BY <2>1, <2>2, <2>3 DEF TypeOK
<1>2. \A p \in Drainers : drain[p] = Idle
  BY DEF Init
<1>3. Knows(Idle, deliveries, events, receipts, exec)
  BY DEF Knows, Idle, NoCount, Working, BeforeEvent, AfterEvent, AfterReceipt
<1>4. Apart(Idle, Idle)
  BY DEF Apart, Idle
<1>5. Recorded /\ Linked /\ Evident
  BY DEF Init, Recorded, Linked, Evident
<1> QED
  BY <1>1, <1>2, <1>3, <1>4, <1>5 DEF Honest

LEMMA NextHonest == TypeOK /\ Honest /\ [Next]_vars => (TypeOK /\ Honest)'
<1> SUFFICES ASSUME TypeOK, Honest, [Next]_vars PROVE TypeOK' /\ Honest'
  OBVIOUS
<1>1. CASE \E f \in Files : Receive(f) \/ FinishWrite(f)
  BY <1>1, ReceiverHonest
<1>2. CASE \E e \in Executions : LaneRecords(e)
  BY <1>2, LaneHonest
<1>3. ASSUME NEW p \in Drainers, Start(p) \/ Dies(p)
      PROVE  TypeOK' /\ Honest'
  BY <1>3, StartHonest, RestHonest
<1>4. ASSUME NEW p \in Drainers, Advance(p)
      PROVE  TypeOK' /\ Honest'
  BY <1>4, LoadHonest, PickHonest, RestHonest, CreateDeliveryHonest,
     DescribeHonest, RepeatHonest, CreateEventHonest, KeyHonest, KeepHonest,
     CreateReceiptHonest, FileHonest, LinkHonest, ReconcileHonest, RenameHonest
     DEF Advance
<1>5. CASE UNCHANGED vars
  <2>1. /\ UNCHANGED <<deliveries, events, receipts, runs, drain>>
        /\ spool' = spool /\ exec' = exec
    BY <1>5 DEF vars, records
  <2>2. /\ spool' \in [Files -> SpoolStates]
        /\ exec' \in [Executions -> ExecutionRows]
        /\ \A e \in Executions :
             exec[e].reconcile = "Confirmed" => exec[e].status # "Started"
    BY <2>1 DEF TypeOK, Honest, Evident
  <2> QED
    BY <2>1, <2>2, AroundHonest
<1> QED
  BY <1>1, <1>2, <1>3, <1>4, <1>5 DEF Next

LEMMA HonestSays == TypeOK /\ Honest => MailIsHonest
<1> SUFFICES ASSUME TypeOK, Honest PROVE MailIsHonest
  OBVIOUS
<1>1. /\ DOMAIN deliveries = 1 .. Len(deliveries)
      /\ DOMAIN events = 1 .. Len(events)
      /\ DOMAIN receipts = 1 .. Len(receipts)
  BY DEF TypeOK
<1>2. \A f \in Files : Filed(f, deliveries, receipts) => Receipted(f)
  BY <1>1 DEF Filed, Receipted
<1>3. \A f \in Files : Keyed(Key[f], events) => Evented(f)
  BY <1>1 DEF Keyed, Evented
<1>4. ProcessedIsRecorded
  BY <1>2, <1>3 DEF Honest, Recorded, ProcessedIsRecorded
<1>5. ProcessedHasEvent
  BY <1>1 DEF Honest, Linked, ProcessedHasEvent
<1>6. ConfirmedOnEvidence
  BY <1>2, ValidAssumption DEF Honest, Evident, ConfirmedOnEvidence
<1> QED
  BY <1>4, <1>5, <1>6 DEF MailIsHonest

(***************************************************************************)
(* A file leaves pending/ only with its receipt, its described delivery    *)
(* and its event on record; a delivery that reads Processed names an event *)
(* of its own; an execution is confirmed only by the receipt of a verified *)
(* webhook that matches it and never before the lane called it done.       *)
(* However many drains overlap or die between two calls, and whatever the  *)
(* files and pages hold.                                                   *)
(***************************************************************************)
THEOREM MailStaysHonest == Spec => []MailIsHonest
<1>1. Spec => [](TypeOK /\ Honest)
  BY InitHonest, NextHonest, PTL DEF Spec
<1> QED
  BY <1>1, HonestSays, PTL

------------------------------------------------------------------------------
(***************************************************************************)
(* One drain at a time: what it has listed is all there is.                *)
(***************************************************************************)
Pointing(d, rs) == {r \in DOMAIN rs : rs[r].page = d}

\* Between the count and the receipt it counts.
Counting == {"event", "keyEvent", "receipt", "fileReceipt"}

Aware(o, ds, es, rs) ==
    /\ o.pc = "idle" => o.got = {}
    /\ o.pc \notin {"idle", "load"} => o.got = Reads
    /\ "deliveries" \in o.got => \A d \in DOMAIN ds : ds[d].id # None =>
         o.map[ds[d].id].page = d /\ o.map[ds[d].id].count = ds[d].count
    /\ "events" \in o.got => \A n \in DOMAIN es : es[n] # None => es[n] \in o.keys
    /\ o.pc = "delivery" /\ ~o.repeat => o.map[Delivery[o.file]].page = 0
    /\ o.pc = "describe" => o.map[Delivery[o.file]].page = 0
    /\ o.pc = "keyEvent" => /\ Key[o.file] \in o.keys
                            /\ \A n \in DOMAIN es : es[n] # Key[o.file]
    /\ o.pc \in Counting =>
         Cardinality(Pointing(o.map[Delivery[o.file]].page, rs))
           < ds[o.map[Delivery[o.file]].page].count

Single ==
    \A d, c \in DOMAIN deliveries :
        deliveries[c].id # None /\ deliveries[c].id = deliveries[d].id => c = d

Unique ==
    \A m, n \in DOMAIN events : events[m] # None /\ events[m] = events[n] => m = n

Counted ==
    \A d \in DOMAIN deliveries :
        Cardinality(Pointing(d, receipts)) <= deliveries[d].count

\* A receipt points to a page there is, or nowhere yet.
Placed ==
    \A r \in DOMAIN receipts :
        receipts[r].page = 0 \/ receipts[r].page \in DOMAIN deliveries

Once ==
    /\ \A p, q \in Drainers : p # q => drain[p].pc = "idle" \/ drain[q].pc = "idle"
    /\ \A p \in Drainers : Aware(drain[p], deliveries, events, receipts)
    /\ Single /\ Unique /\ Counted /\ Placed

\* The receipts of a page can be counted.
LEMMA PointingFinite ==
  ASSUME NEW rs \in Seq(ReceiptRows), NEW d
  PROVE  /\ IsFiniteSet(Pointing(d, rs)) /\ Cardinality(Pointing(d, rs)) \in Nat
<1>1. IsFiniteSet(1 .. Len(rs))
  BY FS_Interval
<1>2. Pointing(d, rs) \subseteq 1 .. Len(rs)
  BY DEF Pointing
<1> QED
  BY <1>1, <1>2, FS_Subset, FS_CardinalityType

LEMMA NothingPoints ==
  ASSUME NEW rs \in Seq(ReceiptRows), NEW d, \A r \in DOMAIN rs : rs[r].page # d
  PROVE  Cardinality(Pointing(d, rs)) = 0
<1>1. Pointing(d, rs) = {}
  BY DEF Pointing
<1> QED
  BY <1>1, FS_EmptySet

\* A drain at rest is aware of nothing.
LEMMA AtRest ==
  ASSUME NEW o, o.pc = "idle", o.got = {}, NEW ds, NEW es, NEW rs
  PROVE  Aware(o, ds, es, rs)
BY DEF Aware, Counting

LEMMA Alone ==
  ASSUME Once, NEW p \in Drainers, drain[p].pc # "idle"
  PROVE  \A q \in Drainers \ {p} : drain[q].pc = "idle"
BY DEF Once

\* A step of a drain while the others rest.
LEMMA OnceStep ==
  ASSUME TypeOK, Once, NEW p \in Drainers, NEW n \in Processes, Turns(p, n),
         \A q \in Drainers \ {p} : drain[q].pc = "idle",
         Aware(n, deliveries', events', receipts'),
         Single', Unique', Counted', Placed'
  PROVE  Once'
<1>1. drain'[p] = n /\ \A q \in Drainers \ {p} : drain'[q] = drain[q]
  BY TurnStep DEF TypeOK, Elsewhere
<1>2. ASSUME NEW q \in Drainers \ {p}
      PROVE  Aware(drain'[q], deliveries', events', receipts')
  <2>1. PICK o : o = drain[q]
    OBVIOUS
  <2>2. o.pc = "idle" /\ o.got = {}
    BY <2>1 DEF Once, Aware
  <2>3. Aware(o, deliveries', events', receipts')
    BY <2>2, AtRest
  <2> QED
    BY <1>1, <2>1, <2>3
<1>3. \A q \in Drainers : Aware(drain'[q], deliveries', events', receipts')
  BY <1>1, <1>2
<1>4. \A q, r \in Drainers : q # r => drain'[q].pc = "idle" \/ drain'[r].pc = "idle"
  BY <1>1
<1> QED
  BY <1>3, <1>4 DEF Once

LEMMA OnceQuiet ==
  ASSUME TypeOK, Once, NEW p \in Drainers, NEW n \in Processes, Turns(p, n),
         \A q \in Drainers \ {p} : drain[q].pc = "idle", UNCHANGED records,
         Aware(n, deliveries, events, receipts)
  PROVE  Once'
<1>1. deliveries' = deliveries /\ events' = events /\ receipts' = receipts
  BY DEF records
<1>2. Single' /\ Unique' /\ Counted' /\ Placed'
  BY <1>1 DEF Once, Single, Unique, Counted, Placed
<1> QED
  BY <1>1, <1>2, OnceStep

LEMMA RestOnce ==
  ASSUME TypeOK, Once, NEW p \in Drainers, Choke(p) \/ Finish(p) \/ Dies(p)
  PROVE  Once'
<1>1. Turns(p, Idle) /\ UNCHANGED records /\ drain[p].pc # "idle"
  BY DEF Choke, Finish, Dies, Turns, At
<1>2. Aware(Idle, deliveries, events, receipts)
  BY AtRest DEF Idle
<1> QED
  BY <1>1, <1>2, IdleType, Alone, OnceQuiet

LEMMA StartOnce ==
  ASSUME Serial, TypeOK, Once, NEW p \in Drainers, Start(p)
  PROVE  Once'
<1>1. PICK n, todo : /\ todo = Spooled /\ Turns(p, n)
                     /\ n = [Idle EXCEPT !.pc = "load", !.todo = todo]
  BY DEF Start, Turns
<1>2. todo \in SUBSET Files
  BY <1>1 DEF Spooled
<1>3. n \in Processes /\ n.pc = "load" /\ n.got = {}
  BY <1>1, <1>2 DEF Idle, Processes, Pcs, Known, NoCount
<1>4. Aware(n, deliveries, events, receipts)
  BY <1>3 DEF Aware, Counting
<1>5. UNCHANGED records /\ \A q \in Drainers : drain[q].pc = "idle"
  BY DEF Start, At
<1> QED
  BY <1>1, <1>3, <1>4, <1>5, OnceQuiet

\* A read brings everything there is.
LEMMA ReadOnce ==
  ASSUME TypeOK, Once, NEW p \in Drainers, drain[p].pc = "load",
         NEW read \in Reads, NEW run \in Processes, Loaded(p, read, run),
         UNCHANGED records, run.got = drain[p].got,
         "deliveries" \in run.got \cup {read} =>
           \A d \in DOMAIN deliveries : deliveries[d].id # None =>
             /\ run.map[deliveries[d].id].page = d
             /\ run.map[deliveries[d].id].count = deliveries[d].count,
         "events" \in run.got \cup {read} =>
           \A m \in DOMAIN events : events[m] # None => events[m] \in run.keys
  PROVE  Once'
<1>1. PICK pc, got : /\ pc = IF drain[p].got \cup {read} = Reads THEN "pick" ELSE "load"
                     /\ got = run.got \cup {read}
  OBVIOUS
<1>2. PICK n : n = [run EXCEPT !.got = got, !.pc = pc] /\ Turns(p, n)
  BY <1>1 DEF Loaded, Turns
<1>3. pc \in {"pick", "load"} /\ got \in SUBSET Reads /\ (pc = "pick" => got = Reads)
  BY <1>1 DEF Processes
<1>4. n \in Processes /\ n.pc = pc /\ n.map = run.map /\ n.keys = run.keys /\ n.got = got
  BY <1>2, <1>3 DEF Processes, Pcs
<1>5. Aware(n, deliveries, events, receipts)
  BY <1>1, <1>3, <1>4 DEF Aware, Counting
<1> QED
  BY <1>2, <1>4, <1>5, Alone, OnceQuiet

LEMMA LoadOnce ==
  ASSUME TypeOK, Once, NEW p \in Drainers,
         ReadDeliveries(p) \/ ReadEvents(p) \/ ReadExecutions(p)
  PROVE  Once'
<1>1. /\ drain[p] \in Processes /\ drain[p].pc = "load" /\ UNCHANGED records
      /\ deliveries \in Seq(DeliveryRows) /\ events \in Seq(EventKeys \cup {None})
      /\ DOMAIN deliveries = 1 .. Len(deliveries) /\ DOMAIN events = 1 .. Len(events)
  BY DEF TypeOK, ReadDeliveries, ReadEvents, ReadExecutions, At
<1>2. /\ "deliveries" \in drain[p].got =>
           \A d \in DOMAIN deliveries : deliveries[d].id # None =>
             /\ drain[p].map[deliveries[d].id].page = d
             /\ drain[p].map[deliveries[d].id].count = deliveries[d].count
      /\ "events" \in drain[p].got =>
           \A m \in DOMAIN events : events[m] # None => events[m] \in drain[p].keys
  BY <1>1, Zenon DEF Once, Aware
<1>3. CASE ReadDeliveries(p)
  <2>1. PICK map \in [Ids -> 0 .. Len(deliveries)] :
          /\ \A i \in Ids :
               IF \E d \in 1 .. Len(deliveries) : deliveries[d].id = i
               THEN map[i] > 0 /\ deliveries[map[i]].id = i
               ELSE map[i] = 0
          /\ Loaded(p, "deliveries",
               [drain[p] EXCEPT !.map = [i \in Ids |->
                  IF map[i] = 0 THEN NoCount
                  ELSE [page |-> map[i], count |-> deliveries[map[i]].count]]])
    BY <1>3 DEF ReadDeliveries
  <2>2. PICK known : known = [i \in Ids |->
                  IF map[i] = 0 THEN NoCount
                  ELSE [page |-> map[i], count |-> deliveries[map[i]].count]]
    OBVIOUS
  <2>3. \A d \in DOMAIN deliveries : deliveries[d] \in DeliveryRows
    BY <1>1
  <2>4. known \in [Ids -> Known]
    <3>1. ASSUME NEW i \in Ids PROVE known[i] \in Known
      <4>1. map[i] \in Nat /\ (map[i] # 0 => map[i] \in DOMAIN deliveries)
        BY <1>1
      <4>2. map[i] # 0 => deliveries[map[i]].count \in Nat
        BY <2>3, <4>1 DEF DeliveryRows
      <4> QED
        BY <2>2, <4>1, <4>2 DEF Known, NoCount
    <3> QED
      BY <2>2, <3>1
  <2>5. PICK run : run = [drain[p] EXCEPT !.map = known]
    OBVIOUS
  <2>6. run \in Processes /\ run.map = known /\ run.keys = drain[p].keys
        /\ run.got = drain[p].got
    BY <1>1, <2>4, <2>5 DEF Processes
  <2>7. Loaded(p, "deliveries", run)
    BY <2>1, <2>2, <2>5
  <2>8. ASSUME NEW d \in DOMAIN deliveries, deliveries[d].id # None
        PROVE  /\ run.map[deliveries[d].id].page = d
               /\ run.map[deliveries[d].id].count = deliveries[d].count
    <3>1. deliveries[d].id \in Ids
      BY <2>3, <2>8 DEF DeliveryRows
    <3>2. map[deliveries[d].id] = d /\ d # 0
      BY <1>1, <2>1, <2>8, <3>1, SMTT(60) DEF Once, Single
    <3> QED
      BY <2>2, <2>6, <3>1, <3>2
  <2> QED
    BY <1>1, <1>2, <2>6, <2>7, <2>8, ReadOnce DEF Reads
<1>4. CASE ReadEvents(p)
  <2>1. PICK keys : keys = {k \in EventKeys :
                              \E n \in 1 .. Len(events) : events[n] = k}
    OBVIOUS
  <2>2. PICK run : run = [drain[p] EXCEPT !.keys = keys]
    OBVIOUS
  <2>3. /\ keys \in SUBSET EventKeys
        /\ \A m \in DOMAIN events : events[m] # None => events[m] \in keys
    BY <1>1, <2>1
  <2>4. /\ run \in Processes /\ run.keys = keys /\ run.map = drain[p].map
        /\ run.got = drain[p].got
    BY <1>1, <2>2, <2>3 DEF Processes
  <2>5. Loaded(p, "events", run)
    BY <1>4, <2>1, <2>2 DEF ReadEvents
  <2> QED
    BY <1>1, <1>2, <2>3, <2>4, <2>5, ReadOnce DEF Reads
<1>5. CASE ReadExecutions(p)
  <2>1. PICK waiting : waiting = {e \in Executions :
            exec[e].status = "Succeeded" /\ exec[e].reconcile # "Confirmed"}
    OBVIOUS
  <2>2. PICK run : run = [drain[p] EXCEPT !.waiting = waiting]
    OBVIOUS
  <2>3. waiting \in SUBSET Executions
    BY <2>1
  <2>4. /\ run \in Processes /\ run.map = drain[p].map
        /\ run.keys = drain[p].keys /\ run.got = drain[p].got
    BY <1>1, <2>2, <2>3 DEF Processes
  <2>5. Loaded(p, "executions", run)
    BY <1>5, <2>1, <2>2 DEF ReadExecutions
  <2> QED
    BY <1>1, <1>2, <2>4, <2>5, ReadOnce DEF Reads
<1> QED
  BY <1>3, <1>4, <1>5

LEMMA PickOnce ==
  ASSUME TypeOK, Once, NEW p \in Drainers, Take(p) \/ PassOver(p)
  PROVE  Once'
<1>0. PICK o : o = drain[p]
  OBVIOUS
<1>1. /\ o \in Processes /\ o.pc = "pick" /\ o.todo # {} /\ o.todo \in SUBSET Files
      /\ UNCHANGED records /\ Aware(o, deliveries, events, receipts)
  BY <1>0 DEF TypeOK, Take, PassOver, At, Once, Processes
<1>2. PICK f \in o.todo : f = Current(p)
  BY <1>0, <1>1, FirstIsOne DEF Current
<1>3. CASE Take(p)
  <2> DEFINE again == drain[p].map[Delivery[Current(p)]].page # 0
  <2>1. PICK n : n = [o EXCEPT !.pc = "delivery", !.file = f, !.repeat = again,
                               !.new = 0, !.event = 0]
    OBVIOUS
  <2>2. Turns(p, n)
    <3>1. drain' = [drain EXCEPT ![p].pc = "delivery", ![p].file = Current(p),
                      ![p].repeat = again, ![p].new = 0, ![p].event = 0]
      BY <1>3, Zenon DEF Take
    <3> HIDE DEF again
    <3> QED
      BY <1>0, <1>2, <2>1, <3>1 DEF Turns
  <2>3. again \in BOOLEAN /\ (~again => o.map[Delivery[f]].page = 0)
    BY <1>0, <1>2
  <2> HIDE DEF again
  <2>4. /\ n \in Processes /\ n.pc = "delivery" /\ n.file = f
        /\ n.map = o.map /\ n.keys = o.keys /\ n.got = o.got
    BY <1>1, <2>1, <2>3 DEF Processes, Pcs
  <2>5. n.repeat = again
    BY <1>1, <2>1, Zenon DEF Processes
  <2>6. ~n.repeat => n.map[Delivery[n.file]].page = 0
    BY <2>3, <2>4, <2>5, Zenon
  <2>7. Aware(n, deliveries, events, receipts)
    BY <1>1, <2>4, <2>6 DEF Aware, Counting
  <2> QED
    BY <1>0, <1>1, <2>2, <2>4, <2>7, Alone, OnceQuiet
<1>4. CASE PassOver(p)
  <2>1. PICK n : n = [o EXCEPT !.todo = o.todo \ {f}] /\ Turns(p, n)
    BY <1>0, <1>2, <1>4 DEF PassOver, Turns
  <2>2. /\ n \in Processes /\ n.pc = "pick" /\ n.map = o.map /\ n.keys = o.keys
        /\ n.got = o.got
    BY <1>1, <2>1 DEF Processes
  <2>3. Aware(n, deliveries, events, receipts)
    BY <1>1, <2>2 DEF Aware, Counting
  <2> QED
    BY <1>0, <1>1, <2>1, <2>2, <2>3, Alone, OnceQuiet
<1> QED
  BY <1>3, <1>4

\* Steps that leave pages and memory alone.
LEMMA PassOnce ==
  ASSUME TypeOK, Once, NEW p \in Drainers,
         KeepEvent(p) \/ Reconcile(p) \/ Rename(p)
  PROVE  Once'
<1>1. PICK o : /\ o = drain[p] /\ o \in Processes /\ UNCHANGED records
               /\ o.pc \in {"event", "reconcile", "rename"}
               /\ Aware(o, deliveries, events, receipts)
  BY DEF TypeOK, KeepEvent, Reconcile, Rename, At, Once
<1>2. PICK n \in Processes : /\ Turns(p, n)
                             /\ n.pc \in {"receipt", "rename", "pick"}
                             /\ n.pc = "receipt" => o.pc = "event" /\ n.file = o.file
                             /\ n.map = o.map /\ n.keys = o.keys /\ n.got = o.got
  <2>1. CASE KeepEvent(p)
    <3>1. PICK n : n = [o EXCEPT !.pc = "receipt"] /\ Turns(p, n)
      BY <1>1, <2>1 DEF KeepEvent, Goto, Turns
    <3>2. o.pc = "event"
      BY <1>1, <2>1 DEF KeepEvent, At
    <3> QED
      BY <1>1, <3>1, <3>2 DEF Processes, Pcs
  <2>2. CASE Reconcile(p)
    <3>1. PICK waiting : /\ waiting \in SUBSET o.waiting
                         /\ \/ drain' = [drain EXCEPT ![p].pc = "rename",
                                                      ![p].waiting = waiting]
                            \/ drain' = [drain EXCEPT ![p].pc = "rename"]
      <4>1. CASE \E e \in Confirms(p) :
                   drain' = [drain EXCEPT ![p].pc = "rename", ![p].waiting = @ \ {e}]
        BY <1>1, <4>1
      <4>2. CASE Goto(p, "rename")
        BY <4>2 DEF Goto
      <4> QED
        BY <2>2, <4>1, <4>2 DEF Reconcile
    <3>2. o.waiting \in SUBSET Executions
      BY <1>1 DEF Processes
    <3>3. PICK n, m : /\ n = [o EXCEPT !.pc = "rename", !.waiting = waiting]
                      /\ m = [o EXCEPT !.pc = "rename"]
      OBVIOUS
    <3>4. Turns(p, n) \/ Turns(p, m)
      BY <1>1, <3>1, <3>3 DEF Turns
    <3>5. /\ n \in Processes /\ n.pc = "rename" /\ n.map = o.map /\ n.keys = o.keys
          /\ n.got = o.got
      BY <1>1, <3>1, <3>2, <3>3 DEF Processes, Pcs
    <3>6. /\ m \in Processes /\ m.pc = "rename" /\ m.map = o.map /\ m.keys = o.keys
          /\ m.got = o.got
      BY <1>1, <3>3 DEF Processes, Pcs
    <3> QED
      BY <3>4, <3>5, <3>6
  <2>3. CASE Rename(p)
    <3>1. PICK todo, n :
            /\ todo = o.todo \ {o.file}
            /\ n = [o EXCEPT !.pc = "pick", !.file = None, !.todo = todo]
      OBVIOUS
    <3>2. drain' = [drain EXCEPT ![p].pc = "pick", ![p].file = None, ![p].todo = todo]
      BY <1>1, <2>3, <3>1 DEF Rename, F
    <3>3. Turns(p, n)
      BY <1>1, <3>1, <3>2 DEF Turns
    <3>4. /\ n \in Processes /\ n.pc = "pick" /\ n.map = o.map /\ n.keys = o.keys
          /\ n.got = o.got
      BY <1>1, <3>1 DEF Processes, Pcs
    <3> QED
      BY <3>3, <3>4
  <2> QED
    BY <2>1, <2>2, <2>3
<1>3. Aware(n, deliveries, events, receipts)
  BY <1>1, <1>2 DEF Aware, Counting
<1> QED
  BY <1>1, <1>2, <1>3, Alone, OnceQuiet

------------------------------------------------------------------------------
\* A bare delivery has no id, no count and no receipt.
LEMMA CreateDeliveryOnce ==
  ASSUME TypeOK, Honest, Once, NEW p \in Drainers, CreateDelivery(p)
  PROVE  Once'
<1>1. PICK k \in 1 .. MaxCreations :
         /\ deliveries' = Created(deliveries, BareDelivery, k)
         /\ drain' = [drain EXCEPT ![p].pc = "describe",
                                   ![p].new = Len(deliveries) + k]
  BY DEF CreateDelivery
<1>2. PICK o, m, n : /\ o = drain[p] /\ m = Len(deliveries) + k
                     /\ n = [o EXCEPT !.pc = "describe", !.new = m]
  OBVIOUS
<1>3. /\ o \in Processes /\ o.pc = "delivery" /\ deliveries \in Seq(DeliveryRows)
      /\ receipts \in Seq(ReceiptRows) /\ Turns(p, n) /\ ~o.repeat
      /\ UNCHANGED <<events, receipts>> /\ Aware(o, deliveries, events, receipts)
  BY <1>1, <1>2 DEF TypeOK, CreateDelivery, At, Once, Turns
<1>4. k \in Nat /\ k > 0
  BY BoundsAssumption
<1>5. /\ Len(deliveries) \in Nat /\ Len(deliveries') = Len(deliveries) + k
      /\ deliveries' \in Seq(DeliveryRows)
      /\ \A i \in 1 .. Len(deliveries) : deliveries'[i] = deliveries[i]
      /\ \A i \in Len(deliveries) + 1 .. Len(deliveries) + k :
           deliveries'[i] = BareDelivery
  BY <1>1, <1>3, <1>4, BareTypes, CreatedRows
<1>6. /\ DOMAIN deliveries = 1 .. Len(deliveries)
      /\ DOMAIN deliveries' = 1 .. Len(deliveries) + k
  BY <1>3, <1>5
<1>7. ASSUME NEW d \in DOMAIN deliveries'
      PROVE  \/ d \in DOMAIN deliveries /\ deliveries'[d] = deliveries[d]
             \/ d \notin DOMAIN deliveries /\ deliveries'[d] = BareDelivery /\ d # 0
  BY <1>4, <1>5, <1>6
<1>8. BareDelivery.id = None /\ BareDelivery.count = 0
  BY DEF BareDelivery
<1>9. Single' /\ Unique'
  BY <1>3, <1>7, <1>8 DEF Once, Single, Unique
<1>10. Placed'
  BY <1>3, <1>4, <1>5, <1>6 DEF Once, Placed
<1>11. Counted'
  <2> SUFFICES ASSUME NEW d \in DOMAIN deliveries'
               PROVE  Cardinality(Pointing(d, receipts)) <= deliveries'[d].count
    BY <1>3 DEF Counted
  <2>1. CASE d \in DOMAIN deliveries /\ deliveries'[d] = deliveries[d]
    BY <2>1 DEF Once, Counted
  <2>2. CASE d \notin DOMAIN deliveries /\ deliveries'[d] = BareDelivery /\ d # 0
    <3>1. \A r \in DOMAIN receipts : receipts[r].page # d
      BY <2>2 DEF Once, Placed
    <3>2. Cardinality(Pointing(d, receipts)) = 0
      BY <1>3, <3>1, NothingPoints
    <3> QED
      BY <1>8, <2>2, <3>2
  <2> QED
    BY <1>7, <2>1, <2>2
<1>12. /\ n \in Processes /\ n.pc = "describe" /\ n.map = o.map
       /\ n.keys = o.keys /\ n.file = o.file /\ n.got = o.got
  <2>1. m \in Nat
    BY <1>2, <1>4, <1>5
  <2> QED
    BY <1>2, <1>3, <2>1 DEF Processes, Pcs
<1>13. Aware(n, deliveries', events', receipts')
  <2>1. o.got = Reads /\ o.map[Delivery[o.file]].page = 0
    BY <1>3 DEF Aware
  <2>2. ASSUME NEW d \in DOMAIN deliveries', deliveries'[d].id # None
        PROVE  /\ o.map[deliveries'[d].id].page = d
               /\ o.map[deliveries'[d].id].count = deliveries'[d].count
    <3>1. d \in DOMAIN deliveries /\ deliveries'[d] = deliveries[d]
      BY <1>7, <1>8, <2>2
    <3> QED
      BY <1>3, <2>1, <2>2, <3>1 DEF Aware, Reads
  <2>3. \A j \in DOMAIN events' : events'[j] # None => events'[j] \in n.keys
    BY <1>3, <1>12, <2>1 DEF Aware, Reads
  <2> QED
    BY <1>12, <2>1, <2>2, <2>3 DEF Aware, Counting
<1> QED
  BY <1>2, <1>3, <1>9, <1>10, <1>11, <1>12, <1>13, Alone, OnceStep

\* A delivery is described once: the drain knew no page of its id.
LEMMA DescribeOnce ==
  ASSUME TypeOK, Honest, Once, NEW p \in Drainers, DescribeDelivery(p)
  PROVE  Once'
<1>1. PICK o, id, new, row, map, n :
        /\ o = drain[p] /\ id = Id(p) /\ new = drain[p].new /\ row = Described(p)
        /\ map = [o.map EXCEPT ![id] = [page |-> new, count |-> 1]]
        /\ n = [o EXCEPT !.pc = "event", !.map = map]
  OBVIOUS
<1>2. /\ o \in Processes /\ o.pc = "describe" /\ deliveries \in Seq(DeliveryRows)
      /\ Knows(o, deliveries, events, receipts, exec)
      /\ Aware(o, deliveries, events, receipts)
      /\ UNCHANGED <<events, receipts>> /\ receipts \in Seq(ReceiptRows)
      /\ deliveries' = [deliveries EXCEPT ![new] = row]
      /\ o.map \in [Ids -> Known]
  BY <1>1 DEF TypeOK, DescribeDelivery, At, Honest, Once, Processes
<1>3. Turns(p, n)
  <2>1. drain' = [drain EXCEPT ![p].pc = "event", ![p].map[id] = [page |-> new, count |-> 1]]
    BY <1>1 DEF DescribeDelivery
  <2> QED
    BY <1>1, <2>1 DEF Turns
<1>4. /\ o.file \in Files /\ new \in DOMAIN deliveries /\ deliveries[new] = BareDelivery
      /\ o.got = Reads /\ o.map[Delivery[o.file]].page = 0
  BY <1>1, <1>2 DEF Knows, Working, Aware
<1>5. /\ id = Delivery[o.file] /\ id \in Ids /\ id # None
      /\ row.id = id /\ row.count = 1
  BY <1>1, <1>4, IdsOfFiles DEF Id, F, Described
<1>6. /\ DOMAIN deliveries' = DOMAIN deliveries /\ deliveries'[new] = row
      /\ \A d \in DOMAIN deliveries \ {new} : deliveries'[d] = deliveries[d]
      /\ new \in Nat /\ new # 0
  BY <1>2, <1>4
<1>7. /\ map \in [Ids -> Known] /\ map[id].page = new /\ map[id].count = 1
      /\ \A i \in Ids \ {id} : map[i] = o.map[i]
  BY <1>1, <1>2, <1>5, <1>6 DEF Known
<1>8. /\ n \in Processes /\ n.pc = "event" /\ n.map = map /\ n.keys = o.keys
      /\ n.file = o.file /\ n.got = Reads
  BY <1>1, <1>2, <1>4, <1>7, ZenonT(60) DEF Processes, Pcs
<1>9. \A d \in DOMAIN deliveries : deliveries[d].id # None =>
        /\ deliveries[d].id \in Ids
        /\ o.map[deliveries[d].id].page = d /\ d # 0
        /\ o.map[deliveries[d].id].count = deliveries[d].count
  <2>1. \A d \in DOMAIN deliveries : deliveries[d] \in DeliveryRows /\ d # 0
    BY <1>2
  <2> QED
    BY <1>2, <1>4, <2>1 DEF Aware, Reads, DeliveryRows
<1>10. \A d \in DOMAIN deliveries : deliveries[d].id # id
  BY <1>4, <1>5, <1>9
<1>11. Single' /\ Unique'
  BY <1>2, <1>5, <1>6, <1>10 DEF Once, Single, Unique
<1>12. Cardinality(Pointing(new, receipts)) = 0
  <2>1. Cardinality(Pointing(new, receipts)) <= 0
    BY <1>4 DEF Once, Counted, BareDelivery
  <2> QED
    BY <1>2, <2>1, PointingFinite
<1>13. Counted'
  BY <1>2, <1>5, <1>6, <1>12 DEF Once, Counted
<1>14. Placed'
  BY <1>2, <1>6 DEF Once, Placed
<1>15. Aware(n, deliveries', events', receipts')
  <2>1. ASSUME NEW d \in DOMAIN deliveries', deliveries'[d].id # None
        PROVE  /\ n.map[deliveries'[d].id].page = d
               /\ n.map[deliveries'[d].id].count = deliveries'[d].count
    <3>1. CASE d = new
      BY <1>5, <1>6, <1>7, <1>8, <3>1
    <3>2. CASE d # new
      BY <1>6, <1>7, <1>8, <1>9, <1>10, <2>1, <3>2
    <3> QED
      BY <3>1, <3>2
  <2>2. \A j \in DOMAIN events' : events'[j] # None => events'[j] \in n.keys
    BY <1>2, <1>4, <1>8 DEF Aware, Reads
  <2>3. /\ n.map[Delivery[n.file]].page = new /\ deliveries'[new].count = 1
        /\ receipts' = receipts
    BY <1>2, <1>5, <1>6, <1>7, <1>8
  <2> QED
    BY <1>8, <1>12, <2>1, <2>2, <2>3 DEF Aware
<1> QED
  BY <1>1, <1>2, <1>3, <1>8, <1>11, <1>13, <1>14, <1>15, Alone, OnceStep

\* A repeated delivery is counted on the page it has.
LEMMA RepeatOnce ==
  ASSUME TypeOK, Honest, Once, NEW p \in Drainers, RepeatDelivery(p)
  PROVE  Once'
<1>1. PICK o, id, page, count, map, n :
        /\ o = drain[p] /\ id = Id(p) /\ page = o.map[id].page
        /\ count = o.map[id].count + 1
        /\ map = [o.map EXCEPT ![id] = [o.map[id] EXCEPT !.count = count]]
        /\ n = [o EXCEPT !.pc = "event", !.map = map]
  OBVIOUS
<1>2. /\ o \in Processes /\ o.pc = "delivery" /\ deliveries \in Seq(DeliveryRows)
      /\ Knows(o, deliveries, events, receipts, exec)
      /\ Aware(o, deliveries, events, receipts)
      /\ UNCHANGED <<events, receipts>> /\ receipts \in Seq(ReceiptRows)
      /\ o.map \in [Ids -> Known]
  BY <1>1, SMTT(60) DEF TypeOK, RepeatDelivery, At, Honest, Once, Processes
<1>3. o.repeat /\ o.got = Reads
  BY <1>1, <1>2, Zenon DEF RepeatDelivery, Aware
<1>4. o.file \in Files /\ id = Delivery[o.file] /\ id \in Ids /\ id # None
      /\ page # 0 /\ page \in DOMAIN deliveries /\ deliveries[page].id = id
  <2>1. o.file \in Files /\ o.map[Delivery[o.file]].page # 0
    BY <1>2, <1>3, SMTT(60) DEF Knows, Working
  <2>2. id = Delivery[o.file] /\ id \in Ids /\ id # None
    BY <1>1, <2>1, IdsOfFiles, Zenon DEF Id, F
  <2> QED
    BY <1>1, <1>2, <2>1, <2>2, Zenon DEF Knows
<1>5. \A d \in DOMAIN deliveries : deliveries[d].id # None =>
        /\ deliveries[d].id \in Ids
        /\ o.map[deliveries[d].id].page = d
        /\ o.map[deliveries[d].id].count = deliveries[d].count
  <2>1. \A d \in DOMAIN deliveries : deliveries[d] \in DeliveryRows
    BY <1>2, SMTT(60)
  <2> QED
    BY <1>2, <1>3, <2>1 DEF Aware, Reads, DeliveryRows
<1>6. count = deliveries[page].count + 1 /\ count \in Nat /\ deliveries[page].count \in Nat
  <2>1. o.map[id].count \in Nat
    BY <1>2, <1>4 DEF Known
  <2>2. o.map[id].count = deliveries[page].count
    BY <1>4, <1>5
  <2> QED
    BY <1>1, <2>1, <2>2
<1>7. PICK row : row = [deliveries[page] EXCEPT !.status = "Duplicate", !.count = count]
  OBVIOUS
<1>8. row.count = count /\ row.id = id /\ deliveries' = [deliveries EXCEPT ![page] = row]
  <2>1. deliveries[page] \in DeliveryRows
    BY <1>2, <1>4, SMTT(60)
  <2>2. deliveries' = [deliveries EXCEPT ![page].status = "Duplicate",
                                         ![page].count = count]
    BY <1>1, Zenon DEF RepeatDelivery
  <2>3. deliveries' = [deliveries EXCEPT ![page] = row]
    BY <1>2, <1>7, <2>2
  <2> QED
    BY <1>4, <1>6, <1>7, <2>1, <2>3 DEF DeliveryRows
<1>9. /\ DOMAIN deliveries' = DOMAIN deliveries /\ deliveries'[page] = row
      /\ \A d \in DOMAIN deliveries \ {page} : deliveries'[d] = deliveries[d]
  BY <1>2, <1>4, <1>8
<1>10. Turns(p, n)
  <2>1. drain' = [drain EXCEPT ![p].pc = "event", ![p].map[id].count = count]
    BY <1>1, Zenon DEF RepeatDelivery
  <2> QED
    BY <1>1, <2>1 DEF Turns
<1>11. /\ map \in [Ids -> Known] /\ map[id].page = page /\ map[id].count = count
       /\ \A i \in Ids \ {id} : map[i] = o.map[i]
  BY <1>1, <1>2, <1>4, <1>6 DEF Known
<1>12. /\ n \in Processes /\ n.pc = "event" /\ n.map = map /\ n.keys = o.keys
       /\ n.file = o.file /\ n.got = Reads
  BY <1>1, <1>2, <1>3, <1>11, ZenonT(60) DEF Processes, Pcs
<1>13. Single' /\ Unique' /\ Placed'
  BY <1>2, <1>4, <1>8, <1>9 DEF Once, Single, Unique, Placed
<1>14. /\ Cardinality(Pointing(page, receipts)) < count
       /\ Cardinality(Pointing(page, receipts)) \in Nat
  BY <1>2, <1>4, <1>6, PointingFinite DEF Once, Counted
<1>15. Counted'
  BY <1>2, <1>8, <1>9, <1>14, <1>6 DEF Once, Counted
<1>16. Aware(n, deliveries', events', receipts')
  <2>1. ASSUME NEW d \in DOMAIN deliveries', deliveries'[d].id # None
        PROVE  /\ n.map[deliveries'[d].id].page = d
               /\ n.map[deliveries'[d].id].count = deliveries'[d].count
    <3>1. CASE d = page
      BY <1>8, <1>9, <1>11, <1>12, <3>1
    <3>2. CASE d # page
      <4>1. deliveries'[d] = deliveries[d] /\ d \in DOMAIN deliveries
        BY <1>9, <3>2
      <4>2. deliveries[d].id # id
        BY <1>1, <1>5, <2>1, <3>2, <4>1
      <4> QED
        BY <1>5, <1>11, <1>12, <2>1, <4>1, <4>2
    <3> QED
      BY <3>1, <3>2
  <2>2. \A j \in DOMAIN events' : events'[j] # None => events'[j] \in n.keys
    BY <1>2, <1>3, <1>12 DEF Aware, Reads
  <2>3. /\ n.map[Delivery[n.file]].page = page /\ deliveries'[page].count = count
        /\ receipts' = receipts
    BY <1>2, <1>4, <1>8, <1>9, <1>11, <1>12
  <2> QED
    BY <1>12, <1>14, <2>1, <2>2, <2>3 DEF Aware
<1> QED
  BY <1>1, <1>2, <1>10, <1>12, <1>13, <1>15, <1>16, Alone, OnceStep

\* Linking changes neither ids nor counts.
LEMMA LinkOnce ==
  ASSUME TypeOK, Honest, Once, NEW p \in Drainers, Link(p)
  PROVE  Once'
<1>1. PICK o, page, event, n :
        /\ o = drain[p] /\ page = o.map[Id(p)].page /\ event = o.event
        /\ n = [o EXCEPT !.pc = "reconcile"]
  OBVIOUS
<1>2. /\ o \in Processes /\ o.pc = "link" /\ deliveries \in Seq(DeliveryRows)
      /\ Aware(o, deliveries, events, receipts) /\ Turns(p, n)
      /\ UNCHANGED <<events, receipts>>
  BY <1>1 DEF TypeOK, Link, At, Once, Processes, Goto, Turns
<1>3. /\ DOMAIN deliveries' = DOMAIN deliveries
      /\ \A d \in DOMAIN deliveries : /\ deliveries'[d].id = deliveries[d].id
                                      /\ deliveries'[d].count = deliveries[d].count
  <2>1. \A d \in DOMAIN deliveries : deliveries[d] \in DeliveryRows
    BY <1>2
  <2>2. CASE event = 0
    <3>1. deliveries' = deliveries
      BY <1>1, <2>2 DEF Link
    <3> QED
      BY <3>1
  <2>3. CASE event # 0
    <3>1. deliveries' = [deliveries EXCEPT ![page].event = event,
                                           ![page].status = "Processed"]
      BY <1>1, <2>3 DEF Link
    <3> QED
      BY <2>1, <3>1 DEF DeliveryRows
  <2> QED
    BY <2>2, <2>3
<1>4. Single' /\ Unique' /\ Counted' /\ Placed'
  <2>1. Single' /\ Unique'
    BY <1>2, <1>3 DEF Once, Single, Unique
  <2>2. Counted'
    BY <1>2, <1>3 DEF Once, Counted
  <2>3. Placed'
    BY <1>2, <1>3 DEF Once, Placed
  <2> QED
    BY <2>1, <2>2, <2>3
<1>5. /\ n \in Processes /\ n.pc = "reconcile" /\ n.map = o.map
      /\ n.keys = o.keys /\ n.got = o.got
  BY <1>1, <1>2 DEF Processes, Pcs
<1>6. Aware(n, deliveries', events', receipts')
  BY <1>2, <1>3, <1>5 DEF Aware, Counting
<1> QED
  BY <1>1, <1>2, <1>4, <1>5, <1>6, Alone, OnceStep

------------------------------------------------------------------------------
\* A bare event has no key.
LEMMA CreateEventOnce ==
  ASSUME TypeOK, Once, Honest, NEW p \in Drainers, CreateEvent(p)
  PROVE  Once'
<1>1. PICK k \in 1 .. MaxCreations :
         /\ events' = Created(events, None, k)
         /\ drain' = [drain EXCEPT ![p].pc = "keyEvent",
                                   ![p].event = Len(events) + k,
                                   ![p].keys = @ \cup {Key[F(p)]}]
  BY DEF CreateEvent
<1>2. PICK o, m, key, keys, n :
        /\ o = drain[p] /\ m = Len(events) + k /\ key = Key[o.file]
        /\ keys = o.keys \cup {key}
        /\ n = [o EXCEPT !.pc = "keyEvent", !.event = m, !.keys = keys]
  OBVIOUS
<1>3. /\ o \in Processes /\ o.pc = "event" /\ events \in Seq(EventKeys \cup {None})
      /\ Aware(o, deliveries, events, receipts) /\ key \notin o.keys
      /\ Knows(o, deliveries, events, receipts, exec)
      /\ UNCHANGED <<deliveries, receipts>>
  BY <1>2 DEF TypeOK, CreateEvent, At, Once, Honest, NewEvent, F
<1>4. k \in Nat /\ k > 0
  BY BoundsAssumption
<1>5. /\ Len(events) \in Nat /\ Len(events') = Len(events) + k
      /\ events' \in Seq(EventKeys \cup {None})
      /\ \A i \in 1 .. Len(events) : events'[i] = events[i]
      /\ \A i \in Len(events) + 1 .. Len(events) + k : events'[i] = None
  BY <1>1, <1>3, <1>4, CreatedEvents
<1>6. /\ DOMAIN events = 1 .. Len(events) /\ DOMAIN events' = 1 .. Len(events) + k
      /\ m \in Nat
  BY <1>2, <1>3, <1>4, <1>5
<1>7. ASSUME NEW j \in DOMAIN events'
      PROVE  \/ j \in DOMAIN events /\ events'[j] = events[j]
             \/ events'[j] = None
  BY <1>4, <1>5, <1>6
<1>8. /\ key \in EventKeys /\ key # None /\ keys \in SUBSET EventKeys
  <2>1. o.file \in Files
    BY <1>3 DEF Knows, Working
  <2> QED
    BY <1>2, <1>3, <2>1, IdsOfFiles DEF Processes
<1>9. Turns(p, n)
  <2>1. drain' = [drain EXCEPT ![p].pc = "keyEvent", ![p].event = m,
                               ![p].keys = drain[p].keys \cup {Key[o.file]}]
    BY <1>1, <1>2 DEF F
  <2> QED
    BY <1>2, <2>1 DEF Turns
<1>10. /\ n \in Processes /\ n.pc = "keyEvent" /\ n.keys = keys /\ n.got = o.got
       /\ n.map = o.map /\ n.file = o.file
  BY <1>2, <1>3, <1>6, <1>8 DEF Processes, Pcs
<1>11. Single' /\ Counted' /\ Placed'
  BY <1>3 DEF Once, Single, Counted, Placed
<1>12. Unique'
  BY <1>7 DEF Once, Unique
<1>13. o.got = Reads
  BY <1>3 DEF Aware
<1>14. \A j \in DOMAIN events' : /\ events'[j] # key
                                 /\ events'[j] # None => events'[j] \in keys
  BY <1>2, <1>3, <1>7, <1>8, <1>13, SMTT(60) DEF Aware, Reads
<1>15. Aware(n, deliveries', events', receipts')
  <2>1. \A d \in DOMAIN deliveries' : deliveries'[d].id # None =>
           /\ n.map[deliveries'[d].id].page = d
           /\ n.map[deliveries'[d].id].count = deliveries'[d].count
    BY <1>3, <1>10, <1>13 DEF Aware, Reads
  <2>2. Cardinality(Pointing(n.map[Delivery[n.file]].page, receipts'))
          < deliveries'[n.map[Delivery[n.file]].page].count
    BY <1>3, <1>10 DEF Aware, Counting
  <2>3. \A j \in DOMAIN events' : events'[j] # None => events'[j] \in n.keys
    BY <1>10, <1>14
  <2>4. key \in n.keys /\ \A j \in DOMAIN events' : events'[j] # Key[n.file]
    BY <1>2, <1>10, <1>14
  <2> QED
    BY <1>2, <1>10, <1>13, <2>1, <2>2, <2>3, <2>4 DEF Aware
<1> QED
  BY <1>2, <1>3, <1>9, <1>10, <1>11, <1>12, <1>15, Alone, OnceStep

\* A key is written once: the drain knew no event of it.
LEMMA KeyOnce ==
  ASSUME TypeOK, Honest, Once, NEW p \in Drainers, KeyEvent(p)
  PROVE  Once'
<1>1. PICK o, key, event, n :
        /\ o = drain[p] /\ key = Key[o.file] /\ event = o.event
        /\ n = [o EXCEPT !.pc = "receipt"]
  OBVIOUS
<1>2. /\ o \in Processes /\ o.pc = "keyEvent" /\ Turns(p, n)
      /\ events \in Seq(EventKeys \cup {None})
      /\ Knows(o, deliveries, events, receipts, exec)
      /\ Aware(o, deliveries, events, receipts)
      /\ UNCHANGED <<deliveries, receipts>>
      /\ events' = [events EXCEPT ![event] = key]
  BY <1>1 DEF TypeOK, KeyEvent, At, Honest, Once, Goto, Turns, F
<1>3. /\ event \in DOMAIN events /\ o.got = Reads
      /\ \A j \in DOMAIN events : events[j] # key
  BY <1>1, <1>2 DEF Knows, Aware
<1>4. /\ DOMAIN events' = DOMAIN events /\ events'[event] = key
      /\ \A j \in DOMAIN events \ {event} : events'[j] = events[j]
  BY <1>2, <1>3
<1>5. /\ n \in Processes /\ n.pc = "receipt" /\ n.keys = o.keys
      /\ n.map = o.map /\ n.file = o.file /\ n.got = o.got
  BY <1>1, <1>2 DEF Processes, Pcs
<1>6. Single' /\ Counted' /\ Placed'
  BY <1>2 DEF Once, Single, Counted, Placed
<1>7. Unique'
  BY <1>3, <1>4 DEF Once, Unique
<1>8. key \in o.keys
  BY <1>1, <1>2 DEF Aware
<1>9. Aware(n, deliveries', events', receipts')
  BY <1>2, <1>3, <1>4, <1>5, <1>8 DEF Aware, Counting
<1> QED
  BY <1>1, <1>2, <1>5, <1>6, <1>7, <1>9, Alone, OnceStep

------------------------------------------------------------------------------
\* A bare receipt points nowhere.
LEMMA CreateReceiptOnce ==
  ASSUME TypeOK, Honest, Once, NEW p \in Drainers, CreateReceipt(p)
  PROVE  Once'
<1>1. PICK k \in 1 .. MaxCreations :
         /\ receipts' = Created(receipts, BareReceipt, k)
         /\ drain' = [drain EXCEPT ![p].pc = "fileReceipt",
                                   ![p].new = Len(receipts) + k]
  BY DEF CreateReceipt
<1>2. PICK o, m, n : /\ o = drain[p] /\ m = Len(receipts) + k
                     /\ n = [o EXCEPT !.pc = "fileReceipt", !.new = m]
  OBVIOUS
<1>3. /\ o \in Processes /\ o.pc = "receipt" /\ receipts \in Seq(ReceiptRows)
      /\ deliveries \in Seq(DeliveryRows) /\ Turns(p, n)
      /\ UNCHANGED <<deliveries, events>> /\ Aware(o, deliveries, events, receipts)
      /\ Knows(o, deliveries, events, receipts, exec)
  BY <1>1, <1>2 DEF TypeOK, CreateReceipt, At, Once, Honest, Turns
<1>4. k \in Nat /\ k > 0
  BY BoundsAssumption
<1>5. /\ Len(receipts) \in Nat /\ Len(receipts') = Len(receipts) + k
      /\ receipts' \in Seq(ReceiptRows)
      /\ \A i \in 1 .. Len(receipts) : receipts'[i] = receipts[i]
      /\ \A i \in Len(receipts) + 1 .. Len(receipts) + k :
           receipts'[i] = BareReceipt
  BY <1>1, <1>3, <1>4, BareTypes, CreatedRows
<1>6. /\ DOMAIN receipts = 1 .. Len(receipts)
      /\ DOMAIN receipts' = 1 .. Len(receipts) + k
      /\ m \in Nat
  BY <1>2, <1>3, <1>4, <1>5
<1>7. ASSUME NEW r \in DOMAIN receipts'
      PROVE  \/ r \in DOMAIN receipts /\ receipts'[r] = receipts[r]
             \/ r \notin DOMAIN receipts /\ receipts'[r].page = 0
  BY <1>4, <1>5, <1>6 DEF BareReceipt
<1>8. \A d : d # 0 => Pointing(d, receipts') = Pointing(d, receipts)
  <2>1. DOMAIN receipts \subseteq DOMAIN receipts'
    BY <1>4, <1>5, <1>6
  <2> QED
    BY <1>7, <2>1 DEF Pointing
<1>9. /\ n \in Processes /\ n.pc = "fileReceipt" /\ n.map = o.map
      /\ n.keys = o.keys /\ n.file = o.file /\ n.got = o.got
  BY <1>2, <1>3, <1>6 DEF Processes, Pcs
<1>10. Single' /\ Unique' /\ Placed'
  BY <1>3, <1>7 DEF Once, Single, Unique, Placed
<1>11. Counted'
  <2>1. \A d \in DOMAIN deliveries : d # 0
    BY <1>3
  <2> QED
    BY <1>3, <1>8, <2>1 DEF Once, Counted
<1>12. o.got = Reads /\ o.map[Delivery[o.file]].page # 0
  BY <1>3 DEF Aware, Knows, Working
<1>13. Aware(n, deliveries', events', receipts')
  BY <1>3, <1>8, <1>9, <1>12 DEF Aware, Counting
<1> QED
  BY <1>2, <1>3, <1>9, <1>10, <1>11, <1>13, Alone, OnceStep

\* A receipt is filed on a page that has counted it.
LEMMA FileOnce ==
  ASSUME TypeOK, Honest, Once, NEW p \in Drainers, FileReceipt(p)
  PROVE  Once'
<1>1. PICK o, new, page, row, n :
        /\ o = drain[p] /\ new = o.new /\ page = o.map[Id(p)].page
        /\ row = [file |-> F(p), page |-> page, duplicate |-> drain[p].repeat]
        /\ n = [o EXCEPT !.pc = "link"]
  OBVIOUS
<1>2. /\ o \in Processes /\ o.pc = "fileReceipt" /\ receipts \in Seq(ReceiptRows)
      /\ Knows(o, deliveries, events, receipts, exec) /\ Turns(p, n)
      /\ Aware(o, deliveries, events, receipts)
      /\ UNCHANGED <<deliveries, events>> /\ deliveries \in Seq(DeliveryRows)
      /\ receipts' = [receipts EXCEPT ![new] = row]
  BY <1>1, SMTT(60) DEF TypeOK, FileReceipt, At, Honest, Once, Goto, Turns
<1>3. /\ o.file \in Files /\ new \in DOMAIN receipts /\ receipts[new].page = 0
      /\ page # 0 /\ page = o.map[Delivery[o.file]].page /\ o.got = Reads
  BY <1>1, <1>2 DEF Knows, Working, Id, F, Aware, BareReceipt
<1>4. /\ page \in DOMAIN deliveries
      /\ Cardinality(Pointing(page, receipts)) < deliveries[page].count
  BY <1>2, <1>3, IdsOfFiles DEF Knows, Aware, Counting
<1>5. row.page = page
  BY <1>1
<1>6. /\ DOMAIN receipts' = DOMAIN receipts /\ receipts'[new] = row
      /\ \A m \in DOMAIN receipts \ {new} : receipts'[m] = receipts[m]
  BY <1>2, <1>3
<1>7. /\ Pointing(page, receipts') = Pointing(page, receipts) \cup {new}
      /\ new \notin Pointing(page, receipts)
      /\ \A d : d # 0 /\ d # page => Pointing(d, receipts') = Pointing(d, receipts)
  BY <1>3, <1>5, <1>6 DEF Pointing
<1>8. Cardinality(Pointing(page, receipts')) = Cardinality(Pointing(page, receipts)) + 1
  <2>1. IsFiniteSet(Pointing(page, receipts))
    BY <1>2, PointingFinite
  <2> QED
    BY <1>7, <2>1, FS_AddElement
<1>9. Counted'
  <2> SUFFICES ASSUME NEW d \in DOMAIN deliveries
               PROVE  Cardinality(Pointing(d, receipts')) <= deliveries[d].count
    BY <1>2 DEF Counted
  <2>1. d # 0 /\ deliveries[d].count \in Nat
    <3>1. d # 0 /\ deliveries[d] \in DeliveryRows
      BY <1>2
    <3> QED
      BY <3>1 DEF DeliveryRows
  <2>2. CASE d = page
    <3>1. Cardinality(Pointing(page, receipts)) \in Nat
      BY <1>2, PointingFinite
    <3> QED
      BY <1>4, <1>8, <2>1, <2>2, <3>1
  <2>3. CASE d # page
    BY <1>7, <2>1, <2>3 DEF Once, Counted
  <2> QED
    BY <2>2, <2>3
<1>10. Single' /\ Unique' /\ Placed'
  BY <1>2, <1>4, <1>5, <1>6 DEF Once, Single, Unique, Placed
<1>11. /\ n \in Processes /\ n.pc = "link" /\ n.map = o.map
       /\ n.keys = o.keys /\ n.file = o.file /\ n.got = o.got
  BY <1>1, <1>2 DEF Processes, Pcs
<1>12. Aware(n, deliveries', events', receipts')
  BY <1>2, <1>3, <1>11 DEF Aware, Counting
<1> QED
  BY <1>1, <1>2, <1>9, <1>10, <1>11, <1>12, Alone, OnceStep

------------------------------------------------------------------------------
LEMMA InitOnce == Init => Once
<1> SUFFICES ASSUME Init PROVE Once
  OBVIOUS
<1>1. \A p \in Drainers : drain[p] = Idle
  BY DEF Init
<1>2. Idle.pc = "idle" /\ Aware(Idle, deliveries, events, receipts)
  BY AtRest DEF Idle
<1>3. Single /\ Unique /\ Counted /\ Placed
  BY DEF Init, Single, Unique, Counted, Placed
<1> QED
  BY <1>1, <1>2, <1>3 DEF Once

LEMMA NextOnce ==
  ASSUME Serial, TypeOK, Honest, Once, [Next]_vars
  PROVE  Once'
<1>1. ASSUME UNCHANGED <<records, drain>> PROVE Once'
  <2>1. /\ deliveries' = deliveries /\ events' = events /\ receipts' = receipts
        /\ drain' = drain
    BY <1>1 DEF records
  <2>2. Single' /\ Unique' /\ Counted' /\ Placed'
    BY <2>1 DEF Once, Single, Unique, Counted, Placed
  <2> QED
    BY <2>1, <2>2 DEF Once
<1>2. CASE \E f \in Files : Receive(f) \/ FinishWrite(f)
  BY <1>1, <1>2 DEF Receive, FinishWrite
<1>3. CASE \E e \in Executions : LaneRecords(e)
  BY <1>1, <1>3 DEF LaneRecords
<1>4. ASSUME NEW p \in Drainers, Start(p) \/ Dies(p)
      PROVE  Once'
  BY <1>4, StartOnce, RestOnce
<1>5. ASSUME NEW p \in Drainers, Advance(p)
      PROVE  Once'
  BY <1>5, LoadOnce, PickOnce, RestOnce, CreateDeliveryOnce, DescribeOnce,
     RepeatOnce, CreateEventOnce, KeyOnce, PassOnce, CreateReceiptOnce, FileOnce,
     LinkOnce DEF Advance
<1>6. CASE UNCHANGED vars
  BY <1>1, <1>6 DEF vars
<1> QED
  BY <1>2, <1>3, <1>4, <1>5, <1>6 DEF Next

LEMMA OnceSays == TypeOK /\ Once => MailIsFiledOnce
<1> SUFFICES ASSUME TypeOK, Once PROVE MailIsFiledOnce
  OBVIOUS
<1>1. /\ DOMAIN deliveries = 1 .. Len(deliveries)
      /\ DOMAIN events = 1 .. Len(events)
      /\ DOMAIN receipts = 1 .. Len(receipts)
  BY DEF TypeOK
<1>2. OnePageEach
  <2>1. /\ \A id \in Ids : id # None
        /\ \A key \in EventKeys : key # None
    BY NoneAssumption
  <2> QED
    BY <1>1, <2>1 DEF Once, Single, Unique, OnePageEach
<1>3. CountCoversReceipts
  <2> SUFFICES ASSUME NEW d \in 1 .. Len(deliveries)
               PROVE  deliveries[d].count >=
                        Cardinality({r \in 1 .. Len(receipts) : receipts[r].page = d})
    BY DEF CountCoversReceipts
  <2>1. Pointing(d, receipts) = {r \in 1 .. Len(receipts) : receipts[r].page = d}
    BY <1>1 DEF Pointing
  <2>2. /\ Cardinality(Pointing(d, receipts)) <= deliveries[d].count
        /\ deliveries[d].count \in Nat /\ Cardinality(Pointing(d, receipts)) \in Nat
    <3>1. Cardinality(Pointing(d, receipts)) <= deliveries[d].count
      BY <1>1 DEF Once, Counted
    <3>2. Cardinality(Pointing(d, receipts)) \in Nat
      BY PointingFinite DEF TypeOK
    <3>3. deliveries[d] \in DeliveryRows
      BY <1>1 DEF TypeOK
    <3> QED
      BY <3>1, <3>2, <3>3 DEF DeliveryRows
  <2> QED
    BY <2>1, <2>2
<1> QED
  BY <1>2, <1>3 DEF MailIsFiledOnce

(***************************************************************************)
(* While operators run one drain at a time, no delivery id is on two       *)
(* described deliveries and no event key on two events, and no delivery    *)
(* counts fewer receipts than are on file for it: for any files, any lost  *)
(* answers to creates and any runs that die between two calls.             *)
(***************************************************************************)
THEOREM MailStaysFiledOnce ==
  ASSUME Serial
  PROVE  Spec => []MailIsFiledOnce
<1>1. Init => TypeOK /\ Honest /\ Once
  BY InitHonest, InitOnce
<1>2. TypeOK /\ Honest /\ Once /\ [Next]_vars => (TypeOK /\ Honest /\ Once)'
  BY NextHonest, NextOnce
<1>3. TypeOK /\ Honest /\ Once => MailIsFiledOnce
  BY OnceSays
<1> QED
  BY <1>1, <1>2, <1>3, PTL DEF Spec
==============================================================================
