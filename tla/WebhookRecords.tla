--------------------------- MODULE WebhookRecords ---------------------------
(***************************************************************************)
(* What the webhook loop leaves behind, and what must be true of it: the   *)
(* spool directory, the three kinds of pages in Notion, and the executions *)
(* of the governed lane.  WebhookSpool has the programs that write them.   *)
(***************************************************************************)
EXTENDS Integers, Sequences, FiniteSets

CONSTANTS
    Files,          \* spool files, numbered in the order of their names
    Delivery,       \* [Files -> delivery ids], provider and delivery id
    Key,            \* [Files -> event keys]
    Valid,          \* files whose signature verified
    Signals,        \* those that normalise to an event of a known source
    Executions,     \* execution rows of the governed lane
    Matches         \* [Files -> SUBSET Executions]: same source and issue

Ids == {Delivery[f] : f \in Files}
EventKeys == {Key[f] : f \in Files}

VARIABLES
    spool,        \* [Files -> SpoolStates of WebhookSpool]
    deliveries,   \* Webhook Deliveries pages
    events,       \* External Signal Events pages: their Event Key
    receipts,     \* Webhook Receipts pages
    exec          \* External Action Executions: status and reconcile status

------------------------------------------------------------------------------
(***************************************************************************)
(* ProcessedIsRecorded: a file leaves pending/ only when it is on record:  *)
(* a receipt of it that points to a described delivery with its delivery   *)
(* id and, if it carries a signal of a known source, an event under its    *)
(* key.  Whatever runs died before and whichever drains overlap.           *)
(***************************************************************************)
Receipted(f) ==
    \E r \in 1 .. Len(receipts) :
        /\ receipts[r].file = f
        /\ deliveries[receipts[r].page].id = Delivery[f]

Evented(f) == \E n \in 1 .. Len(events) : events[n] = Key[f]

ProcessedIsRecorded ==
    \A f \in Files : spool[f] = "gone" =>
        Receipted(f) /\ (f \in Signals => Evented(f))

(***************************************************************************)
(* OnePageEach: while operators run one drain at a time, at most one       *)
(* described delivery carries a delivery id and at most one event an event *)
(* key, however often runs die half-way and files are drained again.       *)
(***************************************************************************)
OnePageEach ==
    /\ \A c, d \in 1 .. Len(deliveries) :
         deliveries[c].id \in Ids /\ deliveries[c].id = deliveries[d].id
         => c = d
    /\ \A m, n \in 1 .. Len(events) :
         events[m] \in EventKeys /\ events[m] = events[n] => m = n

(***************************************************************************)
(* CountCoversReceipts: with one drain at a time, the Receipt Count of a   *)
(* delivery never falls behind the receipts on file for it; a run that     *)
(* dies may leave it ahead.                                                *)
(***************************************************************************)
CountCoversReceipts ==
    \A d \in 1 .. Len(deliveries) :
        deliveries[d].count >= Cardinality(
            {r \in 1 .. Len(receipts) : receipts[r].page = d})

(***************************************************************************)
(* ProcessedHasEvent: a delivery that reads Processed names an event, and  *)
(* that event is keyed with the event key of a file of this delivery.      *)
(***************************************************************************)
ProcessedHasEvent ==
    \A d \in 1 .. Len(deliveries) : deliveries[d].status = "Processed" =>
        \E f \in Signals : /\ Delivery[f] = deliveries[d].id
                           /\ deliveries[d].event \in 1 .. Len(events)
                           /\ events[deliveries[d].event] = Key[f]

(***************************************************************************)
(* ConfirmedOnEvidence: an execution is Confirmed only with a receipt on   *)
(* file of a verified webhook that matches it, and never before the lane   *)
(* had recorded it as succeeded.                                           *)
(***************************************************************************)
ConfirmedOnEvidence ==
    \A e \in Executions : exec[e].reconcile = "Confirmed" =>
        /\ exec[e].status # "Started"
        /\ \E f \in Valid : e \in Matches[f] /\ Receipted(f)

\* MailIsHonest: what the pages, the spool and the lane say of a delivery is so.
MailIsHonest ==
    ProcessedIsRecorded /\ ProcessedHasEvent /\ ConfirmedOnEvidence

\* MailIsFiledOnce: serial drains leave one page of each kind, and count right.
MailIsFiledOnce == OnePageEach /\ CountCoversReceipts
==============================================================================
