------------------------------ MODULE MCStores ------------------------------
(***************************************************************************)
(* Two stores that more than one process writes, side by side: the runtime *)
(* generations on disk, and the webhook pages under two drains that        *)
(* overlap, die and meet torn files.  A behaviour is one of `part`; the    *)
(* variables of the other stay as they begin.                              *)
(***************************************************************************)
EXTENDS RuntimeGenerations, WebhookRecords, TLC

CONSTANTS d1, d2

VARIABLES part, drains, drain

\* Files 1 and 2 are two requests for one delivery, about one issue; the
\* first names the comment of the execution e1.
Redelivered == <<"a", "a">>
SameKey     == <<"k", "k">>
BothMatch   == <<{"e1", "e2"}, {"e1", "e2"}>>
Spool == INSTANCE WebhookSpool WITH
    Broken <- {}, Exact <- <<{"e1"}, {}>>,
    Drainers <- {d1, d2}, MaxRuns <- 2, MaxCreations <- 1, Serial <- FALSE,
    Events <- {"crash", "lane", "torn"}, runs <- drains

mail == <<spool, deliveries, events, receipts, exec, drains, drain>>

StoresInit ==
    /\ part \in {"generations", "mail"}
    /\ Init
    /\ IF part = "generations" THEN TRUE
       ELSE fs.releases = [c \in Commits |-> "absent"]
    /\ IF part = "mail" THEN Spool!Init
       ELSE /\ spool = [f \in Files |-> "unsent"]
            /\ deliveries = <<>> /\ events = <<>> /\ receipts = <<>>
            /\ exec = [e \in Executions |-> [status |-> "Started", reconcile |-> "Pending"]]
            /\ drains = 0 /\ drain = 0

StoresNext ==
    \/ part = "generations" /\ Next /\ UNCHANGED <<part, mail>>
    \/ part = "mail" /\ Spool!Next /\ UNCHANGED <<part, vars>>

StoresSpec == StoresInit /\ [][StoresNext]_<<part, vars, mail>>

Symmetry == Permutations({d1, d2})

\* What the mail must be is MailIsHonest of WebhookRecords, and the selector
\* what RuntimeGenerations says.
=============================================================================
