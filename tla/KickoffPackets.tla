--------------------------- MODULE KickoffPackets ---------------------------
(***************************************************************************)
(* governance:orphan-classify (orphan-classification.ts): projects with no *)
(* linked records are sorted out, an approval is requested for a kickoff   *)
(* packet, and approved packets are created.  Runs may overlap, and a run  *)
(* may be cut off behind any request; people link records, decide requests *)
(* and work on packets meanwhile.                                          *)
(*                                                                         *)
(* A page that was just created has its title only: its properties are a   *)
(* request of their own.  Titles of projects are taken to be distinct, so  *)
(* a project stands for its title.  Left out: bodies, dates and the build  *)
(* log page that every live run publishes first.                           *)
(***************************************************************************)
EXTENDS Integers, Sequences, FiniteSets

CONSTANTS
    None,           \* the relation of a page without properties
    Projects,
    StartFacts,     \* what the projects may look like at first
    Runners,        \* processes that run the command
    Invocations,    \* its flags and titles: [request, approve, create, approved, titles]
    MaxRuns, MaxEdits, MaxCrashes   \* bounds

VARIABLES
    facts,      \* the projects: [call, state, archivable, idle, linked]
    requests,   \* the approval requests: sequence of [title, project, status]
    packets,    \* the work packets: sequence of [title, project, status]
    run,        \* the command of each process
    starts, edits, crashes,     \* of runs, by people, of processes so far
    approved,   \* projects whose request was approved by somebody (history)
    direct,     \* projects for which --create-packets was given (history)
    overlap,    \* two runs were at work at one time (history)
    undone      \* a run began when somebody was at work on a packet, and reset it

people == <<facts, approved>>
vars   == <<facts, requests, packets, run, starts, edits, crashes, approved, direct,
            overlap, undone>>

Stopped == [pc |-> "stopped", flags |-> None, orphans |-> {}, todo |-> {}, granted |-> {},
            known |-> {}, page |-> 0, project |-> None, busy |-> {}]

------------------------------------------------------------------------------
IsOrphan(f) == ~f.linked

ArchiveInactiveDays == 180
Parked(f)  == f.call = "Defer" \/ f.state = "Parked"
Archive(f) == f.archivable /\ (f.idle = None \/ f.idle > ArchiveInactiveDays)

Disposition(f) == IF Parked(f) THEN "already_parked"
                  ELSE IF Archive(f) THEN "archive_candidate"
                  ELSE "viable_needs_kickoff"

\* Projects with a kickoff packet: by its relation, whatever its title says after
\* the prefix, and whatever its status.
AttachedOpen == {packets[k].project : k \in {j \in DOMAIN packets : packets[j].status = "Ready"}}
Attached == {packets[k].project : k \in DOMAIN packets} \ {None}

\* The titles a run was given; none stand for all.
InScope(titles, p) == titles = {} \/ p \in titles

RequestDraft(p, approve) ==
    [title |-> p, project |-> p, status |-> IF approve THEN "Approved" ELSE "Pending Approval"]
PacketDraft(p) == [title |-> p, project |-> p, status |-> "Ready"]

Bare(p) == [title |-> p, project |-> None, status |-> None]

\* The request of a project: by relation and key, the first that matches.
Matching(p) == {k \in DOMAIN requests : requests[k].project = p}
First(S) == CHOOSE k \in S : \A j \in S : k <= j

------------------------------------------------------------------------------
Init ==
    /\ facts \in StartFacts
    /\ requests = <<>> /\ packets = <<>>
    /\ run = [r \in Runners |-> Stopped]
    /\ starts = 0 /\ edits = 0 /\ crashes = 0
    /\ approved = {} /\ direct = {}
    /\ overlap = FALSE /\ undone = FALSE

To(r, pc) == run' = [run EXCEPT ![r].pc = pc]
Stop(r)   == run' = [run EXCEPT ![r] = Stopped]

\* A live run fetches the projects.  Flags that do not go together end it.
Begin(r) ==
    /\ run[r].pc = "stopped" /\ starts < MaxRuns
    /\ \E flags \in {f \in Invocations : ~(f.request /\ f.create)} :
         run' = [run EXCEPT ![r] =
                   [Stopped EXCEPT !.pc = "classifying", !.flags = flags,
                       !.orphans = {p \in Projects : IsOrphan(facts[p])},
                       !.todo = {p \in Projects : /\ IsOrphan(facts[p])
                                                  /\ Disposition(facts[p]) = "viable_needs_kickoff"
                                                  /\ InScope(flags.titles, p)}]]
    /\ starts' = starts + 1
    /\ overlap' = (overlap \/ \E q \in Runners \ {r} : run[q].pc # "stopped")
    /\ UNCHANGED <<people, requests, packets, edits, crashes, direct, undone>>

\* The packets are fetched; a title nothing was found for ends the run before
\* it writes.
Classify(r) ==
    /\ run[r].pc = "classifying"
    /\ LET f == run[r].flags
           left == run[r].todo \ Attached
       IN IF ~(f.titles \subseteq run[r].orphans) THEN Stop(r)
          ELSE run' = [run EXCEPT
                 ![r].todo = left,
                 ![r].busy = {k \in DOMAIN packets : packets[k].status \in {"In Progress", "Done"}},
                 ![r].granted = left,
                 ![r].pc = IF left = {} THEN "done"
                           ELSE IF f.request THEN "classified" ELSE "requested"]
    /\ UNCHANGED <<people, requests, packets, starts, edits, crashes, direct, overlap, undone>>

\* requestApproval fetches the requests once, in front of its first write.
ReadRequests(r) ==
    /\ run[r].pc = "classified"
    /\ run' = [run EXCEPT ![r].known = DOMAIN requests, ![r].pc = "requesting"]
    /\ UNCHANGED <<people, requests, packets, starts, edits, crashes, direct, overlap, undone>>

\* An existing request is overwritten, whatever was decided on it.
Request(r, p) ==
    /\ run[r].pc = "requesting" /\ p \in run[r].granted
    /\ IF Matching(p) \cap run[r].known # {}
       THEN /\ requests' = [requests EXCEPT ![First(Matching(p) \cap run[r].known)] =
                               RequestDraft(p, run[r].flags.approve)]
            /\ run' = [run EXCEPT ![r].granted = @ \ {p}]
            /\ approved' = IF run[r].flags.approve THEN approved \cup {p} ELSE approved
       ELSE /\ requests' = Append(requests, Bare(p))
            /\ run' = [run EXCEPT ![r].granted = @ \ {p}, ![r].pc = "filling the request",
                                  ![r].page = Len(requests) + 1, ![r].project = p]
            /\ UNCHANGED approved
    /\ UNCHANGED <<facts, packets, starts, edits, crashes, direct, overlap, undone>>

FillRequest(r) ==
    /\ run[r].pc = "filling the request"
    /\ LET p == run[r].project IN
         /\ requests' = [requests EXCEPT ![run[r].page] = RequestDraft(p, run[r].flags.approve)]
         /\ approved' = IF run[r].flags.approve THEN approved \cup {p} ELSE approved
    /\ To(r, "requesting")
    /\ UNCHANGED <<facts, packets, starts, edits, crashes, direct, overlap, undone>>

Requested(r) ==
    /\ run[r].pc = "requesting" /\ run[r].granted = {}
    /\ To(r, "requested")
    /\ UNCHANGED <<people, requests, packets, starts, edits, crashes, direct, overlap, undone>>

\* The approved requests are fetched; --create-packets alone asks for none.
Granted(r, p) == \E k \in Matching(p) : requests[k].status = "Approved"
ReadApprovals(r) ==
    /\ run[r].pc = "requested"
    /\ LET f == run[r].flags
           granted == IF f.approved THEN {p \in run[r].todo : Granted(r, p)} ELSE run[r].todo
       IN IF ~f.create /\ ~f.approved THEN To(r, "done") /\ UNCHANGED direct
          ELSE /\ run' = [run EXCEPT ![r].todo = granted, ![r].pc = "creating"]
               /\ direct' = IF f.approved THEN direct ELSE direct \cup granted
    /\ UNCHANGED <<people, requests, packets, starts, edits, crashes, overlap, undone>>

\* upsertPageByTitle: a packet that is found is written over.
Titled(p) == {k \in DOMAIN packets : packets[k].title = p}
Create(r, p) ==
    /\ run[r].pc = "creating" /\ p \in run[r].todo
    /\ IF Titled(p) # {}
       THEN /\ packets' = [packets EXCEPT ![First(Titled(p))] = PacketDraft(p)]
            /\ undone' = (undone \/ First(Titled(p)) \in run[r].busy)
            /\ run' = [run EXCEPT ![r].todo = @ \ {p}]
       ELSE /\ packets' = Append(packets, Bare(p))
            /\ run' = [run EXCEPT ![r].todo = @ \ {p}, ![r].pc = "filling the packet",
                                  ![r].page = Len(packets) + 1, ![r].project = p]
            /\ UNCHANGED undone
    /\ UNCHANGED <<people, requests, starts, edits, crashes, direct, overlap>>

FillPacket(r) ==
    /\ run[r].pc = "filling the packet"
    /\ packets' = [packets EXCEPT ![run[r].page] = PacketDraft(run[r].project)]
    /\ To(r, "creating")
    /\ UNCHANGED <<people, requests, starts, edits, crashes, direct, overlap, undone>>

Finish(r) ==
    /\ run[r].pc = "done" \/ (run[r].pc = "creating" /\ run[r].todo = {})
    /\ Stop(r)
    /\ UNCHANGED <<people, requests, packets, starts, edits, crashes, direct, overlap, undone>>

Crash(r) ==
    /\ run[r].pc # "stopped" /\ crashes < MaxCrashes
    /\ Stop(r) /\ crashes' = crashes + 1
    /\ UNCHANGED <<people, requests, packets, starts, edits, direct, overlap, undone>>

------------------------------------------------------------------------------
\* People link a record to a project, decide a request, work on a packet.
Edit ==
    /\ edits < MaxEdits /\ edits' = edits + 1
    /\ \/ \E p \in Projects : /\ facts' = [facts EXCEPT ![p].linked = TRUE]
                              /\ UNCHANGED <<requests, packets, approved>>
       \/ \E k \in DOMAIN requests, s \in {"Approved", "Rejected"} :
             /\ requests[k].status = "Pending Approval"
             /\ requests' = [requests EXCEPT ![k].status = s]
             /\ approved' = IF s = "Approved" THEN approved \cup {requests[k].project} ELSE approved
             /\ UNCHANGED <<facts, packets>>
       \/ \E k \in DOMAIN packets :
             /\ packets[k].status \in {"Ready", "In Progress"}
             /\ packets' = [packets EXCEPT ![k].status =
                               IF @ = "Ready" THEN "In Progress" ELSE "Done"]
             /\ UNCHANGED <<facts, requests, approved>>
    /\ UNCHANGED <<run, starts, crashes, direct, overlap, undone>>

Next == \/ \E r \in Runners : \/ Begin(r) \/ Classify(r) \/ ReadRequests(r)
                              \/ FillRequest(r) \/ Requested(r) \/ ReadApprovals(r)
                              \/ FillPacket(r) \/ Finish(r) \/ Crash(r)
                              \/ \E p \in Projects : Request(r, p) \/ Create(r, p)
        \/ Edit

Spec == Init /\ [][Next]_vars

------------------------------------------------------------------------------
(***************************************************************************)
(* ApprovedFirst: every packet that says Ready was approved for its        *)
(* project by somebody, or asked for with --create-packets.                *)
(***************************************************************************)
ApprovedFirst == \A k \in DOMAIN packets :
    packets[k].project # None => packets[k].project \in approved \cup direct

(***************************************************************************)
(* WorkStands: a packet somebody was at work on when a run classified is   *)
(* not reset to Ready by that run.                                         *)
(***************************************************************************)
WorkStands == ~undone

(***************************************************************************)
(* OneOfEach: unless runs overlapped, a project has one packet, a cut-off  *)
(* run included, and one request that carries its key.                     *)
(***************************************************************************)
OneOfEach == overlap \/ \A p \in Projects :
    Cardinality(Titled(p)) <= 1 /\ Cardinality(Matching(p)) <= 1
=============================================================================
