------------------------- MODULE CoordinationIngest -------------------------
(***************************************************************************)
(* coordination-snapshot-ingest.ts: a snapshot that Personal Ops exported  *)
(* is planned, shown and, with three flags, written as External Signal     *)
(* Events.  Commands may overlap and may be cut off behind any request; a  *)
(* create may be repeated by the HTTP client after its answer was lost;    *)
(* people pause or remove the source and remove events.                    *)
(*                                                                         *)
(* A payload is [well, snapshot, total, rows]: `well` stands for the       *)
(* versions, the hand-off and the source metadata; a row is [key,          *)
(* snapshot, whole, urgency, status, review], `whole` for its title,       *)
(* summary and evidence.  Texts are left out.                              *)
(***************************************************************************)
EXTENDS Integers, Sequences, FiniteSets, SequencesExt

CONSTANTS
    Payloads,       \* the files a command may be given
    Commands,       \* its flags: [live, confirm, events, display, readBack]
    Procs,          \* processes that run it
    MaxRuns, MaxEdits, MaxFaults    \* bounds

VARIABLES
    source,     \* the source row: "Active", "Paused" or "none"
    events,     \* event pages: sequence of [key, status, severity, gone]
    proc,       \* the command of each process
    starts, edits, faults,
    doubled,    \* keys whose create overlapped another or was repeated (history)
    removed     \* keys of which people removed an event (history)

vars == <<source, events, proc, starts, edits, faults, doubled, removed>>

NoPayload == [well |-> FALSE, snapshot |-> "none", total |-> 0, rows |-> <<>>]
Idle == [pc |-> "idle", flags |-> [live |-> FALSE], payload |-> NoPayload, i |-> 0,
         found |-> 0, ids |-> {}, missing |-> {}, report |-> "none"]

------------------------------------------------------------------------------
(***************************************************************************)
(* Payloads and plans.                                                     *)
(***************************************************************************)
Accepted(p) ==
    /\ p.well /\ p.total = Len(p.rows)
    /\ \A i \in DOMAIN p.rows : p.rows[i].snapshot = p.snapshot /\ p.rows[i].whole
    /\ IsInjective([i \in DOMAIN p.rows |-> p.rows[i].key])

FlagsAgree(f) == f.live = f.confirm /\ f.live = f.events

Severity(row) ==
    IF row.urgency = "high" \/ row.status = "needs_attention" THEN "Risk"
    ELSE IF row.urgency = "medium" \/ row.review \/ row.status = "deferred" THEN "Watch"
    ELSE "Info"

\* The sections of the display, every item in the first that takes it.
NeedsReview(row) == row.status = "needs_attention" \/ Severity(row) = "Risk"
Watch(row)       == row.status = "deferred" \/ Severity(row) = "Watch"
Display(rows) ==
    LET review == {i \in DOMAIN rows : NeedsReview(rows[i])}
        watch  == {i \in DOMAIN rows \ review : Watch(rows[i])}
    IN [review |-> review, watch |-> watch, archive |-> DOMAIN rows \ (review \cup watch)]

Event(row) == [key |-> row.key, status |-> row.status, severity |-> Severity(row), gone |-> FALSE]

\* The first event Notion returns for a key.
With(key) == {k \in DOMAIN events : events[k].key = key /\ ~events[k].gone}
Found(key) == IF With(key) = {} THEN 0 ELSE CHOOSE k \in With(key) : \A j \in With(key) : k <= j

------------------------------------------------------------------------------
Init ==
    /\ source \in {"Active", "Paused", "none"}
    /\ events = <<>>
    /\ proc = [p \in Procs |-> Idle]
    /\ starts = 0 /\ edits = 0 /\ faults = 0
    /\ doubled = {} /\ removed = {}

Rows(p)   == proc[p].payload.rows
Row(p)    == Rows(p)[proc[p].i]
End(p, report) == proc' = [proc EXCEPT ![p].pc = "idle", ![p].report = report]

\* A command whose flags or payload do not hold ends before any request.
Begin(p) ==
    /\ proc[p].pc = "idle" /\ starts < MaxRuns
    /\ starts' = starts + 1
    /\ \E f \in Commands, payload \in Payloads :
         proc' = [proc EXCEPT ![p] =
           IF FlagsAgree(f) /\ Accepted(payload)
           THEN [Idle EXCEPT !.flags = f, !.payload = payload, !.i = 1,
                    !.pc = IF f.live THEN "source" ELSE IF f.readBack THEN "reading" ELSE "idle",
                    !.report = IF f.live \/ f.readBack THEN "none" ELSE "planned"]
           ELSE [Idle EXCEPT !.report = "refused"]]
    /\ UNCHANGED <<source, events, edits, faults, doubled, removed>>

\* Live writes need an active source.
Source(p) ==
    /\ proc[p].pc = "source"
    /\ IF source = "Active" THEN proc' = [proc EXCEPT ![p].pc = "looking"]
       ELSE End(p, "refused")
    /\ UNCHANGED <<source, events, starts, edits, faults, doubled, removed>>

\* One row after the other: look the key up, then update the event or create it.
Look(p) ==
    /\ proc[p].pc = "looking"
    /\ proc' = IF proc[p].i > Len(Rows(p))
               THEN [proc EXCEPT ![p].pc = "verifying", ![p].i = 1]
               ELSE [proc EXCEPT ![p].pc = "writing", ![p].found = Found(Row(p).key)]
    /\ UNCHANGED <<source, events, starts, edits, faults, doubled, removed>>

Written(p) == proc' = [proc EXCEPT ![p].pc = "looking", ![p].i = @ + 1]

\* Another command is between looking this key up and creating it.
Overlaps(p) == \E q \in Procs \ {p} : /\ proc[q].pc = "writing" /\ proc[q].found = 0
                                      /\ Row(q).key = Row(p).key

Update(p) ==
    /\ proc[p].pc = "writing" /\ proc[p].found # 0
    /\ IF events[proc[p].found].gone
       THEN End(p, "failed") /\ UNCHANGED events
       ELSE events' = [events EXCEPT ![proc[p].found] = Event(Row(p))] /\ Written(p)
    /\ UNCHANGED <<source, starts, edits, faults, doubled, removed>>

Create(p) ==
    /\ proc[p].pc = "writing" /\ proc[p].found = 0
    /\ events' = Append(events, Event(Row(p)))
    /\ Written(p)
    /\ doubled' = IF Overlaps(p) THEN doubled \cup {Row(p).key} ELSE doubled
    /\ UNCHANGED <<source, starts, edits, faults, removed>>

\* The answer to a create is lost and the client repeats it.
CreateTwice(p) ==
    /\ proc[p].pc = "writing" /\ proc[p].found = 0 /\ faults < MaxFaults
    /\ events' = events \o <<Event(Row(p)), Event(Row(p))>>
    /\ Written(p)
    /\ faults' = faults + 1 /\ doubled' = doubled \cup {Row(p).key}
    /\ UNCHANGED <<source, starts, edits, removed>>

\* Every planned key is read back once all are written.
Verify(p) ==
    /\ proc[p].pc = "verifying"
    /\ IF proc[p].i > Len(Rows(p))
       THEN IF proc[p].flags.readBack
            THEN proc' = [proc EXCEPT ![p].pc = "reading", ![p].i = 1]
            ELSE End(p, "written")
       ELSE IF Found(Row(p).key) = 0 THEN End(p, "failed")
            ELSE proc' = [proc EXCEPT ![p].i = @ + 1]
    /\ UNCHANGED <<source, events, starts, edits, faults, doubled, removed>>

\* --read-back, with or without --live, reports what is missing.
ReadBack(p) ==
    /\ proc[p].pc = "reading"
    /\ IF proc[p].i > Len(Rows(p))
       THEN End(p, IF proc[p].missing = {} THEN "pass" ELSE "fail")
       ELSE LET k == Found(Row(p).key) IN
            proc' = [proc EXCEPT ![p].i = @ + 1,
                       ![p].ids = IF k = 0 THEN @ ELSE @ \cup {k},
                       ![p].missing = IF k = 0 THEN @ \cup {Row(p).key} ELSE @]
    /\ UNCHANGED <<source, events, starts, edits, faults, doubled, removed>>

Crash(p) ==
    /\ proc[p].pc # "idle" /\ faults < MaxFaults
    /\ faults' = faults + 1
    /\ End(p, "none")
    /\ UNCHANGED <<source, events, starts, edits, doubled, removed>>

\* People pause, activate or remove the source, and remove events.
Edit ==
    /\ edits < MaxEdits /\ edits' = edits + 1
    /\ \/ source' \in {"Active", "Paused", "none"} \ {source} /\ UNCHANGED <<events, removed>>
       \/ \E k \in DOMAIN events :
             /\ ~events[k].gone
             /\ events' = [events EXCEPT ![k].gone = TRUE]
             /\ removed' = removed \cup {events[k].key}
             /\ UNCHANGED source
    /\ UNCHANGED <<proc, starts, faults, doubled>>

Next == \/ \E p \in Procs : \/ Begin(p) \/ Source(p) \/ Look(p) \/ Update(p) \/ Create(p)
                            \/ CreateTwice(p) \/ Verify(p) \/ ReadBack(p) \/ Crash(p)
        \/ Edit

Spec == Init /\ [][Next]_vars

------------------------------------------------------------------------------
(***************************************************************************)
(* OneEventPerKey: a key has one event, whatever commands were cut off or  *)
(* repeated, unless two commands created it at one time or a lost answer   *)
(* made the client create it twice.                                        *)
(***************************************************************************)
OneEventPerKey == \A k \in DOMAIN events :
    ~events[k].gone => Cardinality(With(events[k].key)) = 1 \/ events[k].key \in doubled

(***************************************************************************)
(* WrittenIsThere: a command that reports its events as written, or as     *)
(* read back, has an event for each of its rows unless people removed one. *)
(***************************************************************************)
WrittenIsThere == \A p \in Procs : proc[p].report \in {"written", "pass"} =>
    \A i \in DOMAIN Rows(p) : With(Rows(p)[i].key) # {} \/ Rows(p)[i].key \in removed

(***************************************************************************)
(* RisksAreReviewed: the display shows every item once, those at risk      *)
(* under Needs Review and those that wait under Watch.                     *)
(***************************************************************************)
RisksAreReviewed == \A payload \in Payloads : LET d == Display(payload.rows) IN
    \A i \in DOMAIN payload.rows :
      /\ Severity(payload.rows[i]) = "Risk" <=> i \in d.review
      /\ i \in d.archive => Severity(payload.rows[i]) = "Info"
=============================================================================
