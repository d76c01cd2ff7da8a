------------------------------ MODULE Rollouts ------------------------------
(***************************************************************************)
(* The two rollout commands (operational-rollout.ts, cohort-rollout.ts).   *)
(* Each reads projects, GitHub sources and action requests once, plans     *)
(* from what it read, and then writes one page after the other: next       *)
(* moves, decisions, sources, the GitHub request of its pilot or of every  *)
(* project of its cohort.  At last it has the requests rehearsed and, with *)
(* --run-pilot-live or --run-live, carried out by children of its own.     *)
(* Runs overlap, fail between any two writes, and people edit meanwhile.   *)
(*                                                                         *)
(* A next move is the text a person wrote (`focus`) behind the prefixes    *)
(* the commands put in front of it.                                        *)
(***************************************************************************)
EXTENDS Integers, Sequences, FiniteSets, SequencesExt

CONSTANTS
    None,          \* "no such page"
    Projects,      \* the portfolio
    Cohort,        \* of it, those the cohort command names: a subset of Targets
    Titled,        \* project -> place of its title in the alphabet
    Targets,       \* projects an actuation target names
    StartFacts, StartSources,
    Focuses,       \* texts people write
    Runners, Kinds,        \* commands that may be running, and their kinds
    MaxRuns, MaxEdits, MaxCrashes

OperationalSays == {"mapped", "confirm", "defer", "notion"}    \* those the strip knows
Classes  == {"move", "keep", "not yet"}

VARIABLES
    facts,         \* project -> what its page says
    sources,       \* the GitHub repository rows of the projects
    decisions,     \* <<project, classification>> committed
    requests,      \* the request pages, in the order they were created
    run,           \* runner -> its run
    runs, edits, crashes,
    nodded,        \* request pages a person or a flag has approved
    overtaken,     \* requests a run wrote after they changed under it
    settled        \* "yes": a whole operational run was alone, and nothing changed since

rollouts == <<facts, sources, decisions, requests, run, runs, edits, crashes,
              nodded, overtaken, settled>>

NoRun == [pc |-> "idle", kind |-> None, approve |-> FALSE, read |-> None,
          todo |-> <<>>, page |-> None, child |-> None]

Init ==
    /\ facts \in StartFacts
    /\ sources \in StartSources
    /\ decisions = {} /\ requests = <<>>
    /\ run = [r \in Runners |-> NoRun]
    /\ runs = 0 /\ edits = 0 /\ crashes = 0
    /\ nodded = {} /\ overtaken = {} /\ settled = "no"

------------------------------------------------------------------------------
(* Classification, ranking and waves.                                      *)

Queue(f) ==
    IF f.review THEN "Needs Review"
    ELSE IF f.state = "Needs Decision" THEN "Needs Decision"
    ELSE IF f.call = "Finish" THEN "Worth Finishing"
    ELSE IF f.state = "Active Build" /\ ~f.friction THEN "Resume Now"
    ELSE "Watch"

QueueScore(q) == CASE q = "Resume Now" -> 3 [] q = "Worth Finishing" -> 2
                   [] q = "Needs Decision" -> 1 [] OTHER -> 0

IsPriority(f) == QueueScore(Queue(f)) > 0

Lane(p, f, src) ==
    LET mapped == src # None /\ src.known
        active == mapped /\ src.status = "Active"
        otherwise == IF src # None THEN "seeded_not_ready" ELSE "none"
    IN  IF f.state = "Needs Decision" /\ f.friction /\ ~f.ready THEN otherwise
        ELSE IF active /\ p \in Targets THEN "active_allowlisted"
        ELSE IF active THEN "active_known_repo"
        ELSE IF p \in Targets THEN "known_repo_allowlisted"
        ELSE IF mapped THEN "known_repo"
        ELSE IF src # None /\ f.mature /\ f.ready /\ ~f.friction
             THEN "seeded_needs_mapping"
        ELSE otherwise

Class(f, lane) ==
    IF lane \notin {"seeded_not_ready", "none"} THEN "move"
    ELSE IF f.state = "Needs Decision" /\ f.friction /\ ~f.ready THEN "not yet"
    ELSE "keep"

Stripped(move) ==
    LET past == {i \in 1..Len(move.said) : move.said[i] \notin OperationalSays}
        from == IF past = {} THEN Len(move.said) + 1
                ELSE CHOOSE i \in past : \A j \in past : i <= j
    IN  [move EXCEPT !.said = SubSeq(@, from, Len(@))]

Stated(move) == IF move.focus = "" /\ move.said = <<>>
                THEN [move EXCEPT !.focus = "default"] ELSE move

Prefixed(prefix, move) == [Stated(move) EXCEPT !.said = <<prefix>> \o @]

Recommended(class, lane, move) ==
    LET prefix == CASE class = "move" -> IF lane \in {"active_allowlisted", "active_known_repo"}
                                         THEN "mapped" ELSE "confirm"
                    [] class = "not yet" -> "defer"
                    [] class = "keep" -> "notion"
    IN  Prefixed(prefix, Stripped(move))

\* The cohort's prefix is not one the strip knows, and is put before any.
Aligned(move) == Prefixed("cohort", move)

Candidate(p, read) ==
    LET f == read.facts[p]
        lane == Lane(p, f, read.source[p])
        class == Class(f, lane)
    IN  [lane |-> lane, class |-> class,
         move |-> Recommended(class, lane, f.move),
         score |-> (CASE class = "move" -> 200 [] class = "keep" -> 100 [] OTHER -> 0)
                   + (CASE lane = "active_allowlisted" -> 1000 [] lane = "active_known_repo" -> 850
                        [] lane = "known_repo_allowlisted" -> 700 [] lane = "known_repo" -> 600
                        [] lane = "seeded_needs_mapping" -> 400 [] lane = "seeded_not_ready" -> 100
                        [] OTHER -> 50)
                   + 25 * QueueScore(Queue(f))]

Ranked(read) ==
    SetToSortSeq({p \in Projects : IsPriority(read.facts[p])},
                 LAMBDA p, q : LET a == Candidate(p, read).score
                                   b == Candidate(q, read).score
                               IN  a > b \/ (a = b /\ Titled[p] < Titled[q]))

Moving(read) == SelectSeq(Ranked(read), LAMBDA p : Candidate(p, read).class = "move")

Wave1(read) ==
    LET known == SelectSeq(Moving(read), LAMBDA p : Candidate(p, read).lane # "seeded_needs_mapping")
    IN  IF known # <<>> THEN SubSeq(known, 1, IF Len(known) < 2 THEN Len(known) ELSE 2)
        ELSE SubSeq(Moving(read), 1, IF Moving(read) = <<>> THEN 0 ELSE 1)

Pilot(read) ==
    LET wave == Wave1(read)
        safe == SelectSeq(wave, LAMBDA p : Candidate(p, read).lane = "active_allowlisted")
    IN  IF safe # <<>> THEN safe[1] ELSE IF wave # <<>> THEN wave[1] ELSE None

------------------------------------------------------------------------------
(* A run: what it reads, and the writes it plans.                          *)

\* The source a lookup by project finds is the first of the listing.
Lookups == {look \in [Projects -> sources \cup {None}] :
                \A p \in Projects :
                    LET mine == {s \in sources : s.project = p}
                    IN  IF mine = {} THEN look[p] = None ELSE look[p] \in mine}

\* What a rollout takes from the listing of the requests.
Listed == [i \in DOMAIN requests |-> [kind |-> requests[i].kind, project |-> requests[i].project,
                                      status |-> requests[i].status]]

WritesOf(p, c) == <<<<"move", p>>>> \o (IF c.class = "keep" THEN <<>> ELSE <<<<"decide", p>>>>)

\* Requests are carried out only with --run-pilot-live or --run-live.
Operational(read, live) ==
    LET pilot == Pilot(read)
    IN  FlattenSeq([i \in 1..Len(Ranked(read)) |->
                        WritesOf(Ranked(read)[i], Candidate(Ranked(read)[i], read))])
        \o (IF pilot = None THEN <<>>
            ELSE <<<<"ask", pilot>>, <<"rehearse", pilot>>>>
                 \o (IF live THEN <<<<"issue", pilot>>>> ELSE <<>>))

Cohorts(chosen, live) ==
    LET order == SetToSortSeq(chosen, LAMBDA p, q : Titled[p] < Titled[q])
    IN  FlattenSeq([i \in 1..Len(order) |->
                        << <<"source", order[i]>>, <<"align", order[i]>>,
                           <<"decide", order[i]>>, <<"ask", order[i]>> >>])
        \o [i \in 1..Len(order) |-> <<"rehearse", order[i]>>]
        \o (IF live THEN [i \in 1..Len(order) |-> <<"issue", order[i]>>] ELSE <<>>)

Begin(r) ==
    /\ run[r].pc = "idle" /\ run[r].child = None /\ runs < MaxRuns
    /\ runs' = runs + 1
    /\ \E kind \in Kinds, live \in BOOLEAN, look \in Lookups,
          chosen \in (SUBSET Cohort) \ {{}} :
           LET read == [facts |-> facts, source |-> look, requests |-> Listed]
           IN  \E flag \in BOOLEAN :
               /\ kind = "operational" => chosen = Cohort
               /\ kind = "cohort" \/ live => ~flag
               /\ settled' = IF kind = "operational" /\ (\A s \in Runners : run[s].pc = "idle")
                             THEN "alone" ELSE "no"
               /\ run' = [run EXCEPT ![r] =
                      [pc |-> "write", kind |-> kind,
                       \* --run-pilot-live approves; a live cohort run always does.
                       approve |-> flag \/ live \/ kind = "cohort",
                       read |-> read,
                       todo |-> IF kind = "cohort" THEN Cohorts(chosen, live)
                                ELSE Operational(read, live),
                       page |-> [p \in Projects |-> 0], child |-> None]]
    /\ UNCHANGED <<facts, sources, decisions, requests, edits, crashes, nodded, overtaken>>

Doing(r, what, p) == run[r].pc = "write" /\ run[r].todo # <<>> /\ run[r].todo[1] = <<what, p>>
Next1(r) == [run EXCEPT ![r].todo = Tail(@)]
Class1(r, p) == IF run[r].kind = "cohort" THEN "move" ELSE Candidate(p, run[r].read).class

Move(r) == \E p \in Projects :
    /\ Doing(r, "move", p)
    /\ LET was == run[r].read.facts[p].move
           to  == Candidate(p, run[r].read).move
       IN  facts' = IF was = to THEN facts ELSE [facts EXCEPT ![p].move = to]
    /\ run' = Next1(r)
    /\ UNCHANGED <<sources, decisions, requests, runs, edits, crashes, nodded, overtaken, settled>>

Decide(r) == \E p \in Projects :
    /\ Doing(r, "decide", p)
    /\ decisions' = decisions \cup {<<p, Class1(r, p)>>}
    /\ run' = Next1(r)
    /\ UNCHANGED <<facts, sources, requests, runs, edits, crashes, nodded, overtaken, settled>>

\* The cohort's source is found by its title alone.
Source(r) == \E p \in Projects :
    /\ Doing(r, "source", p)
    /\ sources' = {s \in sources : ~(s.project = p /\ s.seed)}
                  \cup {[project |-> p, seed |-> TRUE, known |-> TRUE, status |-> "Active"]}
    /\ settled' = "no"
    /\ run' = Next1(r)
    /\ UNCHANGED <<facts, decisions, requests, runs, edits, crashes, nodded, overtaken>>

Align(r) == \E p \in Projects :
    /\ Doing(r, "align", p)
    /\ facts' = [facts EXCEPT ![p].state = "Active Build", ![p].call = "Finish", ![p].review = FALSE,
                              ![p].move = Aligned(run[r].read.facts[p].move)]
    /\ settled' = "no"
    /\ run' = Next1(r)
    /\ UNCHANGED <<sources, decisions, requests, runs, edits, crashes, nodded, overtaken>>

------------------------------------------------------------------------------
(* The GitHub request of a project.                                        *)

Found(r, p) ==
    LET mine == {i \in 1..Len(run[r].read.requests) :
                     /\ run[r].read.requests[i].kind = run[r].kind
                     /\ run[r].read.requests[i].project = p}
    IN  IF mine = {} THEN 0 ELSE CHOOSE i \in mine : \A j \in mine : i <= j

ReadStatus(r, p) == IF Found(r, p) = 0 THEN "" ELSE run[r].read.requests[Found(r, p)].status

AskedStatus(r, p) == IF ReadStatus(r, p) = "Approved" \/ run[r].approve
                     THEN "Approved" ELSE "Pending"

FocusOf(r, p) == IF run[r].kind = "cohort" THEN run[r].read.facts[p].move
                 ELSE Stripped(run[r].read.facts[p].move)

\* What a child will send: the source the page points to, and the issue's text.
PayloadOf(r, p) == [focus |-> FocusOf(r, p),
                    seed |-> run[r].kind = "cohort" \/ run[r].read.source[p].seed]

\* Requester and approver become the default owner, whoever signed before.
Written(request, r, p) ==
    [request EXCEPT !.status = AskedStatus(r, p), !.payload = PayloadOf(r, p), !.signed = FALSE]

HasActiveSource(r, p) ==
    run[r].kind = "cohort" \/ (run[r].read.source[p] # None
                               /\ run[r].read.source[p].status = "Active")

Refused(r) == \E p \in Projects :
    /\ Doing(r, "ask", p) /\ ~HasActiveSource(r, p)
    /\ run' = [run EXCEPT ![r] = NoRun] /\ settled' = "no"
    /\ UNCHANGED <<facts, sources, decisions, requests, runs, edits, crashes, nodded, overtaken>>

AskNothing(r) == \E p \in Projects :
    /\ Doing(r, "ask", p) /\ HasActiveSource(r, p) /\ ReadStatus(r, p) = "Executed"
    /\ run' = [run EXCEPT ![r].todo = Tail(@), ![r].page[p] = Found(r, p)]
    /\ UNCHANGED <<facts, sources, decisions, requests, runs, edits, crashes, nodded,
                   overtaken, settled>>

AskAgain(r) == \E p \in Projects :
    LET i == Found(r, p) IN
    /\ Doing(r, "ask", p) /\ HasActiveSource(r, p) /\ ReadStatus(r, p) # "Executed" /\ i # 0
    /\ requests' = [requests EXCEPT ![i] = Written(@, r, p)]
    /\ overtaken' = IF requests[i].status # ReadStatus(r, p) THEN overtaken \cup {i}
                    ELSE overtaken
    /\ nodded' = IF run[r].approve THEN nodded \cup {i} ELSE nodded
    /\ run' = [run EXCEPT ![r].todo = Tail(@), ![r].page[p] = i]
    /\ UNCHANGED <<facts, sources, decisions, runs, edits, crashes, settled>>

\* A created page has its title only.  `done` is of the ledger: payloads with a
\* Succeeded row.  The rest is history: issues made, those without such a row,
\* those made when it was first filed as Executed, whether two children held it.
Untouched == [status |-> "", payload |-> None, ready |-> FALSE, signed |-> FALSE,
              done |-> {}, issues |-> 0, unsure |-> 0, closed |-> 0, raced |-> FALSE]

Ask(r) == \E p \in Projects :
    /\ Doing(r, "ask", p) /\ HasActiveSource(r, p) /\ Found(r, p) = 0
    /\ requests' = Append(requests, Untouched @@ [kind |-> run[r].kind, project |-> p])
    /\ run' = [run EXCEPT ![r].todo = <<<<"fill", p>>>> \o Tail(@),
                          ![r].page[p] = Len(requests) + 1]
    /\ UNCHANGED <<facts, sources, decisions, runs, edits, crashes, nodded, overtaken, settled>>

Fill(r) == \E p \in Projects :
    LET i == run[r].page[p] IN
    /\ Doing(r, "fill", p)
    /\ requests' = [requests EXCEPT ![i] = Written(@, r, p)]
    /\ overtaken' = IF requests[i].status # "" THEN overtaken \cup {i}
                    ELSE overtaken
    /\ nodded' = IF run[r].approve THEN nodded \cup {i} ELSE nodded
    /\ run' = Next1(r)
    /\ UNCHANGED <<facts, sources, decisions, runs, edits, crashes, settled>>

------------------------------------------------------------------------------
(* The children: a dry run and a live run of the request by its id.  A     *)
(* child that fails is noted, and the next step runs all the same.         *)

\* What a dry run asks of a request: approved, and not by its requester alone.
Passes(request) == request.status = "Approved" /\ request.signed

\* Without a dry run (no flag, the child failed early) the intent stays; what
\* else may stand in the way puts it back as an unapproved request does.
Rehearse(r) == \E p \in Projects :
    LET i == run[r].page[p] IN
    /\ Doing(r, "rehearse", p)
    /\ \E ready \in {requests[i].ready, FALSE, Passes(requests[i])} :
           requests' = [requests EXCEPT ![i].ready = ready]
    /\ run' = Next1(r)
    /\ UNCHANGED <<facts, sources, decisions, runs, edits, crashes, nodded, overtaken, settled>>

Duplicate(request) == request.payload \in request.done
ExecutableAgain(request) == request.ready /\ Passes(request)
Executable(request) == request.ready /\ Passes(request) /\ ~Duplicate(request)

\* The live child reads request and ledger once, and opens a Started row ...
TakeUp(r) == \E p \in Projects :
    LET i == run[r].page[p]
        rival == \E s \in Runners : run[s].child # None /\ run[s].child.page = i
    IN
    /\ Doing(r, "issue", p) /\ run[r].child = None
    /\ \/ /\ Executable(requests[i])
          /\ run' = [run EXCEPT ![r].child = [page |-> i, payload |-> requests[i].payload]]
          /\ requests' = [requests EXCEPT ![i].raced = @ \/ rival]
       \/ /\ ~Executable(requests[i])
          /\ run' = Next1(r) /\ UNCHANGED requests
    /\ UNCHANGED <<facts, sources, decisions, runs, edits, crashes, nodded, overtaken, settled>>

\* ... and how it may end: `sent` the issue, its `row` Succeeded, the request
\* `filed` as Executed, its intent `reset`.  A lost answer and every write
\* that fails after it end in the catch block, which makes the row Failed.
Endings == {e \in [sent : BOOLEAN, row : BOOLEAN, filed : BOOLEAN, reset : BOOLEAN] :
               /\ e.row \/ e.filed => e.sent
               /\ e.filed => e.reset
               /\ e.row /\ e.reset => e.filed}
Smooth == [sent |-> TRUE, row |-> TRUE, filed |-> TRUE, reset |-> TRUE]

Ended(request, payload, e) ==
    LET issues == IF e.sent THEN request.issues + 1 ELSE request.issues
    IN  [request EXCEPT
            !.issues = issues,
            !.unsure = IF e.sent /\ ~e.row THEN @ + 1 ELSE @,
            !.done   = IF e.row THEN @ \cup {payload} ELSE @,
            !.status = IF e.filed THEN "Executed" ELSE @,
            !.closed = IF e.filed /\ @ = 0 THEN issues ELSE @,
            !.ready  = @ /\ ~e.reset]

Issue(r) ==
    /\ run[r].child # None
    /\ \E e \in Endings :
           /\ e = Smooth \/ crashes < MaxCrashes
           /\ crashes' = IF e = Smooth THEN crashes ELSE crashes + 1
           /\ requests' = [requests EXCEPT ![run[r].child.page] = Ended(@, run[r].child.payload, e)]
    /\ run' = [run EXCEPT ![r].todo = IF @ = <<>> THEN @ ELSE Tail(@), ![r].child = None]
    /\ UNCHANGED <<facts, sources, decisions, runs, edits, nodded, overtaken, settled>>

Finish(r) ==
    /\ run[r].pc = "write" /\ run[r].todo = <<>>
    /\ settled' = IF settled = "alone" THEN "yes" ELSE settled
    /\ run' = [run EXCEPT ![r] = NoRun]
    /\ UNCHANGED <<facts, sources, decisions, requests, runs, edits, crashes, nodded, overtaken>>

------------------------------------------------------------------------------
\* A live child may outlive its run.
Dies(r) ==
    /\ run[r].pc # "idle" /\ crashes < MaxCrashes
    /\ crashes' = crashes + 1
    /\ \E child \in {None, run[r].child} : run' = [run EXCEPT ![r] = [NoRun EXCEPT !.child = child]]
    /\ settled' = "no"
    /\ UNCHANGED <<facts, sources, decisions, requests, runs, edits, nodded, overtaken>>

Rewrite == \E p \in Projects, t \in Focuses :
    /\ edits < MaxEdits /\ edits' = edits + 1
    /\ facts' = [facts EXCEPT ![p].move = [said |-> <<>>, focus |-> t]]
    /\ settled' = "no"
    /\ UNCHANGED <<sources, decisions, requests, run, runs, crashes, nodded, overtaken>>

Review == \E i \in 1..Len(requests), to \in {"Approved", "Rejected"} :
    /\ edits < MaxEdits /\ edits' = edits + 1
    /\ requests[i].status = "Pending"
    /\ requests' = [requests EXCEPT ![i].status = to]
    /\ nodded' = IF to = "Approved" THEN nodded \cup {i} ELSE nodded
    /\ UNCHANGED <<facts, sources, decisions, run, runs, crashes, overtaken, settled>>

\* Somebody who did not request it is entered as an approver; only children
\* look at it, so it is left until one is next.
Sign == \E r \in Runners, p \in Projects : LET i == run[r].page[p] IN
    /\ Doing(r, "rehearse", p) \/ Doing(r, "issue", p)
    /\ run[r].child = None
    /\ requests[i].status = "Approved" /\ ~requests[i].signed
    /\ requests' = [requests EXCEPT ![i].signed = TRUE]
    /\ UNCHANGED <<facts, sources, decisions, run, runs, edits, crashes, nodded, overtaken,
                   settled>>

Pause == \E s \in sources :
    /\ edits < MaxEdits /\ edits' = edits + 1
    /\ s.status = "Active"
    /\ sources' = (sources \ {s}) \cup {[s EXCEPT !.status = "Paused"]}
    /\ settled' = "no"
    /\ UNCHANGED <<facts, decisions, requests, run, runs, crashes, nodded, overtaken>>

Step(r) == \/ Begin(r) \/ Move(r) \/ Decide(r) \/ Source(r) \/ Align(r)
           \/ Refused(r) \/ AskNothing(r) \/ AskAgain(r) \/ Ask(r) \/ Fill(r)
           \/ Rehearse(r) \/ TakeUp(r) \/ Issue(r) \/ Finish(r) \/ Dies(r)

Next == (\E r \in Runners : Step(r)) \/ Rewrite \/ Review \/ Sign \/ Pause

Spec == Init /\ [][Next]_rollouts

------------------------------------------------------------------------------
TypeOK ==
    /\ \A p \in Projects : /\ facts[p].state \in {"Needs Decision", "Active Build", "Parked"}
                           /\ facts[p].move.focus \in Focuses \cup {"", "default"}
                                  \cup {f[p].move.focus : f \in StartFacts}
    /\ decisions \subseteq Projects \X Classes
    /\ \A i \in 1..Len(requests) :
           requests[i].status \in {"", "Pending", "Approved", "Rejected", "Executed"}
    /\ runs \in 0..MaxRuns /\ edits \in 0..MaxEdits /\ crashes \in 0..MaxCrashes

(***************************************************************************)
(* PrefixesDoNotPile: however often rollouts are run, crash and overlap, a *)
(* next move never has two of the operational prefixes in a row            *)
(* (operational-rollout.ts:616-640).                                       *)
(***************************************************************************)
PrefixesDoNotPile ==
    \A p \in Projects : LET said == facts[p].move.said IN
        \A i \in 1..(Len(said) - 1) : ~({said[i], said[i + 1]} \subseteq OperationalSays)

(***************************************************************************)
(* RolloutSettles: after a whole operational run that no one interfered    *)
(* with, the next one finds every next move as it would write it.          *)
(***************************************************************************)
RolloutSettles ==
    settled = "yes" => \A look \in Lookups :
        LET read == [facts |-> facts, source |-> look, requests |-> Listed]
        IN  \A p \in Projects :
                (IsPriority(facts[p]) /\ Cardinality({s \in sources : s.project = p}) <= 1)
                    => Candidate(p, read).move = facts[p].move

(***************************************************************************)
(* RecordedOnce: what the ledger and the request page remember of an issue *)
(* keeps later rollouts from making it again.  Every issue that left a     *)
(* Succeeded row was of a payload without one, and once the request was    *)
(* filed as Executed it stays so and no issue is made, unless a run wrote  *)
(* over a status that had changed since it read it.                        *)
(*                                                                         *)
(* It does not say that an issue is made once.  One whose answer was lost, *)
(* or whose child died before it wrote, leaves the request Approved        *)
(* without a Succeeded row (action-runner.ts:447 and 642-665), a rollout   *)
(* keeps it Approved (operational-rollout.ts:909-912), and it is made      *)
(* again: `unsure` counts those.  Two children that hold a request at once *)
(* both make it: `raced`.                                                  *)
(***************************************************************************)
RecordedOnce ==
    \A i \in 1..Len(requests) : LET request == requests[i] IN
        ~request.raced =>
            /\ request.issues - request.unsure = Cardinality(request.done)
            /\ request.closed # 0 /\ i \notin overtaken =>
                   request.status = "Executed" /\ request.issues = request.closed

(***************************************************************************)
(* ApprovedByNod: no request is approved or carried out that neither a     *)
(* person nor a flag of a run has approved.                                *)
(***************************************************************************)
ApprovedByNod ==
    \A i \in 1..Len(requests) : requests[i].status \in {"Approved", "Executed"} => i \in nodded

(***************************************************************************)
(* PilotIsActive: when a priority project has an active, mapped source,    *)
(* the pilot an operational run comes to ask for is one whose request can  *)
(* be written; the ranking sees to it (operational-rollout.ts:565-586 and  *)
(* 405-419).                                                               *)
(***************************************************************************)
PilotIsActive ==
    \A r \in Runners, p \in Projects :
        run[r].kind = "operational" /\ Doing(r, "ask", p) =>
            LET read == run[r].read
                able == {q \in Projects : IsPriority(read.facts[q]) /\
                            Candidate(q, read).lane \in {"active_allowlisted", "active_known_repo"}}
            IN  able # {} => p \in able
=============================================================================
