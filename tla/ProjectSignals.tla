--------------------------- MODULE ProjectSignals ---------------------------
(***************************************************************************)
(* The derived fields of the project pages and the three commands that     *)
(* write them: control-tower-sync (queue, freshness, review date),         *)
(* intelligence-sync (recommendation, and a brief page per project and     *)
(* day) and external-signal-sync (signal summary, recommendation).  Each   *)
(* reads every page, decides, and then patches the pages one by one, while *)
(* people and providers go on.                                             *)
(***************************************************************************)
EXTENDS Recommendations

CONSTANTS
    Contents,   \* what the fields people and providers keep may hold
    Portfolios, \* what the projects of a behaviour may begin with
    FirstDay,   \* a day number
    LastDay,    \* bound: the last day of a behaviour
    MaxChanges  \* bound: edits and failures of a behaviour

ASSUME FieldsAssumption ==
    /\ Contents \subseteq ProjectFacts
    /\ \A s \in Portfolios : s \in [DOMAIN s -> Contents]
    /\ FirstDay \in Nat

VARIABLES
    facts,      \* what people, providers and other commands keep of each project
    fields,     \* the derived fields of the pages
    brief,      \* today's recommendation briefs: the hash and the body, each
                \* a set of at most one; no body, no brief
    running,    \* the runs of the three commands
    today, changes,
    settled,    \* history: how many of them went through, in the order of the
                \* weekly refresh, since something changed
    torn        \* history: briefs whose hash is ahead of their body

deriving == <<facts, fields, brief, running, today, changes, settled, torn>>

Portfolio == DOMAIN facts

Deriving == {"tower", "intelligence", "signals"}
OrderOf(l) == CASE l = "tower" -> 0 [] l = "intelligence" -> 1 [] l = "signals" -> 2

\* write holds the patches a run has decided on, todo the projects it has not
\* patched, at the one it is at, with step.  turn is "none" without a run, and
\* history with one: "kept" or "lost", see Unsettled.
AtRest == [turn |-> "none", write |-> <<>>, todo |-> {}, at |-> {}, step |-> 1]

Underived == [ queue |-> "", freshness |-> "", reviewDate |-> 0,
               lane |-> "", score |-> 0, confidence |-> "",
               coverage |-> "", deployment |-> "", prs |-> 0, activity |-> 0 ]

FieldsInit ==
    /\ facts \in Portfolios
    /\ fields = [p \in Portfolio |-> Underived]
    /\ brief = [p \in Portfolio |-> [hash |-> {}, body |-> {}]]
    /\ running = [l \in Deriving |-> AtRest]
    /\ today = FirstDay /\ changes = 0 /\ settled = 0
    /\ torn = {}

\* The fields of r replace those of the page.
Patched(old, r) == [x \in DOMAIN old |-> IF x \in DOMAIN r THEN r[x] ELSE old[x]]
\* Those of r that the page does not have.
Corrections(old, r) == [x \in {y \in DOMAIN r : old[y] # r[y]} |-> r[x]]
\* The fields of two records that share none.
Both(r, s) == [x \in DOMAIN r \cup DOMAIN s |-> IF x \in DOMAIN r THEN r[x] ELSE s[x]]
Differs(old, r) == DOMAIN Corrections(old, r) # {}

\* A command decides on all its patches from what it has read.
BeginSync(l, write) ==
    /\ running[l].turn = "none"
    /\ running' = [running EXCEPT ![l] =
          [AtRest EXCEPT !.turn = IF settled >= OrderOf(l) THEN "kept" ELSE "lost",
                         !.write = write, !.todo = DOMAIN write]]
    /\ UNCHANGED <<facts, fields, brief, today, changes, settled, torn>>

\* history: a run has its turn if those before it went through since the last
\* change; one without its turn undoes what they settled.
Unsettled(l) == IF running[l].turn = "kept" THEN settled ELSE Least(settled, OrderOf(l))

\* A run that has sent all its patches records that it ended.
EndSync(l) ==
    /\ running[l].turn # "none" /\ running[l].todo = {}
    /\ running' = [running EXCEPT ![l] = AtRest]
    /\ settled' = IF running[l].turn = "kept" THEN Newest(settled, OrderOf(l) + 1) ELSE settled
    /\ UNCHANGED <<facts, fields, brief, today, changes, torn>>

\* An API call that fails, or a process that is killed, ends the run.
SyncDies(l) ==
    /\ running[l].turn # "none" /\ changes < MaxChanges /\ changes' = changes + 1
    /\ running' = [running EXCEPT ![l] = AtRest]
    /\ UNCHANGED <<facts, fields, brief, today, settled, torn>>

-------------------------------------------------------------------------------
(***************************************************************************)
(* control-tower-sync patches the pages whose derived fields changed.      *)
(***************************************************************************)
TowerPatches ==
    [p \in {q \in Portfolio : Differs(fields[q], Derived(facts[q], today))} |->
        Corrections(fields[p], Derived(facts[p], today))]

StartTower == BeginSync("tower", TowerPatches)

PatchDerived(p) ==
    /\ p \in running.tower.todo
    /\ fields' = [fields EXCEPT ![p] = Patched(@, running.tower.write[p])]
    /\ running' = [running EXCEPT !.tower.todo = @ \ {p}]
    /\ settled' = Unsettled("tower")
    /\ UNCHANGED <<facts, brief, today, changes, torn>>

-------------------------------------------------------------------------------
(***************************************************************************)
(* intelligence-sync renders the briefs, and writes the recommendation of  *)
(* the projects whose brief changed: the page first, then the brief.       *)
(***************************************************************************)
Brief(p) == [ shown |-> Recommendation(facts[p], fields[p], today),
              rich  |-> SupportRich(facts[p]), packet |-> facts[p].activePacket ]

BriefChanged(p) ==
    brief[p].body = {} \/ (brief[p].hash # {Brief(p)} /\ brief[p].body # {Brief(p)})

BriefPatches == [p \in {q \in Portfolio : BriefChanged(q)} |-> Brief(p)]

StartIntelligence == BeginSync("intelligence", BriefPatches)

\* The calls for one project, in their order.
Writes == <<"page", "first", "second">>

\* On to the next call for project p, or to another project.
Recommended(p) ==
    LET r == running.intelligence
    IN  running' = [running EXCEPT !.intelligence =
              IF r.step = Len(Writes) THEN [r EXCEPT !.at = {}, !.todo = @ \ {p}, !.step = 1]
              ELSE [r EXCEPT !.at = {p}, !.step = @ + 1]]

AtCall(p, call) == /\ p \in running.intelligence.todo /\ running.intelligence.at \subseteq {p}
                   /\ Writes[running.intelligence.step] = call

RecommendPage(p) ==
    /\ AtCall(p, "page") /\ Recommended(p)
    /\ fields' = [fields EXCEPT ![p] = Patched(@, running.intelligence.write[p].shown)]
    /\ settled' = Unsettled("intelligence")
    /\ UNCHANGED <<facts, brief, today, changes, torn>>

\* A brief that exists gets its hash, then its body; a new one is created
\* with its body and gets its hash then.
RecommendBrief(p) ==
    LET new == running.intelligence.write[p]
    IN  /\ \/ /\ AtCall(p, "first")
              /\ brief' = [brief EXCEPT ![p] =
                    IF @.body = {} THEN [@ EXCEPT !.body = {new}] ELSE [@ EXCEPT !.hash = {new}]]
              /\ torn' = IF brief[p].body = {} THEN torn ELSE torn \cup {p}
           \/ /\ AtCall(p, "second")
              /\ brief' = [brief EXCEPT ![p] = [hash |-> {new}, body |-> {new}]]
              /\ torn' = torn \ {p}
        /\ Recommended(p)
        /\ UNCHANGED <<facts, fields, today, changes, settled>>

-------------------------------------------------------------------------------
(***************************************************************************)
(* external-signal-sync patches what differs of the recommendation and of  *)
(* the summary of the signals; a patch that fails is skipped.              *)
(***************************************************************************)
SignalFields(p) == Both(Recommendation(facts[p], fields[p], today), Summary(facts[p]))
\* Mutant: only the lane is compared.
SignalPatchesByLane ==
    [p \in {q \in Portfolio : fields[q].lane # SignalFields(q).lane} |->
        Corrections(fields[p], SignalFields(p))]

SignalPatches ==
    [p \in {q \in Portfolio : Differs(fields[q], SignalFields(q))} |->
        Corrections(fields[p], SignalFields(p))]

StartSignals == BeginSync("signals", SignalPatches)

PatchSignals(p) ==
    /\ p \in running.signals.todo
    /\ fields' = [fields EXCEPT ![p] = Patched(@, running.signals.write[p])]
    /\ running' = [running EXCEPT !.signals.todo = @ \ {p}]
    /\ settled' = Unsettled("signals")
    /\ UNCHANGED <<facts, brief, today, changes, torn>>

SkipSignals(p) ==
    /\ p \in running.signals.todo /\ changes < MaxChanges /\ changes' = changes + 1
    /\ LET r == running.signals
       IN  running' = [running EXCEPT !.signals = [r EXCEPT !.todo = @ \ {p}, !.turn = "lost"]]
    /\ UNCHANGED <<facts, fields, brief, today, settled, torn>>

-------------------------------------------------------------------------------
\* history: what a running command has read is no longer current.
Outdated ==
    [l \in Deriving |-> [running[l] EXCEPT !.turn = IF @ = "none" THEN @ ELSE "lost"]]

EditFacts(p, f) ==
    /\ changes < MaxChanges /\ facts[p] # f
    /\ facts' = [facts EXCEPT ![p] = f] /\ changes' = changes + 1
    /\ running' = Outdated /\ settled' = 0
    /\ UNCHANGED <<fields, brief, today, torn>>

\* Another day: the briefs of the day before stay, today's do not exist yet.
NextDay ==
    /\ today < LastDay /\ \A l \in Deriving : running[l].turn = "none"
    /\ today' = today + 1 /\ settled' = 0
    /\ brief' = [p \in Portfolio |-> [hash |-> {}, body |-> {}]] /\ torn' = {}
    /\ UNCHANGED <<facts, fields, running, changes>>

FieldsNext ==
    \/ StartTower \/ StartIntelligence \/ StartSignals
    \/ \E p \in Portfolio : \/ PatchDerived(p) \/ RecommendPage(p) \/ RecommendBrief(p)
                            \/ PatchSignals(p) \/ SkipSignals(p)
                            \/ \E f \in Contents : EditFacts(p, f)
    \/ \E l \in Deriving : EndSync(l) \/ SyncDies(l)
    \/ NextDay

FieldsSpec == FieldsInit /\ [][FieldsNext]_deriving

-------------------------------------------------------------------------------
(***************************************************************************)
(* Settles: once the three commands went through in the order of the       *)
(* weekly refresh and nothing changed meanwhile, every derived field is    *)
(* what the page's own fields say and another pass would patch nothing,    *)
(* whatever runs overlapped with older readings or died before.  What is   *)
(* lost is a brief whose run died between its hash and its body: its hash  *)
(* passes for up to date.                                                  *)
(***************************************************************************)
Settles ==
    /\ settled >= 1 => \A p \in Portfolio : ~Differs(fields[p], Derived(facts[p], today))
    /\ settled >= 2 => \A p \in Portfolio \ torn : brief[p].body = {Brief(p)}
    /\ settled = 3  => \A p \in Portfolio : ~Differs(fields[p], SignalFields(p))

(***************************************************************************)
(* BlockersNeverHelp: one more blocked packet or task, or evidence that    *)
(* ages, raises neither Resume nor Finish, and never lowers Defer.         *)
(***************************************************************************)
BlockersNeverHelp ==
    \A p \in Portfolio :
        LET f == facts[p]
            d == fields[p]
            s == Scores(f, d, today)
            Worse(t) == t.Resume <= s.Resume /\ t.Finish <= s.Finish /\ t.Defer >= s.Defer
        IN  /\ Worse(Scores([f EXCEPT !.blockedPackets = @ + 1], d, today))
            /\ Worse(Scores([f EXCEPT !.blockedTasks = @ + 1], d, today))
            /\ d.freshness = "Fresh" => Worse(Scores(f, [d EXCEPT !.freshness = "Aging"], today))

(***************************************************************************)
(* RescueIsUrgent: an active project whose evidence is stale is past its   *)
(* review date as well, once the control tower has derived both; the four  *)
(* milder reasons of the rescue list need a page it has not brought up to  *)
(* date.                                                                   *)
(***************************************************************************)
RescueIsUrgent ==
    settled >= 1 => \A p \in Portfolio : Rescued(facts[p], fields[p]) =>
        RescuePriority(RescueReason(facts[p], fields[p], today)) = "high"

\* FieldsSettle: what is derived settles, and then nothing is rescued mildly.
FieldsSettle == Settles /\ RescueIsUrgent
=============================================================================
