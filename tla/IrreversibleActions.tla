------------------------ MODULE IrreversibleActions ------------------------
(***************************************************************************)
(* Irreversible Notion mutations under one-shot approval envelopes         *)
(* (src/internal/notion-maintenance): the claim files, receipts and the    *)
(* failure recorder of irreversible-action.ts and the four surfaces that   *)
(* use them.                                                               *)
(*   hygiene   notion-hygiene-authority.ts and notion-hygiene-pass.ts      *)
(*   support   support-database-hygiene-pass.ts                            *)
(*   migrate   schema-migrate.ts                                           *)
(*   probe     schema-migrate-probe.ts                                     *)
(*                                                                         *)
(* An approver signs a plan rendered from the workspace; a run renders it  *)
(* again, claims the action and the provider operation in files it makes   *)
(* durable, sends the effects one by one, reads back and files a receipt.  *)
(***************************************************************************)
EXTENDS Integers, Sequences, FiniteSets

CONSTANTS
    Actions,     \* action ids
    Key,         \* [Actions -> Keys], the provider idempotency keys
    Keys,
    Targets,     \* pages, properties of the data source, the source config
    Values,      \* what a target may hold
    Starts,      \* the contents of the targets the surfaces may find
    Changes,     \* [Surfaces -> Seq([at, to])], what a surface sets out to do
    Split,       \* [Surfaces -> Nat], see Checked and ProvesAfter
    Edits,       \* values people write
    Procs,
    MaxRuns,     \* bound: runs of a behaviour
    MaxEdits,    \* bound: edits of people
    Happenings,  \* what may go wrong, see HappeningKinds
    None         \* no envelope, no action; the value of an absent target

Surfaces == {"hygiene", "support", "migrate", "probe"}
HappeningKinds == {"edit", "crash", "power", "provider"}

ASSUME KeyAssumption == Key \in [Actions -> Keys]
ASSUME ValueAssumption == None \in Values /\ Edits \subseteq Values
ASSUME ChangesAssumption ==
    /\ Changes \in [Surfaces -> Seq([at : Targets, to : Values])]
    /\ Split \in [Surfaces -> Nat]
    /\ \A s \in Surfaces : Len(Changes[s]) > 0
ASSUME StartsAssumption == Starts \subseteq [Targets -> Values]
ASSUME ActionsAssumption == None \notin Actions
ASSUME LimitsAssumption == MaxRuns \in Nat /\ MaxEdits \in Nat
ASSUME HappeningsAssumption == Happenings \subseteq HappeningKinds

VARIABLES
    page,      \* the workspace: [Targets -> Values]
    late,      \* writes that were reported as failed and may still land
    envelope,  \* [Actions -> envelopes], the approvals signed so far
    files,     \* claims and receipts on disk
    proc,      \* the running commands
    runs, edits,
    sent,      \* history: <<run, action>> that sent an effect
    applied,   \* history: <<action, n>>, its n-th effect took hold
    blind,     \* history: <<action, n>>, it replaced what no one approved
    abandoned, \* history: actions whose run died
    hindered   \* history: actions to whose run the provider failed a call

history == <<sent, applied, blind, abandoned, hindered>>
vars == <<page, late, envelope, files, proc, runs, edits, history>>

------------------------------------------------------------------------------
Outcomes == {"succeeded", "failed_before_effect", "outcome_unknown"}

Effects   == [at : Targets, from : Values, to : Values]
Envelopes == [surface : Surfaces, plan : Seq(Effects)]

\* A claim exists or not; a receipt is opened empty and then written.  What
\* was not flushed yet may be lost with the power.
FileNames == ({"claim", "receipt"} \X Actions) \cup ({"operation"} \X Keys)
Disks == [ claims : SUBSET Actions, operations : SUBSET Keys,
           receipt : [Actions -> {"none", "torn"} \cup Outcomes],
           unflushed : SUBSET FileNames ]

Pcs == {"idle", "recheck", "claim", "keepClaim", "operation", "keepOperation",
        "check", "write", "prove", "receipt", "sign", "keepReceipt"}

\* n is the effect at hand; tried is effectCountAttempted > 0; raced says
\* that the target changed behind the check.
Processes == [ pc : Pcs, run : 0 .. MaxRuns, action : Actions \cup {None},
               n : Nat, tried : BOOLEAN, failed : BOOLEAN, raced : BOOLEAN ]

Idle == [ pc |-> "idle", run |-> 0, action |-> None, n |-> 0,
          tried |-> FALSE, failed |-> FALSE, raced |-> FALSE ]

Init ==
    /\ page \in Starts
    /\ late = {}
    /\ envelope = [a \in Actions |-> None]
    /\ files = [ claims |-> {}, operations |-> {}, unflushed |-> {},
                 receipt |-> [a \in Actions |-> "none"] ]
    /\ proc = [p \in Procs |-> Idle]
    /\ runs = 0 /\ edits = 0
    /\ sent = {} /\ applied = {} /\ blind = {} /\ abandoned = {}
    /\ hindered = {}

------------------------------------------------------------------------------
(***************************************************************************)
(* Plans.                                                                  *)
(***************************************************************************)
\* The last change of the first k to one target.
LastOf(changes, k, t) ==
    LET hits == {i \in 1 .. k : changes[i].at = t}
    IN  IF hits = {} THEN 0 ELSE CHOOSE i \in hits : \A j \in hits : j <= i

\* What the plan expects to find.  support carries its own earlier changes
\* forward, the probe's property is its own; the others read the workspace.
FromNoCarry(s, i, w) == w[Changes[s][i].at]

From(s, i, w) ==
    LET j == LastOf(Changes[s], i - 1, Changes[s][i].at)
    IN  IF s \in {"support", "probe"} /\ j > 0 THEN Changes[s][j].to
        ELSE IF s = "probe" THEN None
        ELSE w[Changes[s][i].at]

Rendered(s, w) ==
    [i \in 1 .. Len(Changes[s]) |->
        [ at |-> Changes[s][i].at, from |-> From(s, i, w),
          to |-> Changes[s][i].to ]]

\* A migration needs the properties that it deletes.
Renders(s, w) == s = "migrate" =>
    \A i \in 1 .. Split[s] : w[Changes[s][i].at] # None

\* The migration compares identities before it deletes, not before it
\* creates; the others compare before each effect.
Checked(s, i) == s = "migrate" => i <= Split[s]

\* support proves the merged state before it archives anything.
ProvesAfter(s, i) == i = Len(Changes[s]) \/ (s = "support" /\ i = Split[s])

\* The readback of the first k effects.  A deleted property is gone when its
\* identity is; support requires the last value planned for each target.
Holds(s, plan, k, w) ==
    \A i \in 1 .. k :
        CASE s = "hygiene" -> w[plan[i].at] = plan[i].to
          [] s = "migrate" -> IF i <= Split[s]
                              THEN w[plan[i].at] # plan[i].from
                              ELSE w[plan[i].at] = plan[i].to
          [] OTHER -> LastOf(plan, k, plan[i].at) = i
                      => w[plan[i].at] = plan[i].to

\* What the builders of the plans see to: no two repairs of one hygiene plan
\* concern one page; a migration deletes a property once and creates one once,
\* and what it creates has an identity that was not there before.
PlansCohere ==
    LET hygiene == Changes["hygiene"]
        migrate == Changes["migrate"]
        Deletes(i) == i <= Split["migrate"]
    IN  /\ \A i, j \in 1 .. Len(hygiene) : hygiene[i].at = hygiene[j].at => i = j
        /\ \A i, j \in 1 .. Len(migrate) :
             migrate[i].at = migrate[j].at /\ Deletes(i) = Deletes(j) => i = j
        /\ \A i \in 1 .. Len(migrate) :
             IF Deletes(i) THEN migrate[i].to = None
             ELSE \A w \in Starts : w[migrate[i].at] # migrate[i].to

------------------------------------------------------------------------------
(***************************************************************************)
(* People and time.                                                        *)
(***************************************************************************)
Approve(a, s) ==
    /\ envelope[a] = None
    /\ Renders(s, page)
    /\ envelope' = [envelope EXCEPT ![a] =
                       [surface |-> s, plan |-> Rendered(s, page)]]
    /\ UNCHANGED <<page, late, files, proc, runs, edits, history>>

Plan(p) == envelope[proc[p].action].plan
Surface(p) == envelope[proc[p].action].surface
Effect(p) == Plan(p)[proc[p].n]

\* Runs between their check of target t and the write that follows it.
Racing(t) ==
    [p \in Procs |-> [proc[p] EXCEPT
        !.raced = @ \/ (proc[p].pc = "write" /\ Effect(p).at = t)]]

Edit(t, v) ==
    /\ "edit" \in Happenings /\ edits < MaxEdits
    /\ page[t] # v
    /\ page' = [page EXCEPT ![t] = v]
    /\ edits' = edits + 1
    /\ proc' = Racing(t)
    /\ UNCHANGED <<late, envelope, files, runs, history>>

\* A write whose answer was a timeout takes hold after all.
Land(w) ==
    /\ page' = [page EXCEPT ![w.at] = w.to]
    /\ late' = late \ {w}
    /\ applied' = applied \cup {<<w.action, w.n>>}
    /\ proc' = Racing(w.at)
    /\ UNCHANGED <<envelope, files, runs, edits, sent, blind,
                   abandoned, hindered>>

------------------------------------------------------------------------------
(***************************************************************************)
(* A run up to its first effect.                                           *)
(***************************************************************************)
At(p, pc) == proc[p].pc = pc
Goto(p, pc) == proc' = [proc EXCEPT ![p].pc = pc]
Stop(p) == proc' = [proc EXCEPT ![p] = Idle]

\* validateEnvelope: the plan rendered now is the plan that was signed.  The
\* approval's fifteen minutes are compared here and nowhere else: one that is
\* over is one that is not begun any more.
Matches(a) ==
    LET s == envelope[a].surface
    IN  s # "probe" => Renders(s, page) /\ Rendered(s, page) = envelope[a].plan

Begin(p, a) ==
    /\ At(p, "idle") /\ runs < MaxRuns
    /\ envelope[a] # None
    /\ Matches(a)
    /\ runs' = runs + 1
    /\ proc' = [proc EXCEPT ![p] = [Idle EXCEPT
          !.pc = IF envelope[a].surface = "migrate" THEN "recheck" ELSE "claim",
          !.run = runs + 1, !.action = a]]
    /\ UNCHANGED <<page, late, envelope, files, edits, history>>

\* schema-migrate compares all identities once more before it claims.
Recheck(p) ==
    /\ At(p, "recheck")
    /\ IF \A i \in 1 .. Split["migrate"] :
             page[Plan(p)[i].at] = Plan(p)[i].from
       THEN Goto(p, "claim") ELSE Stop(p)
    /\ UNCHANGED <<page, late, envelope, files, runs, edits, history>>

\* open(..., "wx"): the first run to create the file has the action.
Claim(p) ==
    LET a == proc[p].action IN
    /\ At(p, "claim") /\ a \notin files.claims
    /\ files' = [files EXCEPT !.claims = @ \cup {a},
                              !.unflushed = @ \cup {<<"claim", a>>}]
    /\ Goto(p, "keepClaim")
    /\ UNCHANGED <<page, late, envelope, runs, edits, history>>

KeepClaim(p) ==
    /\ At(p, "keepClaim")
    /\ files' = [files EXCEPT !.unflushed = @ \ {<<"claim", proc[p].action>>}]
    /\ Goto(p, "operation")
    /\ UNCHANGED <<page, late, envelope, runs, edits, history>>

ClaimOperationAgain(p) ==
    LET k == Key[proc[p].action] IN
    /\ At(p, "operation")
    /\ files' = [files EXCEPT !.operations = @ \cup {k},
                              !.unflushed = @ \cup {<<"operation", k>>}]
    /\ Goto(p, "keepOperation")
    /\ UNCHANGED <<page, late, envelope, runs, edits, history>>

ClaimOperation(p) ==
    LET k == Key[proc[p].action] IN
    /\ At(p, "operation") /\ k \notin files.operations
    /\ files' = [files EXCEPT !.operations = @ \cup {k},
                              !.unflushed = @ \cup {<<"operation", k>>}]
    /\ Goto(p, "keepOperation")
    /\ UNCHANGED <<page, late, envelope, runs, edits, history>>

\* EEXIST on either file.
Refused(p) ==
    /\ \/ At(p, "claim") /\ proc[p].action \in files.claims
       \/ At(p, "operation") /\ Key[proc[p].action] \in files.operations
    /\ Stop(p)
    /\ UNCHANGED <<page, late, envelope, files, runs, edits, history>>

\* The process goes on to effect n.
Approach(s, n) == IF Checked(s, n) THEN "check" ELSE "write"

KeepOperationUnflushed(p) ==
    /\ At(p, "keepOperation")
    /\ proc' = [proc EXCEPT ![p].pc = Approach(Surface(p), 1), ![p].n = 1]
    /\ UNCHANGED <<page, late, envelope, files, runs, edits, history>>

KeepOperation(p) ==
    /\ At(p, "keepOperation")
    /\ files' = [files EXCEPT !.unflushed =
                    @ \ {<<"operation", Key[proc[p].action]>>}]
    /\ proc' = [proc EXCEPT ![p].pc = Approach(Surface(p), 1), ![p].n = 1]
    /\ UNCHANGED <<page, late, envelope, runs, edits, history>>

------------------------------------------------------------------------------
(***************************************************************************)
(* Effects.  Any error leads to the receipt; hygiene reads every effect    *)
(* back first, which changes nothing about the outcome of a failed run.    *)
(***************************************************************************)
FailsSilently(r) == Idle
Fails(r) == [r EXCEPT !.pc = "receipt", !.failed = TRUE]

CheckNothing(p) ==
    /\ At(p, "check")
    /\ proc' = [proc EXCEPT ![p].pc = "write", ![p].raced = FALSE]
    /\ UNCHANGED <<page, late, envelope, files, runs, edits, history>>

\* The target still holds what the plan expects, or the run fails.
Check(p) ==
    /\ At(p, "check")
    /\ proc' = [proc EXCEPT ![p] =
          IF page[Effect(p).at] = Effect(p).from
          THEN [proc[p] EXCEPT !.pc = "write", !.raced = FALSE]
          ELSE Fails(proc[p])]
    /\ UNCHANGED <<page, late, envelope, files, runs, edits, history>>

\* markEffectAttempted comes before the request is sent.
AttemptedUnmarked(p) == proc[p]
Attempted(p) == [proc[p] EXCEPT !.tried = TRUE]

Onward(p) ==
    LET s == Surface(p)
        n == proc[p].n
    IN  [Attempted(p) EXCEPT
           !.pc = IF ProvesAfter(s, n) THEN "prove" ELSE Approach(s, n + 1),
           !.n  = IF ProvesAfter(s, n) THEN n ELSE n + 1]

Send(p) ==
    /\ At(p, "write")
    /\ sent' = sent \cup {<<proc[p].run, proc[p].action>>}
    /\ blind' = IF /\ Checked(Surface(p), proc[p].n) /\ ~proc[p].raced
                   /\ page[Effect(p).at] # Effect(p).from
                THEN blind \cup {<<proc[p].action, proc[p].n>>} ELSE blind
    /\ UNCHANGED <<envelope, files, runs, edits, abandoned>>

TakesHold(p) ==
    /\ page' = [page EXCEPT ![Effect(p).at] = Effect(p).to]
    /\ applied' = applied \cup {<<proc[p].action, proc[p].n>>}

\* Other runs that have checked the same target are raced by this write.
Write(p) ==
    /\ Send(p) /\ TakesHold(p)
    /\ proc' = [Racing(Effect(p).at) EXCEPT ![p] = Onward(p)]
    /\ UNCHANGED <<late, hindered>>

WriteFails(p) ==
    /\ "provider" \in Happenings
    /\ Send(p)
    /\ hindered' = hindered \cup {proc[p].action}
    /\ proc' = [Racing(Effect(p).at) EXCEPT ![p] = Fails(Attempted(p))]
    /\ \/ TakesHold(p) /\ UNCHANGED late
       \/ UNCHANGED <<page, applied, late>>
       \/ /\ late' = late \cup {[ at |-> Effect(p).at, to |-> Effect(p).to,
                                  action |-> proc[p].action, n |-> proc[p].n ]}
          /\ UNCHANGED <<page, applied>>

\* The readback: complete, halfway (support), or failing.
Prove(p) ==
    LET n == proc[p].n IN
    /\ At(p, "prove")
    /\ proc' = [proc EXCEPT ![p] =
          IF ~Holds(Surface(p), Plan(p), n, page) THEN Fails(proc[p])
          ELSE IF n = Len(Plan(p)) THEN [proc[p] EXCEPT !.pc = "receipt"]
          ELSE [proc[p] EXCEPT !.pc = Approach(Surface(p), n + 1),
                               !.n = n + 1]]
    /\ UNCHANGED <<page, late, envelope, files, runs, edits, history>>

\* A read of the check or of the readback throws.
ReadFails(p) ==
    /\ "provider" \in Happenings
    /\ At(p, "check") \/ At(p, "prove")
    /\ proc' = [proc EXCEPT ![p] = Fails(proc[p])]
    /\ hindered' = hindered \cup {proc[p].action}
    /\ UNCHANGED <<page, late, envelope, files, runs, edits, sent, applied,
                   blind, abandoned>>

------------------------------------------------------------------------------
(***************************************************************************)
(* The receipt: opened, written, flushed.                                  *)
(***************************************************************************)
OutcomeOf(p) == IF ~proc[p].failed THEN "succeeded"
                ELSE IF proc[p].tried THEN "outcome_unknown"
                ELSE "failed_before_effect"

Receipt(p, r) == [files EXCEPT !.receipt[proc[p].action] = r]

OpenReceipt(p) ==
    /\ At(p, "receipt") /\ files.receipt[proc[p].action] = "none"
    /\ files' = [files EXCEPT
          !.receipt[proc[p].action] = "torn",
          !.unflushed = @ \cup {<<"receipt", proc[p].action>>}]
    /\ Goto(p, "sign")
    /\ UNCHANGED <<page, late, envelope, runs, edits, history>>

SignReceipt(p) ==
    /\ At(p, "sign")
    /\ files' = [files EXCEPT !.receipt[proc[p].action] = OutcomeOf(p)]
    /\ Goto(p, "keepReceipt")
    /\ UNCHANGED <<page, late, envelope, runs, edits, history>>

KeepReceipt(p) ==
    /\ At(p, "keepReceipt")
    /\ files' = [files EXCEPT !.unflushed = @ \ {<<"receipt", proc[p].action>>}]
    /\ Stop(p)
    /\ UNCHANGED <<page, late, envelope, runs, edits, history>>

------------------------------------------------------------------------------
\* A process ends between two steps, or throws where nothing catches.
Dies(p) ==
    /\ "crash" \in Happenings
    /\ ~At(p, "idle")
    /\ abandoned' = abandoned \cup {proc[p].action}
    /\ Stop(p)
    /\ UNCHANGED <<page, late, envelope, files, runs, edits, sent,
                   applied, blind, hindered>>

\* The machine loses power: every process ends, and of the files that were
\* not flushed any may be gone, a receipt also in part.
PowerLoss ==
    /\ "power" \in Happenings
    /\ \E lost \in SUBSET files.unflushed, cut \in {"none", "torn"} :
         files' = [ claims |-> {a \in files.claims : <<"claim", a>> \notin lost},
                    operations |-> {k \in files.operations :
                                       <<"operation", k>> \notin lost},
                    receipt |-> [a \in Actions |->
                        IF <<"receipt", a>> \in lost THEN cut
                        ELSE files.receipt[a]],
                    unflushed |-> {} ]
    /\ abandoned' = abandoned \cup {proc[p].action :
                                      p \in {q \in Procs : ~At(q, "idle")}}
    /\ proc' = [p \in Procs |-> Idle]
    /\ \E p \in Procs : ~At(p, "idle")
    /\ UNCHANGED <<page, late, envelope, runs, edits, sent, applied,
                   blind, hindered>>

------------------------------------------------------------------------------
Advance(p) ==
    \/ Recheck(p) \/ Claim(p) \/ KeepClaim(p) \/ ClaimOperation(p)
    \/ KeepOperation(p) \/ Refused(p)
    \/ Check(p) \/ Write(p) \/ WriteFails(p) \/ Prove(p) \/ ReadFails(p)
    \/ OpenReceipt(p) \/ SignReceipt(p) \/ KeepReceipt(p)

Next ==
    \/ \E a \in Actions, s \in Surfaces : Approve(a, s)
    \/ \E t \in Targets, v \in Edits : Edit(t, v)
    \/ \E w \in late : Land(w)
    \/ \E p \in Procs : \/ \E a \in Actions : Begin(p, a)
                        \/ Advance(p) \/ Dies(p)
    \/ PowerLoss

Spec == Init /\ [][Next]_vars

------------------------------------------------------------------------------
\* TypeOK: the workspace, the files and the processes have their type, and
\* the effect at hand is one of the plan.
TypeOK ==
    /\ page \in [Targets -> Values]
    /\ late \subseteq [at : Targets, to : Values, action : Actions, n : Nat]
    /\ envelope \in [Actions -> Envelopes \cup {None}]
    /\ files \in Disks
    /\ proc \in [Procs -> Processes]
    /\ \A p \in Procs : proc[p].pc \in {"check", "write", "prove"} =>
          proc[p].n \in 1 .. Len(Plan(p))
    /\ runs \in 0 .. MaxRuns /\ edits \in Nat
    /\ sent \subseteq (1 .. MaxRuns) \X Actions
    /\ applied \subseteq Actions \X Nat
    /\ blind \subseteq Actions \X Nat
    /\ abandoned \subseteq Actions
    /\ hindered \subseteq Actions

(***************************************************************************)
(* SpentOnce: of all runs that ever send an effect, at most one does so    *)
(* under a provider key, whichever of several approvals carry that key and *)
(* whatever processes and power losses do to the claim files in between.   *)
(***************************************************************************)
SpentOnce ==
    \A x, y \in sent : Key[x[2]] = Key[y[2]] => x = y

(***************************************************************************)
(* ReceiptsTellTheTruth: a receipt that says failed_before_effect belongs  *)
(* to an action of which no request was ever sent, and one that says       *)
(* succeeded to an action whose every effect took hold.                    *)
(***************************************************************************)
ReceiptsTellTheTruth ==
    \A a \in Actions :
        /\ files.receipt[a] = "failed_before_effect" =>
               \A x \in sent : x[2] # a
        /\ files.receipt[a] = "succeeded" =>
               \A i \in 1 .. Len(envelope[a].plan) : <<a, i>> \in applied

(***************************************************************************)
(* NothingBlind: a compared effect replaces only the value the approver    *)
(* saw (or this plan wrote), unless the target changed between the check   *)
(* and the request right behind it.                                        *)
(***************************************************************************)
NothingBlind == blind = {}

(***************************************************************************)
(* ReceiptFollows: a run that sent an effect and is over has filed its     *)
(* receipt, unless it died; whatever failed, raced or threw on the way.    *)
(***************************************************************************)
ReceiptFollows ==
    \A x \in sent :
        \/ files.receipt[x[2]] \in Outcomes
        \/ x[2] \in abandoned
        \/ \E p \in Procs : proc[p].run = x[1]

(***************************************************************************)
(* OnlyHindrancesFail: the one run of a freshly signed plan, with no edit  *)
(* and no failing call, does not end in a failure: the plan's own earlier  *)
(* effects never make a later comparison or the readback fail.  (A probe   *)
(* is signed without a look at the workspace and may meet its property.)   *)
(***************************************************************************)
OnlyHindrancesFail ==
    \A a \in Actions :
        /\ files.receipt[a] \in {"failed_before_effect", "outcome_unknown"}
        /\ edits = 0 /\ runs = 1 /\ envelope[a].surface # "probe"
        => a \in hindered
=============================================================================
