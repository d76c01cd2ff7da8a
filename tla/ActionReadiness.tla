--------------------------- MODULE ActionReadiness ---------------------------
(***************************************************************************)
(* The pure part of the governed action lane: what a request row, an       *)
(* execution row and a provider preflight look like, and the decisions the *)
(* lane takes from them (src/src/notion/local-portfolio-actuation.ts).     *)
(*                                                                         *)
(* The nine action keys fall into four kinds, which is all the lane's      *)
(* control depends on:                                                     *)
(*   "append"    create_issue, add_issue_comment, comment_pull_request     *)
(*   "additive"  update_issue, set_issue_labels, set_issue_assignees       *)
(*   "redeploy"  vercel.redeploy                                           *)
(*   "rollback"  vercel.rollback and vercel.promote: the target deployment *)
(*               is pinned in the request's Provider Request Key           *)
(***************************************************************************)
EXTENDS Integers

CONSTANTS
    Requests,      \* action request rows
    Payloads,      \* what an operator may write in the payload properties
    Complete,      \* the payloads that fill every property the action needs
    Deployments,   \* deployment ids a Vercel project can ever have
    None,          \* an empty relation, key or candidate
    Kind,          \* [Requests -> Kinds], from the title of the linked policy
    ApprovalRule,  \* [Requests -> Rules], from the linked policy
    LiveCapable,   \* requests whose policy has Execution Mode "Approved Live"
    ExpiresOn,     \* [Requests -> Nat], the Expires At day
    FreshDays      \* freshDryRunMaxAgeHours / 24

Kinds == {"append", "additive", "redeploy", "rollback"}
Rules == {"Single Approval", "Dual Approval", "No Write"}

ASSUME PayloadsAssumption == Payloads # {} /\ Complete \subseteq Payloads
ASSUME KindAssumption == Kind \in [Requests -> Kinds]
ASSUME RuleAssumption == ApprovalRule \in [Requests -> Rules]
ASSUME CapableAssumption == LiveCapable \subseteq Requests
ASSUME ExpiryAssumption == ExpiresOn \in [Requests -> Nat]
ASSUME FreshAssumption == FreshDays \in Nat
ASSUME NoneAssumption == None \notin Deployments \cup Payloads \cup Requests

(***************************************************************************)
(* Action request rows.  "Canceled" stands for every closed status the     *)
(* lane never reads apart (Rejected, Canceled, Shadow Logged), and         *)
(* "Pending Approval" for Draft too.  "signed" is the Approver property    *)
(* compared with Requested By: nobody, the requester alone, one other      *)
(* person, at least two people.                                            *)
(***************************************************************************)
Statuses == {"Pending Approval", "Approved", "Canceled", "Expired", "Executed"}
Intents  == {"Dry Run", "Ready for Live"}
Outcomes == {"None", "Dry Run Passed", "Problem", "Executed"}
Signed   == {"nobody", "requester", "one", "two"}

Pins == Deployments \cup {None}

\* What the idempotency hash distinguishes within one request and mode: the
\* payload properties for GitHub, the deployment ids for Vercel.
Keys == [payload : Payloads \cup {None}, from : Pins, to : Pins]

NoKey == [payload |-> None, from |-> None, to |-> None]

\* What a preflight read of the provider shows: the deployment in production
\* and the rollback or promote candidate, whether the issue already carries the
\* payload, and whether the provider gives a reason not to act (a label removal,
\* an unassignable person, a missing permission, a provider not exercised).
\* "resolved" is FALSE when action-dry-run had to go on without one.
Preflights ==
    [resolved : BOOLEAN, from : Pins, to : Pins,
     settled : BOOLEAN, objection : BOOLEAN]

Unresolved == [resolved |-> FALSE, from |-> None, to |-> None,
               settled |-> FALSE, objection |-> FALSE]

OnVercel(r) == Kind[r] \in {"redeploy", "rollback"}

KeyOf(r, payload, pre) ==
    IF ~pre.resolved THEN NoKey
    ELSE [ payload |-> IF OnVercel(r) THEN None ELSE payload,
           from    |-> pre.from,
           to      |-> pre.to ]

------------------------------------------------------------------------------

(***************************************************************************)
(* Building the payload throws when there is no deployment to act on, when *)
(* the candidate is the deployment in production, and when the request     *)
(* pins another candidate.                                                 *)
(***************************************************************************)
PinHolds(pin, candidate) == pin = None \/ pin = candidate

PreparationFails(r, pin, pre) ==
    \/ Kind[r] = "redeploy" /\ pre.from = None
    \/ /\ Kind[r] = "rollback"
       /\ \/ pre.from = None
          \/ pre.to = None
          \/ pre.from = pre.to
          \/ ~PinHolds(pin, pre.to)

\* The approver checks, made only for a request that is Ready for Live.
ApproverNotes(r, signed) ==
    \/ signed = "requester"
    \/ ApprovalRule[r] = "Single Approval" /\ signed = "nobody"
    \/ ApprovalRule[r] = "Dual Approval" /\ signed # "two"
    \/ ApprovalRule[r] = "No Write"

\* The request pins no target, or one that is not the current candidate.
PinNotes(r, pin, pre) == Kind[r] = "rollback" /\ (pin = None \/ pin # pre.to)

\* evaluateActionRequestReadiness returns at least one note.  dryFresh says
\* that the latest dry run succeeded and is young enough.
Blocked(r, req, dryFresh, pre, today) ==
    \/ req.status # "Approved"
    \/ ExpiresOn[r] < today
    \/ ~pre.resolved
    \/ pre.objection
    \/ ~OnVercel(r) /\ req.payload \notin Complete
    \/ /\ req.intent = "Ready for Live"
       /\ \/ ApproverNotes(r, req.signed)
          \/ PinNotes(r, req.pin, pre)
          \/ ~dryFresh
          \/ r \notin LiveCapable

\* Ages are counted in days because Executed At is read back as a date.
Fresh(executedAt, today) == today - executedAt <= FreshDays

(***************************************************************************)
(* What a dry run leaves on the request: it is Ready for Live only when    *)
(* the dry run had no notes and the same request, marked Ready for Live    *)
(* with the target it just pinned, would have none either.                 *)
(***************************************************************************)
PinAfter(r, req, pre) == IF Kind[r] = "rollback" THEN pre.to ELSE req.pin

LiveNow(r, req, pre, today) ==
    ~Blocked(r, [req EXCEPT !.intent = "Ready for Live",
                            !.pin = PinAfter(r, req, pre)], TRUE, pre, today)

PostDryRun(r, req, blocked, pre, today) ==
    [ intent  |-> IF ~blocked /\ LiveNow(r, req, pre, today)
                  THEN "Ready for Live" ELSE "Dry Run",
      outcome |-> IF ~blocked /\ LiveNow(r, req, pre, today)
                  THEN "Dry Run Passed" ELSE "Problem",
      pin     |-> IF blocked THEN req.pin ELSE PinAfter(r, req, pre) ]
==============================================================================
