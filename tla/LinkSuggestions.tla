--------------------------- MODULE LinkSuggestions ---------------------------
(***************************************************************************)
(* Link suggestions (link-suggestions-sync.ts, intelligence-sync.ts): one  *)
(* command proposes a research, skill or tool page for each project, a     *)
(* person accepts or rejects the row, another command writes the accepted  *)
(* links into the relations of both pages.  Each works from what it read   *)
(* when it started.                                                        *)
(***************************************************************************)
EXTENDS Naturals, FiniteSets

CONSTANTS
    Projects,
    Library,     \* the research, skill and tool pages
    Kinds,       \* research, skill, tool: one relation of a project each
    Kind,        \* [Library -> Kinds]
    Fit,         \* [Projects -> [Library -> what the texts of the two share]]
    Minimum,     \* suggestionMinimum, in hundredths
    StartLinks,  \* the relations the projects may begin with
    MaxTurns     \* bound: what people do in a behaviour

ASSUME LinksAssumption ==
    Kind \in [Library -> Kinds] /\ StartLinks \subseteq [Projects -> SUBSET Library]

Pairs == Projects \X Library
OfKind(k) == {t \in Library : Kind[t] = k}

VARIABLES
    links,    \* the relations of the projects: [Projects -> SUBSET Library]
    back,     \* those of the targets: [Library -> SUBSET Projects]
    ahead,    \* projects in the lane Resume, Finish or Investigate
    rows,     \* the suggestions: [Pairs -> statuses], "none" without a page
    propose,  \* the run of link-suggestions-sync
    apply,    \* the run of intelligence-sync, its accepted suggestions; half
              \* holds the one that is on the project's page only
    turns,
    undone,   \* history: decisions a run had read and wrote over
    calm      \* history: nobody else wrote since the apply run read

linking == <<links, back, ahead, rows, propose, apply, turns, undone, calm>>

\* "bare": a page was created, its properties were not yet patched.
Statuses == {"none", "bare", "Proposed", "Accepted", "Rejected"}
Decided  == {"Accepted", "Rejected"}

NoProposal == [todo |-> {}, read |-> {}]

LinksInit ==
    /\ links \in StartLinks
    /\ back = [t \in Library |-> {p \in Projects : t \in links[p]}]
    /\ ahead \in SUBSET Projects
    /\ rows = [x \in Pairs |-> "none"]
    /\ propose = NoProposal
    /\ apply = [on |-> FALSE, links |-> links, back |-> back, todo |-> {},
                half |-> {}, accepted |-> {}]
    /\ turns = 0 /\ undone = {} /\ calm = FALSE

-------------------------------------------------------------------------------
(***************************************************************************)
(* What is proposed.                                                       *)
(***************************************************************************)
Highest(S) == CHOOSE x \in S : \A y \in S : y <= x

\* In ten-thousandths: a project without links, or with a single one, needs
\* more; one that is being worked on most.
NeedBoost(p, t) ==
    LET f     == Fit[p][t]
        held == Cardinality(links[p])
        lane  == IF p \in ahead THEN 2000 ELSE 800
    IN  IF Highest({f.lexical, f.category, f.context}) < 15 THEN 0
        ELSE IF held = 0 THEN lane + 2500
        ELSE IF held = 1 THEN lane + 1200
        ELSE lane

\* The confidence in hundredths; each part of Fit is a percentage.
Confidence(p, t) ==
    LET f == Fit[p][t]
        s == ( 25 * f.lexical + 25 * f.category + 15 * f.recency + 10 * f.context
               + NeedBoost(p, t) + 50 ) \div 100
    IN  IF s > 100 THEN 100 ELSE s

\* Mutants of Suppressed and Relation, see PROJECT.json.
SuppressedNever(p, t) == FALSE
RelationOfOne(old, x) == {x}

Suppressed(p, t) == rows[<<p, t>>] = "Rejected"

\* The pages of a kind that may be proposed: not linked, good enough and not
\* rejected before.
Eligible(p, k) == {t \in OfKind(k) \ links[p] :
                      Confidence(p, t) >= Minimum /\ ~Suppressed(p, t)}

\* Of several equally good ones the run takes the first of the library.
Best(p, k) == {t \in Eligible(p, k) :
                  \A u \in Eligible(p, k) : Confidence(p, u) <= Confidence(p, t)}

\* One suggestion for every project and kind that has any.
Offers == {S \in SUBSET Pairs :
               \A p \in Projects, k \in Kinds :
                  LET chosen == {t \in OfKind(k) : <<p, t>> \in S}
                  IN  /\ chosen \subseteq Best(p, k)
                      /\ Cardinality(chosen) = IF Best(p, k) = {} THEN 0 ELSE 1}

-------------------------------------------------------------------------------
(***************************************************************************)
(* link-suggestions-sync: upserts a row per suggestion, in two calls if it *)
(* has to create the page.                                                 *)
(***************************************************************************)
StartPropose ==
    /\ propose = NoProposal
    /\ \E S \in Offers : S # {} /\
          propose' = [todo |-> S, read |-> {x \in S : rows[x] \in Decided}]
    /\ UNCHANGED <<links, back, ahead, rows, apply, turns, undone, calm>>

Propose(x) ==
    /\ x \in propose.todo
    /\ \/ /\ rows[x] = "none"
          /\ rows' = [rows EXCEPT ![x] = "bare"]
          /\ UNCHANGED <<propose, undone>>
       \/ /\ rows[x] # "none"
          /\ rows' = [rows EXCEPT ![x] = "Proposed"]
          /\ propose' = [todo |-> propose.todo \ {x}, read |-> propose.read \ {x}]
          /\ undone' = IF rows[x] \in Decided /\ x \in propose.read
                       THEN undone \cup {rows[x]} ELSE undone
    /\ UNCHANGED <<links, back, ahead, apply, turns, calm>>

-------------------------------------------------------------------------------
(***************************************************************************)
(* intelligence-sync: for each accepted suggestion the relation of the     *)
(* project, then that of the target, each as read plus the one link.       *)
(***************************************************************************)
Relation(old, x) == old \cup {x}

Accepted == {x \in Pairs : rows[x] = "Accepted"}

StartApply ==
    /\ ~apply.on /\ Accepted # {}
    /\ apply' = [on |-> TRUE, links |-> links, back |-> back, todo |-> Accepted,
                 half |-> {}, accepted |-> Accepted]
    /\ calm' = TRUE
    /\ UNCHANGED <<links, back, ahead, rows, propose, turns, undone>>

ApplyToProject(p, t) ==
    /\ apply.on /\ apply.half = {} /\ <<p, t>> \in apply.todo
    /\ links' = [links EXCEPT ![p] =
          (@ \ OfKind(Kind[t])) \cup Relation(apply.links[p] \cap OfKind(Kind[t]), t)]
    /\ apply' = [apply EXCEPT !.half = {<<p, t>>}]
    /\ UNCHANGED <<back, ahead, rows, propose, turns, undone, calm>>

ApplyToTarget(p, t) ==
    /\ apply.on /\ apply.half = {<<p, t>>}
    /\ back' = [back EXCEPT ![t] = Relation(apply.back[t], p)]
    /\ apply' = [apply EXCEPT !.half = {}, !.todo = @ \ {<<p, t>>},
                              !.on = apply.todo # {<<p, t>>}]
    /\ UNCHANGED <<links, ahead, rows, propose, turns, undone, calm>>

-------------------------------------------------------------------------------
(***************************************************************************)
(* People decide and link, the recommendation lanes move projects, and a   *)
(* command may die between two calls.                                      *)
(***************************************************************************)
Decide(x, s) ==
    /\ turns < MaxTurns /\ rows[x] \in Decided \cup {"Proposed"} /\ s # rows[x]
    /\ rows' = [rows EXCEPT ![x] = s] /\ turns' = turns + 1
    /\ propose' = [propose EXCEPT !.read = @ \ {x}]
    /\ UNCHANGED <<links, back, ahead, apply, undone, calm>>

Relink(p, t) ==
    /\ turns < MaxTurns
    /\ links' = [links EXCEPT ![p] = IF t \in @ THEN @ \ {t} ELSE @ \cup {t}]
    /\ turns' = turns + 1 /\ calm' = FALSE
    /\ UNCHANGED <<back, ahead, rows, propose, apply, undone>>

MoveLane(p) ==
    /\ turns < MaxTurns
    /\ ahead' = IF p \in ahead THEN ahead \ {p} ELSE ahead \cup {p}
    /\ turns' = turns + 1
    /\ UNCHANGED <<links, back, rows, propose, apply, undone, calm>>

Die ==
    /\ turns < MaxTurns /\ turns' = turns + 1
    /\ \/ propose # NoProposal /\ propose' = NoProposal /\ UNCHANGED <<apply, calm>>
       \/ /\ apply.on /\ apply' = [apply EXCEPT !.on = FALSE] /\ calm' = FALSE
          /\ UNCHANGED propose
    /\ UNCHANGED <<links, back, ahead, rows, undone>>

LinksNext ==
    \/ StartPropose \/ \E x \in Pairs : Propose(x)
    \/ StartApply
    \/ \E p \in Projects, t \in Library : ApplyToProject(p, t) \/ ApplyToTarget(p, t)
    \/ \E x \in Pairs, s \in Decided : Decide(x, s)
    \/ \E p \in Projects, t \in Library : Relink(p, t)
    \/ \E p \in Projects : MoveLane(p)
    \/ Die

LinksSpec == LinksInit /\ [][LinksNext]_linking

-------------------------------------------------------------------------------
(***************************************************************************)
(* RejectionsRemembered: a suggestion that was rejected when the run read  *)
(* the rows is not put back to Proposed by it.                             *)
(***************************************************************************)
RejectionsRemembered == "Rejected" \notin undone

(***************************************************************************)
(* AcceptancesRemembered: nor is one that was accepted and waits for the   *)
(* intelligence sync to write its link (the exit criterion of phase 3 in   *)
(* docs/notion-roadmap.md; the code remembers rejections only).            *)
(***************************************************************************)
AcceptancesRemembered == "Accepted" \notin undone

(***************************************************************************)
(* LinksApplied: an apply run that nobody disturbed loses no link that was *)
(* there, and an accepted suggestion is linked on both pages unless a      *)
(* second one for the same relation was written after it.                  *)
(***************************************************************************)
Rivals(x) == {y \in apply.accepted : y[1] = x[1] /\ Kind[y[2]] = Kind[x[2]]}
Sharers(x) == {y \in apply.accepted : y[2] = x[2]}
LinksApplied ==
    (calm /\ ~apply.on) =>
        /\ \A p \in Projects : apply.links[p] \subseteq links[p]
        /\ \A t \in Library : apply.back[t] \subseteq back[t]
        /\ \A x \in apply.accepted :
              /\ \E y \in Rivals(x) : y[2] \in links[x[1]]
              /\ \E y \in Sharers(x) : y[1] \in back[x[2]]

(***************************************************************************)
(* LinksSafe: a rejected suggestion is not proposed again by the run that  *)
(* read it, and accepted links are written without losing one that was     *)
(* there.                                                                  *)
(***************************************************************************)
LinksSafe == RejectionsRemembered /\ LinksApplied
=============================================================================
