--------------------------- MODULE SupportHygiene ---------------------------
(***************************************************************************)
(* What the hygiene pass over the support databases plans and does         *)
(* (src/internal/notion-maintenance/support-database-hygiene-pass.ts):     *)
(* research, skill and tool pages with one title are merged into one of    *)
(* them, configured near-duplicates likewise, sandbox pages without a      *)
(* project are archived.  The claims, the failing calls and the receipt    *)
(* around it are in IrreversibleActions.                                   *)
(***************************************************************************)
EXTENDS Integers, FiniteSets, SequencesExt

CONSTANTS
    Support,    \* support pages
    Projects,   \* project pages
    Kind,       \* [Support -> Kinds]
    Titlings,   \* the assignments of titles a workspace may have
    Sandbox,    \* titles with the word sandbox
    Untitled,   \* the empty title
    Preferred,  \* pages configured as canonical
    Rules,      \* sequence of [canonical, duplicate], the forced merges
    Links,      \* what the projects may refer to: a set of [Projects -> SUBSET Support]
    Texts,      \* texts of pages: a set of [Support -> SUBSET Passages]
    MaxEdits    \* bound: edits of people during a run

Kinds == {"research", "skill", "tool"}

\* A text is a set of passages, its heading one of them.
Heading == "heading"
Capabilities == "Demonstrated Capabilities"

VARIABLES
    title,   \* [Support -> titles]
    holds,   \* [page -> [field -> value]], the workspace
    gone,    \* archived pages
    touched, \* pages written since the plan was rendered
    plan,    \* the rendered plan
    pc, n,   \* where the run is, and at which effect
    before,  \* history: the workspace the plan was rendered from
    edited   \* history: pages people wrote since

vars == <<title, holds, gone, touched, plan, pc, n, before, edited>>

------------------------------------------------------------------------------
VisibleArchived == Support
Visible == Support \ gone

\* A project has one relation for each kind of support page, a support page
\* one relation to projects.  Both sides start out in agreement.
Workspace(links, texts) ==
    [ x \in Support \cup Projects |->
        IF x \in Projects
        THEN [k \in Kinds |-> {s \in links[x] : Kind[s] = k}]
        ELSE [ projects |-> {p \in Projects : x \in links[p]},
               text |-> texts[x] ] ]

NoPlan == [merges |-> <<>>, effects |-> <<>>, required |-> {}, archives |-> <<>>]

Init ==
    /\ title \in Titlings
    /\ \E links \in Links, texts \in Texts : holds = Workspace(links, texts)
    /\ gone = {} /\ touched = {} /\ edited = {}
    /\ plan = NoPlan /\ before = holds
    /\ pc = "render" /\ n = 1

------------------------------------------------------------------------------
(***************************************************************************)
(* The plan.                                                               *)
(***************************************************************************)
\* findDuplicateGroups, for each kind.
Groups ==
    { g \in { {s \in Visible : title[s] = title[x] /\ Kind[s] = Kind[x]} :
              x \in {y \in Visible : title[y] # Untitled} } :
      Cardinality(g) > 1 }

\* chooseCanonicalPage: the configured page or the one with the best score,
\* which may be any.
MayLead(s, g) == s \in g /\ (g \cap Preferred # {} => s \in Preferred)

WithHeading(text) == text \cup {Heading}
Titled(text) == IF text = {} THEN {Heading} ELSE text

\* chooseCanonicalMarkdown: tools take the longest text of the group.
GroupText(c, g) ==
    IF Kind[c] # "tool" THEN Titled(holds[c].text)
    ELSE LET richest == CHOOSE s \in g : \A t \in g :
                            Cardinality(holds[t].text) <= Cardinality(holds[s].text)
         IN  WithHeading(holds[richest].text)

\* mergeNearDuplicateMarkdown: skills keep both texts.
ForcedText(c, d) ==
    IF Kind[c] # "skill" THEN Titled(holds[c].text)
    ELSE IF Capabilities \in holds[c].text THEN WithHeading(holds[c].text)
    ELSE WithHeading(holds[c].text \cup holds[d].text)

Merge(c, duplicates, text) ==
    [ canonical |-> c, duplicates |-> duplicates, text |-> text,
      projects |-> UNION {holds[s].projects : s \in {c} \cup duplicates},
      rewrites |-> {p \in Projects : holds[p][Kind[c]] \cap duplicates # {}} ]

GroupMerge(c, g) == Merge(c, g \ {c}, GroupText(c, g))

ForcedMerges ==
    LET known == SelectSeq(Rules, LAMBDA r :
                     r.canonical \in Visible /\ r.duplicate \in Visible)
    IN  [i \in 1 .. Len(known) |->
            Merge(known[i].canonical, {known[i].duplicate},
                  ForcedText(known[i].canonical, known[i].duplicate))]

Put(w, e) == [w EXCEPT ![e.at][e.field] = e.to]
Effect(w, x, f, v) == [at |-> x, field |-> f, from |-> w[x][f], to |-> v]

\* addProjectRewrite expects what the plan itself has left.
RewriteUncarried(w, m, p) ==
    LET k == Kind[m.canonical]
    IN  [at |-> p, field |-> k, from |-> holds[p][k],
         to |-> (holds[p][k] \ m.duplicates) \cup {m.canonical}]

RewriteDropped(w, m, p) ==
    LET k == Kind[m.canonical] IN Effect(w, p, k, w[p][k] \ m.duplicates)

Rewrite(w, m, p) ==
    LET k == Kind[m.canonical]
    IN  Effect(w, p, k, (w[p][k] \ m.duplicates) \cup {m.canonical})

Changes(e) == e.from # e.to

\* The effects of one merge on the workspace as the earlier ones leave it:
\* properties always, text and projects when they change.
EffectsOf(w, m) ==
    LET text == Effect(w, m.canonical, "text", m.text)
    IN  <<Effect(w, m.canonical, "projects", m.projects)>>
        \o (IF Changes(text) THEN <<text>> ELSE <<>>)
        \o SetToSeq({e \in {Rewrite(w, m, p) : p \in m.rewrites} : Changes(e)})

Extend(acc, m) ==
    LET es == EffectsOf(acc.world, m)
    IN  [effects |-> acc.effects \o es, world |-> FoldLeft(Put, acc.world, es)]

\* buildLowRiskArchiveCandidates; duplicates are archived as duplicates.
LowRisk(duplicates) ==
    {s \in Visible \ duplicates : title[s] \in Sandbox /\ holds[s].projects = {}}

Duplicates(merges) == UNION {merges[i].duplicates : i \in 1 .. Len(merges)}

PlanFor(groups) ==
    LET merges == groups \o ForcedMerges
        end    == FoldLeft(Extend, [effects |-> <<>>, world |-> holds], merges)
    IN  [ merges   |-> merges,
          effects  |-> end.effects,
          required |-> {[at |-> e.at, field |-> e.field,
                         to |-> end.world[e.at][e.field]] :
                           e \in Range(end.effects)}
                       \cup {[at |-> m.canonical, field |-> "text", to |-> m.text] :
                           m \in Range(merges)},
          archives |-> SetToSeq(Duplicates(merges)
                                \cup LowRisk(Duplicates(groups))) ]

Render ==
    /\ pc = "render"
    /\ \E lead \in [Groups -> Support] :
         /\ \A g \in Groups : MayLead(lead[g], g)
         /\ plan' = PlanFor(SetToSeq({GroupMerge(lead[g], g) : g \in Groups}))
    /\ before' = holds
    /\ pc' = "merge"
    /\ UNCHANGED <<title, holds, gone, touched, n, edited>>

------------------------------------------------------------------------------
(***************************************************************************)
(* Its execution.                                                          *)
(***************************************************************************)
\* verifySupportDatabaseHygieneState.
Proved(archivesGone) ==
    /\ \A r \in plan.required : r.at \notin gone /\ holds[r.at][r.field] = r.to
    /\ \A p \in Projects, k \in Kinds : holds[p][k] \cap Range(plan.archives) = {}
    /\ archivesGone => Range(plan.archives) \subseteq gone

\* One effect before the archives: compared, then written.
Apply ==
    /\ pc = "merge" /\ n <= Len(plan.effects)
    /\ LET e == plan.effects[n] IN
         IF holds[e.at][e.field] = e.from
         THEN /\ holds' = Put(holds, e)
              /\ touched' = touched \cup {e.at}
              /\ n' = n + 1 /\ UNCHANGED pc
         ELSE pc' = "failed" /\ UNCHANGED <<holds, touched, n>>
    /\ UNCHANGED <<title, gone, plan, before, edited>>

Verify ==
    /\ pc = "merge" /\ n > Len(plan.effects)
    /\ pc' = IF Proved(FALSE) THEN "archive" ELSE "failed"
    /\ n' = 1
    /\ UNCHANGED <<title, holds, gone, touched, plan, before, edited>>

\* assertHygieneArchivePrecondition: nobody, this run included, has written
\* the page since the plan was rendered.
Archive ==
    /\ pc = "archive" /\ n <= Len(plan.archives)
    /\ IF plan.archives[n] \notin touched \cup gone
       THEN /\ gone' = gone \cup {plan.archives[n]}
            /\ n' = n + 1 /\ UNCHANGED pc
       ELSE pc' = "failed" /\ UNCHANGED <<gone, n>>
    /\ UNCHANGED <<title, holds, touched, plan, before, edited>>

Finish ==
    /\ pc = "archive" /\ n > Len(plan.archives)
    /\ pc' = IF Proved(TRUE) THEN "done" ELSE "failed"
    /\ UNCHANGED <<title, holds, gone, touched, plan, n, before, edited>>

\* People link a project to a support page, on both sides.
Link(p, s) ==
    /\ pc \in {"merge", "archive"} /\ Cardinality(edited) < 2 * MaxEdits
    /\ s \in Visible /\ s \notin holds[p][Kind[s]]
    /\ holds' = [holds EXCEPT ![p][Kind[s]] = @ \cup {s},
                              ![s].projects = @ \cup {p}]
    /\ touched' = touched \cup {p, s}
    /\ edited' = edited \cup {p, s}
    /\ UNCHANGED <<title, gone, plan, pc, n, before>>

Next ==
    \/ Render \/ Apply \/ Verify \/ Archive \/ Finish
    \/ \E p \in Projects, s \in Support : Link(p, s)

Spec == Init /\ [][Next]_vars

------------------------------------------------------------------------------
\* Two merges into one page: the later one rewrites its relations from what
\* they were before the earlier one.
Disjoint ==
    \A i, j \in 1 .. Len(plan.merges) :
        plan.merges[i].canonical = plan.merges[j].canonical => i = j

\* No page is both kept by one merge and removed by another or as sandbox.
Untangled ==
    /\ Disjoint
    /\ \A i \in 1 .. Len(plan.merges) :
         plan.merges[i].canonical \notin Range(plan.archives)

(***************************************************************************)
(* LinksCarried: whatever people link meanwhile and wherever a run fails,  *)
(* no duplicate is archived before every project that referred to it has   *)
(* its canonical page instead, and that page all the duplicate's projects. *)
(* (For pages nobody edited by hand and that head one merge.)              *)
(***************************************************************************)
LinksCarried ==
    Disjoint =>
        \A i \in 1 .. Len(plan.merges) :
            LET m == plan.merges[i]
                k == Kind[m.canonical]
            IN  \A d \in m.duplicates \cap gone :
                  /\ \A p \in Projects \ edited :
                       d \in before[p][k] => /\ m.canonical \in holds[p][k]
                                             /\ d \notin holds[p][k]
                  /\ m.canonical \notin edited =>
                       before[d].projects \subseteq holds[m.canonical].projects

(***************************************************************************)
(* OwnPlanSucceeds: a plan that nobody disturbs does not fail half-way on  *)
(* its own comparisons, though it writes pages more than once.             *)
(***************************************************************************)
OwnPlanSucceeds == pc = "failed" => edited # {} \/ ~Untangled

(***************************************************************************)
(* LeavesNothing: after an undisturbed success the next plan is empty.     *)
(***************************************************************************)
LeavesNothing ==
    pc = "done" /\ edited = {} =>
        Groups = {} /\ ForcedMerges = <<>> /\ LowRisk({}) = {}
=============================================================================
