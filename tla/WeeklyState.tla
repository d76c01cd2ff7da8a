---------------------------- MODULE WeeklyState -----------------------------
(***************************************************************************)
(* What the weekly refresh keeps, and what must be true of it: the rows of *)
(* the lanes, the command-center pages, the one config file that names the *)
(* page and dates the lanes, and the run under way.  WeeklyRefresh has the *)
(* steps that change them.                                                 *)
(***************************************************************************)
EXTENDS Naturals, Sequences

CONSTANTS
    Lanes,       \* the lanes after support maintenance, in the order they run
    Pageless     \* the lanes without a section of the page (review packet)

Lane == {Lanes[i] : i \in DOMAIN Lanes}

\* There is a lane to refresh (WEEKLY_STEP_KEYS).
LanesAreListed == Lanes \in Seq(Lane) /\ Lanes # <<>>

HasSection(l) == l \notin Pageless

VARIABLES
    rows,      \* what the lane's own pages and rows show
    pages,     \* the command-center pages: archived, and a version per section
    config,    \* the control-tower config file
    run,       \* the weekly command, and what its passes returned
    child,     \* the sync command it waits for
    finished,  \* history: runs a live child of the lane has finished
    claim,     \* history: data when the run that recorded itself last began
    vouched    \* history: this run's recheck found support clean

------------------------------------------------------------------------------
(* Properties.                                                              *)

\* The page the config names is never one that was archived: the config is
\* repointed before the archive, and no later save brings the old page back.
CenterIsLive == config.torn \/ ~pages[config.center].archived

\* No save of the shared config loses a lane's sync: the config shows every
\* lane at least as far as its last finished command.
SyncsKept == \A l \in Lane : config.synced[l] >= finished[l]

\* A run recorded as clean or completed brought every lane to what its
\* sources said when the run began.
RecordIsEarned ==
    ~config.torn /\ config.status \in {"clean", "completed"}
        => \A l \in Lane : /\ rows[l] >= claim[l]
                           /\ HasSection(l) => pages[config.center].shows[l] >= claim[l]

\* Live commands start only in a run whose recheck found support clean.
LiveIsVouched == run.pc = "live" \/ child.pc # "none" => vouched

(***************************************************************************)
(* WeeklySafe: the config names a live command-center page and forgets no  *)
(* lane's sync, a run recorded as healthy brought every lane up to date,   *)
(* and no live child ran unvouched.                                        *)
(***************************************************************************)
WeeklySafe == CenterIsLive /\ SyncsKept /\ RecordIsEarned /\ LiveIsVouched
=============================================================================
