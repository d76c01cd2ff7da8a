--------------------------- MODULE WeeklyRefresh ---------------------------
(***************************************************************************)
(* The weekly refresh: a dry pass over every lane, the authority boundary, *)
(* and a live pass whose children share one control-tower config file and  *)
(* one command-center page (src/notion/weekly-refresh.ts and the sync  *)
(* commands it starts).  A child loads the whole config when it starts and *)
(* saves the whole config when it ends; only the weekly command itself     *)
(* loads it again before it records the run.                               *)
(*                                                                         *)
(* The run is the full one (no --only, --skip or --fast).  Content is a    *)
(* version number per lane: what the lane's sources say, what its own rows *)
(* show, and what its section of a command-center page shows.              *)
(***************************************************************************)
EXTENDS WeeklyState, FiniteSets, SequencesExt

CONSTANTS
    Tower,       \* the lane that writes the whole page (control-tower sync)
    Attempts,    \* --max-step-attempts
    MaxVersion,  \* bound: how often each lane's sources change
    MaxPages,    \* bound: command-center pages ever made
    MaxFaults    \* bound: failed, blocked or killed steps

VARIABLES
    data,      \* what the lane's sources say
    support,   \* "clean" or "drift": what support maintenance would find
    faults

vars == <<data, support, rows, pages, config, run, child, faults, finished,
          claim, vouched>>

Zero == [l \in Lane |-> 0]

NoRun   == [pc |-> "off", at |-> 0, tries |-> 0, statuses |-> {},
            drift |-> FALSE, began |-> Zero, cfg |-> [torn |-> TRUE]]
NoChild == [pc |-> "none", cfg |-> [torn |-> TRUE], old |-> 0, seen |-> 0,
            says |-> "clean"]

Init == /\ data = Zero
        /\ support = "clean"
        /\ rows = Zero
        /\ pages = <<[archived |-> FALSE, shows |-> Zero]>>
        /\ config = [torn |-> FALSE, center |-> 1, synced |-> Zero,
                     status |-> "none"]
        /\ run = NoRun
        /\ child = NoChild
        /\ faults = 0
        /\ finished = Zero
        /\ claim = Zero
        /\ vouched = FALSE

\* The people and systems around it: sources change, support drifts or is
\* cleaned up by its own lanes.
Sources(l) == /\ run.pc = "off"
              /\ data[l] < MaxVersion
              /\ data' = [data EXCEPT ![l] = @ + 1]
              /\ UNCHANGED <<support, rows, pages, config, run, child, faults,
                             finished, claim, vouched>>

SupportDrifts == /\ support = "clean" /\ faults < MaxFaults
                 /\ faults' = faults + 1
                 /\ support' = "drift"
                 /\ UNCHANGED <<data, rows, pages, config, run, child, finished,
                                claim, vouched>>

SupportCleaned == /\ support = "drift"
                  /\ support' = "clean"
                  /\ UNCHANGED <<data, rows, pages, config, run, child, faults,
                                 finished, claim, vouched>>

------------------------------------------------------------------------------
(* The two passes.                                                          *)

\* Would the lane's command change anything, as its dry run sees it.
WouldChange(l) == \/ rows[l] # data[l]
                  \/ HasSection(l) /\ pages[config.center].shows[l] # data[l]

\* A variant: a blocked project page counts as done.
OverallStatusLoose(statuses) ==
    IF "failed" \in statuses THEN "failed" ELSE "completed"

\* The status of a pass from those of its steps.
OverallStatus(statuses) ==
    IF "failed" \in statuses THEN "failed"
    ELSE IF {"partial", "skipped"} \cap statuses # {} THEN "partial"
    ELSE IF {"completed", "drift"} \cap statuses # {} THEN "completed"
    ELSE "clean"

\* A variant: a recheck that could not run does not stop the live pass.
BlocksLiveOnDrift(status) == status = "drift"

\* The support recheck stops the live pass.
BlocksLive(status) == status \in {"drift", "failed", "partial"}

Start == /\ run.pc = "off" /\ ~config.torn
         /\ run' = [NoRun EXCEPT !.pc = "preflight", !.began = data, !.cfg = config]
         /\ vouched' = FALSE
         /\ UNCHANGED <<data, support, rows, pages, config, child, faults,
                        finished, claim>>

SupportSays == IF support = "drift" THEN "drift" ELSE "clean"

\* A dry step: support maintenance first, then every lane.
Dry == /\ run.pc = "preflight" /\ run.at <= Len(Lanes)
       /\ LET status == IF run.at = 0 THEN SupportSays
                        ELSE IF WouldChange(Lanes[run.at]) THEN "drift" ELSE "clean"
          IN run' = [run EXCEPT !.at = @ + 1, !.statuses = @ \cup {status},
                                !.drift = @ \/ (run.at = 0 /\ status = "drift")]
       /\ UNCHANGED <<data, support, rows, pages, config, child, faults,
                      finished, claim, vouched>>

\* A dry step whose every attempt failed.
DryFails == /\ run.pc = "preflight" /\ run.at <= Len(Lanes)
            /\ faults < MaxFaults
            /\ faults' = faults + 1
            /\ run' = [run EXCEPT !.at = @ + 1, !.statuses = @ \cup {"failed"}]
            /\ UNCHANGED <<data, support, rows, pages, config, child, finished,
                           claim, vouched>>

\* After the dry pass: record a clean or failed one; refuse to go live over
\* support drift (the command throws and records nothing); or go live.
Decide ==
    /\ run.pc = "preflight" /\ run.at > Len(Lanes)
    /\ run' = IF "failed" \in run.statuses \/ "drift" \notin run.statuses
              THEN [run EXCEPT !.pc = "record"]
              ELSE IF run.drift THEN NoRun
              ELSE [run EXCEPT !.pc = "recheck", !.statuses = {}, !.at = 1]
    /\ UNCHANGED <<data, support, rows, pages, config, child, faults, finished,
                   claim, vouched>>

\* The first step of the live pass: support maintenance, dry, once more.
Recheck ==
    /\ run.pc = "recheck"
    /\ \/ faults' = faults /\ LET status == SupportSays
                              IN /\ run' = IF BlocksLive(status) THEN NoRun
                                           ELSE [run EXCEPT !.pc = "live", !.statuses = {status}]
                                 /\ vouched' = (support = "clean")
       \/ /\ faults < MaxFaults /\ faults' = faults + 1
          /\ run' = IF BlocksLive("failed") THEN NoRun
                    ELSE [run EXCEPT !.pc = "live", !.statuses = {"failed"}]
          /\ vouched' = FALSE
    /\ UNCHANGED <<data, support, rows, pages, config, child, finished, claim>>

------------------------------------------------------------------------------
(* A live child.                                                            *)

Now == Lanes[run.at]

\* Another step: its status is noted, and a failed control tower skips the rest.
Step(status) ==
    LET skip == status = "failed" /\ Now = Tower /\ run.at < Len(Lanes)
        over == skip \/ run.at = Len(Lanes)
        notes == run.statuses \cup {status} \cup IF skip THEN {"skipped"} ELSE {}
    IN [run EXCEPT !.statuses = notes, !.tries = 0,
                   !.at = IF over THEN @ ELSE @ + 1,
                   !.pc = IF over THEN "record" ELSE @]

\* The command starts: it loads the config and its datasets.
Begin == /\ run.pc = "live" /\ child.pc = "none" /\ ~config.torn
         /\ child' = [pc |-> "rows", cfg |-> config, old |-> config.center,
                      seen |-> data[Now],
                      says |-> IF WouldChange(Now) THEN "completed" ELSE "clean"]
         /\ run' = [run EXCEPT !.tries = @ + 1]
         /\ UNCHANGED <<data, support, rows, pages, config, faults, finished,
                        claim, vouched>>

\* It cannot parse a config that was cut off.
CannotLoad == /\ run.pc = "live" /\ child.pc = "none" /\ config.torn
              /\ run' = Step("failed")
              /\ UNCHANGED <<data, support, rows, pages, config, child, faults,
                             finished, claim, vouched>>

\* Its own rows and project pages; Notion may block the markdown of one.
Rows == /\ child.pc = "rows"
        /\ \/ rows' = [rows EXCEPT ![Now] = child.seen]
              /\ child' = [child EXCEPT !.pc = "center"]
              /\ faults' = faults
           \/ faults < MaxFaults /\ faults' = faults + 1
              /\ rows[Now] # child.seen /\ Now # Tower
              /\ rows' = rows
              /\ child' = [child EXCEPT !.pc = "center", !.says = "partial"]
        /\ UNCHANGED <<data, support, pages, config, run, finished, claim, vouched>>

\* The page with the lane's section brought up to date and every other kept.
Merged(page, l, v) == [page EXCEPT !.shows[l] = v]

\* The page, patched; skipped when nothing in it changes.
Center == /\ child.pc = "center"
          /\ pages' = IF HasSection(Now)
                      THEN [pages EXCEPT ![child.cfg.center] =
                                Merged(@, Now, child.seen)]
                      ELSE pages
          /\ child' = [child EXCEPT !.pc = "save"]
          /\ UNCHANGED <<data, support, rows, config, run, faults, finished,
                         claim, vouched>>

\* The patch fails in transport, applied or not.  Control-tower sync makes a
\* new page at once; the others keep a page that reads back as wanted.
CenterFails ==
    /\ child.pc = "center" /\ HasSection(Now)
    /\ pages[child.cfg.center].shows[Now] # child.seen
    /\ faults < MaxFaults /\ Len(pages) < MaxPages
    /\ LET next == Merged(pages[child.cfg.center], Now, child.seen)
           new  == Len(pages) + 1
       IN \E applied \in BOOLEAN :
            LET there == IF applied THEN [pages EXCEPT ![child.cfg.center] = next]
                         ELSE pages
            IN IF applied /\ Now # Tower
               THEN /\ pages' = there
                    /\ child' = [child EXCEPT !.pc = "save"]
               ELSE /\ pages' = Append(there, [next EXCEPT !.archived = FALSE])
                    /\ child' = [child EXCEPT !.cfg.center = new,
                                    !.pc = IF Now = Tower THEN "save" ELSE "repoint"]
    /\ faults' = faults + 1
    /\ UNCHANGED <<data, support, rows, config, run, finished, claim, vouched>>

\* The replacement is named in the config before the page it replaces goes.
Repoint == /\ child.pc = "repoint"
           /\ config' = child.cfg
           /\ child' = [child EXCEPT !.pc = "archive"]
           /\ UNCHANGED <<data, support, rows, pages, run, faults, finished,
                          claim, vouched>>

Archive == /\ child.pc = "archive"
           /\ pages' = [pages EXCEPT ![child.old].archived = TRUE]
           /\ child' = [child EXCEPT !.pc = "save"]
           /\ UNCHANGED <<data, support, rows, config, run, faults, finished,
                          claim, vouched>>

\* A variant whose closing save starts from the config as the command loaded
\* it and so forgets the replacement.
SavedAsLoaded(cfg) == [cfg EXCEPT !.synced[Now] = child.seen, !.center = child.old]

\* The command ends: it saves the config it loaded, with its own day in it.
Saved(cfg) == [cfg EXCEPT !.synced[Now] = child.seen]

Save == /\ child.pc = "save"
        /\ config' = Saved(child.cfg)
        /\ finished' = [finished EXCEPT ![Now] = child.seen]
        /\ child' = NoChild
        /\ run' = Step(child.says)
        /\ UNCHANGED <<data, support, rows, pages, faults, claim, vouched>>

\* The command fails or is killed at its timeout; a patch or a save under way
\* may have landed, or the save been cut off.  A transient error is tried again.
Dies ==
    /\ child.pc # "none" /\ faults < MaxFaults
    /\ faults' = faults + 1
    /\ child' = NoChild
    /\ \E transient \in BOOLEAN :
         run' = IF transient /\ run.tries < Attempts THEN run ELSE Step("failed")
    /\ config' \in {config} \cup
           CASE child.pc = "save"    -> {Saved(child.cfg), [config EXCEPT !.torn = TRUE]}
             [] child.pc = "repoint" -> {child.cfg, [config EXCEPT !.torn = TRUE]}
             [] OTHER                -> {}
    /\ pages' \in {pages} \cup
           IF child.pc = "center" /\ HasSection(Now)
           THEN {[pages EXCEPT ![child.cfg.center] = Merged(@, Now, child.seen)]}
           ELSE {}
    /\ UNCHANGED <<data, support, rows, finished, claim, vouched>>

\* The weekly command itself is stopped, and its child with it.
Crash == /\ run.pc # "off" /\ faults < MaxFaults
         /\ faults' = faults + 1
         /\ run' = NoRun /\ child' = NoChild
         /\ UNCHANGED <<data, support, rows, pages, config, finished, claim, vouched>>

------------------------------------------------------------------------------
(* Recording the run.                                                       *)

\* A variant in which the weekly command records over the config it loaded first.
RecordedAsBegun == [run.cfg EXCEPT !.status = OverallStatus(run.statuses)]

\* The config as the weekly command saves it: loaded again, not as it began.
Recorded == [config EXCEPT !.status = OverallStatus(run.statuses)]

Record == /\ run.pc = "record" /\ ~config.torn
          /\ config' = Recorded
          /\ claim' = run.began
          /\ run' = [run EXCEPT !.pc = "fresh"]
          /\ UNCHANGED <<data, support, rows, pages, child, faults, finished, vouched>>

CannotRecord == /\ run.pc = "record" /\ config.torn
                /\ run' = NoRun
                /\ UNCHANGED <<data, support, rows, pages, config, child, faults,
                               finished, claim, vouched>>

\* The freshness section of the page: no lane's content, but a patch that fails
\* in transport makes a new page here too, named in the config and nothing
\* archived.
Fresh == /\ run.pc = "fresh"
         /\ run' = NoRun
         /\ UNCHANGED <<data, support, rows, pages, config, child, faults,
                        finished, claim, vouched>>

FreshFails == /\ run.pc = "fresh" /\ faults < MaxFaults /\ Len(pages) < MaxPages
              /\ faults' = faults + 1
              /\ pages' = Append(pages, pages[config.center])
              /\ config' = [config EXCEPT !.center = Len(pages')]
              /\ run' = NoRun
              /\ UNCHANGED <<data, support, rows, child, finished, claim, vouched>>

\* Somebody restores a config that was cut off, from the copy under version
\* control: external.
Restored == /\ config.torn /\ run.pc = "off"
            /\ config' = [config EXCEPT !.torn = FALSE]
            /\ UNCHANGED <<data, support, rows, pages, run, child, faults,
                           finished, claim, vouched>>

Child == Begin \/ CannotLoad \/ Rows \/ Center \/ Repoint \/ Archive \/ Save

Run == Start \/ Dry \/ Decide \/ Recheck \/ Record \/ CannotRecord \/ Fresh

Next == \/ \E l \in Lane : Sources(l)
        \/ SupportDrifts \/ SupportCleaned \/ Restored
        \/ Run \/ Child
        \/ DryFails \/ CenterFails \/ FreshFails \/ Dies \/ Crash

Spec == Init /\ [][Next]_vars

FairSpec == /\ Spec
            /\ WF_vars(Run) /\ WF_vars(Child)
            /\ WF_vars(SupportCleaned) /\ WF_vars(Restored)

------------------------------------------------------------------------------
(* Properties: WeeklySafe of WeeklyState, and this.                         *)

\* What a lane's sources say reaches its rows and its section.
Refreshes ==
    []<>(\A l \in Lane : /\ rows[l] = data[l]
                         /\ HasSection(l) => pages[config.center].shows[l] = data[l])
=============================================================================
