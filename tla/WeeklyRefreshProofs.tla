------------------------ MODULE WeeklyRefreshProofs ------------------------
(***************************************************************************)
(* What the weekly refresh guarantees for any lanes in any order, any      *)
(* contents, pages and faults: the page its config names is live, no save  *)
(* of the shared config loses a lane's sync, and a run recorded as healthy *)
(* earned it.  And, from the section on the config file on, what that      *)
(* config keeps of every command that loads and saves the whole of it.     *)
(***************************************************************************)
EXTENDS WeeklyRefresh, ControlTowerConfig, TLAPS

------------------------------------------------------------------------------
(* The inductive invariant.                                                 *)

Versions == [Lane -> Nat]

IsPage(s) == DOMAIN s = {"archived", "shows"} /\ s.shows \in Versions

IsConfig(c) ==
    DOMAIN c = {"torn", "center", "synced", "status"} /\ c.synced \in Versions

IsRun(s) ==
    /\ DOMAIN s = {"pc", "at", "tries", "statuses", "drift", "began", "cfg"}
    /\ s.at \in Nat /\ s.began \in Versions

IsChild(s) == DOMAIN s = {"pc", "cfg", "old", "seen", "says"}

IsPages(s) == (\E S : s \in Seq(S)) /\ \A i \in 1 .. Len(s) : IsPage(s[i])

Shapes ==
    /\ data \in Versions /\ rows \in Versions
    /\ finished \in Versions /\ claim \in Versions
    /\ IsPages(pages) /\ IsConfig(config) /\ IsRun(run) /\ IsChild(child)
    /\ support \in {"clean", "drift"}

Numbers == 1 .. Len(pages)

\* What a lane's sources say is in its rows, and in its section of page i.
Current(l, i) ==
    rows[l] = data[l] /\ (HasSection(l) => pages[i].shows[l] = data[l])

\* The pass had a step that keeps the run from being recorded as healthy.
Troubled == run.statuses \cap {"failed", "partial", "skipped"} # {}

Busy == child.pc # "none"

\* The weekly command, and what it shares with its children.
Ran ==
    /\ Busy => run.pc = "live"
    /\ run.pc = "live" => run.at \in 1 .. Len(Lanes) /\ vouched
    /\ run.pc # "off" => run.began = data
    /\ run.pc = "recheck" => run.at = 1
    /\ \A l \in Lane : /\ finished[l] <= config.synced[l]
                       /\ finished[l] <= data[l] /\ claim[l] <= data[l]
    /\ config.center \in Numbers /\ pages[config.center].archived = FALSE

\* The child: what it read is still so, the page it will name is live, and its
\* rows and its section are written in that order.
Held == Busy =>
    /\ IsConfig(child.cfg) /\ child.seen = data[Now]
    /\ child.cfg.synced = config.synced /\ child.cfg.status = config.status
    /\ child.cfg.center \in Numbers /\ child.old \in Numbers
    /\ pages[child.cfg.center].archived = FALSE
    /\ child.pc \in {"rows", "center"} => child.cfg.center = config.center
                                          /\ child.old = config.center
    /\ child.pc \in {"repoint", "archive"} => child.cfg.center # child.old
    /\ child.pc = "archive" => config.center = child.cfg.center
    /\ child.pc # "rows" => rows[Now] = child.seen \/ child.says = "partial"
    /\ child.pc \notin {"rows", "center"} /\ HasSection(Now) =>
         pages[child.cfg.center].shows[Now] = child.seen

\* What each pass has found or brought up to date so far.
Fresher ==
    /\ run.pc = "preflight" =>
         \A i \in 1 .. Len(Lanes) : i < run.at =>
             "drift" \in run.statuses \/ "failed" \in run.statuses
             \/ Current(Lanes[i], config.center)
    /\ run.pc = "live" /\ ~Troubled =>
         \A i \in 1 .. Len(Lanes) : i < run.at =>
             /\ Current(Lanes[i], config.center)
             /\ Busy => Current(Lanes[i], child.cfg.center)
    /\ run.pc = "record" /\ ~Troubled =>
         \A l \in Lane : Current(l, config.center)

\* The last recorded run, on the page the config names and on the one it is
\* about to name.
Reached(i) ==
    \A l \in Lane : HasSection(l) => pages[i].shows[l] >= claim[l]

Earned ==
    config.status \in {"clean", "completed"} =>
        /\ \A l \in Lane : rows[l] >= claim[l]
        /\ Reached(config.center)
        /\ Busy => Reached(child.cfg.center)

\* Inductive: the weekly command, its child and the pages, as each step leaves
\* them for the next.
IInv == Shapes /\ Ran /\ Held /\ Fresher /\ Earned

------------------------------------------------------------------------------
\* Every lane has its place in the pass.
LEMMA LanesIndexed ==
  ASSUME LanesAreListed
  PROVE  /\ Len(Lanes) \in Nat /\ Len(Lanes) > 0
         /\ \A i \in 1 .. Len(Lanes) : Lanes[i] \in Lane
         /\ \A l \in Lane : \E i \in 1 .. Len(Lanes) : l = Lanes[i]
BY DEF LanesAreListed, Lane

LEMMA InitKept ==
  ASSUME LanesAreListed, Init PROVE IInv
<1>1. Zero \in Versions
  BY DEF Zero, Versions
<1>2. /\ support = "clean" /\ data = Zero /\ rows = Zero /\ finished = Zero /\ claim = Zero
      /\ pages = <<[archived |-> FALSE, shows |-> Zero]>>
      /\ config = [torn |-> FALSE, center |-> 1, synced |-> Zero, status |-> "none"]
      /\ run = NoRun /\ child = NoChild
  BY DEF Init
<1> HIDE DEF Zero
<1>3. /\ Len(pages) = 1 /\ pages[1] = [archived |-> FALSE, shows |-> Zero]
      /\ pages \in Seq({[archived |-> FALSE, shows |-> Zero]})
  BY <1>2
<1>4. IsPages(pages)
  BY <1>1, <1>3 DEF IsPages, IsPage
<1>5. Shapes
  BY <1>1, <1>2, <1>4 DEF Shapes, IsConfig, IsRun, IsChild, NoRun, NoChild
<1>6. child.pc = "none" /\ run.pc = "off"
  BY <1>2 DEF NoRun, NoChild
<1>7. Ran
  BY <1>1, <1>2, <1>3, <1>6 DEF Ran, Busy, Numbers, Versions
<1> QED
  BY <1>2, <1>5, <1>6, <1>7 DEF IInv, Held, Fresher, Earned, Busy

\* A step that changes the weekly command alone.
LEMMA RunOnly ==
  ASSUME IInv, IsRun(run)', Ran', Fresher',
         UNCHANGED <<data, support, rows, pages, config, child, finished, claim>>,
         Busy => run'.at = run.at
  PROVE  IInv'
<1>1. Shapes'
  BY DEF IInv, Shapes
<1>2. Held'
  BY DEF IInv, Held, Busy, Numbers, Now
<1>3. Earned'
  BY DEF IInv, Earned, Reached, Busy
<1> QED
  BY <1>1, <1>2, <1>3 DEF IInv

LEMMA AroundKept ==
  ASSUME IInv, NEW l \in Lane,
         Sources(l) \/ SupportDrifts \/ SupportCleaned \/ Restored
  PROVE  IInv'
<1>1. CASE SupportDrifts \/ SupportCleaned
  BY <1>1, SMTT(60) DEF SupportDrifts, SupportCleaned, IInv, Shapes, Ran, Held, Fresher, Earned,
     Busy, Numbers, Now, Current, Troubled, Reached
<1>2. CASE Restored
  <2>1. /\ config'.center = config.center /\ config'.synced = config.synced
        /\ config'.status = config.status /\ IsConfig(config')
    BY <1>2 DEF Restored, IInv, Shapes, IsConfig
  <2>2. ~Busy /\ run.pc = "off"
    BY <1>2 DEF Restored, IInv, Ran
  <2> QED
    BY <1>2, <2>1, <2>2 DEF Restored, IInv, Shapes, Ran, Held, Fresher, Earned,
       Busy, Numbers, Reached
<1>3. CASE Sources(l)
  <2>1. data' \in Versions /\ \A m \in Lane : data'[m] >= data[m]
    BY <1>3 DEF Sources, IInv, Shapes, Versions
  <2>2. ~Busy /\ run.pc = "off"
    BY <1>3 DEF Sources, IInv, Ran
  <2>3. Ran'
    BY <1>3, <2>1, <2>2 DEF Sources, IInv, Shapes, Ran, Busy, Numbers, Versions
  <2> QED
    BY <1>3, <2>1, <2>2, <2>3 DEF Sources, IInv, Shapes, Held, Fresher, Earned,
       Busy, Reached
<1> QED
  BY <1>1, <1>2, <1>3

LEMMA StartKept ==
  ASSUME LanesAreListed, IInv, Start PROVE IInv'
<1>1. ~Busy
  BY DEF Start, IInv, Ran
<1>2. /\ run'.pc = "preflight" /\ run'.at = 0 /\ run'.began = data /\ IsRun(run')
  BY DEF Start, NoRun, IsRun, IInv, Shapes
<1>3. Ran'
  BY <1>1, <1>2 DEF Start, IInv, Ran, Busy, Numbers
<1>4. Fresher'
  BY <1>2 DEF Fresher
<1> QED
  BY <1>1, <1>2, <1>3, <1>4, RunOnly DEF Start

LEMMA DryKept ==
  ASSUME LanesAreListed, IInv, Dry \/ DryFails PROVE IInv'
<1>1. ~Busy /\ run.pc = "preflight" /\ run.at \in Nat /\ run.at <= Len(Lanes)
  BY DEF Dry, DryFails, IInv, Ran, Shapes, IsRun
<1>2. PICK status : /\ run'.at = run.at + 1
                    /\ run'.statuses = run.statuses \cup {status}
                    /\ run'.pc = run.pc /\ run'.began = run.began
                    /\ IsRun(run')
                    /\ \/ status \in {"drift", "failed"}
                       \/ run.at # 0 => ~WouldChange(Lanes[run.at])
  <2>1. CASE Dry
    <3> DEFINE found == IF run.at = 0 THEN SupportSays
                        ELSE IF WouldChange(Lanes[run.at]) THEN "drift" ELSE "clean"
               drifted == run.drift \/ (run.at = 0 /\ found = "drift")
    <3>1. run' = [run EXCEPT !.at = @ + 1, !.statuses = @ \cup {found},
                             !.drift = drifted]
      BY <2>1 DEF Dry
    <3>2. run.at # 0 /\ found # "drift" => ~WouldChange(Lanes[run.at])
      OBVIOUS
    <3> HIDE DEF found, drifted
    <3>3. /\ run'.at = run.at + 1 /\ run'.statuses = run.statuses \cup {found}
          /\ run'.pc = run.pc /\ run'.began = run.began /\ IsRun(run')
      BY <1>1, <3>1 DEF IInv, Shapes, IsRun
    <3>4. found \in {"drift", "failed"} \/ (run.at # 0 => ~WouldChange(Lanes[run.at]))
      BY <3>2
    <3> QED
      BY <3>3, <3>4, Zenon
  <2>2. CASE DryFails
    <3>1. run' = [run EXCEPT !.at = @ + 1, !.statuses = @ \cup {"failed"}]
      BY <2>2 DEF DryFails
    <3>2. /\ run'.at = run.at + 1 /\ run'.statuses = run.statuses \cup {"failed"}
          /\ run'.pc = run.pc /\ run'.began = run.began /\ IsRun(run')
      BY <1>1, <3>1 DEF IInv, Shapes, IsRun
    <3>3. "failed" \in {"drift", "failed"}
      OBVIOUS
    <3> QED
      BY <3>2, <3>3, Zenon
  <2> QED
    BY <2>1, <2>2
<1>3. Ran'
  BY <1>1, <1>2 DEF Dry, DryFails, IInv, Ran, Busy, Numbers
<1>4. Fresher'
  <2> SUFFICES ASSUME NEW i \in 1 .. Len(Lanes), i < run.at + 1,
                      "drift" \notin run'.statuses, "failed" \notin run'.statuses
               PROVE  Current(Lanes[i], config.center)'
    BY <1>1, <1>2 DEF Fresher
  <2>1. CASE i < run.at
    BY <1>1, <1>2, <2>1 DEF IInv, Fresher, Dry, DryFails, Current
  <2>2. CASE i = run.at
    BY <1>1, <1>2, <2>2 DEF WouldChange, Dry, DryFails, Current
  <2> QED
    BY <1>1, <2>1, <2>2
<1> QED
  BY <1>1, <1>2, <1>3, <1>4, RunOnly DEF Dry, DryFails

LEMMA NoRunShape == IsRun(NoRun)
BY DEF IsRun, NoRun, Versions, Zero

LEMMA DecideKept ==
  ASSUME LanesAreListed, IInv, Decide PROVE IInv'
<1>1. ~Busy /\ run.pc = "preflight" /\ run.at \in Nat /\ run.at > Len(Lanes)
  BY DEF Decide, IInv, Ran, Shapes, IsRun
<1>2. CASE "failed" \in run.statuses \/ "drift" \notin run.statuses
  <2>1. run' = [run EXCEPT !.pc = "record"]
    BY <1>2 DEF Decide
  <2>2. /\ run'.pc = "record" /\ run'.statuses = run.statuses
        /\ run'.began = run.began /\ IsRun(run')
    BY <2>1 DEF IInv, Shapes, IsRun
  <2>3. Ran'
    BY <1>1, <2>2 DEF Decide, IInv, Ran, Busy, Numbers
  <2>4. ASSUME "failed" \notin run.statuses, NEW l \in Lane
        PROVE  Current(l, config.center)
    BY <1>1, <1>2, <2>4, LanesIndexed DEF IInv, Fresher
  <2>5. Fresher'
    BY <2>2, <2>4 DEF Fresher, Troubled, Decide, Current
  <2> QED
    BY <1>1, <2>2, <2>3, <2>5, RunOnly DEF Decide
<1>3. CASE run' = NoRun
  <2>1. run'.pc = "off" /\ IsRun(run')
    BY <1>3, NoRunShape DEF NoRun
  <2>2. Ran' /\ Fresher'
    BY <1>1, <2>1 DEF Decide, IInv, Ran, Fresher, Busy, Numbers
  <2> QED
    BY <1>1, <2>1, <2>2, RunOnly DEF Decide
<1>4. CASE run' = [run EXCEPT !.pc = "recheck", !.statuses = {}, !.at = 1]
  <2>1. run'.pc = "recheck" /\ run'.at = 1 /\ run'.began = run.began /\ IsRun(run')
    BY <1>4 DEF IInv, Shapes, IsRun
  <2>2. Ran' /\ Fresher'
    BY <1>1, <2>1 DEF Decide, IInv, Ran, Fresher, Busy, Numbers
  <2> QED
    BY <1>1, <2>1, <2>2, RunOnly DEF Decide
<1> QED
  BY <1>2, <1>3, <1>4 DEF Decide

LEMMA RecheckKept ==
  ASSUME LanesAreListed, IInv, Recheck PROVE IInv'
<1>1. ~Busy /\ run.pc = "recheck" /\ run.at = 1
  BY DEF Recheck, IInv, Ran
<1>2. CASE run' = NoRun
  <2>1. run'.pc = "off" /\ IsRun(run')
    BY <1>2, NoRunShape DEF NoRun
  <2>2. Ran' /\ Fresher'
    BY <1>1, <2>1 DEF Recheck, IInv, Ran, Fresher, Busy, Numbers
  <2> QED
    BY <1>1, <2>1, <2>2, RunOnly DEF Recheck
<1>3. CASE run' # NoRun
  <2>1. /\ run' = [run EXCEPT !.pc = "live", !.statuses = {SupportSays}]
        /\ vouched' = (support = "clean")
        /\ support = "clean"
    BY <1>3 DEF Recheck, BlocksLive, SupportSays, IInv, Shapes
  <2>2. run'.pc = "live" /\ run'.at = 1 /\ run'.began = run.began /\ IsRun(run')
    BY <1>1, <2>1 DEF IInv, Shapes, IsRun
  <2>3. vouched'
    BY <2>1, Zenon
  <2>4. Ran'
    BY <1>1, <2>2, <2>3, LanesIndexed DEF Recheck, IInv, Ran, Busy, Numbers
  <2>5. Fresher'
    BY <2>2 DEF Fresher
  <2> QED
    BY <1>1, <2>2, <2>4, <2>5, RunOnly DEF Recheck
<1> QED
  BY <1>2, <1>3

------------------------------------------------------------------------------
(* The child.                                                               *)

\* What a child begins with, it still holds: it names the page and the config
\* it loaded.
LEMMA BeginKept ==
  ASSUME LanesAreListed, IInv, Begin PROVE IInv'
<1>1. ~Busy /\ run.pc = "live"
  BY DEF Begin, Busy
<1>2. /\ child'.pc = "rows" /\ child'.cfg = config /\ child'.old = config.center
      /\ child'.seen = data[Now] /\ IsChild(child')
  BY DEF Begin, IsChild
<1>3. /\ run'.pc = "live" /\ run'.at = run.at /\ run'.began = run.began
      /\ run'.statuses = run.statuses /\ IsRun(run')
  BY <1>1 DEF Begin, IInv, Shapes, IsRun
<1>4. Shapes'
  BY <1>2, <1>3 DEF Begin, IInv, Shapes
<1>5. Ran'
  BY <1>1, <1>3 DEF Begin, IInv, Ran, Busy, Numbers
<1>6. Held'
  BY <1>1, <1>2, <1>3, <1>5 DEF Begin, IInv, Shapes, Ran, Held, Busy, Numbers, Now
<1>7. Fresher'
  BY <1>1, <1>2, <1>3 DEF Begin, IInv, Fresher, Troubled, Busy, Current
<1>8. Earned'
  BY <1>1, <1>2 DEF Begin, IInv, Earned, Busy, Reached
<1> QED
  BY <1>4, <1>5, <1>6, <1>7, <1>8 DEF IInv

\* The next step of the pass, or its end.
LEMMA StepShape ==
  ASSUME LanesAreListed, IInv, run.pc = "live", NEW s, run' = Step(s)
  PROVE  /\ IsRun(run') /\ run'.began = run.began
         /\ run.statuses \subseteq run'.statuses /\ s \in run'.statuses
         /\ \/ run'.pc = "live" /\ run'.at = run.at + 1 /\ run.at < Len(Lanes)
            \/ run'.pc = "record" /\ run.at = Len(Lanes)
            \/ run'.pc = "record" /\ "failed" \in run'.statuses
<1> DEFINE skip == s = "failed" /\ Now = Tower /\ run.at < Len(Lanes)
           over == skip \/ run.at = Len(Lanes)
           notes == run.statuses \cup {s} \cup IF skip THEN {"skipped"} ELSE {}
           at == IF over THEN run.at ELSE run.at + 1
           pc == IF over THEN "record" ELSE run.pc
<1>1. run' = [run EXCEPT !.statuses = notes, !.tries = 0, !.at = at, !.pc = pc]
  BY DEF Step
<1>2. run.at \in 1 .. Len(Lanes)
  BY DEF IInv, Ran
<1>3. at \in Nat
  BY <1>2, LanesIndexed
<1>4. run.statuses \subseteq notes /\ s \in notes
  OBVIOUS
<1>5. \/ pc = "live" /\ at = run.at + 1 /\ run.at < Len(Lanes)
      \/ pc = "record" /\ run.at = Len(Lanes)
      \/ pc = "record" /\ s = "failed"
  BY <1>2, LanesIndexed
<1> HIDE DEF skip, over, notes, at, pc
<1>6. /\ run'.statuses = notes /\ run'.at = at /\ run'.pc = pc
      /\ run'.began = run.began /\ IsRun(run')
  BY <1>1, <1>3 DEF IInv, Shapes, IsRun
<1> QED
  BY <1>4, <1>5, <1>6

LEMMA CannotLoadKept ==
  ASSUME LanesAreListed, IInv, CannotLoad PROVE IInv'
<1>1. ~Busy /\ run.pc = "live" /\ run' = Step("failed")
  BY DEF CannotLoad, Busy
<1>2. IsRun(run') /\ run'.began = run.began /\ "failed" \in run'.statuses
      /\ \/ run'.pc = "live" /\ run'.at = run.at + 1 /\ run.at < Len(Lanes)
         \/ run'.pc = "record"
  BY <1>1, StepShape
<1>3. Ran'
  BY <1>1, <1>2, LanesIndexed DEF CannotLoad, IInv, Ran, Busy, Numbers
<1>4. Fresher'
  BY <1>2 DEF Fresher, Troubled
<1> QED
  BY <1>1, <1>2, <1>3, <1>4, RunOnly DEF CannotLoad

\* The pages, each as it was but for sections brought up to date.
Brought ==
    /\ IsPages(pages') /\ Len(pages') >= Len(pages)
    /\ \A i \in Numbers : \A l \in Lane :
         \/ pages'[i].shows[l] = pages[i].shows[l]
         \/ pages'[i].shows[l] = data[l]

\* Bringing pages up to date undoes nothing of what was reached.
LEMMA BroughtKeeps ==
  ASSUME IInv, Brought, UNCHANGED <<data, rows, claim>>, NEW i \in Numbers
  PROVE  /\ i \in Numbers'
         /\ \A l \in Lane : Current(l, i) => (/\ rows'[l] = data'[l]
               /\ HasSection(l) => pages'[i].shows[l] = data'[l])
         /\ Reached(i) => \A l \in Lane : HasSection(l) => pages'[i].shows[l] >= claim'[l]
<1>1. i \in Numbers'
  BY DEF Brought, Numbers, IInv, Shapes, IsPages
<1>2. \A l \in Lane : data[l] >= claim[l] /\ data[l] \in Nat /\ claim[l] \in Nat
  BY DEF IInv, Shapes, Ran, Versions
<1> QED
  BY <1>1, <1>2 DEF Brought, Current, Reached

LEMMA RowsKept ==
  ASSUME LanesAreListed, IInv, Rows PROVE IInv'
<1>1. Busy /\ run.pc = "live" /\ child.pc = "rows" /\ Now \in Lane
  BY LanesIndexed DEF Rows, IInv, Ran, Busy, Now
<1>2. /\ child'.pc = "center" /\ IsChild(child')
      /\ child'.cfg = child.cfg /\ child'.old = child.old /\ child'.seen = child.seen
      /\ child'.says = "partial" \/ rows' = [rows EXCEPT ![Now] = child.seen]
  BY <1>1 DEF Rows, IInv, Shapes, IsChild
<1>3. /\ rows' \in Versions
      /\ \A l \in Lane : rows'[l] = rows[l] \/ rows'[l] = data[l]
  BY <1>1 DEF Rows, IInv, Shapes, Versions, Held
<1>4. child'.says = "partial" \/ rows'[Now] = child.seen
  BY <1>1, <1>2 DEF IInv, Shapes, Versions
<1>5. Shapes'
  BY <1>2, <1>3 DEF Rows, IInv, Shapes
<1>6. Ran'
  BY <1>1, <1>2 DEF Rows, IInv, Ran, Busy, Numbers
<1>7. Held'
  BY <1>1, <1>2, <1>4 DEF Rows, IInv, Held, Busy, Numbers, Now
<1>8. Fresher'
  BY <1>1, <1>2, <1>3, LanesIndexed DEF Rows, IInv, Fresher, Troubled, Busy, Current
<1>9. Earned'
  <2>1. \A l \in Lane : /\ data[l] >= claim[l] /\ data[l] \in Nat
                        /\ claim[l] \in Nat /\ rows[l] \in Nat
    BY DEF IInv, Shapes, Ran, Versions
  <2> QED
    BY <1>1, <1>2, <1>3, <2>1 DEF Rows, IInv, Earned, Busy, Reached
<1> QED
  BY <1>5, <1>6, <1>7, <1>8, <1>9 DEF IInv

Put(q, c, p) == [q EXCEPT ![c] = p]

\* One page put in another's place, and one more page.
LEMMA PagePut ==
  ASSUME NEW q, IsPages(q), NEW c \in 1 .. Len(q), NEW p, IsPage(p)
  PROVE  /\ IsPages(Put(q, c, p)) /\ Len(Put(q, c, p)) = Len(q)
         /\ Put(q, c, p)[c] = p
         /\ \A i \in 1 .. Len(q) : i # c => Put(q, c, p)[i] = q[i]
<1> DEFINE r == Put(q, c, p)
<1>1. PICK S : q \in Seq(S)
  BY DEF IsPages
<1>2. q \in Seq(S \cup {p})
  BY <1>1
<1>3. r \in Seq(S \cup {p}) /\ Len(r) = Len(q) /\ r[c] = p
      /\ \A i \in 1 .. Len(q) : i # c => r[i] = q[i]
  BY <1>2 DEF Put
<1> QED
  BY <1>3 DEF IsPages

LEMMA PageAdded ==
  ASSUME NEW q, IsPages(q), NEW p, IsPage(p)
  PROVE  /\ IsPages(Append(q, p)) /\ Len(Append(q, p)) = Len(q) + 1
         /\ Append(q, p)[Len(q) + 1] = p
         /\ \A i \in 1 .. Len(q) : Append(q, p)[i] = q[i]
<1> DEFINE r == Append(q, p)
<1>1. PICK S : q \in Seq(S)
  BY DEF IsPages
<1>2. q \in Seq(S \cup {p}) /\ p \in S \cup {p}
  BY <1>1
<1>3. r \in Seq(S \cup {p}) /\ Len(r) = Len(q) + 1 /\ r[Len(q) + 1] = p
      /\ Len(q) \in Nat /\ \A i \in 1 .. Len(q) : r[i] = q[i]
  BY <1>2
<1> QED
  BY <1>3 DEF IsPages

\* A page with the lane's section merged in keeps every other section.
LEMMA MergedPage ==
  ASSUME LanesAreListed, IInv, Busy, NEW i \in Numbers,
         NEW p, p = Merged(pages[i], Now, child.seen)
  PROVE  /\ Now \in Lane /\ data[Now] = child.seen
         /\ IsPage(p) /\ p.archived = pages[i].archived
         /\ p.shows[Now] = child.seen
         /\ \A l \in Lane : l # Now => p.shows[l] = pages[i].shows[l]
<1>1. Now \in Lane /\ data[Now] = child.seen /\ data[Now] \in Nat
  BY LanesIndexed DEF IInv, Shapes, Ran, Held, Now, Versions
<1>2. IsPage(pages[i])
  BY DEF IInv, Shapes, IsPages, Numbers
<1>3. p = [pages[i] EXCEPT !.shows = [pages[i].shows EXCEPT ![Now] = child.seen]]
  BY DEF Merged
<1> QED
  BY <1>1, <1>2, <1>3 DEF IsPage, Versions

\* The page the child names, with its section brought up to date.
LEMMA MergedBrought ==
  ASSUME LanesAreListed, IInv, Busy,
         pages' = [pages EXCEPT ![child.cfg.center] = Merged(@, Now, child.seen)]
  PROVE  /\ Brought /\ Len(pages') = Len(pages)
         /\ pages'[child.cfg.center].shows[Now] = child.seen
         /\ \A i \in Numbers : pages'[i].archived = pages[i].archived
<1>1. PICK c : c = child.cfg.center
  OBVIOUS
<1>2. c \in Numbers
  BY <1>1 DEF IInv, Held
<1>3. PICK p : p = Merged(pages[c], Now, child.seen)
  OBVIOUS
<1>4. pages' = [pages EXCEPT ![c] = p]
  BY <1>1, <1>3
<1>5. /\ Now \in Lane /\ data[Now] = child.seen
      /\ IsPage(p) /\ p.archived = pages[c].archived
      /\ p.shows[Now] = child.seen
      /\ \A l \in Lane : l # Now => p.shows[l] = pages[c].shows[l]
  BY <1>2, <1>3, MergedPage
<1>6. /\ IsPages(pages') /\ Len(pages') = Len(pages) /\ pages'[c] = p
      /\ \A i \in Numbers : i # c => pages'[i] = pages[i]
  <2>1. IsPages(pages) /\ c \in 1 .. Len(pages) /\ IsPage(p)
    BY <1>2, <1>5 DEF IInv, Shapes, Numbers
  <2>2. pages' = Put(pages, c, p)
    BY <1>4 DEF Put
  <2>3. /\ IsPages(Put(pages, c, p)) /\ Len(Put(pages, c, p)) = Len(pages)
        /\ Put(pages, c, p)[c] = p
        /\ \A i \in 1 .. Len(pages) : i # c => Put(pages, c, p)[i] = pages[i]
    BY <2>1, PagePut
  <2> QED
    BY <2>2, <2>3 DEF Numbers
<1>7. Len(pages) \in Nat
  BY DEF IInv, Shapes, IsPages
<1> QED
  BY <1>1, <1>5, <1>6, <1>7 DEF Brought

\* A step of the child that brings pages up to date and leaves the config and
\* its own copy of it, but for the page that names.
LEMMA BroughtKept ==
  ASSUME LanesAreListed, IInv, Busy, Brought, Held', IsChild(child'), child'.pc # "none",
         UNCHANGED <<data, support, rows, config, run, finished, claim, vouched>>,
         pages'[config.center].archived = FALSE,
         \A l \in Lane : HasSection(l) =>
             \/ pages'[child'.cfg.center].shows[l] = pages[child.cfg.center].shows[l]
             \/ pages'[child'.cfg.center].shows[l] = data[l]
  PROVE  IInv'
<1>1. run.pc = "live" /\ config.center \in Numbers
  BY DEF IInv, Ran
<1>2. Shapes'
  BY DEF IInv, Shapes, Brought
<1>3. Ran'
  BY <1>1, BroughtKeeps DEF IInv, Ran
<1>4. Fresher'
  BY <1>1, LanesIndexed, BroughtKeeps DEF IInv, Fresher, Troubled, Busy, Current
<1>5. Earned'
  <2>1. \A l \in Lane : data[l] >= claim[l] /\ data[l] \in Nat /\ claim[l] \in Nat
    BY DEF IInv, Shapes, Ran, Versions
  <2> QED
    BY <1>1, <2>1, BroughtKeeps DEF IInv, Earned, Reached, Busy
<1> QED
  BY <1>2, <1>3, <1>4, <1>5 DEF IInv

LEMMA CenterKept ==
  ASSUME LanesAreListed, IInv, Center PROVE IInv'
<1>1. Busy /\ run.pc = "live"
  BY DEF Center, Busy, IInv, Ran
<1>2. /\ child'.pc = "save" /\ child'.cfg = child.cfg /\ child'.old = child.old
      /\ child'.seen = child.seen /\ child'.says = child.says /\ IsChild(child')
  BY DEF Center, IInv, Shapes, IsChild
<1>3. /\ Brought /\ Len(pages') = Len(pages)
      /\ HasSection(Now) => pages'[child.cfg.center].shows[Now] = child.seen
      /\ \A i \in Numbers : pages'[i].archived = pages[i].archived
  <2>1. CASE ~HasSection(Now)
    <3>1. pages' = pages /\ IsPages(pages) /\ Len(pages) \in Nat
      BY <2>1 DEF Center, IInv, Shapes, IsPages
    <3> QED
      BY <2>1, <3>1 DEF Brought
  <2>2. CASE HasSection(Now)
    BY <1>1, <2>2, MergedBrought DEF Center
  <2> QED
    BY <2>1, <2>2
<1>4. child.cfg.center = config.center
  BY DEF Center, IInv, Held, Busy
<1>5. /\ config.center \in Numbers /\ Numbers' = Numbers
      /\ pages'[config.center].archived = FALSE
  BY <1>3 DEF IInv, Ran, Numbers
<1>6. Held'
  BY <1>1, <1>2, <1>3, <1>4, <1>5 DEF Center, IInv, Held, Busy, Numbers, Now
<1>7. \A l \in Lane :
        \/ pages'[child'.cfg.center].shows[l] = pages[child.cfg.center].shows[l]
        \/ pages'[child'.cfg.center].shows[l] = data[l]
  BY <1>2, <1>3, <1>4, <1>5 DEF Brought
<1> QED
  BY <1>1, <1>2, <1>3, <1>5, <1>6, <1>7, BroughtKept DEF Center

LEMMA CenterFailsKept ==
  ASSUME LanesAreListed, IInv, CenterFails PROVE IInv'
<1>1. Busy /\ run.pc = "live" /\ child.pc = "center"
  BY DEF CenterFails, Busy, IInv, Ran
<1>2. PICK c : c = child.cfg.center
  OBVIOUS
<1>3. c \in Numbers /\ c = config.center /\ c = child.old /\ pages[c].archived = FALSE
  BY <1>1, <1>2 DEF IInv, Ran, Held
<1>4. PICK next : next = Merged(pages[c], Now, child.seen)
  OBVIOUS
<1>5. /\ Now \in Lane /\ data[Now] = child.seen
      /\ IsPage(next) /\ next.archived = pages[c].archived
      /\ next.shows[Now] = child.seen
      /\ \A l \in Lane : l # Now => next.shows[l] = pages[c].shows[l]
  BY <1>1, <1>3, <1>4, MergedPage
<1>6. IsPages(pages) /\ Len(pages) \in Nat
  BY DEF IInv, Shapes, IsPages
<1>7. PICK there :
        /\ there = pages \/ there = Put(pages, c, next)
        /\ \/ /\ there = Put(pages, c, next)
              /\ pages' = there
              /\ child' = [child EXCEPT !.pc = "save"]
           \/ /\ pages' = Append(there, [next EXCEPT !.archived = FALSE])
              /\ child' = [child EXCEPT !.cfg.center = Len(pages) + 1,
                              !.pc = IF Now = Tower THEN "save" ELSE "repoint"]
  BY <1>2, <1>4 DEF CenterFails, Put
<1>8. /\ IsPages(there) /\ Len(there) = Len(pages)
      /\ \A i \in Numbers : /\ there[i].archived = pages[i].archived
                            /\ \A l \in Lane : \/ there[i].shows[l] = pages[i].shows[l]
                                               \/ there[i].shows[l] = data[l]
  <2>1. CASE there = pages
    BY <1>6, <2>1
  <2>2. CASE there = Put(pages, c, next)
    <3>1. /\ IsPages(Put(pages, c, next)) /\ Len(Put(pages, c, next)) = Len(pages)
          /\ Put(pages, c, next)[c] = next
          /\ \A i \in 1 .. Len(pages) : i # c => Put(pages, c, next)[i] = pages[i]
      <4>1. IsPages(pages) /\ c \in 1 .. Len(pages) /\ IsPage(next)
        BY <1>3, <1>5, <1>6 DEF Numbers
      <4> QED
        BY <4>1, PagePut
    <3>2. there[c] = next /\ \A i \in Numbers : i # c => there[i] = pages[i]
      BY <2>2, <3>1 DEF Numbers
    <3>3. /\ next.archived = pages[c].archived
          /\ \A l \in Lane : next.shows[l] = pages[c].shows[l] \/ next.shows[l] = data[l]
      BY <1>5
    <3> QED
      BY <2>2, <3>1, <3>2, <3>3
  <2> QED
    BY <1>7, <2>1, <2>2
<1>9. Len(there) + 1 = Len(pages) + 1 /\ Len(pages) + 1 \notin Numbers
  BY <1>6, <1>8 DEF Numbers
<1>10. CASE pages' = there /\ there = Put(pages, c, next)
            /\ child' = [child EXCEPT !.pc = "save"]
  <2>1. /\ child'.pc = "save" /\ child'.cfg = child.cfg /\ child'.old = child.old
        /\ child'.seen = child.seen /\ child'.says = child.says /\ IsChild(child')
    BY <1>10 DEF IInv, Shapes, IsChild
  <2>2. Brought /\ Numbers' = Numbers
    BY <1>6, <1>8, <1>10 DEF Brought, Numbers
  <2>3. pages'[c] = next
    BY <1>3, <1>5, <1>6, <1>10 DEF Put, IsPages, Numbers
  <2>4. Held'
    BY <1>1, <1>2, <1>3, <1>5, <2>1, <2>2, <2>3, ZenonT(60)
    DEF CenterFails, IInv, Held, Busy, Now
  <2>5. \A l \in Lane :
          \/ pages'[child'.cfg.center].shows[l] = pages[child.cfg.center].shows[l]
          \/ pages'[child'.cfg.center].shows[l] = data[l]
    BY <1>2, <1>3, <2>1, <2>2, ZenonT(60) DEF Brought
  <2> QED
    BY <1>1, <1>3, <1>5, <2>1, <2>2, <2>3, <2>4, <2>5, BroughtKept DEF CenterFails
<1>11. CASE /\ pages' = Append(there, [next EXCEPT !.archived = FALSE])
            /\ child' = [child EXCEPT !.cfg.center = Len(pages) + 1,
                             !.pc = IF Now = Tower THEN "save" ELSE "repoint"]
  <2> DEFINE fresh == [next EXCEPT !.archived = FALSE]
             new == Len(pages) + 1
  <2>1. /\ IsPage(fresh) /\ fresh.archived = FALSE /\ fresh.shows = next.shows
    BY <1>5 DEF IsPage
  <2>2. pages' = Append(there, fresh)
    BY <1>11
  <2> HIDE DEF fresh
  <2>3. /\ IsPages(pages') /\ Len(pages') = Len(there) + 1
        /\ pages'[Len(there) + 1] = fresh
        /\ \A i \in 1 .. Len(there) : pages'[i] = there[i]
    <3>1. IsPages(there) /\ IsPage(fresh)
      BY <1>8, <2>1
    <3> QED
      BY <2>2, <3>1, PageAdded, Zenon
  <2>4. pages'[new] = fresh /\ new \in Numbers' /\ new \notin Numbers
        /\ \A i \in Numbers : i \in Numbers' /\ pages'[i] = there[i]
    BY <1>6, <1>8, <1>9, <2>3 DEF Numbers
  <2>5. Brought
    BY <1>6, <1>8, <2>3, <2>4 DEF Brought, Numbers
  <2>6. /\ child'.pc \in {"save", "repoint"} /\ child'.old = child.old
        /\ child'.cfg = [child.cfg EXCEPT !.center = new]
        /\ child'.seen = child.seen /\ child'.says = child.says /\ IsChild(child')
    BY <1>11 DEF IInv, Shapes, IsChild
  <2>7. /\ child'.cfg.center = new /\ child'.cfg.synced = child.cfg.synced
        /\ child'.cfg.status = child.cfg.status /\ IsConfig(child'.cfg)
    BY <1>1, <2>6 DEF IInv, Held, IsConfig
  <2>8. Held'
    BY <1>1, <1>2, <1>3, <1>5, <2>1, <2>4, <2>6, <2>7
    DEF CenterFails, IInv, Held, Busy, Now
  <2>9. pages'[config.center].archived = FALSE
    BY <1>3, <1>8, <2>4
  <2>10. \A l \in Lane :
          \/ pages'[child'.cfg.center].shows[l] = pages[child.cfg.center].shows[l]
          \/ pages'[child'.cfg.center].shows[l] = data[l]
    BY <1>2, <1>5, <2>1, <2>4, <2>7
  <2> QED
    BY <1>1, <2>5, <2>6, <2>8, <2>9, <2>10, BroughtKept DEF CenterFails
<1> QED
  BY <1>7, <1>10, <1>11

LEMMA RepointKept ==
  ASSUME LanesAreListed, IInv, Repoint PROVE IInv'
<1>1. Busy /\ run.pc = "live" /\ child.pc = "repoint"
  BY DEF Repoint, Busy, IInv, Ran
<1>2. /\ child'.pc = "archive" /\ child'.cfg = child.cfg /\ child'.old = child.old
      /\ child'.seen = child.seen /\ child'.says = child.says /\ IsChild(child')
  BY DEF Repoint, IInv, Shapes, IsChild
<1>3. /\ config' = child.cfg /\ IsConfig(config')
      /\ config'.synced = config.synced /\ config'.status = config.status
      /\ config'.center \in Numbers /\ pages[config'.center].archived = FALSE
  BY <1>1 DEF Repoint, IInv, Held
<1>4. Shapes'
  BY <1>2, <1>3 DEF Repoint, IInv, Shapes
<1>5. Ran'
  BY <1>1, <1>3 DEF Repoint, IInv, Ran, Busy, Numbers
<1>6. Held'
  BY <1>1, <1>2, <1>3 DEF Repoint, IInv, Held, Busy, Numbers, Now
<1>7. Fresher'
  BY <1>1, <1>2, <1>3 DEF Repoint, IInv, Fresher, Troubled, Busy, Current
<1>8. Earned'
  BY <1>1, <1>2, <1>3 DEF Repoint, IInv, Earned, Busy, Reached
<1> QED
  BY <1>4, <1>5, <1>6, <1>7, <1>8 DEF IInv

LEMMA ArchiveKept ==
  ASSUME LanesAreListed, IInv, Archive PROVE IInv'
<1>1. Busy /\ run.pc = "live" /\ child.pc = "archive"
  BY DEF Archive, Busy, IInv, Ran
<1>2. /\ child'.pc = "save" /\ child'.cfg = child.cfg /\ child'.old = child.old
      /\ child'.seen = child.seen /\ child'.says = child.says /\ IsChild(child')
  BY DEF Archive, IInv, Shapes, IsChild
<1>3. PICK c : c = child.old
  OBVIOUS
<1>4. /\ c \in Numbers /\ c # config.center /\ config.center = child.cfg.center
      /\ config.center \in Numbers /\ pages[config.center].archived = FALSE
  BY <1>1, <1>3 DEF IInv, Ran, Held
<1>5. PICK p : p = [pages[c] EXCEPT !.archived = TRUE]
  OBVIOUS
<1>6. /\ IsPages(pages) /\ c \in 1 .. Len(pages) /\ Len(pages) \in Nat
      /\ IsPage(p) /\ p.shows = pages[c].shows
  BY <1>4, <1>5 DEF IInv, Shapes, IsPages, IsPage, Numbers
<1>7. pages' = Put(pages, c, p)
  BY <1>3, <1>5 DEF Archive, Put
<1>8. /\ IsPages(Put(pages, c, p)) /\ Len(Put(pages, c, p)) = Len(pages)
      /\ Put(pages, c, p)[c] = p
      /\ \A i \in 1 .. Len(pages) : i # c => Put(pages, c, p)[i] = pages[i]
  BY <1>6, PagePut
<1>9. /\ IsPages(pages') /\ Len(pages') = Len(pages) /\ Numbers' = Numbers
      /\ \A i \in Numbers : pages'[i].shows = pages[i].shows
      /\ \A i \in Numbers : i # c => pages'[i] = pages[i]
  BY <1>6, <1>7, <1>8 DEF Numbers
<1>10. Brought
  BY <1>6, <1>9 DEF Brought
<1>11. /\ pages'[config.center].archived = FALSE
       /\ pages'[config.center].shows = pages[config.center].shows
  BY <1>4, <1>9
<1>12. Held'
  BY <1>1, <1>2, <1>4, <1>9, <1>11 DEF Archive, IInv, Held, Busy, Now
<1>13. \A l \in Lane :
        \/ pages'[child'.cfg.center].shows[l] = pages[child.cfg.center].shows[l]
        \/ pages'[child'.cfg.center].shows[l] = data[l]
  BY <1>2, <1>4, <1>11
<1> QED
  BY <1>1, <1>2, <1>10, <1>11, <1>12, <1>13, BroughtKept DEF Archive

------------------------------------------------------------------------------
(* The child ends, and the weekly command with it or after it.              *)

\* The config a child that ends leaves: the one there was, or the child's own.
Left ==
    /\ IsConfig(config') /\ config'.status = config.status
    /\ config'.center \in {config.center, child.cfg.center}
    /\ finished' \in Versions
    /\ \A l \in Lane : finished'[l] <= config'.synced[l] /\ finished'[l] <= data[l]

\* The weekly command waits no longer: it stops, tries again, or goes on to the
\* next step, after a failure or after what the child brought up to date.
Goes ==
    /\ IsRun(run')
    /\ run'.pc # "off" => run'.began = data /\ run.statuses \subseteq run'.statuses
    /\ \/ run'.pc = "off"
       \/ run'.pc = "live" /\ run'.at = run.at
       \/ /\ \/ run'.pc = "live" /\ run'.at = run.at + 1 /\ run.at < Len(Lanes)
             \/ run'.pc = "record" /\ run.at = Len(Lanes)
             \/ run'.pc = "record" /\ "failed" \in run'.statuses
          /\ \/ run'.statuses \cap {"failed", "partial"} # {}
             \/ config'.center = child.cfg.center /\ Current(Now, child.cfg.center)

\* However the child ends, the invariant holds after it.
LEMMA EndKept ==
  ASSUME LanesAreListed, IInv, Busy, child' = NoChild, Brought, Left, Goes,
         \A i \in Numbers : pages'[i].archived = pages[i].archived,
         UNCHANGED <<data, support, rows, claim, vouched>>
  PROVE  IInv'
<1>1. /\ run.pc = "live" /\ run.at \in 1 .. Len(Lanes) /\ ~Busy' /\ IsChild(child')
  BY DEF IInv, Ran, Busy, NoChild, IsChild
<1>2. PICK c : c = config'.center
  OBVIOUS
<1>3. /\ c \in Numbers /\ c \in Numbers' /\ pages'[c].archived = FALSE
      /\ c = config.center \/ c = child.cfg.center
  <2>1. c \in Numbers /\ pages[c].archived = FALSE
        /\ (c = config.center \/ c = child.cfg.center)
    BY <1>2 DEF Left, IInv, Ran, Held
  <2> QED
    BY <2>1, BroughtKeeps
<1>4. Shapes'
  BY <1>1 DEF Left, Goes, Brought, IInv, Shapes
<1>5. Ran'
  <2>1. run'.pc \in {"off", "live", "record"}
    BY DEF Goes
  <2>2. run'.pc = "live" => run'.at \in 1 .. Len(Lanes)
    BY <1>1, LanesIndexed DEF Goes
  <2>3. \A l \in Lane : claim'[l] <= data'[l]
    BY DEF IInv, Ran
  <2> QED
    BY <1>1, <1>2, <1>3, <2>1, <2>2, <2>3 DEF Left, Goes, IInv, Ran
<1>6. Fresher'
  <2>1. ASSUME ~Troubled', run'.pc \in {"live", "record"},
               NEW i \in 1 .. Len(Lanes),
               i < run.at \/ (i = run.at /\ (run'.at = run.at + 1 \/ run'.pc = "record"))
        PROVE  Current(Lanes[i], c)
    <3>1. ~Troubled
      BY <2>1 DEF Goes, Troubled
    <3>2. CASE i < run.at
      BY <1>1, <1>3, <2>1, <3>1, <3>2 DEF IInv, Fresher
    <3>3. CASE i = run.at
      BY <1>1, <1>2, <2>1, <3>3 DEF Goes, Troubled, Now
    <3> QED
      BY <2>1, <3>2, <3>3
  <2>2. ASSUME NEW i \in 1 .. Len(Lanes), Current(Lanes[i], c)
        PROVE  Current(Lanes[i], config.center)'
    BY <1>2, <1>3, <2>2, LanesIndexed, BroughtKeeps DEF Current
  <2>3. CASE run'.pc = "off"
    BY <2>3 DEF Fresher
  <2>4. CASE run'.pc = "live"
    BY <1>1, <2>1, <2>2, <2>4 DEF Goes, Fresher
  <2>5. CASE run'.pc = "record"
    <3>1. ~Troubled' => \A i \in 1 .. Len(Lanes) : Current(Lanes[i], config.center)'
      BY <1>1, <2>1, <2>2, <2>5, LanesIndexed DEF Goes, Troubled
    <3> QED
      BY <2>5, <3>1, LanesIndexed DEF Fresher
  <2> QED
    BY <2>3, <2>4, <2>5 DEF Goes
<1>7. Earned'
  <2>1. ASSUME config'.status \in {"clean", "completed"}
        PROVE  /\ \A l \in Lane : rows[l] >= claim[l]
               /\ Reached(c)
    BY <1>3, <2>1 DEF Left, IInv, Earned
  <2>2. Reached(c) => Reached(config.center)'
    BY <1>2, <1>3, BroughtKeeps DEF Reached
  <2> QED
    BY <1>1, <2>1, <2>2 DEF Earned
<1>8. Held'
  BY <1>1 DEF Held
<1> QED
  BY <1>4, <1>5, <1>6, <1>7, <1>8 DEF IInv

\* Saving is the child's last step, and what makes it count.
LEMMA SavedConfig ==
  ASSUME LanesAreListed, IInv, Busy, NEW c, c = Saved(child.cfg)
  PROVE  /\ IsConfig(c) /\ c.status = config.status
         /\ c.center = child.cfg.center
         /\ Now \in Lane /\ child.seen = data[Now] /\ c.synced[Now] = data[Now]
         /\ \A l \in Lane : l # Now => c.synced[l] = config.synced[l]
<1>1. /\ Now \in Lane /\ child.seen = data[Now] /\ data[Now] \in Nat
      /\ IsConfig(child.cfg) /\ child.cfg.synced = config.synced
      /\ child.cfg.status = config.status
  BY LanesIndexed DEF IInv, Shapes, Ran, Held, Now, Versions
<1>2. c = [child.cfg EXCEPT !.synced = [child.cfg.synced EXCEPT ![Now] = child.seen]]
  BY DEF Saved
<1> QED
  BY <1>1, <1>2 DEF IsConfig, Versions

LEMMA SaveKept ==
  ASSUME LanesAreListed, IInv, Save PROVE IInv'
<1>1. Busy /\ run.pc = "live" /\ child.pc = "save"
  BY DEF Save, Busy, IInv, Ran
<1>2. /\ IsConfig(config') /\ config'.status = config.status
      /\ config'.center = child.cfg.center
      /\ Now \in Lane /\ child.seen = data[Now] /\ config'.synced[Now] = data[Now]
      /\ \A l \in Lane : l # Now => config'.synced[l] = config.synced[l]
  <2>1. PICK c : c = Saved(child.cfg)
    OBVIOUS
  <2>2. config' = c
    BY <2>1 DEF Save
  <2> QED
    BY <1>1, <2>1, <2>2, SavedConfig
<1>3. Left
  <2>1. finished' = [finished EXCEPT ![Now] = data[Now]]
    BY <1>2 DEF Save
  <2>2. /\ finished \in Versions /\ data \in Versions /\ config.synced \in Versions
        /\ \A l \in Lane : finished[l] <= config.synced[l] /\ finished[l] <= data[l]
    BY DEF IInv, Shapes, Ran, IsConfig
  <2>3. finished' \in Versions
    BY <1>2, <2>1, <2>2 DEF Versions
  <2>4. \A l \in Lane : finished'[l] <= config'.synced[l] /\ finished'[l] <= data[l]
    BY <1>2, <2>1, <2>2 DEF Versions
  <2> QED
    BY <1>2, <2>3, <2>4 DEF Left
<1>4. Goes
  <2>1. /\ IsRun(run') /\ run'.began = run.began
        /\ run.statuses \subseteq run'.statuses /\ child.says \in run'.statuses
        /\ \/ run'.pc = "live" /\ run'.at = run.at + 1 /\ run.at < Len(Lanes)
           \/ run'.pc = "record" /\ run.at = Len(Lanes)
           \/ run'.pc = "record" /\ "failed" \in run'.statuses
    BY <1>1, StepShape DEF Save
  <2>2. child.says = "partial" \/ Current(Now, child.cfg.center)
    BY <1>1 DEF IInv, Held, Current
  <2>3. run.began = data
    BY <1>1 DEF IInv, Ran
  <2> QED
    BY <1>2, <2>1, <2>2, <2>3 DEF Goes
<1>5. Brought
  BY DEF Save, Brought, IInv, Shapes, IsPages
<1> QED
  BY <1>1, <1>3, <1>4, <1>5, EndKept DEF Save

LEMMA DiesKept ==
  ASSUME LanesAreListed, IInv, Dies PROVE IInv'
<1>1. Busy /\ run.pc = "live" /\ run.began = data
  BY DEF Dies, Busy, IInv, Ran
<1>2. Left
  <2>1. /\ finished' = finished /\ finished \in Versions
        /\ data \in Versions /\ IsConfig(config)
        /\ \A l \in Lane : finished[l] <= config.synced[l] /\ finished[l] <= data[l]
    BY DEF Dies, IInv, Shapes, Ran
  <2>2. \/ config' = config \/ config' = [config EXCEPT !.torn = TRUE]
        \/ config' = Saved(child.cfg) \/ config' = child.cfg
    BY DEF Dies
  <2>3. CASE config' = config
    BY <2>1, <2>3 DEF Left
  <2>4. CASE config' = [config EXCEPT !.torn = TRUE]
    <3>1. /\ IsConfig(config') /\ config'.status = config.status
          /\ config'.center = config.center /\ config'.synced = config.synced
      BY <2>1, <2>4 DEF IsConfig
    <3> QED
      BY <2>1, <3>1 DEF Left
  <2>5. CASE config' = Saved(child.cfg)
    <3>1. PICK c : c = Saved(child.cfg)
      OBVIOUS
    <3>2. /\ IsConfig(c) /\ c.status = config.status
          /\ c.center = child.cfg.center
          /\ c.synced[Now] = data[Now]
          /\ \A l \in Lane : l # Now => c.synced[l] = config.synced[l]
      BY <1>1, <3>1, SavedConfig
    <3>3. \A l \in Lane : finished[l] <= c.synced[l]
      BY <2>1, <3>2
    <3> QED
      BY <2>1, <2>5, <3>1, <3>2, <3>3 DEF Left
  <2>6. CASE config' = child.cfg
    BY <1>1, <2>1, <2>6 DEF IInv, Held, Left
  <2> QED
    BY <2>2, <2>3, <2>4, <2>5, <2>6
<1>3. Goes
  <2>1. CASE run' = run
    BY <1>1, <2>1 DEF Goes, IInv, Shapes
  <2>2. CASE run' = Step("failed")
    <3>1. /\ IsRun(run') /\ run'.began = run.began
          /\ run.statuses \subseteq run'.statuses /\ "failed" \in run'.statuses
          /\ \/ run'.pc = "live" /\ run'.at = run.at + 1 /\ run.at < Len(Lanes)
             \/ run'.pc = "record" /\ run.at = Len(Lanes)
             \/ run'.pc = "record" /\ "failed" \in run'.statuses
      BY <1>1, <2>2, StepShape
    <3> QED
      BY <1>1, <3>1 DEF Goes
  <2> QED
    BY <2>1, <2>2 DEF Dies
<1>4. Brought /\ \A i \in Numbers : pages'[i].archived = pages[i].archived
  <2>1. CASE pages' = pages
    <3>1. IsPages(pages) /\ Len(pages) \in Nat
      BY DEF IInv, Shapes, IsPages
    <3> QED
      BY <2>1, <3>1 DEF Brought
  <2>2. CASE pages' = [pages EXCEPT ![child.cfg.center] = Merged(@, Now, child.seen)]
    BY <1>1, <2>2, MergedBrought
  <2> QED
    BY <2>1, <2>2 DEF Dies
<1> QED
  BY <1>1, <1>2, <1>3, <1>4, EndKept DEF Dies

LEMMA CrashKept ==
  ASSUME LanesAreListed, IInv, Crash PROVE IInv'
<1>1. run'.pc = "off" /\ IsRun(run') /\ child' = NoChild /\ child'.pc = "none"
      /\ IsChild(child')
  BY NoRunShape DEF Crash, NoRun, NoChild, IsChild
<1>2. Shapes'
  BY <1>1 DEF Crash, IInv, Shapes
<1>3. Ran' /\ Held' /\ Fresher' /\ Earned'
  BY <1>1 DEF Crash, IInv, Ran, Held, Fresher, Earned, Busy, Numbers, Reached
<1> QED
  BY <1>2, <1>3 DEF IInv

LEMMA RecordKept ==
  ASSUME LanesAreListed, IInv, Record PROVE IInv'
<1>1. ~Busy /\ run.pc = "record" /\ run.began = data
  BY DEF Record, IInv, Ran
<1>2. /\ run'.pc = "fresh" /\ run'.began = data /\ IsRun(run')
  BY <1>1 DEF Record, IInv, Shapes, IsRun
<1>3. /\ config'.center = config.center /\ config'.synced = config.synced
      /\ IsConfig(config') /\ config'.status = OverallStatus(run.statuses)
  BY DEF Record, Recorded, IInv, Shapes, IsConfig
<1>4. claim' = data
  BY <1>1 DEF Record
<1>5. config'.status \in {"clean", "completed"} => ~Troubled
  BY <1>3 DEF OverallStatus, Troubled
<1>6. Shapes'
  BY <1>2, <1>3, <1>4 DEF Record, IInv, Shapes
<1>7. Ran'
  <2>1. \A l \in Lane : claim'[l] <= data[l]
    BY <1>4 DEF IInv, Shapes, Versions
  <2> QED
    BY <1>1, <1>2, <1>3, <2>1 DEF Record, IInv, Ran, Busy, Numbers
<1>8. Earned'
  <2>1. \A l \in Lane : data[l] \in Nat
    BY DEF IInv, Shapes, Versions
  <2>2. ~Troubled => \A l \in Lane : Current(l, config.center)
    BY <1>1 DEF IInv, Fresher
  <2> QED
    BY <1>1, <1>3, <1>4, <1>5, <2>1, <2>2 DEF Record, Earned, Reached, Current, Busy
<1>9. Held' /\ Fresher'
  BY <1>1, <1>2 DEF Record, Held, Fresher, Busy
<1> QED
  BY <1>6, <1>7, <1>8, <1>9 DEF IInv

LEMMA GivesUpKept ==
  ASSUME LanesAreListed, IInv, CannotRecord \/ Fresh PROVE IInv'
<1>1. ~Busy
  BY DEF CannotRecord, Fresh, IInv, Ran
<1>2. run'.pc = "off" /\ IsRun(run')
  <2>1. run' = NoRun
    BY DEF CannotRecord, Fresh
  <2> QED
    BY <2>1, NoRunShape DEF NoRun
<1>3. Ran' /\ Fresher'
  BY <1>1, <1>2 DEF CannotRecord, Fresh, IInv, Ran, Fresher, Busy, Numbers
<1> QED
  BY <1>1, <1>2, <1>3, RunOnly DEF CannotRecord, Fresh

LEMMA FreshFailsKept ==
  ASSUME LanesAreListed, IInv, FreshFails PROVE IInv'
<1>1. ~Busy
  BY DEF FreshFails, IInv, Ran
<1>2. run'.pc = "off" /\ IsRun(run')
  BY NoRunShape DEF FreshFails, NoRun
<1>3. PICK c : c = config.center
  OBVIOUS
<1>4. /\ c \in Numbers /\ pages[c].archived = FALSE
      /\ IsPages(pages) /\ IsPage(pages[c]) /\ Len(pages) \in Nat
  BY <1>3 DEF IInv, Shapes, Ran, IsPages, Numbers
<1>5. PICK p : p = pages[c]
  OBVIOUS
<1>6. /\ IsPages(Append(pages, p)) /\ Len(Append(pages, p)) = Len(pages) + 1
      /\ Append(pages, p)[Len(pages) + 1] = p
      /\ \A i \in 1 .. Len(pages) : Append(pages, p)[i] = pages[i]
  BY <1>4, <1>5, PageAdded
<1>7. pages' = Append(pages, p)
  BY <1>3, <1>5 DEF FreshFails
<1>8. /\ IsPages(pages') /\ Len(pages') = Len(pages) + 1
      /\ pages'[Len(pages) + 1] = p
  BY <1>6, <1>7
<1>9. /\ config'.center = Len(pages) + 1 /\ config'.synced = config.synced
      /\ IsConfig(config') /\ config'.status = config.status
  BY <1>8 DEF FreshFails, IInv, Shapes, IsConfig
<1>10. Shapes'
  BY <1>2, <1>8, <1>9 DEF FreshFails, IInv, Shapes
<1>11. Ran'
  BY <1>1, <1>2, <1>4, <1>5, <1>8, <1>9 DEF FreshFails, IInv, Ran, Busy, Numbers
<1>12. Earned'
  BY <1>1, <1>3, <1>5, <1>8, <1>9 DEF FreshFails, IInv, Earned, Reached, Busy
<1>13. Held' /\ Fresher'
  BY <1>1, <1>2 DEF FreshFails, Held, Fresher, Busy
<1> QED
  BY <1>10, <1>11, <1>12, <1>13 DEF IInv

LEMMA StutterKept == IInv /\ UNCHANGED vars => IInv'
<1> SUFFICES ASSUME IInv, UNCHANGED vars PROVE IInv'
  OBVIOUS
<1>1. Shapes'
  BY DEF vars, IInv, Shapes
<1>2. Ran' /\ Held' /\ Fresher' /\ Earned'
  BY DEF vars, IInv, Ran, Held, Fresher, Earned, Busy, Numbers, Now, Current,
     Troubled, Reached
<1> QED
  BY <1>1, <1>2 DEF IInv

------------------------------------------------------------------------------
\* The invariant holds of every run.
LEMMA Invariance == ASSUME LanesAreListed PROVE Spec => []IInv
<1>1. Init => IInv
  BY InitKept
<1>2. IInv /\ [Next]_vars => IInv'
  <2> SUFFICES ASSUME IInv, Next PROVE IInv'
    BY StutterKept
  <2>1. CASE (\E l \in Lane : Sources(l)) \/ SupportDrifts \/ SupportCleaned \/ Restored
    <3>1. \E l \in Lane : TRUE
      BY LanesIndexed
    <3> QED
      BY <2>1, <3>1, AroundKept
  <2>2. CASE Run
    BY <2>2, StartKept, DryKept, DecideKept, RecheckKept, RecordKept, GivesUpKept DEF Run
  <2>3. CASE Child
    BY <2>3, BeginKept, CannotLoadKept, RowsKept, CenterKept, RepointKept,
       ArchiveKept, SaveKept DEF Child
  <2>4. CASE DryFails \/ CenterFails \/ FreshFails \/ Dies \/ Crash
    BY <2>4, DryKept, CenterFailsKept, FreshFailsKept, DiesKept, CrashKept
  <2> QED
    BY <2>1, <2>2, <2>3, <2>4 DEF Next
<1> QED
  BY <1>1, <1>2, PTL DEF Spec

(***************************************************************************)
(* The config names a live command-center page, shows every lane's last    *)
(* finished sync, and is recorded as healthy only by a run that brought    *)
(* every lane to what its sources said; live children start only after a   *)
(* recheck that found support clean.  Whatever dies, times out or is cut   *)
(* off, for any lanes.                                                     *)
(***************************************************************************)
THEOREM WeeklyStaysSafe == ASSUME LanesAreListed PROVE Spec => []WeeklySafe
<1>1. IInv => WeeklySafe
  <2> SUFFICES ASSUME IInv PROVE WeeklySafe
    OBVIOUS
  <2>1. CenterIsLive
    BY DEF IInv, Ran, CenterIsLive
  <2>2. SyncsKept
    <3>1. \A l \in Lane : finished[l] \in Nat /\ config.synced[l] \in Nat
      BY DEF IInv, Shapes, IsConfig, Versions
    <3> QED
      BY <3>1 DEF IInv, Ran, SyncsKept
  <2>3. RecordIsEarned
    BY DEF IInv, Earned, Reached, RecordIsEarned
  <2>4. LiveIsVouched
    BY DEF IInv, Ran, Busy, LiveIsVouched
  <2> QED
    BY <2>1, <2>2, <2>3, <2>4 DEF WeeklySafe
<1> QED
  BY <1>1, Invariance, PTL

------------------------------------------------------------------------------
(* The config file: what its parsers and the writes of its commands do.    *)

\* The fields of f ++ g: those of f, and where f has none those of g.
LEMMA Over ==
    \A o, u : /\ DOMAIN (o ++ u) = DOMAIN o \cup DOMAIN u
              /\ \A x : x \in DOMAIN (o ++ u) <=> x \in DOMAIN o \/ x \in DOMAIN u
              /\ \A x \in DOMAIN o : (o ++ u)[x] = o[x]
              /\ \A x \in DOMAIN u : x \notin DOMAIN o => (o ++ u)[x] = u[x]
  <1>1. \A o, u : o ++ u = Overlaid(o, u)
    BY DEF ++
  <1> QED
    BY <1>1 DEF Overlaid

\* Of gives every field of a set the same value.
LEMMA OfIs ==
    \A w, G : /\ DOMAIN Of(w, G) = {<<y>> : y \in G}
              /\ \A x \in DOMAIN Of(w, G) : Of(w, G)[x] = w /\ \E y \in G : x = <<y>>
              /\ \A y \in G : <<y>> \in DOMAIN Of(w, G) /\ Of(w, G)[<<y>>] = w
  BY DEF Of

LEMMA OneIs ==
    \A w, y : DOMAIN Of(w, {y}) = {<<y>>} /\ Of(w, {y})[<<y>>] = w
  <1> TAKE w, y
  <1>1. \A x \in DOMAIN Of(w, {y}) : x = <<y>>
    BY OfIs
  <1>2. <<y>> \in DOMAIN Of(w, {y}) /\ Of(w, {y})[<<y>>] = w
    BY OfIs
  <1> QED
    BY <1>1, <1>2

IsPath(q) == \E S : q \in Seq(S)

\* A path under a section starts with the section and goes on with the path.
LEMMA Below ==
    ASSUME NEW s, NEW q, IsPath(q)
    PROVE  /\ IsPath(<<s>> \o q) /\ (<<s>> \o q)[1] = s /\ Tail(<<s>> \o q) = q
           /\ Len(<<s>> \o q) = Len(q) + 1
  <1>1. PICK S : q \in Seq(S)
    BY DEF IsPath
  <1>2. <<s>> \in Seq(S \cup {s}) /\ q \in Seq(S \cup {s})
    BY <1>1
  <1>3. <<s>> \o q \in Seq(S \cup {s})
    BY <1>2
  <1>4. Tail(<<s>> \o q) = q
    BY <1>2
  <1> QED
    BY <1>2, <1>3, <1>4 DEF IsPath

\* A section and a field make a path of two.
LEMMA Single ==
    \A a, b : <<a>> \o <<b>> = <<a, b>>
  <1> TAKE a, b
  <1> DEFINE S == {a, b}
             t == <<a>> \o <<b>>
  <1>1. <<a>> \in Seq(S) /\ <<b>> \in Seq(S) /\ <<a, b>> \in Seq(S)
    OBVIOUS
  <1>2. t \in Seq(S) /\ Len(t) = 2
    BY <1>1
  <1>3. t[1] = a /\ t[2] = b
    BY <1>1
  <1>4. t = [i \in 1 .. 2 |-> t[i]]
    BY <1>2
  <1>5. <<a, b>> = [i \in 1 .. 2 |-> <<a, b>>[i]]
    OBVIOUS
  <1>6. \A i \in 1 .. 2 : t[i] = <<a, b>>[i]
    BY <1>3
  <1> QED
    BY <1>4, <1>5, <1>6

LEMMA Tailed ==
    \A a, b : Tail(<<a, b>>) = <<b>>
  OBVIOUS

\* The paths and values of fields of one value in a section.
LEMMA Field ==
    \A s, v, F : /\ \A p \in DOMAIN Within(s, Of(v, F)) : \E f \in F : p = <<s, f>>
                 /\ \A f \in F : /\ <<s, f>> \in DOMAIN Within(s, Of(v, F))
                                 /\ Within(s, Of(v, F))[<<s, f>>] = v
  <1> TAKE s, v, F
  <1>1. DOMAIN Within(s, Of(v, F)) = {<<s>> \o q : q \in {<<f>> : f \in F}}
    BY OfIs DEF Within
  <1>2. \A f \in F : <<s>> \o <<f>> = <<s, f>> /\ Tail(<<s, f>>) = <<f>>
    BY Single, Tailed
  <1>3. DOMAIN Within(s, Of(v, F)) = {<<s, f>> : f \in F}
    BY <1>1, <1>2
  <1>4. \A f \in F : /\ <<s, f>> \in DOMAIN Within(s, Of(v, F))
                    /\ Within(s, Of(v, F))[<<s, f>>] = v
    <2>1. TAKE f \in F
    <2>2. <<s, f>> \in DOMAIN Within(s, Of(v, F))
      BY <1>3
    <2>3. Within(s, Of(v, F))[<<s, f>>] = Of(v, F)[Tail(<<s, f>>)]
      BY <2>2 DEF Within
    <2> QED
      BY <1>2, <2>2, <2>3, OfIs
  <1> QED
    BY <1>3, <1>4

Sections ==
    [ phase2Execution |-> parsePhase2Execution, phase3Intelligence |-> parsePhase3Intelligence,
      phase4Native |-> parsePhase4Native, phase5ExternalSignals |-> parsePhase5ExternalSignals,
      phase6Governance |-> parsePhase6Governance, phaseState |-> parsePhaseState,
      weeklyMaintenance |-> parseWeeklyMaintenance, commandCenter |-> parseCommandCenter ]

\* The loader knows the fields of every section that a command writes.
LEMMA SectionsKnown ==
    \A s \in DOMAIN Sections : DOMAIN Within(s, Sections[s]) \subseteq DOMAIN AllSections
  BY Over, SMTT(60) DEF AllSections, Sections

\* So it knows those of them that one value is written to.
LEMMA Fields ==
    ASSUME NEW s \in DOMAIN Sections, NEW v, NEW F,
           \A f \in F : <<f>> \in DOMAIN Sections[s]
    PROVE  DOMAIN Within(s, Of(v, F)) \subseteq DOMAIN AllSections
  <1>0. DOMAIN Of(v, F) \subseteq DOMAIN Sections[s]
    BY OfIs
  <1>1. DOMAIN Within(s, Of(v, F)) \subseteq DOMAIN Within(s, Sections[s])
    BY <1>0 DEF Within
  <1> QED
    BY <1>1, SectionsKnown

\* The references that the ensure functions fill are fields of their sections.
LEMMA KnownRefs ==
    /\ <<"executionBriefs">> \in DOMAIN parsePhase2Execution
    /\ \A f \in {"recommendationRuns", "linkSuggestions", "recommendationBriefs"} :
           <<f>> \in DOMAIN parsePhase3Intelligence
    /\ \A f \in {"sources", "events", "syncRuns", "externalSignalBriefs"} :
           <<f>> \in DOMAIN parsePhase5ExternalSignals
    /\ \A f \in {"policies", "actionRequests", "webhookEndpoints", "webhookDeliveries",
                  "webhookReceipts"} :
           <<f>> \in DOMAIN parsePhase6Governance
  <1>1. DOMAIN Of(optionalDatabaseRef, {"executionBriefs"}) \subseteq DOMAIN parsePhase2Execution
    BY Over DEF parsePhase2Execution
  <1>2. /\ DOMAIN Of(parseExecutionDatabaseRef, {"recommendationRuns", "linkSuggestions"})
             \subseteq DOMAIN parsePhase3Intelligence
        /\ DOMAIN Of(optionalDatabaseRef, {"recommendationBriefs"})
             \subseteq DOMAIN parsePhase3Intelligence
    BY Over DEF parsePhase3Intelligence
  <1>3. /\ DOMAIN Of(parseExecutionDatabaseRef, {"sources", "events", "syncRuns"})
             \subseteq DOMAIN parsePhase5ExternalSignals
        /\ DOMAIN Of(optionalDatabaseRef, {"externalSignalBriefs"})
             \subseteq DOMAIN parsePhase5ExternalSignals
    BY Over DEF parsePhase5ExternalSignals
  <1>4. DOMAIN Of(parseExecutionDatabaseRef, {"policies", "actionRequests", "webhookEndpoints",
                                              "webhookDeliveries", "webhookReceipts"})
          \subseteq DOMAIN parsePhase6Governance
    BY Over DEF parsePhase6Governance
  <1> QED
    BY <1>1, <1>2, <1>3, <1>4, OfIs

RefFields == {"executionBriefs", "recommendationRuns", "linkSuggestions", "recommendationBriefs",
              "sources", "events", "syncRuns", "externalSignalBriefs", "policies",
              "actionRequests", "webhookEndpoints", "webhookDeliveries", "webhookReceipts"}
Ladder == {<<"phaseState", "currentPhase">>, <<"phaseState", "lastClosedPhase">>}

IsRefPath(p) == p \in DOMAIN AllSections /\ p[2] \in RefFields /\ p[1] # "phaseState"

\* A reference of such a section is a path the loader knows.
LEMMA RefsKnown ==
    ASSUME NEW s \in DOMAIN Sections, s # "phaseState", NEW F \in SUBSET RefFields,
           \A f \in F : <<f>> \in DOMAIN Sections[s], NEW f \in F
    PROVE  IsRefPath(<<s, f>>)
  <1>1. DOMAIN Within(s, Of({}, F)) \subseteq DOMAIN AllSections
    BY Fields
  <1>2. <<s, f>> \in DOMAIN Within(s, Of({}, F))
    BY Field
  <1> QED
    BY <1>1, <1>2 DEF IsRefPath

\* What an ensure function creates a database for is such a path.
LEMMA EnsuredPaths ==
    ASSUME NEW name, NEW i \in DOMAIN Ensured(name)
    PROVE  IsRefPath(Ensured(name)[i])
  <1> DEFINE fields(s) ==
        CASE s = "phase2Execution" -> {"executionBriefs"}
          [] s = "phase3Intelligence" ->
               {"recommendationRuns", "linkSuggestions", "recommendationBriefs"}
          [] s = "phase5ExternalSignals" ->
               {"sources", "events", "syncRuns", "externalSignalBriefs"}
          [] s = "phase6Governance" -> {"policies", "actionRequests", "webhookEndpoints",
                                        "webhookDeliveries", "webhookReceipts"}
      Phased == {"phase2Execution", "phase3Intelligence", "phase5ExternalSignals",
                 "phase6Governance"}
  <1>1. \A s \in Phased : /\ s \in DOMAIN Sections /\ s # "phaseState"
                          /\ fields(s) \in SUBSET RefFields
                          /\ \A f \in fields(s) : <<f>> \in DOMAIN Sections[s]
    BY KnownRefs DEF Sections, RefFields
  <1>2. \A s \in Phased : \A f \in fields(s) : IsRefPath(<<s, f>>)
    BY <1>1, RefsKnown
  <1>3. \E s \in Phased : \E f \in fields(s) : Ensured(name)[i] = <<s, f>>
    BY DEF Ensured, Refs
  <1> QED
    BY <1>2, <1>3

\* Of some of the first five numbers there is a least one.
LEMMA FirstGap ==
    ASSUME NEW S \in SUBSET (1 .. 5), S # {}
    PROVE  (CHOOSE i \in S : \A j \in S : i <= j) \in S
  <1>1. \E i \in S : \A j \in S : i <= j
    <2>1. CASE 1 \in S
      BY <2>1
    <2>2. CASE 1 \notin S /\ 2 \in S
      BY <2>2
    <2>3. CASE 1 \notin S /\ 2 \notin S /\ 3 \in S
      BY <2>3
    <2>4. CASE 1 \notin S /\ 2 \notin S /\ 3 \notin S /\ 4 \in S
      BY <2>4
    <2>5. CASE 1 \notin S /\ 2 \notin S /\ 3 \notin S /\ 4 \notin S /\ 5 \in S
      BY <2>5
    <2>6. PICK x \in S : TRUE
      OBVIOUS
    <2>7. x = 1 \/ x = 2 \/ x = 3 \/ x = 4 \/ x = 5
      BY <2>6
    <2> QED
      BY <2>1, <2>2, <2>3, <2>4, <2>5, <2>6, <2>7
  <1> QED
    BY <1>1

LEMMA EnsuredAtMostFive ==
    ASSUME NEW name
    PROVE  DOMAIN Ensured(name) \in SUBSET (1 .. 5)
  BY DEF Ensured, Refs

\* Fewer fields in an object are fewer under its section.
LEMMA InGrows ==
    ASSUME NEW s, NEW f, NEW g, DOMAIN f \subseteq DOMAIN g
    PROVE  DOMAIN Within(s, f) \subseteq DOMAIN Within(s, g)
  BY DEF Within

LEMMA ToldIsMemory ==
    ASSUME NEW v, NEW phases, NEW other
    PROVE  DOMAIN Of(v, Told(phases) \cup other) \subseteq DOMAIN Memory(phases, other)
  BY OfIs DEF Memory, Told

LEMMA SameFields ==
    ASSUME NEW v, NEW w, NEW F
    PROVE  DOMAIN Of(v, F) = DOMAIN Of(w, F)
  BY OfIs

\* The loader knows every field that an ensure function fills with a default.
LEMMA KnownDefaults ==
    /\ DOMAIN Phase3Defaults \subseteq DOMAIN parsePhase3Intelligence
    /\ DOMAIN Phase5Defaults \subseteq DOMAIN parsePhase5ExternalSignals
    /\ DOMAIN ensurePhase6GovernanceState \subseteq DOMAIN parsePhase6Governance
  <1>1. DOMAIN Phase3Defaults \subseteq DOMAIN parsePhase3Intelligence
    <2>1. /\ DOMAIN Within("cadence", Of(Flags, {"weeklyCanonical", "dailyDrillDown"}))
               \subseteq DOMAIN Within("cadence", parsePhase3Cadence)
          /\ DOMAIN Within("confidenceThresholds", Of(Some, {"highSupportDensity", "suggestionMinimum"}))
               \subseteq DOMAIN Within("confidenceThresholds", parsePhase3ConfidenceThresholds)
          /\ DOMAIN Within("reviewRequirements", Of(Flags, {"weeklyRequiresHumanReview"}))
               \subseteq DOMAIN Within("reviewRequirements", parsePhase3ReviewRequirements)
          /\ DOMAIN Within("viewIds", Of(NoViews, {"projects", "recommendationRuns", "linkSuggestions"}))
               \subseteq DOMAIN Within("viewIds", parsePhase3ViewIds)
      BY InGrows, SameFields DEF parsePhase3Cadence, parsePhase3ConfidenceThresholds,
         parsePhase3ReviewRequirements, parsePhase3ViewIds, Views
    <2>2. DOMAIN Within("phaseMemory", Of(Texts, Told({2, 3}) \cup {"phase4Brief", "phase5Brief"}))
            \subseteq DOMAIN Within("phaseMemory", parsePhase3Memory)
      BY InGrows, ToldIsMemory DEF parsePhase3Memory
    <2>3. DOMAIN Of(Texts, {"scoringModelVersion"})
            \subseteq DOMAIN Of(requiredString, {"scoringModelVersion"})
      BY SameFields
    <2>4. /\ DOMAIN Of(requiredString, {"scoringModelVersion"})
               \subseteq DOMAIN parsePhase3Intelligence
          /\ DOMAIN Within("cadence", parsePhase3Cadence)
               \subseteq DOMAIN parsePhase3Intelligence
          /\ DOMAIN Within("confidenceThresholds", parsePhase3ConfidenceThresholds)
               \subseteq DOMAIN parsePhase3Intelligence
          /\ DOMAIN Within("reviewRequirements", parsePhase3ReviewRequirements)
               \subseteq DOMAIN parsePhase3Intelligence
          /\ DOMAIN Within("viewIds", parsePhase3ViewIds)
               \subseteq DOMAIN parsePhase3Intelligence
          /\ DOMAIN Within("phaseMemory", parsePhase3Memory)
               \subseteq DOMAIN parsePhase3Intelligence
      BY Over DEF parsePhase3Intelligence
    <2>5. /\ DOMAIN Of(Texts, {"scoringModelVersion"}) \subseteq DOMAIN parsePhase3Intelligence
          /\ DOMAIN Within("cadence", Of(Flags, {"weeklyCanonical", "dailyDrillDown"}))
               \subseteq DOMAIN parsePhase3Intelligence
          /\ DOMAIN Within("confidenceThresholds", Of(Some, {"highSupportDensity", "suggestionMinimum"}))
               \subseteq DOMAIN parsePhase3Intelligence
          /\ DOMAIN Within("reviewRequirements", Of(Flags, {"weeklyRequiresHumanReview"}))
               \subseteq DOMAIN parsePhase3Intelligence
          /\ DOMAIN Within("viewIds", Of(NoViews, {"projects", "recommendationRuns", "linkSuggestions"}))
               \subseteq DOMAIN parsePhase3Intelligence
          /\ DOMAIN Within("phaseMemory", Of(Texts, Told({2, 3}) \cup {"phase4Brief", "phase5Brief"}))
               \subseteq DOMAIN parsePhase3Intelligence
      BY <2>1, <2>2, <2>3, <2>4
    <2> DEFINE a == Of(Texts, {"scoringModelVersion"})
               b == Within("cadence", Of(Flags, {"weeklyCanonical", "dailyDrillDown"}))
               c == Within("confidenceThresholds",
                           Of(Some, {"highSupportDensity", "suggestionMinimum"}))
               d == Within("reviewRequirements", Of(Flags, {"weeklyRequiresHumanReview"}))
               e == Within("viewIds", Of(NoViews, {"projects", "recommendationRuns",
                                                   "linkSuggestions"}))
               m == Within("phaseMemory", Of(Texts, Told({2, 3}) \cup {"phase4Brief",
                                                                      "phase5Brief"}))
               Known == DOMAIN parsePhase3Intelligence
    <2>6. Phase3Defaults = a ++ b ++ c ++ d ++ e ++ m
      BY DEF Phase3Defaults
    <2>7. /\ DOMAIN a \subseteq Known /\ DOMAIN b \subseteq Known /\ DOMAIN c \subseteq Known
          /\ DOMAIN d \subseteq Known /\ DOMAIN e \subseteq Known /\ DOMAIN m \subseteq Known
      BY <2>5
    <2> HIDE DEF a, b, c, d, e, m, Known
    <2>8. DOMAIN (a ++ b ++ c ++ d ++ e ++ m) \subseteq Known
      BY <2>7, Over
    <2> QED
      BY <2>6, <2>8 DEF Known
  <1>2. DOMAIN Phase5Defaults \subseteq DOMAIN parsePhase5ExternalSignals
    <2>1. /\ DOMAIN Within("providerEnablement", Of(Flags, Providers))
               \subseteq DOMAIN Within("providerEnablement", parsePhase5ProviderEnablement)
          /\ DOMAIN Within("pollingCadenceMinutes", Of(Some, Providers))
               \subseteq DOMAIN Within("pollingCadenceMinutes", parsePhase5PollingCadence)
          /\ DOMAIN Within("syncLimits", Of(Some, {"maxProjectsInFirstWave", "maxEventsPerSource"}))
               \subseteq DOMAIN Within("syncLimits", parsePhase5SyncLimits)
          /\ DOMAIN Within("viewIds", Of(NoViews, {"sources", "events", "syncRuns", "projects"}))
               \subseteq DOMAIN Within("viewIds", parsePhase5ViewIds)
      BY InGrows, SameFields DEF parsePhase5ProviderEnablement, parsePhase5PollingCadence,
         parsePhase5SyncLimits, parsePhase5ViewIds, Views
    <2>2. DOMAIN Within("phaseMemory", Of(Texts, Told(2 .. 5) \cup {"phase6Brief", "phase7Brief"}))
            \subseteq DOMAIN Within("phaseMemory", parsePhase5Memory)
      BY InGrows, ToldIsMemory DEF parsePhase5Memory
    <2>3. DOMAIN Of(Texts, {"scoringModelVersion"})
            \subseteq DOMAIN Of(requiredString, {"scoringModelVersion"})
      BY SameFields
    <2>4. /\ DOMAIN Of(requiredString, {"scoringModelVersion"})
               \subseteq DOMAIN parsePhase5ExternalSignals
          /\ DOMAIN Within("providerEnablement", parsePhase5ProviderEnablement)
               \subseteq DOMAIN parsePhase5ExternalSignals
          /\ DOMAIN Within("pollingCadenceMinutes", parsePhase5PollingCadence)
               \subseteq DOMAIN parsePhase5ExternalSignals
          /\ DOMAIN Within("syncLimits", parsePhase5SyncLimits)
               \subseteq DOMAIN parsePhase5ExternalSignals
          /\ DOMAIN Within("viewIds", parsePhase5ViewIds)
               \subseteq DOMAIN parsePhase5ExternalSignals
          /\ DOMAIN Within("phaseMemory", parsePhase5Memory)
               \subseteq DOMAIN parsePhase5ExternalSignals
      BY Over DEF parsePhase5ExternalSignals
    <2>5. /\ DOMAIN Of(Texts, {"scoringModelVersion"}) \subseteq DOMAIN parsePhase5ExternalSignals
          /\ DOMAIN Within("providerEnablement", Of(Flags, Providers))
               \subseteq DOMAIN parsePhase5ExternalSignals
          /\ DOMAIN Within("pollingCadenceMinutes", Of(Some, Providers))
               \subseteq DOMAIN parsePhase5ExternalSignals
          /\ DOMAIN Within("syncLimits", Of(Some, {"maxProjectsInFirstWave", "maxEventsPerSource"}))
               \subseteq DOMAIN parsePhase5ExternalSignals
          /\ DOMAIN Within("viewIds", Of(NoViews, {"sources", "events", "syncRuns", "projects"}))
               \subseteq DOMAIN parsePhase5ExternalSignals
          /\ DOMAIN Within("phaseMemory", Of(Texts, Told(2 .. 5) \cup {"phase6Brief", "phase7Brief"}))
               \subseteq DOMAIN parsePhase5ExternalSignals
      BY <2>1, <2>2, <2>3, <2>4
    <2> DEFINE a == Within("providerEnablement", Of(Flags, Providers))
               b == Within("pollingCadenceMinutes", Of(Some, Providers))
               c == Within("syncLimits", Of(Some, {"maxProjectsInFirstWave",
                                                   "maxEventsPerSource"}))
               d == Of(Texts, {"scoringModelVersion"})
               e == Within("viewIds", Of(NoViews, {"sources", "events", "syncRuns", "projects"}))
               m == Within("phaseMemory", Of(Texts, Told(2 .. 5) \cup {"phase6Brief",
                                                                      "phase7Brief"}))
               Known == DOMAIN parsePhase5ExternalSignals
    <2>6. Phase5Defaults = a ++ b ++ c ++ d ++ e ++ m
      BY DEF Phase5Defaults
    <2>7. /\ DOMAIN a \subseteq Known /\ DOMAIN b \subseteq Known /\ DOMAIN c \subseteq Known
          /\ DOMAIN d \subseteq Known /\ DOMAIN e \subseteq Known /\ DOMAIN m \subseteq Known
      BY <2>5
    <2> HIDE DEF a, b, c, d, e, m, Known
    <2>8. DOMAIN (a ++ b ++ c ++ d ++ e ++ m) \subseteq Known
      BY <2>7, Over
    <2> QED
      BY <2>6, <2>8 DEF Known
  <1>3. DOMAIN ensurePhase6GovernanceState \subseteq DOMAIN parsePhase6Governance
    <2> DEFINE rule == Of(Some, {"replayWindowMinutes"}) ++ Of(Texts, {"dedupeKey"})
               rules == Within("github", rule) ++ Within("vercel", rule) ++ Within("googleCalendar", rule)
               mode == Of(Value("shadow"), {"mode"}) ++ Of(Texts, {"spoolDirectory", "host"})
                         ++ Within("pathRegistry", Of(Texts, Providers))
               status == Of(Value("shadow"), {"github"})
                         ++ Of(Value("disabled"), {"vercel", "googleCalendar"})
               approval == Of(Value("noWrite"), {"read"})
                           ++ Of(Value("singleApproval"), {"comment", "issue", "deploymentControl"})
               env == Of(Texts, {"githubAppId", "githubAppPrivateKeyPem",
                                 "githubAppWebhookSecret", "vercelWebhookSecret"})
                      ++ Of(Value("texts"), {"breakGlassEnvVars"})
    <2>1. DOMAIN rule \subseteq DOMAIN parsePhase6ReplayRule
      BY Over, SameFields DEF parsePhase6ReplayRule
    <2>2. DOMAIN rules \subseteq DOMAIN parsePhase6ReplayAndDedupe
      <3> HIDE DEF rule
      <3>1. \A s : DOMAIN Within(s, rule) \subseteq DOMAIN Within(s, parsePhase6ReplayRule)
        BY <2>1, InGrows
      <3> QED
        BY <3>1, Over DEF parsePhase6ReplayAndDedupe
    <2>3. DOMAIN mode \subseteq DOMAIN parsePhase6Receiver
      <3>1. DOMAIN Within("pathRegistry", Of(Texts, Providers))
              \subseteq DOMAIN Within("pathRegistry", parsePhase6PathRegistry)
        BY InGrows, SameFields DEF parsePhase6PathRegistry
      <3>2. DOMAIN Of(Value("shadow"), {"mode"}) = DOMAIN Of(parsePhase6ReceiverMode, {"mode"})
        BY SameFields
      <3>3. DOMAIN Of(Texts, {"spoolDirectory", "host"})
              \subseteq DOMAIN Of(requiredString, {"spoolDirectory"})
                        \cup DOMAIN Of(optionalString, {"host"})
        BY OfIs
      <3> QED
        BY <3>1, <3>2, <3>3, Over DEF parsePhase6Receiver
    <2>4. DOMAIN status \subseteq DOMAIN parsePhase6ProviderStatus
      BY Over, OfIs DEF parsePhase6ProviderStatus, Providers
    <2>5. DOMAIN approval \subseteq DOMAIN parsePhase6ApprovalDefaults
      BY Over, OfIs DEF parsePhase6ApprovalDefaults
    <2>6. DOMAIN env \subseteq DOMAIN parsePhase6EnvRefs
      BY Over, OfIs DEF parsePhase6EnvRefs
    <2>7. DOMAIN Of(NoViews, {"policies", "actionRequests", "endpoints", "deliveries", "receipts"})
            \subseteq DOMAIN parsePhase6ViewIds
      BY SameFields DEF parsePhase6ViewIds, Views
    <2>8. DOMAIN Of(Texts, Told(2 .. 6) \cup {"phase7Brief"}) \subseteq DOMAIN parsePhase6Memory
      BY ToldIsMemory DEF parsePhase6Memory
    <2>9. DOMAIN Of(Texts, {"baselineCapturedAt"}) \subseteq DOMAIN Audited
      BY Over, OfIs DEF Audited, Captured
    <2>10. /\ DOMAIN Within("receiver", mode) \subseteq DOMAIN Within("receiver", parsePhase6Receiver)
           /\ DOMAIN Within("providerStatus", status)
                \subseteq DOMAIN Within("providerStatus", parsePhase6ProviderStatus)
           /\ DOMAIN Within("replayAndDedupe", rules)
                \subseteq DOMAIN Within("replayAndDedupe", parsePhase6ReplayAndDedupe)
           /\ DOMAIN Within("approvalDefaults", approval)
                \subseteq DOMAIN Within("approvalDefaults", parsePhase6ApprovalDefaults)
           /\ DOMAIN Within("envRefs", env) \subseteq DOMAIN Within("envRefs", parsePhase6EnvRefs)
           /\ DOMAIN Within("viewIds", Of(NoViews, {"policies", "actionRequests", "endpoints",
                                                "deliveries", "receipts"}))
                \subseteq DOMAIN Within("viewIds", parsePhase6ViewIds)
           /\ DOMAIN Within("phaseMemory", Of(Texts, Told(2 .. 6) \cup {"phase7Brief"}))
                \subseteq DOMAIN Within("phaseMemory", parsePhase6Memory)
           /\ DOMAIN Of(Value("app_first_least_privilege"), {"identityPosture"})
                = DOMAIN Of(parsePhase6IdentityPosture, {"identityPosture"})
      <3> HIDE DEF mode, status, rules, approval, env
      <3> QED
        BY <2>2, <2>3, <2>4, <2>5, <2>6, <2>7, <2>8, InGrows, SameFields
    <2>11. ensurePhase6GovernanceState =
             Within("receiver", mode) ++ Of(Value("app_first_least_privilege"), {"identityPosture"})
             ++ Within("providerStatus", status) ++ Within("replayAndDedupe", rules)
             ++ Within("approvalDefaults", approval) ++ Within("envRefs", env)
             ++ Within("viewIds", Of(NoViews, {"policies", "actionRequests", "endpoints",
                                           "deliveries", "receipts"}))
             ++ Within("phaseMemory", Of(Texts, Told(2 .. 6) \cup {"phase7Brief"}))
             ++ Of(Texts, {"baselineCapturedAt"})
      BY DEF ensurePhase6GovernanceState
    <2>12. /\ DOMAIN Within("receiver", parsePhase6Receiver) \subseteq DOMAIN parsePhase6Governance
           /\ DOMAIN Of(parsePhase6IdentityPosture, {"identityPosture"})
                \subseteq DOMAIN parsePhase6Governance
           /\ DOMAIN Within("providerStatus", parsePhase6ProviderStatus)
                \subseteq DOMAIN parsePhase6Governance
           /\ DOMAIN Within("replayAndDedupe", parsePhase6ReplayAndDedupe)
                \subseteq DOMAIN parsePhase6Governance
           /\ DOMAIN Within("approvalDefaults", parsePhase6ApprovalDefaults)
                \subseteq DOMAIN parsePhase6Governance
           /\ DOMAIN Within("envRefs", parsePhase6EnvRefs) \subseteq DOMAIN parsePhase6Governance
           /\ DOMAIN Within("viewIds", parsePhase6ViewIds) \subseteq DOMAIN parsePhase6Governance
           /\ DOMAIN Within("phaseMemory", parsePhase6Memory) \subseteq DOMAIN parsePhase6Governance
           /\ DOMAIN Audited \subseteq DOMAIN parsePhase6Governance
      BY Over DEF parsePhase6Governance
    <2> DEFINE a == Within("receiver", mode)
               b == Of(Value("app_first_least_privilege"), {"identityPosture"})
               c == Within("providerStatus", status)
               d == Within("replayAndDedupe", rules)
               e == Within("approvalDefaults", approval)
               f == Within("envRefs", env)
               g == Within("viewIds", Of(NoViews, {"policies", "actionRequests", "endpoints",
                                                   "deliveries", "receipts"}))
               h == Within("phaseMemory", Of(Texts, Told(2 .. 6) \cup {"phase7Brief"}))
               i == Of(Texts, {"baselineCapturedAt"})
               Known == DOMAIN parsePhase6Governance
    <2>13. /\ DOMAIN a \subseteq Known /\ DOMAIN b \subseteq Known /\ DOMAIN c \subseteq Known
           /\ DOMAIN d \subseteq Known /\ DOMAIN e \subseteq Known /\ DOMAIN f \subseteq Known
           /\ DOMAIN g \subseteq Known /\ DOMAIN h \subseteq Known /\ DOMAIN i \subseteq Known
      <3> HIDE DEF mode, status, rules, approval, env
      <3> QED
        BY <2>9, <2>10, <2>12
    <2> HIDE DEF a, b, c, d, e, f, g, h, i, Known
    <2>14. ensurePhase6GovernanceState = a ++ b ++ c ++ d ++ e ++ f ++ g ++ h ++ i
      BY <2>11 DEF a, b, c, d, e, f, g, h, i
    <2>15. DOMAIN (a ++ b ++ c ++ d ++ e ++ f ++ g ++ h ++ i) \subseteq Known
      BY <2>13, Over
    <2> QED
      BY <2>14, <2>15 DEF Known
  <1> QED
    BY <1>1, <1>2, <1>3

Simple(object) == \A q \in DOMAIN object : IsPath(q) /\ object[q][1] # "ref"

\* Of one value, of two objects, and under a section: no reference comes in.
LEMMA SimpleOf ==
    ASSUME NEW v, NEW F, v[1] # "ref"
    PROVE  Simple(Of(v, F))
  <1> SUFFICES ASSUME NEW q \in DOMAIN Of(v, F)
               PROVE  IsPath(q) /\ Of(v, F)[q][1] # "ref"
    BY DEF Simple
  <1>1. PICK y \in F : q = <<y>>
    BY OfIs
  <1>2. q \in Seq(F)
    BY <1>1
  <1> QED
    BY <1>2, OfIs DEF IsPath

LEMMA SimpleOver ==
    ASSUME NEW f, NEW g, Simple(f), Simple(g)
    PROVE  Simple(f ++ g)
  <1> SUFFICES ASSUME NEW q \in DOMAIN (f ++ g)
               PROVE  IsPath(q) /\ (f ++ g)[q][1] # "ref"
    BY DEF Simple
  <1>1. CASE q \in DOMAIN f
    BY <1>1, Over DEF Simple
  <1>2. CASE q \notin DOMAIN f /\ q \in DOMAIN g
    BY <1>2, Over DEF Simple
  <1> QED
    BY <1>1, <1>2, Over

LEMMA SimpleIn ==
    ASSUME NEW s, NEW object, Simple(object)
    PROVE  Simple(Within(s, object)) /\ \A p \in DOMAIN Within(s, object) : p[1] = s
  <1> SUFFICES ASSUME NEW p \in DOMAIN Within(s, object)
               PROVE  IsPath(p) /\ Within(s, object)[p][1] # "ref" /\ p[1] = s
    BY DEF Simple
  <1>1. PICK q \in DOMAIN object : p = <<s>> \o q
    BY DEF Within
  <1>2. IsPath(q) /\ object[q][1] # "ref"
    BY DEF Simple
  <1>3. IsPath(p) /\ p[1] = s /\ Tail(p) = q
    BY <1>1, <1>2, Below
  <1>4. Within(s, object)[p] = object[Tail(p)]
    BY DEF Within
  <1> QED
    BY <1>2, <1>3, <1>4

\* No default is a reference.
LEMMA DefaultsAreSimple ==
    Simple(Phase3Defaults) /\ Simple(Phase5Defaults) /\ Simple(ensurePhase6GovernanceState)
  <1>1. /\ Texts[1] # "ref" /\ Flags[1] # "ref" /\ Some[1] # "ref" /\ NoViews[1] # "ref"
        /\ Value("texts")[1] # "ref" /\ Value("shadow")[1] # "ref"
        /\ Value("disabled")[1] # "ref" /\ Value("noWrite")[1] # "ref"
        /\ Value("singleApproval")[1] # "ref"
        /\ Value("app_first_least_privilege")[1] # "ref"
    BY DEF Texts, Flags, Some, NoViews, Value
  <1>2. /\ \A F : Simple(Of(Texts, F)) /\ Simple(Of(Flags, F)) /\ Simple(Of(Some, F))
        /\ \A F : Simple(Of(NoViews, F)) /\ Simple(Of(Value("texts"), F))
        /\ \A F : Simple(Of(Value("shadow"), F)) /\ Simple(Of(Value("disabled"), F))
        /\ \A F : Simple(Of(Value("noWrite"), F)) /\ Simple(Of(Value("singleApproval"), F))
        /\ \A F : Simple(Of(Value("app_first_least_privilege"), F))
    BY <1>1, SimpleOf
  <1>3. \A f, g : Simple(f) /\ Simple(g) => Simple(f ++ g)
    BY SimpleOver
  <1>4. \A s, f : Simple(f) => Simple(Within(s, f))
    BY SimpleIn
  <1> QED
    BY <1>2, <1>3, <1>4 DEF Phase3Defaults, Phase5Defaults, ensurePhase6GovernanceState

\* d is c with known fields filled or written over, none of them one that names a
\* database in c, or a path of L.
Grown(c, d, L) ==
    /\ DOMAIN c \subseteq DOMAIN d
    /\ \A p \in DOMAIN d :
         \/ p \in DOMAIN c /\ d[p] = c[p]
         \/ /\ p \in DOMAIN AllSections /\ d[p][1] # "ref" /\ p \notin L
            /\ p \in DOMAIN c => p[2] \notin RefFields

\* To grow is reflexive and transitive, and what is put beneath or above grows.
LEMMA GrownSame ==
    ASSUME NEW c, NEW L
    PROVE  Grown(c, c, L)
  BY DEF Grown

LEMMA GrownBelow ==
    ASSUME NEW c, NEW f, NEW L,
           \A p \in DOMAIN f : p \in DOMAIN AllSections /\ f[p][1] # "ref" /\ p \notin L
    PROVE  Grown(c, c ++ f, L)
  BY Over DEF Grown

LEMMA GrownAbove ==
    ASSUME NEW c, NEW f, NEW L,
           \A p \in DOMAIN f : /\ p \in DOMAIN AllSections /\ f[p][1] # "ref"
                               /\ p \notin L /\ p[2] \notin RefFields
    PROVE  Grown(c, f ++ c, L)
  BY Over DEF Grown

LEMMA GrownTwice ==
    ASSUME NEW c, NEW d, NEW e, NEW L, Grown(c, d, L), Grown(d, e, L)
    PROVE  Grown(c, e, L)
  BY DEF Grown

\* Filling a section with its defaults grows the config, off the ladder.
LEMMA DefaultGrown ==
    ASSUME NEW c, NEW s \in DOMAIN Sections, s # "phaseState", NEW defaults, Simple(defaults),
           DOMAIN defaults \subseteq DOMAIN Sections[s]
    PROVE  Grown(c, Default(c, s, defaults), Ladder)
  <1> DEFINE whole == Within(s, defaults)
             f(S) == Restrict(whole, {p \in DOMAIN whole : SubSeq(p, 1, 2) \notin S})
  <1>1. DOMAIN whole \subseteq DOMAIN AllSections
    BY InGrows, SectionsKnown
  <1>2. \A p \in DOMAIN whole : p[1] = s /\ whole[p][1] # "ref"
    BY SimpleIn DEF Simple
  <1>3. \A p \in DOMAIN whole : p \notin Ladder
    BY <1>2 DEF Ladder
  <1>4. \A S : \A p \in DOMAIN f(S) : /\ p \in DOMAIN AllSections /\ f(S)[p][1] # "ref"
                                      /\ p \notin Ladder
    BY <1>1, <1>2, <1>3 DEF Restrict
  <1>5. PICK S : Default(c, s, defaults) = c ++ f(S)
    BY DEF Default
  <1> HIDE DEF f
  <1> QED
    BY <1>4, <1>5, GrownBelow

\* So does every ensure function once its databases are there.
LEMMA FilledGrown ==
    ASSUME NEW name, NEW c
    PROVE  Grown(c, Filled(name, c), Ladder)
  <1>1. /\ Grown(c, Default(c, "phase3Intelligence", Phase3Defaults), Ladder)
        /\ Grown(c, Default(c, "phase5ExternalSignals", Phase5Defaults), Ladder)
        /\ Grown(c, Default(c, "phase6Governance", ensurePhase6GovernanceState), Ladder)
    BY DefaultGrown, DefaultsAreSimple, KnownDefaults DEF Sections
  <1> QED
    BY <1>1, GrownSame DEF Filled

\* What a command writes of a section: no reference, nothing of L.
LEMMA Writes ==
    ASSUME NEW s \in DOMAIN Sections, NEW object, NEW L,
           DOMAIN object \subseteq DOMAIN Sections[s],
           \A q \in DOMAIN object :
               \E f : q = <<f>> /\ f \notin RefFields /\ <<s, f>> \notin L
                     /\ object[q][1] # "ref"
    PROVE  \A p \in DOMAIN Within(s, object) :
               /\ p \in DOMAIN AllSections /\ Within(s, object)[p][1] # "ref"
               /\ p \notin L /\ p[2] \notin RefFields
  <1>1. DOMAIN Within(s, object) \subseteq DOMAIN AllSections
    BY InGrows, SectionsKnown
  <1> SUFFICES ASSUME NEW p \in DOMAIN Within(s, object)
               PROVE  /\ Within(s, object)[p][1] # "ref" /\ p \notin L /\ p[2] \notin RefFields
    BY <1>1
  <1>2. PICK q \in DOMAIN object : p = <<s>> \o q
    BY DEF Within
  <1>3. PICK f : q = <<f>> /\ f \notin RefFields /\ <<s, f>> \notin L /\ object[q][1] # "ref"
    OBVIOUS
  <1>4. p = <<s, f>> /\ Tail(p) = q
    <2>1. p = <<s>> \o <<f>> /\ q = <<f>>
      BY <1>2, <1>3
    <2>2. <<s>> \o <<f>> = <<s, f>>
      BY Single
    <2>3. Tail(<<s, f>>) = <<f>>
      BY Tailed
    <2> QED
      BY <2>1, <2>2, <2>3
  <1>5. Within(s, object)[p] = object[Tail(p)]
    BY DEF Within
  <1> QED
    BY <1>3, <1>4, <1>5

LEMMA PairWrites ==
    ASSUME NEW s \in DOMAIN Sections, NEW at, NEW summary, NEW v, NEW w, NEW L,
           v[1] # "ref", w[1] # "ref",
           {<<at>>, <<summary>>} \subseteq DOMAIN Sections[s],
           at \notin RefFields, summary \notin RefFields,
           <<s, at>> \notin L, <<s, summary>> \notin L
    PROVE  LET object == Of(v, {at}) ++ Of(w, {summary}) IN
           \A p \in DOMAIN Within(s, object) :
               /\ p \in DOMAIN AllSections /\ Within(s, object)[p][1] # "ref"
               /\ p \notin L /\ p[2] \notin RefFields
  <1> DEFINE object == Of(v, {at}) ++ Of(w, {summary})
  <1>1. DOMAIN object = {<<at>>, <<summary>>}
    <2>1. DOMAIN Of(v, {at}) = {<<at>>} /\ DOMAIN Of(w, {summary}) = {<<summary>>}
      BY OneIs
    <2>2. DOMAIN object = DOMAIN Of(v, {at}) \cup DOMAIN Of(w, {summary})
      BY Over
    <2> QED
      BY <2>1, <2>2
  <1>2. \A q \in DOMAIN object : object[q] \in {v, w}
    BY OfIs, Over
  <1> HIDE DEF object
  <1>3. \A q \in DOMAIN object :
            \E f : q = <<f>> /\ f \notin RefFields /\ <<s, f>> \notin L
                  /\ object[q][1] # "ref"
    BY <1>1, <1>2
  <1>4. \A p \in DOMAIN Within(s, object) :
               /\ p \in DOMAIN AllSections /\ Within(s, object)[p][1] # "ref"
               /\ p \notin L /\ p[2] \notin RefFields
    BY <1>1, <1>3, Writes, ZenonT(60)
  <1> QED
    BY <1>4 DEF object

LEMMA OneWrites ==
    ASSUME NEW s \in DOMAIN Sections, NEW at, NEW v, NEW L, v[1] # "ref",
           <<at>> \in DOMAIN Sections[s], at \notin RefFields, <<s, at>> \notin L
    PROVE  \A p \in DOMAIN Within(s, Of(v, {at})) :
               /\ p \in DOMAIN AllSections /\ Within(s, Of(v, {at}))[p][1] # "ref"
               /\ p \notin L /\ p[2] \notin RefFields
  <1>1. DOMAIN Of(v, {at}) = {<<at>>} /\ Of(v, {at})[<<at>>] = v
    BY OfIs, SMTT(60)
  <1> QED
    BY <1>1, Writes

\* The loader knows every field that a command records.
LEMMA KnownFields ==
    /\ {<<"lastSyncAt">>, <<"lastSyncMetrics">>, <<"baselineCapturedAt">>, <<"baselineMetrics">>}
         \subseteq DOMAIN Sections["phase2Execution"]
    /\ {<<"lastSyncAt">>, <<"lastSyncMetrics">>, <<"baselineCapturedAt">>, <<"baselineMetrics">>,
         <<"scoringModelVersion">>}
         \subseteq DOMAIN Sections["phase3Intelligence"]
    /\ {<<"lastSyncAt">>, <<"lastSyncMetrics">>, <<"baselineCapturedAt">>, <<"baselineMetrics">>}
         \subseteq DOMAIN Sections["phase5ExternalSignals"]
    /\ {<<"lastAuditAt">>, <<"lastAuditSummary">>} \subseteq DOMAIN Sections["phase4Native"]
    /\ {<<"lastSyncAt">>, <<"lastSyncMetrics">>, <<"baselineCapturedAt">>, <<"baselineMetrics">>,
         <<"currentPhaseStatus">>, <<"currentPhase">>, <<"lastClosedPhase">>}
         \subseteq DOMAIN Sections["phaseState"]
    /\ <<"weeklyReviewLastPublishedAt">> \in DOMAIN Sections["weeklyMaintenance"]
    /\ <<"page">> \in DOMAIN Sections["commandCenter"]
  BY Over, OfIs DEF Sections, parsePhase2Execution, parsePhase3Intelligence,
     parsePhase5ExternalSignals, parsePhase4Native, parsePhaseState, parseWeeklyMaintenance,
     parseCommandCenter, Synced, Audited, Captured

\* What is written over or put beneath a config leaves it grown.
Fit(f, L) == \A p \in DOMAIN f : /\ p \in DOMAIN AllSections /\ f[p][1] # "ref"
                                 /\ p \notin L /\ p[2] \notin RefFields

LEMMA FitGrown ==
    ASSUME NEW c, NEW f, NEW L, Fit(f, L)
    PROVE  Grown(c, f ++ c, L) /\ Grown(c, c ++ f, L)
  BY GrownAbove, GrownBelow DEF Fit

\* The records of the phases 2 to 5 fit, and so do those of the phase state.
LEMMA SyncFit ==
    /\ \A s \in {"phase2Execution", "phase3Intelligence", "phase5ExternalSignals"} :
           Fit(SyncedAt(s, "lastSyncAt", "lastSyncMetrics"), Ladder) /\ Fit(Baseline(s), Ladder)
    /\ Fit(SyncedAt("phase4Native", "lastAuditAt", "lastAuditSummary"), Ladder)
  <1>1. Texts[1] # "ref" /\ Value("loose")[1] # "ref"
    BY DEF Texts, Value
  <1>2. \A s, f : s # "phaseState" => <<s, f>> \notin Ladder
    BY DEF Ladder
  <1>3. /\ "phase2Execution" \in DOMAIN Sections /\ "phase3Intelligence" \in DOMAIN Sections
        /\ "phase5ExternalSignals" \in DOMAIN Sections /\ "phase4Native" \in DOMAIN Sections
    BY DEF Sections
  <1>4. /\ "lastSyncAt" \notin RefFields /\ "lastSyncMetrics" \notin RefFields
        /\ "baselineCapturedAt" \notin RefFields /\ "baselineMetrics" \notin RefFields
        /\ "lastAuditAt" \notin RefFields /\ "lastAuditSummary" \notin RefFields
    BY DEF RefFields
  <1>5. ASSUME NEW s \in DOMAIN Sections, NEW at, NEW summary, s # "phaseState",
               {<<at>>, <<summary>>} \subseteq DOMAIN Sections[s],
               at \notin RefFields, summary \notin RefFields
        PROVE  Fit(SyncedAt(s, at, summary), Ladder)
    <2>1. <<s, at>> \notin Ladder /\ <<s, summary>> \notin Ladder
      BY <1>2, <1>5
    <2> QED
      BY <1>1, <1>5, <2>1, PairWrites DEF SyncedAt, Fit
  <1>6. \A s \in {"phase2Execution", "phase3Intelligence", "phase5ExternalSignals"} :
           /\ Fit(SyncedAt(s, "lastSyncAt", "lastSyncMetrics"), Ladder)
           /\ Fit(SyncedAt(s, "baselineCapturedAt", "baselineMetrics"), Ladder)
    BY <1>3, <1>4, <1>5, KnownFields
  <1>7. Fit(SyncedAt("phase4Native", "lastAuditAt", "lastAuditSummary"), Ladder)
    BY <1>3, <1>4, <1>5, KnownFields
  <1> QED
    BY <1>6, <1>7 DEF Baseline

LEMMA PhaseFit ==
    /\ Fit(InProgress, Ladder)
    /\ Fit(Within("phase3Intelligence", Of(Texts, {"scoringModelVersion"})), Ladder)
    /\ Fit(Within("weeklyMaintenance", Of(Texts, {"weeklyReviewLastPublishedAt"})), Ladder)
    /\ \A page : Fit(Within("commandCenter", Of(<<"page", page>>, {"page"})), Ladder)
    /\ \A metrics \in {"metrics", "noMetrics"} :
         /\ Fit(Within("phaseState", Of(Texts, {"lastSyncAt"})
                                 ++ Of(Value(metrics), {"lastSyncMetrics"})), Ladder)
         /\ Fit(Within("phaseState", Of(Texts, {"baselineCapturedAt"})
                                 ++ Of(Value(metrics), {"baselineMetrics"})), Ladder)
    /\ \A k : /\ Fit(PhaseIs("currentPhase", k), {}) /\ Fit(PhaseIs("lastClosedPhase", k), {})
    /\ Fit(InProgress, {})
  <1>1. /\ Texts[1] # "ref" /\ Value("metrics")[1] # "ref" /\ Value("noMetrics")[1] # "ref"
        /\ \A k : <<"positive", k>>[1] # "ref" /\ <<"page", k>>[1] # "ref"
    BY DEF Texts, Value
  <1>2. /\ "phase3Intelligence" \in DOMAIN Sections /\ "phaseState" \in DOMAIN Sections
        /\ "weeklyMaintenance" \in DOMAIN Sections /\ "commandCenter" \in DOMAIN Sections
    BY DEF Sections
  <1>3. \A f \in {"lastSyncAt", "lastSyncMetrics", "baselineCapturedAt", "baselineMetrics",
                  "currentPhaseStatus", "currentPhase", "lastClosedPhase",
                  "scoringModelVersion", "weeklyReviewLastPublishedAt", "page"} :
            f \notin RefFields
    BY DEF RefFields
  <1>4. /\ <<"phase3Intelligence", "scoringModelVersion">> \notin Ladder
        /\ <<"weeklyMaintenance", "weeklyReviewLastPublishedAt">> \notin Ladder
        /\ <<"commandCenter", "page">> \notin Ladder
        /\ <<"phaseState", "lastSyncAt">> \notin Ladder
        /\ <<"phaseState", "lastSyncMetrics">> \notin Ladder
        /\ <<"phaseState", "baselineCapturedAt">> \notin Ladder
        /\ <<"phaseState", "baselineMetrics">> \notin Ladder
        /\ <<"phaseState", "currentPhaseStatus">> \notin Ladder
    BY DEF Ladder
  <1>5. ASSUME NEW s \in DOMAIN Sections, NEW f, NEW v, NEW L, v[1] # "ref",
               <<f>> \in DOMAIN Sections[s], f \notin RefFields, <<s, f>> \notin L
        PROVE  Fit(Within(s, Of(v, {f})), L)
    BY <1>5, OneWrites DEF Fit
  <1>6. ASSUME NEW metrics \in {"metrics", "noMetrics"}
        PROVE  /\ Fit(Within("phaseState", Of(Texts, {"lastSyncAt"})
                                 ++ Of(Value(metrics), {"lastSyncMetrics"})), Ladder)
               /\ Fit(Within("phaseState", Of(Texts, {"baselineCapturedAt"})
                                 ++ Of(Value(metrics), {"baselineMetrics"})), Ladder)
    <2>1. Value(metrics)[1] # "ref"
      BY <1>1
    <2>2. /\ {<<"lastSyncAt">>, <<"lastSyncMetrics">>} \subseteq DOMAIN Sections["phaseState"]
          /\ {<<"baselineCapturedAt">>, <<"baselineMetrics">>}
               \subseteq DOMAIN Sections["phaseState"]
          /\ <<"phaseState", "lastSyncMetrics">> \notin Ladder
          /\ <<"phaseState", "baselineMetrics">> \notin Ladder
      BY KnownFields DEF Ladder
    <2>3. Fit(Within("phaseState", Of(Texts, {"lastSyncAt"})
                                 ++ Of(Value(metrics), {"lastSyncMetrics"})), Ladder)
      BY <1>1, <1>2, <1>3, <1>4, <2>1, <2>2, PairWrites DEF Fit
    <2>4. Fit(Within("phaseState", Of(Texts, {"baselineCapturedAt"})
                                 ++ Of(Value(metrics), {"baselineMetrics"})), Ladder)
      BY <1>1, <1>2, <1>3, <1>4, <2>1, <2>2, PairWrites DEF Fit
    <2> QED
      BY <2>3, <2>4
  <1>7. Fit(InProgress, Ladder) /\ Fit(InProgress, {})
    <2>1. /\ <<"currentPhaseStatus">> \in DOMAIN Sections["phaseState"]
          /\ "currentPhaseStatus" \notin RefFields
      BY <1>3, KnownFields
    <2> QED
      BY <1>1, <1>2, <1>4, <1>5, <2>1, SMTT(60) DEF InProgress
  <1>8. \A k : /\ Fit(PhaseIs("currentPhase", k), {}) /\ Fit(PhaseIs("lastClosedPhase", k), {})
    <2>1. /\ <<"currentPhase">> \in DOMAIN Sections["phaseState"]
          /\ <<"lastClosedPhase">> \in DOMAIN Sections["phaseState"]
          /\ "currentPhase" \notin RefFields /\ "lastClosedPhase" \notin RefFields
      BY <1>3, KnownFields
    <2> TAKE k
    <2> DEFINE v == <<"positive", k>>
    <2>2. v[1] # "ref"
      OBVIOUS
    <2>3. PhaseIs("currentPhase", k) = Within("phaseState", Of(v, {"currentPhase"}))
      BY DEF PhaseIs
    <2>4. PhaseIs("lastClosedPhase", k) = Within("phaseState", Of(v, {"lastClosedPhase"}))
      BY DEF PhaseIs
    <2> HIDE DEF v
    <2>5. \A f : f \notin RefFields /\ <<f>> \in DOMAIN Sections["phaseState"]
                   => Fit(Within("phaseState", Of(v, {f})), {})
      <3> SUFFICES ASSUME NEW f, f \notin RefFields, <<f>> \in DOMAIN Sections["phaseState"]
                   PROVE  Fit(Within("phaseState", Of(v, {f})), {})
        OBVIOUS
      <3>1. <<"phaseState", f>> \notin {}
        OBVIOUS
      <3> QED
        BY <1>2, <2>2, <3>1, OneWrites DEF Fit
    <2>6. /\ Fit(Within("phaseState", Of(v, {"currentPhase"})), {})
          /\ Fit(Within("phaseState", Of(v, {"lastClosedPhase"})), {})
      BY <2>1, <2>5
    <2> QED
      BY <2>3, <2>4, <2>6
  <1>9. /\ Fit(Within("phase3Intelligence", Of(Texts, {"scoringModelVersion"})), Ladder)
        /\ Fit(Within("weeklyMaintenance", Of(Texts, {"weeklyReviewLastPublishedAt"})), Ladder)
        /\ \A page : Fit(Within("commandCenter", Of(<<"page", page>>, {"page"})), Ladder)
    BY <1>1, <1>2, <1>3, <1>4, <1>5, KnownFields
  <1> QED
    BY <1>6, <1>7, <1>8, <1>9

\* What each command saves when it ends is its config grown.
LEMMA RecordedGrown ==
    ASSUME NEW s \in {"phase2Execution", "phase3Intelligence", "phase5ExternalSignals"}, NEW c
    PROVE  Grown(c, SyncRecorded(s, c), Ladder)
  <1> DEFINE d == SyncedAt(s, "lastSyncAt", "lastSyncMetrics") ++ c
  <1>1. Grown(c, d, Ladder) /\ Grown(d, d ++ Baseline(s), Ladder)
    BY SyncFit, FitGrown
  <1> QED
    BY <1>1, GrownTwice DEF SyncRecorded

LEMMA NextPhaseStateGrown ==
    ASSUME NEW c, NEW metrics \in {"metrics", "noMetrics"}
    PROVE  Grown(c, buildNextControlTowerPhaseState(c, metrics), Ladder)
  <1> DEFINE now      == Within("phaseState", Of(Texts, {"lastSyncAt"})
                                          ++ Of(Value(metrics), {"lastSyncMetrics"}))
             captured == Within("phaseState", Of(Texts, {"baselineCapturedAt"})
                                          ++ Of(Value(metrics), {"baselineMetrics"}))
  <1>1. Fit(now, Ladder) /\ Fit(captured, Ladder) /\ Fit(<<>>, Ladder)
    BY PhaseFit DEF Fit
  <1> HIDE DEF now, captured
  <1>2. \A f, g : Fit(f, Ladder) /\ Fit(g, Ladder) => Fit(f ++ g, Ladder)
    BY Over DEF Fit
  <1>3. \E f \in {<<>>, captured} : buildNextControlTowerPhaseState(c, metrics) = now ++ f ++ c
    BY DEF buildNextControlTowerPhaseState, now, captured
  <1> QED
    BY <1>1, <1>2, <1>3, FitGrown

LEMMA FinalGrown ==
    ASSUME NEW r, command[r].name \in Recorders, command[r].name # "closeout",
           NEW metrics \in {"metrics", "noMetrics"}
    PROVE  Grown(command[r].config, Final(r, metrics), Ladder)
  <1> DEFINE c == command[r].config
             name == command[r].name
  <1>1. CASE name = "execution"
    BY <1>1, RecordedGrown DEF Final
  <1>2. CASE name = "intelligence"
    <2>1. Grown(SyncRecorded("phase3Intelligence", c), InProgress ++ SyncRecorded("phase3Intelligence", c), Ladder)
      BY PhaseFit, FitGrown
    <2> QED
      BY <1>2, <2>1, RecordedGrown, GrownTwice DEF Final
  <1>3. CASE name = "signals"
    <2> DEFINE d == SyncRecorded("phase5ExternalSignals", c)
               v == Within("phase3Intelligence", Of(Texts, {"scoringModelVersion"}))
    <2>1. Grown(c, d, Ladder)
      BY RecordedGrown
    <2>2. Fit(v, Ladder) /\ Fit(<<>>, Ladder)
      BY PhaseFit DEF Fit
    <2>3. Grown(d, v ++ d, Ladder) /\ Grown(d, <<>> ++ d, Ladder)
      BY <2>2, FitGrown
    <2>4. Final(r, metrics) \in {v ++ d, <<>> ++ d}
      BY <1>3 DEF Final
    <2> HIDE DEF d, v
    <2> QED
      BY <2>1, <2>3, <2>4, GrownTwice
  <1>4. CASE name = "controlTower"
    BY <1>4, NextPhaseStateGrown DEF Final
  <1>5. CASE name = "nativeAudit"
    <2> DEFINE s == SyncedAt("phase4Native", "lastAuditAt", "lastAuditSummary")
    <2>1. Fit(InProgress ++ s, Ladder)
      BY PhaseFit, SyncFit, Over DEF Fit
    <2> QED
      BY <1>5, <2>1, FitGrown DEF Final
  <1>6. CASE name = "reviewPacket"
    BY <1>6, PhaseFit, FitGrown DEF Final
  <1> QED
    BY <1>1, <1>2, <1>3, <1>4, <1>5, <1>6 DEF Recorders

\* A closeout grows the config too, on the ladder as well.
LEMMA ClosedGrown ==
    ASSUME NEW c, NEW k
    PROVE  Grown(c, Closed(c, k), {})
  <1>1. \A n : Fit(PhaseIs("currentPhase", n), {}) /\ Fit(PhaseIs("lastClosedPhase", n), {})
    BY PhaseFit
  <1>2. \A f, g : Fit(f, {}) /\ Fit(g, {}) => Fit(f ++ g, {})
    BY Over DEF Fit
  <1>3. Fit(InProgress, {})
    BY PhaseFit
  <1>4. \E f : Closed(c, k) = f ++ c /\ Fit(f, {})
    <2>1. CASE k < currentPhase(c)
      BY <1>1, <2>1 DEF Closed
    <2>2. CASE ~(k < currentPhase(c))
      <3>1. Closed(c, k) = PhaseIs("currentPhase", k + 1) ++ PhaseIs("lastClosedPhase", k)
                           ++ InProgress ++ c
        BY <2>2 DEF Closed
      <3> QED
        BY <1>1, <1>2, <1>3, <3>1
    <2> QED
      BY <2>1, <2>2
  <1> QED
    BY <1>4, FitGrown

\* A number of the phase state is written at its path alone.
LEMMA PhaseOf ==
    \A f, k : /\ DOMAIN PhaseIs(f, k) = {<<"phaseState", f>>}
              /\ PhaseIs(f, k)[<<"phaseState", f>>] = <<"positive", k>>
  <1> TAKE f, k
  <1> DEFINE v == <<"positive", k>>
  <1>1. PhaseIs(f, k) = Within("phaseState", Of(v, {f}))
    BY DEF PhaseIs
  <1> HIDE DEF v
  <1>2. \A p \in DOMAIN Within("phaseState", Of(v, {f})) : p = <<"phaseState", f>>
    BY Field
  <1>3. /\ <<"phaseState", f>> \in DOMAIN Within("phaseState", Of(v, {f}))
        /\ Within("phaseState", Of(v, {f}))[<<"phaseState", f>>] = v
    BY Field
  <1> QED
    BY <1>1, <1>2, <1>3 DEF v

\* The rungs of the ladder after a closeout.
LEMMA ClosedLadder ==
    ASSUME NEW c, NEW k \in Nat, currentPhase(c) \in Nat, lastClosedPhase(c) \in Nat
    PROVE  LET d == Closed(c, k) IN
           \/ /\ k < currentPhase(c) /\ currentPhase(d) = currentPhase(c)
              /\ lastClosedPhase(d) = IF lastClosedPhase(c) > k THEN lastClosedPhase(c) ELSE k
           \/ currentPhase(d) = k + 1 /\ lastClosedPhase(d) = k
  <1> DEFINE cur == <<"phaseState", "currentPhase">>
             last == <<"phaseState", "lastClosedPhase">>
  <1>1. cur # last
    OBVIOUS
  <1>2. CASE k < currentPhase(c)
    <2> DEFINE n == IF lastClosedPhase(c) > k THEN lastClosedPhase(c) ELSE k
    <2>1. Closed(c, k) = PhaseIs("lastClosedPhase", n) ++ c
      BY <1>2 DEF Closed
    <2>2. /\ DOMAIN PhaseIs("lastClosedPhase", n) = {last}
          /\ PhaseIs("lastClosedPhase", n)[last] = <<"positive", n>>
      BY PhaseOf
    <2> HIDE DEF n, cur, last
    <2>3. /\ last \in DOMAIN Closed(c, k) /\ Closed(c, k)[last] = <<"positive", n>>
          /\ cur \in DOMAIN Closed(c, k) <=> cur \in DOMAIN c
          /\ cur \in DOMAIN c => Closed(c, k)[cur] = c[cur]
      BY <1>1, <2>1, <2>2, Over
    <2> QED
      BY <1>2, <2>3 DEF currentPhase, lastClosedPhase, NumberAt, n, cur, last
  <1>3. CASE ~(k < currentPhase(c))
    <2>1. Closed(c, k) = PhaseIs("currentPhase", k + 1) ++ PhaseIs("lastClosedPhase", k)
                         ++ InProgress ++ c
      BY <1>3 DEF Closed
    <2>2. /\ DOMAIN PhaseIs("lastClosedPhase", k) = {last}
          /\ PhaseIs("lastClosedPhase", k)[last] = <<"positive", k>>
          /\ DOMAIN PhaseIs("currentPhase", k + 1) = {cur}
          /\ PhaseIs("currentPhase", k + 1)[cur] = <<"positive", k + 1>>
      BY PhaseOf
    <2> HIDE DEF cur, last
    <2>3. /\ last \in DOMAIN Closed(c, k) /\ Closed(c, k)[last] = <<"positive", k>>
          /\ cur \in DOMAIN Closed(c, k) /\ Closed(c, k)[cur] = <<"positive", k + 1>>
      BY <1>1, <2>1, <2>2, Over
    <2> QED
      BY <2>3 DEF currentPhase, lastClosedPhase, NumberAt, cur, last
  <1> QED
    BY <1>2, <1>3

------------------------------------------------------------------------------
(* The inductive invariant of the config file and its commands.            *)

\* Every reference of c is of the database created for its path; the phase c
\* closed last is before its current one and in the Build Log; c holds d.
RefsOf(c, made) ==
    \A p \in DOMAIN c : c[p][1] = "ref" /\ c[p][2] # 0 =>
        c[p][2] \in DOMAIN made /\ made[c[p][2]] = p
LadderOf(c, closed) ==
    /\ currentPhase(c) \in Nat /\ lastClosedPhase(c) \in Nat
    /\ lastClosedPhase(c) > 0 =>
           lastClosedPhase(c) < currentPhase(c) /\ lastClosedPhase(c) \in closed
HoldsRef(c, d, made) ==
    made[d] \in DOMAIN c /\ c[made[d]][1] = "ref" /\ c[made[d]][2] = d

\* A command has taken the steps its name prescribes.
OnItsWay(c, closed) ==
    /\ DOMAIN c = {"name", "phase", "pc", "config", "alone"}
    /\ c.phase \in Nat
    /\ c.pc = "idle" => c.config = Torn
    /\ c.pc \in {"ensure", "save", "end", "publish"} => c.name # "closeout"
    /\ c.pc = "save" => c.name \in Savers
    /\ c.pc = "record" => c.name \in Recorders
    /\ c.pc = "publish" => c.name = "controlTower"
    /\ c.pc = "log" => c.name = "closeout"
    /\ c.pc = "record" /\ c.name = "closeout" => c.phase \in closed

CommandsOnTheirWay ==
    /\ command = [r \in Runners |-> command[r]]
    /\ \A r \in Runners : OnItsWay(command[r], buildLog)
DatabasesHavePaths ==
    /\ \E S : databases \in Seq(S)
    /\ \A d \in DOMAIN databases : IsRefPath(databases[d])
ConfigsTrue ==
    /\ RefsOf(file, databases) /\ LadderOf(file, buildLog)
    /\ \A r \in Runners :
           /\ DOMAIN command[r].config \subseteq DOMAIN AllSections
           /\ RefsOf(command[r].config, databases)
           /\ LadderOf(command[r].config, buildLog)
KeptKnown == kept \subseteq DOMAIN AllSections /\ NothingForgotten
\* A command that runs alone has loaded what the file holds.
AloneIsCurrent ==
    \A r \in Runners : Active(r) /\ command[r].alone =>
        /\ \A q \in Runners \ {r} : ~Active(q)
        /\ kept \subseteq DOMAIN command[r].config
        /\ \A d \in DOMAIN databases :
               HoldsRef(file, d, databases) => HoldsRef(command[r].config, d, databases)
DatabasesHeld ==
    \A d \in DOMAIN databases :
        \/ d \in lost
        \/ HoldsRef(file, d, databases)
        \/ \E r \in Runners : HoldsRef(command[r].config, d, databases)

TowerInv == /\ CommandsOnTheirWay /\ DatabasesHavePaths /\ ConfigsTrue
            /\ KeptKnown /\ AloneIsCurrent /\ DatabasesHeld

\* A database that a config holds, one grown from it holds.
LEMMA RefGrown ==
    ASSUME NEW c, NEW e, NEW L, Grown(c, e, L)
    PROVE  \A made : \A d : IsRefPath(made[d]) /\ HoldsRef(c, d, made) => HoldsRef(e, d, made)
  BY DEF Grown, IsRefPath, HoldsRef

\* Growing keeps references true, and the ladder where it is left alone.
LEMMA RefsGrown ==
    ASSUME NEW c, NEW e, NEW L, NEW made, Grown(c, e, L), RefsOf(c, made),
           DOMAIN c \subseteq DOMAIN AllSections
    PROVE  /\ RefsOf(e, made) /\ DOMAIN e \subseteq DOMAIN AllSections
           /\ DOMAIN c \subseteq DOMAIN e
  BY DEF Grown, RefsOf

LEMMA LadderGrown ==
    ASSUME NEW c, NEW e, NEW closed, Grown(c, e, Ladder), LadderOf(c, closed)
    PROVE  LadderOf(e, closed)
  <1>1. \A p \in Ladder : NumberAt(e, p) = NumberAt(c, p)
    BY DEF Grown, NumberAt
  <1>2. currentPhase(e) = currentPhase(c) /\ lastClosedPhase(e) = lastClosedPhase(c)
    BY <1>1 DEF currentPhase, lastClosedPhase, Ladder
  <1> QED
    BY <1>2 DEF LadderOf

\* A closeout logged in the Build Log leaves a true ladder.
LEMMA ClosedTrue ==
    ASSUME NEW c, NEW closed, NEW k \in Nat, k \in closed, LadderOf(c, closed)
    PROVE  LadderOf(Closed(c, k), closed)
  <1>1. LET d == Closed(c, k) IN
           \/ /\ k < currentPhase(c) /\ currentPhase(d) = currentPhase(c)
              /\ lastClosedPhase(d) = IF lastClosedPhase(c) > k THEN lastClosedPhase(c) ELSE k
           \/ currentPhase(d) = k + 1 /\ lastClosedPhase(d) = k
    BY ClosedLadder DEF LadderOf
  <1> QED
    BY <1>1 DEF LadderOf

\* A load takes over every field it knows, as the file has it.
LEMMA Loaded ==
    ASSUME NEW f
    PROVE  LET c == parseLocalPortfolioControlTowerConfig(f) IN
           /\ DOMAIN c = DOMAIN f \cap DOMAIN AllSections
           /\ \A p \in DOMAIN c : c[p] = f[p]
  BY DEF parseLocalPortfolioControlTowerConfig, KnownPaths, Has, Restrict

LEMMA LadderKnown ==
    Ladder \subseteq DOMAIN AllSections
  <1>1. DOMAIN Within("phaseState", Of({}, {"currentPhase", "lastClosedPhase"}))
          \subseteq DOMAIN AllSections
    BY Fields, KnownFields DEF Sections
  <1>2. \A f \in {"currentPhase", "lastClosedPhase"} :
            <<"phaseState", f>>
              \in DOMAIN Within("phaseState", Of({}, {"currentPhase", "lastClosedPhase"}))
    BY Field
  <1> QED
    BY <1>1, <1>2 DEF Ladder

\* So what is true of the file is true of what is loaded from it.
LEMMA LoadedTrue ==
    ASSUME NEW f, NEW made, NEW closed, RefsOf(f, made), LadderOf(f, closed)
    PROVE  LET c == parseLocalPortfolioControlTowerConfig(f) IN
           /\ DOMAIN c \subseteq DOMAIN AllSections
           /\ RefsOf(c, made) /\ LadderOf(c, closed)
           /\ \A d : IsRefPath(made[d]) /\ HoldsRef(f, d, made) => HoldsRef(c, d, made)
  <1> DEFINE c == parseLocalPortfolioControlTowerConfig(f)
  <1>1. DOMAIN c = DOMAIN f \cap DOMAIN AllSections /\ \A p \in DOMAIN c : c[p] = f[p]
    BY Loaded
  <1> HIDE DEF c
  <1>2. RefsOf(c, made)
    BY <1>1 DEF RefsOf
  <1>3. \A p \in Ladder : NumberAt(c, p) = NumberAt(f, p)
    BY <1>1, LadderKnown DEF NumberAt
  <1>4. currentPhase(c) = currentPhase(f) /\ lastClosedPhase(c) = lastClosedPhase(f)
    BY <1>3 DEF currentPhase, lastClosedPhase, Ladder
  <1>5. LadderOf(c, closed)
    BY <1>4 DEF LadderOf
  <1>6. \A d : IsRefPath(made[d]) /\ HoldsRef(f, d, made) => HoldsRef(c, d, made)
    BY <1>1 DEF HoldsRef, IsRefPath
  <1> QED
    BY <1>1, <1>2, <1>5, <1>6 DEF c

\* The invariant holds of a file that names no database yet.
LEMMA TowerInitInv ==
    TowerInit => TowerInv
  <1> SUFFICES ASSUME TowerInit PROVE TowerInv
    OBVIOUS
  <1>1. \A r \in Runners : command[r] = Unstarted
    BY DEF TowerInit
  <1>2. CommandsOnTheirWay
    BY <1>1 DEF TowerInit, CommandsOnTheirWay, OnItsWay, Unstarted
  <1>3. DatabasesHavePaths
    <2>1. databases = <<>>
      BY DEF TowerInit
    <2>2. databases \in Seq({})
      BY <2>1
    <2> QED
      BY <2>1, <2>2 DEF DatabasesHavePaths
  <1>4. RefsOf(file, databases) /\ LadderOf(file, buildLog)
    <2>1. /\ \A p \in DOMAIN file : file[p][1] = "ref" => file[p][2] = 0
          /\ currentPhase(file) \in Nat /\ lastClosedPhase(file) = 0
      BY ConfigAssumption DEF TowerInit
    <2> QED
      BY <2>1 DEF RefsOf, LadderOf
  <1>5. /\ DOMAIN Torn = {} /\ RefsOf(Torn, databases) /\ LadderOf(Torn, buildLog)
    <2>1. DOMAIN Torn = {}
      BY DEF Torn
    <2>2. currentPhase(Torn) = 0 /\ lastClosedPhase(Torn) = 0
      BY <2>1 DEF currentPhase, lastClosedPhase, NumberAt
    <2> QED
      BY <2>1, <2>2 DEF RefsOf, LadderOf
  <1>6. ConfigsTrue
    BY <1>1, <1>4, <1>5 DEF ConfigsTrue, Unstarted
  <1>7. KeptKnown
    BY DEF TowerInit, KeptKnown, NothingForgotten
  <1>8. AloneIsCurrent
    BY <1>1 DEF AloneIsCurrent, Active, Unstarted
  <1>9. DatabasesHeld
    BY DEF TowerInit, DatabasesHeld
  <1> QED
    BY <1>2, <1>3, <1>6, <1>7, <1>8, <1>9 DEF TowerInv

\* The names whose commands neither create a database nor publish nor close out.
LEMMA EnsuredNames ==
    ASSUME NEW name \in Commands
    PROVE  /\ Ensured(name) # <<>> => name # "closeout"
           /\ Ensured(name) = <<>> => name \in {"controlTower", "nativeAudit", "reviewPacket", "closeout"}
  <1>1. CASE name \in {"execution", "executionBatch"}
    <2>1. 1 \in DOMAIN Ensured(name)
      BY <1>1 DEF Ensured, Refs
    <2> QED
      BY <1>1, <2>1
  <1>2. CASE name \in Intelligence
    <2>1. 1 \in DOMAIN Ensured(name)
      BY <1>2 DEF Ensured, Refs, Intelligence
    <2> QED
      BY <1>2, <2>1 DEF Intelligence
  <1>3. CASE name \in {"signals", "seedMappings"}
    <2>1. 1 \in DOMAIN Ensured(name)
      BY <1>3 DEF Ensured, Refs, Intelligence
    <2> QED
      BY <1>3, <2>1
  <1>4. CASE name \in {"actionRequests", "webhookDrain"}
    <2>1. 1 \in DOMAIN Ensured(name)
      BY <1>4 DEF Ensured, Refs, Intelligence
    <2> QED
      BY <1>4, <2>1
  <1>5. CASE name \in {"controlTower", "nativeAudit", "reviewPacket", "closeout"}
    <2>1. Ensured(name) = <<>>
      BY <1>5 DEF Ensured, Intelligence
    <2> QED
      BY <1>5, <2>1
  <1> QED
    BY <1>1, <1>2, <1>3, <1>4, <1>5 DEF Commands, Savers, Recorders, Intelligence

\* A command starts with the config of the file, alone when no other runs.
LEMMA StartKeeps ==
    ASSUME TowerInv, NEW r \in Runners, NEW c \in Asked, StartCommand(r, c)
    PROVE  TowerInv'
  <1> USE DEF TowerInv
  <1> DEFINE loaded == parseLocalPortfolioControlTowerConfig(file)
             phase  == IF c.phase = 0 THEN currentPhase(loaded) ELSE c.phase
             pc     == CASE Ensured(c.name) # <<>> -> "ensure"
                         [] c.name = "controlTower" -> "publish"
                         [] c.name = "closeout" -> "log"
                         [] OTHER -> "record"
             begun  == [name |-> c.name, phase |-> phase, config |-> loaded,
                        alone |-> \A o \in Runners : ~Active(o), pc |-> pc]
  <1>1. /\ c.name \in Commands /\ c.phase \in Nat
    BY ConfigAssumption
  <1>2. /\ UNCHANGED <<file, databases, buildLog, kept, lost>> /\ file # Torn /\ ~Active(r)
        /\ command' = [q \in Runners |->
             IF q = r THEN begun
             ELSE IF Active(q) THEN [command[q] EXCEPT !.alone = FALSE] ELSE command[q]]
    BY DEF StartCommand, Loads
  <1>3. command'[r] = begun
    BY <1>2
  <1>4. \A q \in Runners \ {r} :
            /\ OnItsWay(command[q], buildLog)
            /\ command'[q] = IF Active(q) THEN [command[q] EXCEPT !.alone = FALSE] ELSE command[q]
    BY <1>2 DEF CommandsOnTheirWay
  <1>5. \A q \in Runners \ {r} :
            /\ command'[q].name = command[q].name /\ command'[q].phase = command[q].phase
            /\ command'[q].pc = command[q].pc /\ command'[q].config = command[q].config
            /\ DOMAIN command'[q] = DOMAIN command[q]
            /\ Active(q) => command'[q].alone = FALSE
    BY <1>4 DEF OnItsWay
  <1>6. /\ DOMAIN loaded \subseteq DOMAIN AllSections
        /\ RefsOf(loaded, databases) /\ LadderOf(loaded, buildLog)
        /\ \A d : IsRefPath(databases[d]) /\ HoldsRef(file, d, databases)
                      => HoldsRef(loaded, d, databases)
        /\ DOMAIN loaded = DOMAIN file \cap DOMAIN AllSections
    BY LoadedTrue, Loaded DEF ConfigsTrue
  <1>7. phase \in Nat
    BY <1>1, <1>6 DEF LadderOf
  <1>8. /\ pc # "idle" /\ pc # "save" /\ pc # "end"
        /\ pc = "ensure" => c.name # "closeout"
        /\ pc = "publish" => c.name = "controlTower"
        /\ pc = "log" => c.name = "closeout"
        /\ pc = "record" => c.name \in Recorders /\ c.name # "closeout"
    BY <1>1, EnsuredNames DEF Recorders
  <1> HIDE DEF loaded, phase, pc
  <1>9. OnItsWay(begun, buildLog)
    BY <1>7, <1>8 DEF OnItsWay
  <1>10. /\ begun.config = loaded /\ begun.pc = pc
         /\ begun.alone = (\A o \in Runners : ~Active(o))
    OBVIOUS
  <1> HIDE DEF begun
  <1>11. CommandsOnTheirWay'
    <2>1. \A q \in Runners \ {r} : OnItsWay(command'[q], buildLog)
      BY <1>4, <1>5, ZenonT(60) DEF OnItsWay
    <2>2. OnItsWay(command'[r], buildLog)
      BY <1>3, <1>9
    <2>3. command' = [q \in Runners |-> command'[q]]
      BY <1>2
    <2> QED
      BY <1>2, <2>1, <2>2, <2>3 DEF CommandsOnTheirWay
  <1>12. DatabasesHavePaths'
    BY <1>2 DEF DatabasesHavePaths
  <1>13. ConfigsTrue'
    BY <1>2, <1>3, <1>5, <1>6, <1>10 DEF ConfigsTrue
  <1>14. KeptKnown'
    BY <1>2 DEF KeptKnown, NothingForgotten
  <1>15. AloneIsCurrent'
    <2>1. \A q \in Runners \ {r} : command'[q].pc = command[q].pc
      BY <1>5
    <2>2. ASSUME command'[r].alone
          PROVE  /\ \A q \in Runners \ {r} : command'[q].pc = "idle"
                 /\ kept \subseteq DOMAIN loaded
                 /\ \A d \in DOMAIN databases :
                       HoldsRef(file, d, databases) => HoldsRef(loaded, d, databases)
      <3>1. \A o \in Runners : ~Active(o)
        BY <1>3, <1>10, <2>2
      <3>2. \A q \in Runners \ {r} : command'[q].pc = "idle"
        BY <2>1, <3>1 DEF Active
      <3>3. kept \subseteq DOMAIN loaded
        BY <1>2, <1>6 DEF KeptKnown, NothingForgotten
      <3> QED
        BY <1>6, <3>2, <3>3 DEF DatabasesHavePaths
    <2>3. \A q \in Runners \ {r} : command'[q].pc # "idle" => command'[q].alone = FALSE
      BY <1>5 DEF Active
    <2> QED
      BY <1>2, <1>3, <1>10, <2>2, <2>3 DEF AloneIsCurrent, Active
  <1>16. DatabasesHeld'
    <2>1. \A q \in Runners : command[q].config # command'[q].config => q = r
      BY <1>5
    <2>2. command[r].config = Torn
      BY <1>2 DEF CommandsOnTheirWay, OnItsWay, Active
    <2>3. \A d : ~HoldsRef(Torn, d, databases)
      <3>1. DOMAIN Torn = {}
        BY DEF Torn
      <3> QED
        BY <3>1 DEF HoldsRef
    <2> QED
      BY <1>2, <2>1, <2>2, <2>3 DEF DatabasesHeld
  <1> QED
    BY <1>11, <1>12, <1>13, <1>14, <1>15, <1>16

\* Only the record of r changes.
OnlyOf(r, x) == command' = [command EXCEPT ![r] = x]

\* What the others make of a step in which only r's record changes.
LEMMA OthersStay ==
    ASSUME CommandsOnTheirWay, NEW r \in Runners, NEW x, OnlyOf(r, x)
    PROVE  /\ command'[r] = x /\ \A q \in Runners \ {r} : command'[q] = command[q]
           /\ command' = [q \in Runners |-> command'[q]]
  BY DEF CommandsOnTheirWay, OnlyOf

\* A step of the active command r that leaves the others, and the databases, as
\* they are, and loses no database that the file or r held.
LEMMA StepOfOne ==
    ASSUME TowerInv, NEW r \in Runners, Active(r), NEW x, OnlyOf(r, x),
           UNCHANGED databases, buildLog \subseteq buildLog',
           OnItsWay(x, buildLog'), DOMAIN x.config \subseteq DOMAIN AllSections,
           RefsOf(x.config, databases), LadderOf(x.config, buildLog'),
           RefsOf(file', databases), LadderOf(file', buildLog'), KeptKnown',
           x.pc # "idle" /\ x.alone =>
               /\ command[r].alone /\ kept' \subseteq DOMAIN x.config
               /\ \A d \in DOMAIN databases :
                      HoldsRef(file', d, databases) => HoldsRef(x.config, d, databases),
           \A d \in DOMAIN databases :
               d \in lost \/ HoldsRef(file, d, databases)
                          \/ HoldsRef(command[r].config, d, databases)
               => d \in lost' \/ HoldsRef(file', d, databases) \/ HoldsRef(x.config, d, databases)
    PROVE  TowerInv'
  <1>1. /\ command'[r] = x /\ \A q \in Runners \ {r} : command'[q] = command[q]
        /\ command' = [q \in Runners |-> command'[q]]
    BY OthersStay DEF TowerInv
  <1>2. CommandsOnTheirWay'
    <2>1. \A q \in Runners : OnItsWay(command[q], buildLog)
      BY DEF TowerInv, CommandsOnTheirWay
    <2>2. \A q \in Runners \ {r} : OnItsWay(command[q], buildLog')
      BY <2>1 DEF OnItsWay
    <2>3. \A q \in Runners : OnItsWay(command'[q], buildLog')
      BY <1>1, <2>2
    <2> QED
      BY <1>1, <2>3 DEF CommandsOnTheirWay
  <1>3. DatabasesHavePaths'
    BY DEF TowerInv, DatabasesHavePaths
  <1>4. ConfigsTrue'
    <2>1. \A c : LadderOf(c, buildLog) => LadderOf(c, buildLog')
      BY DEF LadderOf
    <2>2. \A q \in Runners \ {r} :
              /\ DOMAIN command[q].config \subseteq DOMAIN AllSections
              /\ RefsOf(command[q].config, databases)
              /\ LadderOf(command[q].config, buildLog')
      BY <2>1 DEF TowerInv, ConfigsTrue
    <2>3. \A q \in Runners :
              /\ DOMAIN command'[q].config \subseteq DOMAIN AllSections
              /\ RefsOf(command'[q].config, databases)
              /\ LadderOf(command'[q].config, buildLog')
      BY <1>1, <2>2
    <2> QED
      BY <2>3 DEF ConfigsTrue
  <1>5. AloneIsCurrent'
    <2>1. \A q \in Runners \ {r} : ~(command[q].pc # "idle" /\ command[q].alone)
      BY DEF TowerInv, AloneIsCurrent, Active
    <2>2. ASSUME x.pc # "idle", x.alone
          PROVE  \A q \in Runners \ {r} : command[q].pc = "idle"
      BY <2>2 DEF TowerInv, AloneIsCurrent, Active
    <2> QED
      BY <1>1, <2>1, <2>2 DEF AloneIsCurrent, Active
  <1>6. DatabasesHeld'
    <2>1. ASSUME NEW d \in DOMAIN databases
          PROVE  \/ d \in lost' \/ HoldsRef(file', d, databases)
                 \/ \E q \in Runners : HoldsRef(command'[q].config, d, databases)
      <3>1. \/ d \in lost \/ HoldsRef(file, d, databases)
            \/ \E q \in Runners : HoldsRef(command[q].config, d, databases)
        BY DEF TowerInv, DatabasesHeld
      <3>2. CASE \E q \in Runners \ {r} : HoldsRef(command[q].config, d, databases)
        BY <1>1, <3>2
      <3>3. CASE d \in lost \/ HoldsRef(file, d, databases)
                 \/ HoldsRef(command[r].config, d, databases)
        BY <1>1, <3>3
      <3> QED
        BY <3>1, <3>2, <3>3
    <2> QED
      BY <2>1 DEF DatabasesHeld
  <1> QED
    BY <1>2, <1>3, <1>4, <1>5, <1>6 DEF TowerInv

\* A command that has not started holds nothing.
LEMMA UnstartedHolds ==
    /\ DOMAIN Unstarted.config = {} /\ \A L : OnItsWay(Unstarted, L) /\ LadderOf(Unstarted.config, L)
    /\ \A made : RefsOf(Unstarted.config, made)
    /\ Unstarted.pc = "idle"
  <1>1. Unstarted.config = Torn /\ DOMAIN Torn = {} /\ Unstarted.pc = "idle"
    BY DEF Unstarted, Torn
  <1>2. currentPhase(Torn) = 0 /\ lastClosedPhase(Torn) = 0
    BY <1>1 DEF currentPhase, lastClosedPhase, NumberAt
  <1>3. \A L : OnItsWay(Unstarted, L)
    BY DEF OnItsWay, Unstarted
  <1> QED
    BY <1>1, <1>2, <1>3 DEF RefsOf, LadderOf

\* A command that ends: what the file held and what it held itself is lost, or in
\* the file.
LEMMA EndOfOne ==
    ASSUME TowerInv, NEW r \in Runners, Active(r), GoesTo(r, "idle"),
           UNCHANGED <<databases, buildLog>>,
           RefsOf(file', databases), LadderOf(file', buildLog), KeptKnown',
           \A d \in DOMAIN databases :
               d \in lost \/ HoldsRef(file, d, databases)
                          \/ HoldsRef(command[r].config, d, databases)
               => d \in lost' \/ HoldsRef(file', d, databases)
    PROVE  TowerInv'
  <1>1. OnlyOf(r, Unstarted)
    BY DEF GoesTo, OnlyOf
  <1>2. buildLog \subseteq buildLog' /\ LadderOf(file', buildLog')
    OBVIOUS
  <1>3. OnItsWay(Unstarted, buildLog') /\ LadderOf(Unstarted.config, buildLog')
    BY UnstartedHolds
  <1> QED
    BY <1>1, <1>2, <1>3, UnstartedHolds, StepOfOne

\* Naming a database and holding it at its path are the same.
LEMMA RefNamed ==
    ASSUME NEW c, NEW made, NEW S, made \in Seq(S), NEW d \in DOMAIN made
    PROVE  /\ HoldsRef(c, d, made) => d \in Named(c)
           /\ RefsOf(c, made) /\ d \in Named(c) => HoldsRef(c, d, made)
  <1>1. d # 0
    OBVIOUS
  <1>2. ASSUME HoldsRef(c, d, made) PROVE d \in Named(c)
    BY <1>1, <1>2 DEF HoldsRef, Named
  <1>3. ASSUME RefsOf(c, made), d \in Named(c) PROVE HoldsRef(c, d, made)
    <2>1. PICK p \in DOMAIN c : c[p][1] = "ref" /\ c[p][2] = d
      BY <1>3 DEF Named
    <2>2. made[d] = p
      BY <1>1, <1>3, <2>1 DEF RefsOf
    <2> QED
      BY <2>1, <2>2 DEF HoldsRef
  <1> QED
    BY <1>2, <1>3

\* A command that ends without a save loses what only it held.
LEMMA Unsaved ==
    ASSUME TowerInv, NEW r \in Runners
    PROVE  \A d \in DOMAIN databases :
               d \in lost \/ HoldsRef(file, d, databases)
                          \/ HoldsRef(command[r].config, d, databases)
               => d \in Dropped(r) \/ HoldsRef(file, d, databases)
  <1> SUFFICES ASSUME NEW d \in DOMAIN databases, HoldsRef(command[r].config, d, databases)
               PROVE  d \in Dropped(r) \/ HoldsRef(file, d, databases)
    BY DEF Dropped
  <1>1. PICK S : databases \in Seq(S)
    BY DEF TowerInv, DatabasesHavePaths
  <1>2. d \in Named(command[r].config)
    BY <1>1, RefNamed
  <1>3. RefsOf(file, databases)
    BY DEF TowerInv, ConfigsTrue
  <1>4. d \in Named(file) => HoldsRef(file, d, databases)
    BY <1>1, <1>3, RefNamed
  <1> QED
    BY <1>2, <1>4 DEF Dropped

LEMMA EndUnsavedKeeps ==
    ASSUME TowerInv, NEW r \in Runners, EndUnsaved(r)
    PROVE  TowerInv'
  <1>1. /\ UNCHANGED <<file, databases, buildLog, kept>> /\ lost' = Dropped(r)
        /\ GoesTo(r, "idle") /\ Active(r)
    BY DEF EndUnsaved, Active
  <1>2. RefsOf(file', databases) /\ LadderOf(file', buildLog) /\ KeptKnown'
    BY <1>1 DEF TowerInv, ConfigsTrue, KeptKnown, NothingForgotten
  <1>3. \A d \in DOMAIN databases :
               d \in lost \/ HoldsRef(file, d, databases)
                          \/ HoldsRef(command[r].config, d, databases)
               => d \in lost' \/ HoldsRef(file', d, databases)
    BY <1>1, Unsaved
  <1> QED
    BY <1>1, <1>2, <1>3, EndOfOne

\* A command killed before or in a write; a torn file loses every database.
LEMMA CrashKeeps ==
    ASSUME TowerInv, NEW r \in Runners, Killed(r)
    PROVE  TowerInv'
  <1>1. /\ UNCHANGED <<databases, buildLog>> /\ GoesTo(r, "idle") /\ Active(r)
    BY DEF Killed
  <1>2. CASE lost' = Dropped(r) /\ UNCHANGED <<file, kept>>
    <2>1. RefsOf(file', databases) /\ LadderOf(file', buildLog) /\ KeptKnown'
      BY <1>2 DEF TowerInv, ConfigsTrue, KeptKnown, NothingForgotten
    <2>2. \A d \in DOMAIN databases :
               d \in lost \/ HoldsRef(file, d, databases)
                          \/ HoldsRef(command[r].config, d, databases)
               => d \in lost' \/ HoldsRef(file', d, databases)
      BY <1>2, Unsaved
    <2> QED
      BY <1>1, <2>1, <2>2, EndOfOne
  <1>3. CASE file' = Torn /\ kept' = {} /\ lost' = lost \cup DOMAIN databases
    <2>1. RefsOf(Torn, databases) /\ LadderOf(Torn, buildLog)
      BY UnstartedHolds DEF Unstarted
    <2>2. KeptKnown'
      BY <1>3 DEF KeptKnown, NothingForgotten
    <2> QED
      BY <1>1, <1>3, <2>1, <2>2, EndOfOne
  <1> QED
    BY <1>2, <1>3 DEF Killed

\* A command that goes on with a config grown from the one it had.
LEMMA GoesOn ==
    ASSUME TowerInv, NEW r \in Runners, Active(r), NEW e, NEW pc,
           OnlyOf(r, [command[r] EXCEPT !.config = e, !.pc = pc]),
           UNCHANGED <<file, databases, kept, lost>>, buildLog \subseteq buildLog',
           Grown(command[r].config, e, Ladder),
           OnItsWay([command[r] EXCEPT !.config = e, !.pc = pc], buildLog')
    PROVE  TowerInv'
  <1> DEFINE c == command[r].config
             x == [command[r] EXCEPT !.config = e, !.pc = pc]
  <1>1. OnItsWay(command[r], buildLog)
    BY DEF TowerInv, CommandsOnTheirWay
  <1>2. x.config = e /\ x.pc = pc /\ x.alone = command[r].alone
    BY <1>1 DEF OnItsWay
  <1>3. /\ DOMAIN c \subseteq DOMAIN AllSections /\ RefsOf(c, databases)
        /\ LadderOf(c, buildLog) /\ RefsOf(file, databases) /\ LadderOf(file, buildLog)
    BY DEF TowerInv, ConfigsTrue
  <1>4. /\ RefsOf(e, databases) /\ DOMAIN e \subseteq DOMAIN AllSections
        /\ DOMAIN c \subseteq DOMAIN e
    BY <1>3, RefsGrown
  <1>5. \A f : LadderOf(f, buildLog) => LadderOf(f, buildLog')
    BY DEF LadderOf
  <1>6. LadderOf(e, buildLog') /\ LadderOf(file', buildLog')
    BY <1>3, <1>5, LadderGrown
  <1>7. \A d \in DOMAIN databases : HoldsRef(c, d, databases) => HoldsRef(e, d, databases)
    BY RefGrown DEF TowerInv, DatabasesHavePaths
  <1>8. KeptKnown' /\ RefsOf(file', databases)
    BY <1>3 DEF TowerInv, KeptKnown, NothingForgotten
  <1>9. x.pc # "idle" /\ x.alone =>
            /\ command[r].alone /\ kept' \subseteq DOMAIN x.config
            /\ \A d \in DOMAIN databases :
                   HoldsRef(file', d, databases) => HoldsRef(x.config, d, databases)
    <2>1. Active(r) /\ command[r].alone =>
              /\ kept \subseteq DOMAIN c
              /\ \A d \in DOMAIN databases :
                     HoldsRef(file, d, databases) => HoldsRef(c, d, databases)
      BY DEF TowerInv, AloneIsCurrent
    <2> QED
      BY <1>2, <1>4, <1>7, <2>1
  <1>10. \A d \in DOMAIN databases :
               d \in lost \/ HoldsRef(file, d, databases)
                          \/ HoldsRef(command[r].config, d, databases)
               => d \in lost' \/ HoldsRef(file', d, databases) \/ HoldsRef(x.config, d, databases)
    BY <1>2, <1>7
  <1>11. /\ DOMAIN x.config \subseteq DOMAIN AllSections
         /\ RefsOf(x.config, databases) /\ LadderOf(x.config, buildLog')
         /\ OnItsWay(x, buildLog') /\ OnlyOf(r, x)
    BY <1>2, <1>4, <1>6
  <1> HIDE DEF x
  <1> QED
    BY <1>6, <1>8, <1>9, <1>10, <1>11, StepOfOne

LEMMA CompleteKeeps ==
    ASSUME TowerInv, NEW r \in Runners, Complete(r)
    PROVE  TowerInv'
  <1> DEFINE c  == command[r].config
             pc == IF command[r].name \in Savers THEN "save" ELSE "end"
             e  == Filled(command[r].name, c)
             x  == [command[r] EXCEPT !.config = e, !.pc = pc]
  <1>1. OnItsWay(command[r], buildLog) /\ DOMAIN command = Runners
    BY DEF TowerInv, CommandsOnTheirWay
  <1>2. command[r].pc = "ensure" /\ Active(r)
    BY DEF Complete, Active
  <1>3. OnlyOf(r, x)
    <2>1. command' = [command EXCEPT ![r].config = e, ![r].pc = pc]
      BY DEF Complete
    <2> HIDE DEF e, pc
    <2> QED
      BY <1>1, <2>1 DEF OnlyOf
  <1>4. UNCHANGED <<file, databases, buildLog, kept, lost>>
    BY DEF Complete
  <1>5. Grown(c, e, Ladder)
    BY FilledGrown
  <1>6. OnItsWay(x, buildLog)
    <2> HIDE DEF e
    <2> QED
      BY <1>1, <1>2 DEF OnItsWay
  <1> HIDE DEF e, pc
  <1> QED
    BY <1>2, <1>3, <1>4, <1>5, <1>6, GoesOn

\* The page of the command center is no reference, and not on the ladder.
LEMMA PublishKeeps ==
    ASSUME TowerInv, NEW r \in Runners, PublishCommandCenter(r)
    PROVE  TowerInv'
  <1> DEFINE c == command[r].config
             x(e) == [command[r] EXCEPT !.config = e, !.pc = "record"]
  <1>1. OnItsWay(command[r], buildLog) /\ DOMAIN command = Runners
    BY DEF TowerInv, CommandsOnTheirWay
  <1>2. command[r].pc = "publish" /\ Active(r) /\ UNCHANGED <<file, databases, buildLog, kept, lost>>
    BY DEF PublishCommandCenter, Active
  <1>3. \A e : OnItsWay(x(e), buildLog)
    BY <1>1, <1>2 DEF OnItsWay, Recorders
  <1>4. PICK e : OnlyOf(r, x(e)) /\ Grown(c, e, Ladder)
    <2>1. CASE command' = [command EXCEPT ![r].pc = "record",
                                          ![r].config = Published(c, centers')]
      <3> DEFINE e == Published(c, centers')
      <3>1. Grown(c, e, Ladder)
        BY PhaseFit, FitGrown DEF Published
      <3> HIDE DEF e
      <3>2. OnlyOf(r, x(e))
        <4>1. command' = [command EXCEPT ![r].pc = "record", ![r].config = e]
          BY <2>1 DEF e
        <4> QED
          BY <1>1, <4>1 DEF OnlyOf
      <3> QED
        BY <3>1, <3>2
    <2>2. CASE GoesTo(r, "record")
      <3>1. OnlyOf(r, x(c))
        BY <1>1, <2>2 DEF OnlyOf, GoesTo, OnItsWay
      <3> QED
        BY <3>1, GrownSame
    <2> QED
      BY <2>1, <2>2 DEF PublishCommandCenter
  <1> QED
    BY <1>2, <1>3, <1>4, GoesOn

\* The closeout page is in the Build Log before its phase is recorded.
LEMMA LogKeeps ==
    ASSUME TowerInv, NEW r \in Runners, LogCloseout(r)
    PROVE  TowerInv'
  <1> DEFINE c == command[r].config
             x == [command[r] EXCEPT !.config = c, !.pc = "record"]
  <1>1. OnItsWay(command[r], buildLog) /\ DOMAIN command = Runners
    BY DEF TowerInv, CommandsOnTheirWay
  <1>2. /\ command[r].pc = "log" /\ Active(r) /\ UNCHANGED <<file, databases, kept, lost>>
        /\ buildLog' = buildLog \cup {command[r].phase} /\ GoesTo(r, "record")
    BY DEF LogCloseout, Active
  <1>3. OnItsWay(x, buildLog')
    BY <1>1, <1>2 DEF OnItsWay, Recorders
  <1>4. OnlyOf(r, x)
    BY <1>1, <1>2 DEF OnlyOf, GoesTo, OnItsWay
  <1>5. Grown(c, c, Ladder) /\ buildLog \subseteq buildLog'
    BY <1>2, GrownSame
  <1> QED
    BY <1>2, <1>3, <1>4, <1>5, GoesOn

\* What a save does with the databases, and with what is kept.
LEMMA SaveKeeps ==
    ASSUME TowerInv, NEW r \in Runners, Active(r), NEW e, NEW L, SaveWhole(r, e),
           Grown(command[r].config, e, L)
    PROVE  /\ RefsOf(e, databases) /\ DOMAIN e \subseteq DOMAIN AllSections
           /\ KeptKnown'
           /\ \A d \in DOMAIN databases :
                  d \in lost \/ HoldsRef(file, d, databases)
                             \/ HoldsRef(command[r].config, d, databases)
                  => d \in lost' \/ HoldsRef(e, d, databases)
           /\ kept' \subseteq DOMAIN e
  <1> DEFINE c == command[r].config
  <1>1. DOMAIN c \subseteq DOMAIN AllSections /\ RefsOf(c, databases)
    BY DEF TowerInv, ConfigsTrue
  <1>2. /\ RefsOf(e, databases) /\ DOMAIN e \subseteq DOMAIN AllSections
        /\ DOMAIN c \subseteq DOMAIN e
    BY <1>1, RefsGrown
  <1>3. \A d \in DOMAIN databases : HoldsRef(c, d, databases) => HoldsRef(e, d, databases)
    BY RefGrown DEF TowerInv, DatabasesHavePaths
  <1>4. /\ file' = e
        /\ kept' = (IF command[r].alone THEN kept ELSE {}) \cup DOMAIN e
        /\ lost' = lost \cup (IF command[r].alone THEN {} ELSE Named(file) \ Named(e))
    BY DEF SaveWhole
  <1>5. command[r].alone => /\ kept \subseteq DOMAIN c
                            /\ \A d \in DOMAIN databases :
                                  HoldsRef(file, d, databases) => HoldsRef(c, d, databases)
    BY DEF TowerInv, AloneIsCurrent
  <1>6. kept' \subseteq DOMAIN e
    BY <1>2, <1>4, <1>5
  <1>7. KeptKnown'
    BY <1>2, <1>4, <1>6 DEF KeptKnown, NothingForgotten
  <1>8. \A d \in DOMAIN databases :
            HoldsRef(file, d, databases) => d \in lost' \/ HoldsRef(e, d, databases)
    <2> SUFFICES ASSUME NEW d \in DOMAIN databases, HoldsRef(file, d, databases)
                 PROVE  d \in lost' \/ HoldsRef(e, d, databases)
      OBVIOUS
    <2>1. CASE command[r].alone
      BY <1>3, <1>5, <2>1
    <2>2. CASE ~command[r].alone
      <3>1. PICK S : databases \in Seq(S)
        BY DEF TowerInv, DatabasesHavePaths
      <3>2. d \in Named(file)
        BY <3>1, RefNamed
      <3>3. d \in Named(e) => HoldsRef(e, d, databases)
        BY <1>2, <3>1, RefNamed
      <3> QED
        BY <1>4, <2>2, <3>2, <3>3
    <2> QED
      BY <2>1, <2>2
  <1>9. lost \subseteq lost'
    BY <1>4
  <1> QED
    BY <1>2, <1>3, <1>6, <1>7, <1>8, <1>9

LEMMA SaveSchemaKeeps ==
    ASSUME TowerInv, NEW r \in Runners, SaveSchema(r)
    PROVE  TowerInv'
  <1> DEFINE c == command[r].config
  <1>1. OnItsWay(command[r], buildLog) /\ DOMAIN command = Runners
    BY DEF TowerInv, CommandsOnTheirWay
  <1>2. /\ command[r].pc = "save" /\ Active(r) /\ SaveWhole(r, c) /\ UNCHANGED <<databases, buildLog>>
        /\ GoesTo(r, IF command[r].name \in Recorders THEN "record" ELSE "idle")
        /\ file' = c
    BY DEF SaveSchema, Active, SaveWhole
  <1>3. RefsOf(c, databases) /\ LadderOf(c, buildLog)
    BY DEF TowerInv, ConfigsTrue
  <1>4. /\ DOMAIN c \subseteq DOMAIN AllSections /\ KeptKnown'
        /\ \A d \in DOMAIN databases :
               d \in lost \/ HoldsRef(file, d, databases) \/ HoldsRef(c, d, databases)
               => d \in lost' \/ HoldsRef(c, d, databases)
        /\ kept' \subseteq DOMAIN c
    <2>1. Grown(c, c, Ladder)
      BY GrownSame
    <2> QED
      BY <1>2, <2>1, SaveKeeps
  <1>5. CASE command[r].name \in Recorders
    <2> DEFINE x == [command[r] EXCEPT !.pc = "record"]
    <2>1. OnItsWay(x, buildLog)
      BY <1>1, <1>2, <1>5 DEF OnItsWay
    <2>2. OnlyOf(r, x)
      BY <1>2, <1>5 DEF OnlyOf, GoesTo
    <2>3. x.config = c /\ x.alone = command[r].alone
      BY <1>1 DEF OnItsWay
    <2> HIDE DEF x
    <2>4. /\ OnItsWay(x, buildLog') /\ LadderOf(x.config, buildLog')
          /\ RefsOf(file', databases) /\ LadderOf(file', buildLog')
          /\ buildLog \subseteq buildLog'
      BY <1>2, <1>3, <2>1, <2>3
    <2>5. x.pc # "idle" /\ x.alone =>
            /\ command[r].alone /\ kept' \subseteq DOMAIN x.config
            /\ \A d \in DOMAIN databases :
                   HoldsRef(file', d, databases) => HoldsRef(x.config, d, databases)
      BY <1>2, <1>4, <2>3
    <2>6. \A d \in DOMAIN databases :
             d \in lost \/ HoldsRef(file, d, databases)
                        \/ HoldsRef(command[r].config, d, databases)
             => d \in lost' \/ HoldsRef(file', d, databases) \/ HoldsRef(x.config, d, databases)
      BY <1>2, <1>4
    <2> QED
      BY <1>2, <1>3, <1>4, <2>2, <2>3, <2>4, <2>5, <2>6, StepOfOne
  <1>6. CASE command[r].name \notin Recorders
    <2>1. /\ GoesTo(r, "idle") /\ RefsOf(file', databases) /\ LadderOf(file', buildLog')
      BY <1>2, <1>3, <1>6
    <2>2. \A d \in DOMAIN databases :
             d \in lost \/ HoldsRef(file, d, databases)
                        \/ HoldsRef(command[r].config, d, databases)
             => d \in lost' \/ HoldsRef(file', d, databases)
      BY <1>2, <1>4
    <2> QED
      BY <1>2, <1>4, <2>1, <2>2, EndOfOne
  <1> QED
    BY <1>5, <1>6

\* The record at the end of a command.
LEMMA SaveRecordKeeps ==
    ASSUME TowerInv, NEW r \in Runners, SaveRecord(r)
    PROVE  TowerInv'
  <1> DEFINE c == command[r].config
  <1>1. OnItsWay(command[r], buildLog)
    BY DEF TowerInv, CommandsOnTheirWay
  <1>2. PICK metrics \in {"metrics", "noMetrics"} : SaveWhole(r, Final(r, metrics))
    BY DEF SaveRecord
  <1>3. /\ command[r].pc = "record" /\ Active(r) /\ UNCHANGED <<databases, buildLog>>
        /\ GoesTo(r, "idle") /\ file' = Final(r, metrics)
    BY <1>2 DEF SaveRecord, Active, SaveWhole
  <1>4. LadderOf(c, buildLog)
    BY DEF TowerInv, ConfigsTrue
  <1>5. command[r].name \in Recorders
    BY <1>1, <1>3 DEF OnItsWay
  <1>6. \E L : Grown(c, Final(r, metrics), L) /\ LadderOf(Final(r, metrics), buildLog)
    <2>1. CASE command[r].name = "closeout"
      <3>1. command[r].phase \in Nat /\ command[r].phase \in buildLog
        BY <1>1, <1>3, <2>1 DEF OnItsWay
      <3>2. Final(r, metrics) = Closed(c, command[r].phase)
        BY <2>1 DEF Final
      <3> QED
        BY <1>4, <3>1, <3>2, ClosedGrown, ClosedTrue
    <2>2. CASE command[r].name # "closeout"
      <3>1. Grown(c, Final(r, metrics), Ladder)
        BY <1>5, <2>2, FinalGrown
      <3> QED
        BY <1>4, <3>1, LadderGrown
    <2> QED
      BY <2>1, <2>2
  <1>7. /\ RefsOf(Final(r, metrics), databases) /\ KeptKnown'
        /\ \A d \in DOMAIN databases :
               d \in lost \/ HoldsRef(file, d, databases) \/ HoldsRef(c, d, databases)
               => d \in lost' \/ HoldsRef(Final(r, metrics), d, databases)
    BY <1>2, <1>3, <1>6, SaveKeeps
  <1>8. /\ RefsOf(file', databases) /\ LadderOf(file', buildLog')
        /\ \A d \in DOMAIN databases :
               d \in lost \/ HoldsRef(file, d, databases) \/ HoldsRef(c, d, databases)
               => d \in lost' \/ HoldsRef(file', d, databases)
    BY <1>3, <1>6, <1>7
  <1> QED
    BY <1>3, <1>7, <1>8, EndOfOne

\* A new database has a number no reference has, and its path had none.
LEMMA CreateKeeps ==
    ASSUME TowerInv, NEW r \in Runners, CreateDatabase(r)
    PROVE  TowerInv'
  <1> DEFINE c    == command[r].config
             name == command[r].name
             gaps == Missing(name, c)
             gap  == CHOOSE i \in gaps : \A j \in gaps : i <= j
             path == Ensured(name)[gap]
             new  == Len(databases) + 1
             one  == [p \in {path} |-> <<"ref", new>>]
             e    == one ++ c
             x    == [command[r] EXCEPT !.config = e]
  <1>1. OnItsWay(command[r], buildLog) /\ DOMAIN command = Runners
    BY DEF TowerInv, CommandsOnTheirWay
  <1>2. PICK S : databases \in Seq(S)
    BY DEF TowerInv, DatabasesHavePaths
  <1>3. gap \in gaps
    <2>1. gaps \in SUBSET (1 .. 5) /\ gaps # {}
      BY EnsuredAtMostFive DEF Missing, CreateDatabase
    <2> HIDE DEF gaps
    <2> QED
      BY <2>1, FirstGap
  <1>4. IsRefPath(path) /\ ensureDataSourceRef(c, path)
    BY <1>3, EnsuredPaths, SMTT(60) DEF Missing
  <1>5. path \in DOMAIN c => c[path][1] # "ref"
    BY <1>4 DEF ensureDataSourceRef, ClassAt
  <1>6. databases' = Append(databases, path)
    BY DEF CreateDatabase
  <1>7. new \in Nat /\ new # 0 /\ new \notin DOMAIN databases /\ Len(databases') = new
    BY <1>2, <1>6
  <1>8. /\ command[r].pc = "ensure" /\ Active(r) /\ UNCHANGED <<file, buildLog, kept, lost>>
        /\ command' = [command EXCEPT ![r].config = e]
    BY <1>7 DEF CreateDatabase, Active
  <1> HIDE DEF path, new
  <1>9. DOMAIN databases' = DOMAIN databases \cup {new} /\ databases'[new] = path
        /\ \A d \in DOMAIN databases : databases'[d] = databases[d]
    BY <1>2, <1>6 DEF new
  <1>10. /\ DOMAIN e = DOMAIN c \cup {path} /\ e[path] = <<"ref", new>>
         /\ \A p \in DOMAIN c : p # path => e[p] = c[p]
    BY Over
  <1> HIDE DEF e
  <1>11. x.config = e /\ x.alone = command[r].alone /\ x.pc = "ensure" /\ OnItsWay(x, buildLog)
    BY <1>1, <1>8 DEF OnItsWay
  <1>12. command'[r] = x /\ \A q \in Runners \ {r} : command'[q] = command[q]
    BY <1>1, <1>8
  <1>13. command' = [q \in Runners |-> command'[q]]
    BY <1>1, <1>8 DEF TowerInv, CommandsOnTheirWay
  <1> HIDE DEF x
  <1>14. CommandsOnTheirWay'
    BY <1>8, <1>11, <1>12, <1>13 DEF TowerInv, CommandsOnTheirWay
  <1>15. DatabasesHavePaths'
    <2>1. databases' \in Seq(S \cup {path})
      BY <1>2, <1>6
    <2> QED
      BY <1>4, <1>9, <2>1 DEF TowerInv, DatabasesHavePaths
  <1>16. \A f : RefsOf(f, databases) => RefsOf(f, databases')
    BY <1>9 DEF RefsOf
  <1>17. RefsOf(e, databases')
    <2>1. RefsOf(c, databases')
      BY <1>16 DEF TowerInv, ConfigsTrue
    <2> QED
      BY <1>7, <1>9, <1>10, <2>1 DEF RefsOf
  <1>18. LadderOf(e, buildLog)
    <2>1. path \notin Ladder
      BY <1>4 DEF IsRefPath, Ladder
    <2>2. \A p \in Ladder : NumberAt(e, p) = NumberAt(c, p)
      BY <1>10, <2>1 DEF NumberAt
    <2>3. currentPhase(e) = currentPhase(c) /\ lastClosedPhase(e) = lastClosedPhase(c)
      BY <2>2 DEF currentPhase, lastClosedPhase, Ladder
    <2> QED
      BY <2>3 DEF TowerInv, ConfigsTrue, LadderOf
  <1>19. ConfigsTrue'
    <2>1. DOMAIN e \subseteq DOMAIN AllSections
      BY <1>4, <1>10 DEF TowerInv, ConfigsTrue, IsRefPath
    <2>2. \A q \in Runners \ {r} : /\ DOMAIN command'[q].config \subseteq DOMAIN AllSections
                                   /\ RefsOf(command'[q].config, databases')
                                   /\ LadderOf(command'[q].config, buildLog')
      BY <1>8, <1>12, <1>16 DEF TowerInv, ConfigsTrue
    <2>3. RefsOf(file', databases') /\ LadderOf(file', buildLog')
      BY <1>8, <1>16 DEF TowerInv, ConfigsTrue
    <2>4. /\ DOMAIN command'[r].config \subseteq DOMAIN AllSections
          /\ RefsOf(command'[r].config, databases') /\ LadderOf(command'[r].config, buildLog')
      BY <1>8, <1>11, <1>12, <1>17, <1>18, <2>1
    <2> QED
      BY <2>2, <2>3, <2>4 DEF ConfigsTrue
  <1>20. KeptKnown'
    BY <1>8 DEF TowerInv, KeptKnown, NothingForgotten
  <1>21. \A f : \A d \in DOMAIN databases : HoldsRef(f, d, databases) <=> HoldsRef(f, d, databases')
    BY <1>9 DEF HoldsRef
  <1>22. \A d \in DOMAIN databases : HoldsRef(c, d, databases) => HoldsRef(e, d, databases)
    BY <1>5, <1>10 DEF HoldsRef
  <1>23. HoldsRef(e, new, databases')
    BY <1>9, <1>10 DEF HoldsRef
  <1>24. ~HoldsRef(file, new, databases')
    BY <1>7 DEF TowerInv, ConfigsTrue, RefsOf, HoldsRef
  <1>25. AloneIsCurrent'
    <2>1. \A q \in Runners \ {r} : ~(command[q].pc # "idle" /\ command[q].alone)
      BY <1>8 DEF TowerInv, AloneIsCurrent, Active
    <2>2. command[r].alone =>
              /\ \A q \in Runners \ {r} : command[q].pc = "idle"
              /\ kept \subseteq DOMAIN c
              /\ \A d \in DOMAIN databases :
                    HoldsRef(file, d, databases) => HoldsRef(c, d, databases)
      BY <1>8 DEF TowerInv, AloneIsCurrent, Active
    <2>3. command[r].alone =>
              /\ kept' \subseteq DOMAIN e
              /\ \A d \in DOMAIN databases' :
                    HoldsRef(file', d, databases') => HoldsRef(e, d, databases')
      BY <1>8, <1>9, <1>10, <1>21, <1>22, <1>24, <2>2
    <2> QED
      BY <1>11, <1>12, <2>1, <2>2, <2>3 DEF AloneIsCurrent, Active
  <1>26. DatabasesHeld'
    <2>1. ASSUME NEW d \in DOMAIN databases
          PROVE  \/ d \in lost \/ HoldsRef(file, d, databases')
                 \/ \E q \in Runners : HoldsRef(command'[q].config, d, databases')
      <3>1. \/ d \in lost \/ HoldsRef(file, d, databases)
            \/ \E q \in Runners : HoldsRef(command[q].config, d, databases)
        BY DEF TowerInv, DatabasesHeld
      <3>2. CASE \E q \in Runners : HoldsRef(command[q].config, d, databases)
        <4>1. PICK q \in Runners : HoldsRef(command[q].config, d, databases)
          BY <3>2
        <4>2. HoldsRef(command'[q].config, d, databases)
          BY <1>11, <1>12, <1>22, <4>1
        <4> QED
          BY <1>21, <4>2
      <3> QED
        BY <1>21, <3>1, <3>2
    <2>2. HoldsRef(command'[r].config, new, databases')
      BY <1>11, <1>12, <1>23
    <2> QED
      BY <1>8, <1>9, <2>1, <2>2 DEF DatabasesHeld
  <1> QED
    BY <1>14, <1>15, <1>19, <1>20, <1>25, <1>26 DEF TowerInv

\* Every step keeps the invariant, and the invariant is what was asked for.
LEMMA TowerStepInv ==
    TowerInv /\ [TowerNext]_tower => TowerInv'
  <1> SUFFICES ASSUME TowerInv, [TowerNext]_tower PROVE TowerInv'
    OBVIOUS
  <1>1. ASSUME NEW r \in Runners,
               \/ \E c \in Asked : StartCommand(r, c)
               \/ CreateDatabase(r) \/ Complete(r) \/ SaveSchema(r) \/ PublishCommandCenter(r)
               \/ LogCloseout(r) \/ SaveRecord(r) \/ EndUnsaved(r) \/ Killed(r)
        PROVE  TowerInv'
    BY <1>1, StartKeeps, CreateKeeps, CompleteKeeps, SaveSchemaKeeps, PublishKeeps, LogKeeps,
       SaveRecordKeeps, EndUnsavedKeeps, CrashKeeps
  <1>2. CASE UNCHANGED tower
    BY <1>2 DEF tower, TowerInv, CommandsOnTheirWay, DatabasesHavePaths, ConfigsTrue, KeptKnown,
       NothingForgotten, AloneIsCurrent, DatabasesHeld, Active
  <1> QED
    BY <1>1, <1>2 DEF TowerNext

LEMMA InvKeepsConfig ==
    TowerInv => ConfigKept
  <1> SUFFICES ASSUME TowerInv PROVE ConfigKept
    OBVIOUS
  <1>1. NothingForgotten
    BY DEF TowerInv, KeptKnown
  <1>2. DatabasesNamed
    <2> SUFFICES ASSUME NEW d \in DOMAIN databases
                 PROVE  \/ d \in lost
                        \/ file # Torn /\ NumberAt(file, databases[d]) = d
                        \/ \E r \in DOMAIN command :
                              Active(r) /\ NumberAt(command[r].config, databases[d]) = d
      BY DEF DatabasesNamed
    <2>1. \A c : HoldsRef(c, d, databases) => c # Torn /\ NumberAt(c, databases[d]) = d
      <3>1. DOMAIN Torn = {}
        BY DEF Torn
      <3> QED
        BY <3>1 DEF HoldsRef, NumberAt
    <2>2. \A r \in Runners : r \in DOMAIN command /\ (~Active(r) => command[r].config = Torn)
      BY DEF TowerInv, CommandsOnTheirWay, OnItsWay, Active
    <2>3. \/ d \in lost \/ HoldsRef(file, d, databases)
          \/ \E r \in Runners : HoldsRef(command[r].config, d, databases)
      BY DEF TowerInv, DatabasesHeld
    <2> QED
      BY <2>1, <2>2, <2>3
  <1>3. LadderHolds
    BY DEF TowerInv, ConfigsTrue, LadderOf, LadderHolds
  <1> QED
    BY <1>1, <1>2, <1>3 DEF ConfigKept

(***************************************************************************)
(* ConfigIsKept: for any first file, any commands and phases asked for,    *)
(* and however many of them overlap or die in a write, the config file     *)
(* forgets no field that commands one after another put there, names every *)
(* database created for it unless its command died, never saves or was     *)
(* saved over by one that ran beside it, and counts the closed phases as   *)
(* the Build Log does (config.ts, the ensure functions and the commands).  *)
(***************************************************************************)
THEOREM ConfigIsKept == TowerSpec => []ConfigKept
  <1>1. TowerSpec => []TowerInv
    BY TowerInitInv, TowerStepInv, PTL DEF TowerSpec
  <1> QED
    BY <1>1, InvKeepsConfig, PTL
=============================================================================
