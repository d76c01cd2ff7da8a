----------------------------- MODULE ManagedPage -----------------------------
(***************************************************************************)
(* One page that several commands and people write (managed-markdown-      *)
(* sync.ts, control-tower-sync.ts): a lane keeps its managed section by a  *)
(* targeted update and falls back to coarser patches when a proxy blocks   *)
(* it; the control tower replaces everything else.  Each works from the    *)
(* page as it read it, over an HTTP client that repeats a request whose    *)
(* answer was lost (http.ts).                                              *)
(***************************************************************************)
EXTENDS Naturals, Markdown

CONSTANTS
    Lanes,         \* a sequence: the managed sections in their order
    Tower,         \* the writer that owns the rest
    Blocked,       \* lanes whose page the blocklist names
    StartPages,    \* what the page may hold at first
    Additions,     \* blocks people add
    HttpAttempts,  \* retryMaxAttempts of the HTTP client
    Attempts,      \* maxAttempts of the sync with read-back
    MaxRuns, MaxFaults, MaxAdditions  \* bounds of a behaviour

VARIABLES
    page,    \* the body of the page
    run,     \* the runs of the writers
    runs, faults, added

vars == <<page, run, runs, faults, added>>

Writers == {Lanes[i] : i \in DOMAIN Lanes} \cup {Tower}

Nothing == <<>>
Idle == [ on |-> FALSE, call |-> "none", read |-> Nothing, old |-> Nothing, new |-> Nothing,
          version |-> 0, sends |-> 0, tries |-> 0, result |-> "none" ]

Init ==
    /\ page \in StartPages
    /\ run = [w \in Writers |-> Idle]
    /\ runs = 0 /\ faults = 0 /\ added = 0

\* A lane that has a section updates it; else the page is replaced.
Chosen(w, old) == IF Extract(old, w) = <<>> THEN "replace" ELSE "update"

\* Commands run one after the other, as the weekly refresh runs them.
Begin(w) ==
    LET own == Section(w, runs + 1)
        new == IF w = Tower
               THEN Preserve(<<Text("base"), own>>, page, Lanes) ELSE Merge(page, own)
    IN  /\ runs < MaxRuns /\ runs' = runs + 1
        /\ w \notin Blocked /\ \A x \in Writers : ~run[x].on
        /\ new # page
        /\ run' = [run EXCEPT ![w] =
             [ on |-> TRUE, call |-> IF w = Tower THEN "replace" ELSE Chosen(w, page),
               read |-> page, old |-> page, new |-> new, version |-> runs + 1,
               sends |-> HttpAttempts, tries |-> Attempts, result |-> "none" ]]
        /\ UNCHANGED <<page, faults, added>>

-------------------------------------------------------------------------------
(***************************************************************************)
(* What a patch does to the page; `Refused` is an answer of the API.       *)
(***************************************************************************)
Own(w)  == Section(w, run[w].version)
Anchor(w) == IF run[w].call = "heading" THEN run[w].old[1] ELSE Last(run[w].old)

\* The fallbacks need an anchor that is there once.
HasAnchor(w, old) == old # <<>> /\ Occurrences(old, old[1]) = 1
HasTail(w, old)   == old # <<>> /\ Occurrences(old, Last(old)) = 1

Refused(w) ==
    CASE run[w].call = "update"  -> Extract(run[w].old, w)[1] \notin Blocks(page)
      [] run[w].call = "replace" -> ~SafeReplacement(page, run[w].new)
      [] OTHER -> Anchor(w) \notin Blocks(page)

Patched(w) ==
    CASE run[w].call = "update"  -> Swapped(page, Extract(run[w].old, w)[1], <<Own(w)>>, TRUE)
      [] run[w].call = "replace" -> run[w].new
      [] OTHER -> Swapped(page, Anchor(w), <<Anchor(w), Own(w)>>, FALSE)

Ended(w, result) == run' = [run EXCEPT ![w] = [@ EXCEPT !.on = FALSE, !.result = result,
                              !.read = Nothing, !.old = Nothing, !.new = Nothing,
                              !.call = "none"]]
Calls(w, call) == run' = [run EXCEPT ![w] = [@ EXCEPT !.call = call, !.sends = HttpAttempts]]

-------------------------------------------------------------------------------
\* The patch takes hold and is answered, or the API refuses it.
Answered(w) ==
    /\ run[w].on /\ run[w].call # "read"
    /\ \/ /\ ~Refused(w) /\ page' = Patched(w) /\ Ended(w, "ok")
       \/ /\ Refused(w) /\ Ended(w, "failed") /\ UNCHANGED page
    /\ UNCHANGED <<runs, faults, added>>

\* The request or its answer is lost: the client sends it again, and after
\* the last time a lane reads the page back.
Lost(w) ==
    /\ run[w].on /\ run[w].call # "read"
    /\ faults < MaxFaults /\ faults' = faults + 1
    /\ \/ page' = page
       \/ ~Refused(w) /\ page' = Patched(w)
    /\ IF run[w].sends > 1 THEN run' = [run EXCEPT ![w].sends = @ - 1]
       ELSE IF w = Tower THEN Ended(w, "failed")
       ELSE run' = [run EXCEPT ![w].call = "read"]
    /\ UNCHANGED <<runs, added>>

\* Mutant: any page that shows the section will do.
ConvergedBySection(w) == Extract(page, w) # <<>>

Converged(w) == page = run[w].new

ReadBack(w) ==
    /\ run[w].on /\ run[w].call = "read"
    /\ IF Converged(w) THEN Ended(w, "ok")
       ELSE IF run[w].tries = 1 THEN Ended(w, "failed")
       ELSE run' = [run EXCEPT ![w] = [@ EXCEPT !.tries = @ - 1, !.old = page,
                      !.call = Chosen(w, page), !.sends = HttpAttempts]]
    /\ UNCHANGED <<page, runs, faults, added>>

\* A proxy blocks the patch: the lane tries the next coarser one.
Fallback(w) ==
    /\ run[w].on /\ run[w].call # "read"
    /\ faults < MaxFaults /\ faults' = faults + 1
    /\ CASE w = Tower -> Ended(w, "failed")
         [] w # Tower /\ run[w].call = "update" ->
              IF SafeReplacement(run[w].old, run[w].new) THEN Calls(w, "replace")
              ELSE Ended(w, "failed")
         [] run[w].call = "replace" /\ w # Tower ->
              IF HasAnchor(w, run[w].old) THEN Calls(w, "heading")
              ELSE IF HasTail(w, run[w].old) THEN Calls(w, "tail") ELSE Ended(w, "failed")
         [] run[w].call = "heading" ->
              IF HasTail(w, run[w].old) THEN Calls(w, "tail") ELSE Ended(w, "failed")
         [] OTHER -> Ended(w, "failed")
    /\ UNCHANGED <<page, runs, added>>

\* People add a block at any time.
Add(b) ==
    /\ added < MaxAdditions /\ added' = added + 1
    /\ page' = Append(page, b)
    /\ UNCHANGED <<run, runs, faults>>

Next ==
    \/ \E w \in Writers : \/ Begin(w) \/ Answered(w) \/ Lost(w) \/ ReadBack(w) \/ Fallback(w)
    \/ \E b \in Additions : Add(b)

Spec == Init /\ [][Next]_vars

-------------------------------------------------------------------------------
(***************************************************************************)
(* WriteIsShown: a sync that reports success has put its section on the    *)
(* page, whatever answers were lost and whatever was blocked on the way.   *)
(***************************************************************************)
SuccessIsShown == \A w \in Writers :
    run[w].on /\ run'[w].result = "ok" => Own(w) \in Blocks(page')
WriteIsShown == [][SuccessIsShown]_vars

(***************************************************************************)
(* ReadingIsKept: what a command found on the page and does not own is     *)
(* there as long as it runs: all that is not its section for a lane, the   *)
(* sections of the lanes for the tower.                                    *)
(***************************************************************************)
Keeps(w, md) ==
    IF w = Tower THEN \A i \in DOMAIN Lanes : Blocks(Extract(md, Lanes[i])) \subseteq Blocks(page)
    ELSE \A b \in Blocks(md) : IsSection(b, w) \/ b \in Blocks(page)

ReadingIsKept == \A w \in Writers : run[w].on => Keeps(w, run[w].read)

\* ChildrenStay: no patch ever removes a child page.
KeepsChildren == Children(page) \subseteq Children(page')
ChildrenStay  == [][KeepsChildren]_vars

(***************************************************************************)
(* ReadBackIsKept: a lane that tries again keeps what the read-back showed *)
(* it ("recomputes from read-back markdown before retrying").              *)
(***************************************************************************)
ReadBackIsKept == \A w \in Writers : run[w].on => Keeps(w, run[w].old)
=============================================================================
