----------------------------- MODULE Publishing -----------------------------
(***************************************************************************)
(* The publisher (publisher.ts): one file goes to one destination, a page  *)
(* or a row of a data source, as a new page, by replacing the body or by   *)
(* search and replace; the body is read back and compared.  People edit    *)
(* meanwhile, a template fills a new page in its own time, and the HTTP    *)
(* client repeats a request whose answer was lost.                         *)
(***************************************************************************)
EXTENDS Naturals, Markdown

CONSTANTS
    Destinations,  \* configured destinations, see below
    Requests,      \* [dry, title, body, updates]: updates are [old, new]
    StartPages,    \* the pages there are: [title, body, pending, props]
    Additions, Template,
    HttpAttempts, MaxFaults, MaxAdditions
\* A destination is [kind : {"page", "row"}, mode : {"create", "replace",
\* "search", "update"}, template : {"none", "known", "missing"}, patches,
\* allows : BOOLEAN, verify : {"warn", "fail", "off"}, valid : BOOLEAN,
\* lookup : {"id", "title"}, target : a page number].

VARIABLES pages, job, faults, added, wrote

vars == <<pages, job, faults, added, wrote>>

Init ==
    /\ pages = StartPages
    /\ \E d \in Destinations, r \in Requests :
          job = [ dest |-> d, req |-> r, pc |-> "begin", at |-> 0, sends |-> HttpAttempts,
                  read |-> <<>>, outcome |-> "none" ]
    /\ faults = 0 /\ added = 0 /\ wrote = {}

Dest == job.dest
Req  == job.req
Body(i)     == pages[i].body
Creates     == Dest.mode = "create"
FromTemplate == Creates /\ Dest.kind = "row" /\ Dest.template # "none"
\* A template is only overwritten with a text, and only if it may be.
Overwrites  == FromTemplate /\ Req.body # <<>> /\ Dest.patches

Goes(pc)    == job' = [job EXCEPT !.pc = pc, !.sends = HttpAttempts]
Ends(result) == job' = [job EXCEPT !.pc = "done", !.outcome = result]
Reads       == UNCHANGED <<pages, faults, added, wrote>>

\* Mutant: a dry run stops only where it would create a page.
DryStopsCreation == Req.dry /\ Creates

DryStops == Req.dry

\* Everything is resolved, and every property converted, before the first
\* write; a dry run ends here.
Begin ==
    /\ job.pc = "begin"
    /\ IF ~Dest.valid THEN Ends("failed")
       ELSE IF Dest.kind = "page"
       THEN IF Dest.target \notin DOMAIN pages THEN Ends("failed")
            ELSE IF DryStops THEN Ends("dry")
            ELSE IF Creates THEN Goes("create")
            ELSE job' = [job EXCEPT !.pc = "properties", !.at = Dest.target]
       ELSE IF Creates /\ DryStops THEN Ends("dry")
            ELSE IF Creates /\ Dest.template = "missing" THEN Ends("failed")
            ELSE IF Creates THEN Goes("create") ELSE Goes("locate")
    /\ Reads

Named(i) == CASE Dest.lookup = "id" -> i = Dest.target
              [] Dest.lookup = "title" -> pages[i].title = Req.title

\* The row to update: the first that the lookup rule names.
Locate ==
    /\ job.pc = "locate"
    /\ LET found == {i \in DOMAIN pages : Named(i)}
       IN  IF DryStops THEN Ends("dry")
           ELSE IF found = {} THEN Ends("failed")
           ELSE job' = [job EXCEPT !.pc = "properties", !.at = First(found)]
    /\ Reads

\* What follows the properties.
AfterProperties ==
    CASE Dest.mode = "replace" -> IF Dest.allows THEN "patch" ELSE "guard"
      [] Dest.mode = "search" -> IF Req.updates = <<>> THEN "refuse" ELSE "patch"
      [] OTHER -> IF Req.updates = <<>> THEN "readback" ELSE "patch"

\* No child page may be dropped by the new text, as the page is now.
Guard ==
    /\ job.pc = "guard"
    /\ IF SafeReplacement(Body(job.at), Req.body) THEN Goes("patch") ELSE Ends("failed")
    /\ Reads

Refuse == job.pc = "refuse" /\ Ends("failed") /\ Reads

-------------------------------------------------------------------------------
(***************************************************************************)
(* The three writes.  A template fills its page later; Notion refuses a    *)
(* patch that would delete a child page or does not find its search text.  *)
(***************************************************************************)
Writes == {"create", "properties", "patch"}

NewPage == [ title |-> Req.title, body |-> IF FromTemplate THEN <<>> ELSE Req.body,
             pending |-> FromTemplate, props |-> "new" ]

Updated(md) == FoldLeft(LAMBDA m, u : Swapped(m, u.old, u.new, u.all), md, Req.updates)
Searched == Dest.mode \in {"search", "update"}

\* Mutant: the API is told that it may delete child pages.
RefusedIfNotFound ==
    job.pc = "patch" /\ Searched /\
        \E i \in DOMAIN Req.updates : Req.updates[i].old \notin Blocks(Body(job.at))

Refused ==
    job.pc = "patch" /\
        IF Searched THEN \E i \in DOMAIN Req.updates : Req.updates[i].old \notin Blocks(Body(job.at))
        ELSE ~SafeReplacement(Body(job.at), Req.body)

Written ==
    CASE job.pc = "create" -> Append(pages, NewPage)
      [] job.pc = "properties" ->
            [pages EXCEPT ![job.at] = [@ EXCEPT !.title = Req.title, !.props = "new"]]
      [] OTHER -> [pages EXCEPT ![job.at].body = IF Searched THEN Updated(@) ELSE Req.body]

Touches == IF job.pc = "create" THEN Len(pages) + 1 ELSE job.at

AfterWrite ==
    CASE job.pc = "create" ->
            job' = [job EXCEPT !.at = Len(pages) + 1, !.sends = HttpAttempts,
                               !.pc = IF Overwrites THEN "wait" ELSE "readback"]
      [] job.pc = "properties" -> Goes(AfterProperties)
      [] OTHER -> Goes("readback")

Answered ==
    /\ job.pc \in Writes
    /\ \/ Refused /\ Ends("failed") /\ UNCHANGED <<pages, wrote>>
       \/ ~Refused /\ pages' = Written /\ AfterWrite /\ wrote' = wrote \cup {Touches}
    /\ UNCHANGED <<faults, added>>

\* The request or its answer is lost, and sent again while attempts last.
Lost ==
    /\ job.pc \in Writes /\ faults < MaxFaults /\ faults' = faults + 1
    /\ \/ UNCHANGED <<pages, wrote>>
       \/ ~Refused /\ pages' = Written /\ wrote' = wrote \cup {Touches}
    /\ IF job.sends > 1 THEN job' = [job EXCEPT !.sends = @ - 1] ELSE Ends("failed")
    /\ UNCHANGED added

\* Mutant: a template counts as ready at once.
ReadyAtOnce == TRUE

Ready == Body(job.at) # <<>>

\* The template is polled until it can be read, or the time is over.
Wait ==
    /\ job.pc = "wait"
    /\ IF Ready THEN Goes("patch") ELSE Ends("failed")
    /\ Reads

ReadBack ==
    /\ job.pc = "readback"
    /\ job' = [job EXCEPT !.pc = "verify", !.read = Body(job.at)]
    /\ Reads

-------------------------------------------------------------------------------
(***************************************************************************)
(* The comparison of the read-back with what was asked for.                *)
(***************************************************************************)
Includes(md, part) == \E i \in 0 .. Len(md) - Len(part) : SubSeq(md, i + 1, i + Len(part)) = part

Contained(md, u) ==
    /\ Includes(md, u.new)
    /\ u.old \in Blocks(u.new) \/ u.old \notin Blocks(md)

Verification ==
    IF Dest.verify = "off" THEN "unverifiable"
    ELSE IF FromTemplate /\ ~Overwrites THEN "unverifiable"
    ELSE IF \/ Creates /\ job.read = Req.body
            \/ Dest.mode = "replace" /\ Childless(job.read) = Childless(Req.body)
            \/ Searched /\ \A i \in DOMAIN Req.updates : Contained(job.read, Req.updates[i])
    THEN "verified" ELSE "diverged"

Verify ==
    /\ job.pc = "verify"
    /\ IF Verification = "diverged" /\ Dest.verify = "fail" THEN Ends("failed")
       ELSE Ends(Verification)
    /\ Reads

-------------------------------------------------------------------------------
\* The template of a new page arrives: it becomes the body.
TemplateFills(i) ==
    /\ pages[i].pending
    /\ pages' = [pages EXCEPT ![i] = [@ EXCEPT !.body = Template, !.pending = FALSE]]
    /\ UNCHANGED <<job, faults, added, wrote>>

\* People add a block to a page they know.
Add(i, b) ==
    /\ added < MaxAdditions /\ i \in DOMAIN StartPages
    /\ pages' = [pages EXCEPT ![i].body = Append(@, b)] /\ added' = added + 1
    /\ UNCHANGED <<job, faults, wrote>>

Next ==
    \/ Begin \/ Locate \/ Guard \/ Refuse \/ Answered \/ Lost \/ Wait \/ ReadBack \/ Verify
    \/ \E i \in DOMAIN pages : TemplateFills(i) \/ \E b \in Additions : Add(i, b)

Spec == Init /\ [][Next]_vars

-------------------------------------------------------------------------------
(***************************************************************************)
(* WritesWhatItNames: a dry run writes nothing, whatever the mode; a live  *)
(* one writes pages it created and the one page its destination names.     *)
(***************************************************************************)
WritesWhatItNames ==
    /\ Req.dry => wrote = {}
    /\ \A i \in wrote \cap DOMAIN StartPages :
          ~Creates /\ (Dest.kind = "page" \/ Dest.lookup = "id" => i = Dest.target)

(***************************************************************************)
(* TextStays: a publish that says verified has left the text of the file   *)
(* on the page; a template that fills the page late does not replace it.   *)
(***************************************************************************)
TextStays ==
    job.outcome = "verified" /\ ~Searched /\ job.at \notin DOMAIN StartPages =>
        Childless(Body(job.at)) = Childless(Req.body)

\* ChildrenStay: no publish removes a child page, whatever it may delete.
KeepsChildren == \A i \in DOMAIN pages : Children(Body(i)) \subseteq Children(pages'[i].body)
ChildrenStay  == [][KeepsChildren]_vars
=============================================================================
