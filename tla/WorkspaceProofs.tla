---------------------------- MODULE WorkspaceProofs ----------------------------
(***************************************************************************)
(* What holds of the rows, links and fields that several commands write to *)
(* the workspace: the bridge sync, for any rows with any policies and      *)
(* targets, any limit, and any number of processes that overlap, die and   *)
(* meet failing calls; the link suggestions, for any projects and library; *)
(* and the derived fields, for any projects, contents, edits and failures. *)
(* The three share nothing but this module.                                *)
(***************************************************************************)
EXTENDS BridgeSync, LinkSuggestions, ProjectSignals, FiniteSetTheorems, TLAPS

------------------------------------------------------------------------------
\* The shapes: a running command is a record, the Build Log a sequence (of
\* whatever the queues hold, which is all a step needs to know of them).
IsSync(s) ==
    /\ s = [pc |-> s.pc, lane |-> s.lane, queue |-> s.queue, page |-> s.page]
    /\ s.lane \in RowLanes

Shapes ==
    /\ sync = [p \in Syncs |-> sync[p]] /\ \A p \in Syncs : IsSync(sync[p])
    /\ synced = [r \in Rows |-> synced[r]]
    /\ \E S : log \in Seq(S)

\* A row that a command is about to create has no page, as long as no other
\* command was about to create it too.
Awaited(p) ==
    In(p, "create") /\ Row(p) \notin excused => PagesOf(Row(p)) = {}

\* The page a command is about to confirm a row with carries its Sync Key.
Answered(p) == In(p, "confirm") => sync[p].page \in PagesOf(Row(p))

IInv ==
    /\ Shapes
    /\ \A p \in Syncs : Awaited(p) /\ Answered(p)
    /\ OnePagePerRow /\ ConfirmedByItsPage

------------------------------------------------------------------------------
\* How a step leaves the command that takes it, and the others.
Elsewhere(p) == \A q \in Syncs \ {p} : sync'[q] = sync[q]

LEMMA MoveStep ==
  ASSUME Shapes, NEW p \in Syncs, NEW s, Move(p, s)
  PROVE  sync'[p] = s /\ Elsewhere(p) /\ sync' = [q \in Syncs |-> sync'[q]]
BY DEF Shapes, Move, Elsewhere

LEMMA DoneShape ==
  ASSUME NEW p \in Syncs, IsSync(sync[p])
  PROVE  IsSync(Done(p)) /\ Done(p).pc \in RowLanes
<1> DEFINE rest == Tail(sync[p].queue)
<1>1. Done(p) = [sync[p] EXCEPT !.pc = sync[p].lane, !.queue = rest, !.page = 0]
  BY DEF Done
<1> HIDE DEF rest
<1> QED
  BY <1>1 DEF IsSync

LEMMA RestingShape ==
  ASSUME NEW queue, NEW s,
         \/ s = Resting
         \/ s = [Resting EXCEPT !.pc = "shipped", !.queue = queue]
         \/ s = [Resting EXCEPT !.pc = "ops", !.lane = "ops", !.queue = queue]
  PROVE  IsSync(s) /\ s.pc \notin {"create", "confirm"}
<1>1. CASE s = Resting
  BY <1>1 DEF Resting, IsSync, RowLanes
<1>2. CASE s = [Resting EXCEPT !.pc = "shipped", !.queue = queue]
  BY <1>2 DEF Resting, IsSync, RowLanes
<1>3. CASE s = [Resting EXCEPT !.pc = "ops", !.lane = "ops", !.queue = queue]
  BY <1>3 DEF Resting, IsSync, RowLanes
<1> QED
  BY <1>1, <1>2, <1>3

\* Appending to the Build Log.
LEMMA AppendPages ==
  ASSUME NEW S, log \in Seq(S), NEW r, log' = Append(log, r)
  PROVE  /\ \E T : log' \in Seq(T)
         /\ Len(log') = Len(log) + 1 /\ Len(log) \in Nat
         /\ \A i \in 1 .. Len(log) : log'[i] = log[i]
         /\ log'[Len(log')] = r
<1>1. log \in Seq(S \cup {r})
  OBVIOUS
<1>2. log' \in Seq(S \cup {r})
  BY <1>1
<1> QED
  BY <1>1, <1>2

LEMMA AppendTwoPages ==
  ASSUME NEW S, log \in Seq(S), NEW r, log' = log \o <<r, r>>
  PROVE  /\ \E T : log' \in Seq(T)
         /\ Len(log') = Len(log) + 2 /\ Len(log) \in Nat
         /\ \A i \in 1 .. Len(log) : log'[i] = log[i]
         /\ log'[Len(log) + 1] = r /\ log'[Len(log')] = r
<1>1. log \in Seq(S \cup {r}) /\ <<r, r>> \in Seq(S \cup {r})
  OBVIOUS
<1>2. log' \in Seq(S \cup {r})
  BY <1>1
<1> QED
  BY <1>1, <1>2

------------------------------------------------------------------------------
\* A step that leaves the Build Log alone and writes nothing to bridge-db.
LEMMA QuietStep ==
  ASSUME IInv, NEW p \in Syncs, NEW s, Move(p, s), IsSync(s),
         UNCHANGED <<log, synced, excused>>,
         s.pc = "create" /\ Head(s.queue) \notin excused
            => PagesOf(Head(s.queue)) = {},
         s.pc = "confirm" => s.page \in PagesOf(Head(s.queue))
  PROVE  IInv'
<1>1. sync'[p] = s /\ Elsewhere(p) /\ sync' = [q \in Syncs |-> sync'[q]]
  BY MoveStep DEF IInv
<1>2. Shapes'
  <2>1. \A q \in Syncs : IsSync(sync'[q])
    BY <1>1 DEF IInv, Shapes, Elsewhere
  <2> QED
    BY <1>1, <2>1 DEF IInv, Shapes
<1>3. ASSUME NEW q \in Syncs PROVE (Awaited(q) /\ Answered(q))'
  <2>1. CASE q = p
    BY <1>1, <2>1 DEF Awaited, Answered, In, Row, PagesOf
  <2>2. CASE q # p
    <3>1. sync'[q] = sync[q]
      BY <1>1, <2>2 DEF Elsewhere
    <3> QED
      BY <3>1 DEF IInv, Awaited, Answered, In, Row, PagesOf
  <2> QED
    BY <2>1, <2>2
<1>4. (OnePagePerRow /\ ConfirmedByItsPage)'
  BY DEF IInv, OnePagePerRow, ConfirmedByItsPage, PagesOf
<1> QED
  BY <1>2, <1>3, <1>4 DEF IInv

\* A confirmation reaches bridge-db, whatever the command hears of it.
LEMMA ConfirmStep ==
  ASSUME IInv, NEW p \in Syncs, In(p, "confirm"), NEW s, Move(p, s), IsSync(s),
         s.pc \in RowLanes, UNCHANGED <<log, excused>>,
         synced' = [synced EXCEPT ![Row(p)] = sync[p].page]
  PROVE  IInv'
<1>1. sync'[p] = s /\ Elsewhere(p) /\ sync' = [q \in Syncs |-> sync'[q]]
  BY MoveStep DEF IInv
<1>2. Shapes'
  <2>1. \A q \in Syncs : IsSync(sync'[q])
    BY <1>1 DEF IInv, Shapes, Elsewhere
  <2>2. synced' = [r \in Rows |-> synced'[r]]
    BY DEF IInv, Shapes
  <2> QED
    BY <1>1, <2>1, <2>2 DEF IInv, Shapes
<1>3. ASSUME NEW q \in Syncs PROVE (Awaited(q) /\ Answered(q))'
  <2>1. CASE q = p
    BY <1>1, <2>1 DEF Awaited, Answered, In, RowLanes
  <2>2. CASE q # p
    <3>1. sync'[q] = sync[q]
      BY <1>1, <2>2 DEF Elsewhere
    <3> QED
      BY <3>1 DEF IInv, Awaited, Answered, In, Row, PagesOf
  <2> QED
    BY <2>1, <2>2
<1>4. OnePagePerRow'
  BY DEF IInv, OnePagePerRow
<1>5. ConfirmedByItsPage'
  <2>1. sync[p].page \in PagesOf(Row(p))
    BY DEF IInv, Answered
  <2> QED
    BY <2>1 DEF IInv, Shapes, ConfirmedByItsPage, PagesOf
<1> QED
  BY <1>2, <1>3, <1>4, <1>5 DEF IInv

\* A create adds a page, or two when it is repeated, for the row in hand.
LEMMA CreateStep ==
  ASSUME IInv, NEW p \in Syncs, In(p, "create"), NEW s, Move(p, s), IsSync(s),
         s.pc # "create", UNCHANGED synced,
         \E T : log' \in Seq(T),
         Len(log) \in Nat, Len(log') \in Nat, Len(log') > Len(log),
         \A i \in 1 .. Len(log) : log'[i] = log[i],
         \A i \in Len(log) + 1 .. Len(log') : log'[i] = Row(p),
         excused \subseteq excused',
         Row(p) \notin excused' =>
            /\ Len(log') = Len(log) + 1
            /\ \A q \in Syncs \ {p} : ~(In(q, "create") /\ Row(q) = Row(p)),
         s.pc = "confirm" => s.page = Len(log') /\ Head(s.queue) = Row(p)
  PROVE  IInv'
<1>1. sync'[p] = s /\ Elsewhere(p) /\ sync' = [q \in Syncs |-> sync'[q]]
  BY MoveStep DEF IInv
<1>0. PICK r, m, n : r = Row(p) /\ m = Len(log) /\ n = Len(log')
  OBVIOUS
<1>2. Shapes'
  <2>1. \A q \in Syncs : IsSync(sync'[q])
    BY <1>1 DEF IInv, Shapes, Elsewhere
  <2> QED
    BY <1>1, <2>1 DEF IInv, Shapes
<1>3. ASSUME NEW q \in Syncs PROVE Awaited(q)'
  <2>1. CASE q = p
    BY <1>1, <2>1 DEF Awaited, In
  <2>2. CASE q # p
    <3>1. sync'[q] = sync[q]
      BY <1>1, <2>2 DEF Elsewhere
    <3>2. ASSUME In(q, "create"), Row(q) \notin excused', NEW i \in 1 .. n
          PROVE  log'[i] # Row(q)
      <4>1. Row(q) # r
        BY <1>0, <2>2, <3>2
      <4>2. \A k \in 1 .. m : log[k] # Row(q)
        BY <1>0, <3>2 DEF IInv, Awaited, PagesOf
      <4> QED
        BY <1>0, <3>2, <4>1, <4>2
    <3> QED
      BY <1>0, <3>1, <3>2 DEF Awaited, In, Row, PagesOf
  <2> QED
    BY <2>1, <2>2
<1>4. ASSUME NEW q \in Syncs PROVE Answered(q)'
  <2>1. CASE q = p
    BY <1>1, <2>1 DEF Answered, In, Row, PagesOf
  <2>2. CASE q # p
    <3>1. sync'[q] = sync[q]
      BY <1>1, <2>2 DEF Elsewhere
    <3> QED
      BY <3>1 DEF IInv, Answered, In, Row, PagesOf
  <2> QED
    BY <2>1, <2>2
<1>5. OnePagePerRow'
  <2> SUFFICES ASSUME NEW i \in 1 .. n, NEW j \in 1 .. n, log'[i] = log'[j],
                      log'[i] \notin excused'
               PROVE  i = j
    BY <1>0 DEF OnePagePerRow
  <2>1. CASE i \in 1 .. m /\ j \in 1 .. m
    BY <1>0, <2>1 DEF IInv, OnePagePerRow
  <2>2. CASE ~(i \in 1 .. m /\ j \in 1 .. m)
    <3>1. log'[i] = r /\ r \notin excused' /\ n = m + 1
      BY <1>0, <2>2
    <3>2. \A k \in 1 .. m : log'[k] # r
      BY <1>0, <3>1 DEF IInv, Awaited, PagesOf
    <3>3. \A k \in 1 .. n : log'[k] = r => k = n
      BY <1>0, <3>1, <3>2
    <3> QED
      BY <3>1, <3>3
  <2> QED
    BY <2>1, <2>2
<1>6. ConfirmedByItsPage'
  BY DEF IInv, ConfirmedByItsPage, PagesOf
<1> QED
  BY <1>2, <1>3, <1>4, <1>5, <1>6 DEF IInv

------------------------------------------------------------------------------
LEMMA FlowSafe ==
  ASSUME IInv, NEW p \in Syncs, Start(p) \/ ReadOps(p) \/ Stop(p) \/ Ends(p)
  PROVE  IInv'
<1>0. PICK asked, recent : /\ asked = Wanted(FirstOf(Unprocessed))
                           /\ recent = LastOf(RowsUpTo(posted, "ops"))
  OBVIOUS
<1>1. PICK s : /\ Move(p, s)
               /\ \/ s = Resting
                  \/ s = [Resting EXCEPT !.pc = "shipped", !.queue = asked]
                  \/ s = [Resting EXCEPT !.pc = "ops", !.lane = "ops", !.queue = recent]
  BY <1>0, SMTT(60) DEF Start, ReadOps, Stop, Ends
<1>3. IsSync(s) /\ s.pc \notin {"create", "confirm"}
  BY <1>1, RestingShape
<1>2. UNCHANGED <<log, synced, excused>>
  BY DEF Start, ReadOps, Stop, Ends
<1> QED
  BY <1>1, <1>2, <1>3, QuietStep

LEMMA LookupSafe == ASSUME IInv, NEW p \in Syncs, Lookup(p) PROVE IInv'
<1>1. IsSync(sync[p]) /\ UNCHANGED <<log, synced, excused>>
  BY DEF IInv, Shapes, Lookup
<1>2. CASE PagesOf(Row(p)) = {}
  <2>1. PICK s : s = [sync[p] EXCEPT !.pc = "create"]
    OBVIOUS
  <2>2. IsSync(s) /\ s.pc = "create" /\ s.queue = sync[p].queue
    BY <1>1, <2>1 DEF IsSync
  <2>3. Move(p, s)
    BY <1>2, <2>1 DEF Lookup
  <2> QED
    BY <1>1, <1>2, <2>2, <2>3, QuietStep DEF Row
<1>3. CASE PagesOf(Row(p)) # {}
  <2>1. PICK i \in PagesOf(Row(p)) :
          Move(p, IF sync[p].lane = "ops" THEN Done(p)
                  ELSE [sync[p] EXCEPT !.pc = "confirm", !.page = i])
    BY <1>3 DEF Lookup
  <2>2. PICK s : s = IF sync[p].lane = "ops" THEN Done(p)
                     ELSE [sync[p] EXCEPT !.pc = "confirm", !.page = i]
    OBVIOUS
  <2>3. /\ IsSync(s) /\ s.pc # "create"
        /\ s.pc = "confirm" => s.page = i /\ s.queue = sync[p].queue
    BY <1>1, <2>2, DoneShape DEF IsSync, RowLanes
  <2>4. Move(p, s)
    BY <2>1, <2>2
  <2> QED
    BY <1>1, <2>1, <2>3, <2>4, QuietStep DEF Row
<1> QED
  BY <1>2, <1>3

\* What the command goes on with after a create.
LEMMA CreatedShape ==
  ASSUME NEW p \in Syncs, IsSync(sync[p]), NEW s, s = Created(p)
  PROVE  /\ IsSync(s) /\ s.pc # "create"
         /\ s.pc = "confirm" => s.page = Len(log') /\ Head(s.queue) = Row(p)
<1>0. PICK n : n = Len(log')
  OBVIOUS
<1>1. s = IF sync[p].lane = "ops" THEN Done(p)
          ELSE [sync[p] EXCEPT !.pc = "confirm", !.page = n]
  BY <1>0 DEF Created
<1> QED
  BY <1>0, <1>1, DoneShape DEF IsSync, RowLanes, Row

LEMMA CreateSafe ==
  ASSUME IInv, NEW p \in Syncs, Create(p) \/ CreateRepeated(p) PROVE IInv'
<1>1. IsSync(sync[p]) /\ In(p, "create") /\ UNCHANGED synced
  BY DEF IInv, Shapes, Create, CreateRepeated
<1>2. PICK S : log \in Seq(S)
  BY DEF IInv, Shapes
<1>3. PICK s, r : s = Created(p) /\ r = Row(p)
  OBVIOUS
<1>4. Move(p, s)
  BY <1>3 DEF Create, CreateRepeated
<1>5. /\ IsSync(s) /\ s.pc # "create"
      /\ s.pc = "confirm" => s.page = Len(log') /\ Head(s.queue) = Row(p)
  BY <1>1, <1>3, CreatedShape
<1>6. CASE Create(p)
  <2>1. log' = Append(log, r)
    BY <1>3, <1>6 DEF Create
  <2>2. /\ \E T : log' \in Seq(T)
        /\ Len(log') = Len(log) + 1 /\ Len(log) \in Nat
        /\ \A i \in 1 .. Len(log) : log'[i] = log[i]
        /\ log'[Len(log')] = r
    BY <1>2, <2>1, AppendPages
  <2>3. \A i \in Len(log) + 1 .. Len(log') : log'[i] = Row(p)
    BY <1>3, <2>2
  <2>4. /\ excused \subseteq excused'
        /\ Row(p) \notin excused' =>
             \A q \in Syncs \ {p} : ~(In(q, "create") /\ Row(q) = Row(p))
    BY <1>6 DEF Create, Overlapped
  <2> QED
    BY <1>1, <1>4, <1>5, <2>2, <2>3, <2>4, CreateStep
<1>7. CASE CreateRepeated(p)
  <2>1. log' = log \o <<r, r>>
    BY <1>3, <1>7 DEF CreateRepeated
  <2>2. /\ \E T : log' \in Seq(T)
        /\ Len(log') = Len(log) + 2 /\ Len(log) \in Nat
        /\ \A i \in 1 .. Len(log) : log'[i] = log[i]
        /\ log'[Len(log) + 1] = r /\ log'[Len(log')] = r
    BY <1>2, <2>1, AppendTwoPages
  <2>3. \A i \in Len(log) + 1 .. Len(log') : log'[i] = Row(p)
    BY <1>3, <2>2
  <2>4. excused \subseteq excused' /\ Row(p) \in excused'
    BY <1>7 DEF CreateRepeated
  <2> QED
    BY <1>1, <1>4, <1>5, <2>2, <2>3, <2>4, CreateStep
<1> QED
  BY <1>6, <1>7

LEMMA ConfirmSafe == ASSUME IInv, NEW p \in Syncs, Confirm(p) PROVE IInv'
<1>1. PICK s : s = Done(p) /\ Move(p, s)
  BY DEF Confirm
<1>2. IsSync(s) /\ s.pc \in RowLanes
  BY <1>1, DoneShape DEF IInv, Shapes
<1> QED
  BY <1>1, <1>2, ConfirmStep DEF Confirm

\* A call that fails, with or without its effect.
LEMMA CallFailsSafe == ASSUME IInv, NEW p \in Syncs, CallFails(p) PROVE IInv'
<1>1. PICK s, r : s = Done(p) /\ Move(p, s) /\ r = Row(p)
  BY DEF CallFails
<1>2. IsSync(s) /\ s.pc \in RowLanes /\ s.pc \notin {"create", "confirm"}
  BY <1>1, DoneShape DEF IInv, Shapes, RowLanes
<1>3. CASE log' = log /\ synced' = synced
  BY <1>1, <1>2, <1>3, QuietStep DEF CallFails
<1>4. CASE log' = log /\ synced' # synced
  <2>1. /\ In(p, "confirm") /\ UNCHANGED <<log, excused>>
        /\ synced' = [synced EXCEPT ![Row(p)] = sync[p].page]
    BY <1>4 DEF CallFails
  <2> QED
    BY <1>1, <1>2, <2>1, ConfirmStep
<1>5. CASE log' # log
  <2>1. In(p, "create") /\ log' = Append(log, r) /\ UNCHANGED synced
    BY <1>1, <1>5 DEF CallFails, In
  <2>0. PICK S : log \in Seq(S)
    BY DEF IInv, Shapes
  <2>2. /\ \E T : log' \in Seq(T)
        /\ Len(log') = Len(log) + 1 /\ Len(log) \in Nat
        /\ \A i \in 1 .. Len(log) : log'[i] = log[i]
        /\ log'[Len(log')] = r
    BY <2>0, <2>1, AppendPages
  <2>3. \A i \in Len(log) + 1 .. Len(log') : log'[i] = Row(p)
    BY <1>1, <2>2
  <2>4. /\ excused \subseteq excused'
        /\ Row(p) \notin excused' =>
             \A q \in Syncs \ {p} : ~(In(q, "create") /\ Row(q) = Row(p))
    BY <1>5 DEF CallFails, Overlapped
  <2> QED
    BY <1>1, <1>2, <2>1, <2>2, <2>3, <2>4, CreateStep
<1> QED
  BY <1>3, <1>4, <1>5

LEMMA SafeInit == Init => IInv
<1> SUFFICES ASSUME Init PROVE IInv
  OBVIOUS
<1>1. log = <<>> /\ \A p \in Syncs : sync[p] = Resting
  BY DEF Init
<1>2. Shapes
  <2>1. log \in Seq({})
    BY <1>1
  <2>2. IsSync(Resting)
    BY DEF Resting, IsSync, RowLanes
  <2> QED
    BY <2>1, <2>2 DEF Init, Shapes
<1>3. \A p \in Syncs : Awaited(p) /\ Answered(p)
  BY <1>1 DEF Resting, Awaited, Answered, In
<1>4. OnePagePerRow /\ ConfirmedByItsPage
  BY <1>1 DEF Init, OnePagePerRow, ConfirmedByItsPage
<1> QED
  BY <1>2, <1>3, <1>4 DEF IInv

LEMMA SafeStep == IInv /\ [Next]_vars => IInv'
<1> SUFFICES ASSUME IInv, [Next]_vars PROVE IInv'
  OBVIOUS
<1>1. CASE Post \/ UNCHANGED vars
  <2>1. UNCHANGED <<log, synced, excused, sync>>
    BY <1>1 DEF Post, vars
  <2> QED
    BY <2>1 DEF IInv, Shapes, Awaited, Answered, In, Row, PagesOf,
       OnePagePerRow, ConfirmedByItsPage
<1>2. ASSUME NEW p \in Syncs, Start(p) \/ Proceed(p) \/ Ends(p)
      PROVE  IInv'
  BY <1>2, FlowSafe, LookupSafe, CreateSafe, ConfirmSafe, CallFailsSafe DEF Proceed
<1> QED
  BY <1>1, <1>2 DEF Next

(***************************************************************************)
(* BridgeStaysSafe: however many commands overlap, die, time out or fail   *)
(* to confirm, a row has one Build Log page unless two commands were       *)
(* between its lookup and its create at once or the HTTP client repeated   *)
(* the create, and bridge-db holds a row as synced only with a page that   *)
(* carries its Sync Key (syncBridgeDbActivity).                            *)
(***************************************************************************)
THEOREM BridgeStaysSafe == Spec => []BridgeSafe
<1>1. IInv => BridgeSafe
  BY DEF IInv, BridgeSafe
<1> QED
  BY <1>1, SafeInit, SafeStep, PTL DEF Spec

------------------------------------------------------------------------------
(* Link suggestions: the inductive invariant.                               *)

LinkShapes ==
    /\ links \in [Projects -> SUBSET Library] /\ back \in [Library -> SUBSET Projects]
    /\ rows = [x \in Pairs |-> rows[x]]
    /\ DOMAIN propose = {"todo", "read"} /\ propose.read \subseteq Pairs
    /\ DOMAIN apply = {"on", "links", "back", "todo", "half", "accepted"}
    /\ apply.links \in [Projects -> SUBSET Library]
    /\ apply.back \in [Library -> SUBSET Projects]
    /\ apply.half \subseteq apply.todo /\ apply.todo \subseteq apply.accepted
    /\ apply.accepted \subseteq Pairs

\* Of the suggestions a run has chosen those it read as decided are accepted: it
\* chose none that was rejected, and one decided anew is not as it was read.
ReadAccepted == \A x \in propose.read : rows[x] = "Accepted"

\* What an undisturbed apply run has behind it: no link lost, and each accepted
\* suggestion it is done with linked on both pages, or a later one of its relation.
OnProject(x) == \E y \in Rivals(x) : y[2] \in links[x[1]]
OnTarget(x)  == \E y \in Sharers(x) : y[1] \in back[x[2]]
AppliedSoFar ==
    calm =>
        /\ \A p \in Projects : apply.links[p] \subseteq links[p]
        /\ \A t \in Library : apply.back[t] \subseteq back[t]
        /\ \A x \in apply.accepted : x \notin apply.todo \/ x \in apply.half => OnProject(x)
        /\ \A x \in apply.accepted : x \notin apply.todo => OnTarget(x)
        /\ ~apply.on => apply.todo = {}

LinksInv == LinkShapes /\ ReadAccepted /\ RejectionsRemembered /\ AppliedSoFar

LEMMA LinksInitInv ==
  ASSUME LinksInit
  PROVE  LinksInv
<1>1. links \in [Projects -> SUBSET Library]
  BY LinksAssumption DEF LinksInit
<1>2. back \in [Library -> SUBSET Projects]
  BY DEF LinksInit
<1>3. LinkShapes
  BY <1>1, <1>2 DEF LinksInit, LinkShapes, NoProposal
<1> QED
  BY <1>3 DEF LinksInit, LinksInv, ReadAccepted, RejectionsRemembered, AppliedSoFar, NoProposal

\* A run that starts to propose leaves the rejected out.
LEMMA StartProposeKeeps ==
  ASSUME LinksInv, StartPropose
  PROVE  LinksInv'
<1>1. PICK S \in Offers : propose' = [todo |-> S, read |-> {x \in S : rows[x] \in Decided}]
  BY DEF StartPropose
<1>2. UNCHANGED <<links, back, rows, apply, undone, calm>>
  BY DEF StartPropose
<1>3. \A x \in S : x \in Pairs /\ rows[x] # "Rejected"
  <2> SUFFICES ASSUME NEW x \in S PROVE x \in Pairs /\ rows[x] # "Rejected"
    OBVIOUS
  <2>1. PICK p \in Projects, t \in Library : x = <<p, t>>
    BY <1>1 DEF Offers, Pairs
  <2>2. Kind[t] \in Kinds /\ t \in OfKind(Kind[t])
    BY LinksAssumption DEF OfKind
  <2>3. {u \in OfKind(Kind[t]) : <<p, u>> \in S} \subseteq Best(p, Kind[t])
    BY <1>1, <2>2 DEF Offers
  <2>4. t \in Best(p, Kind[t])
    BY <2>1, <2>2, <2>3
  <2>5. ~Suppressed(p, t)
    BY <2>4 DEF Best, Eligible
  <2> QED
    BY <2>1, <2>5 DEF Suppressed, Pairs
<1>4. ReadAccepted' /\ propose'.read \subseteq Pairs
  BY <1>1, <1>2, <1>3 DEF ReadAccepted, Decided
<1>5. LinkShapes'
  BY <1>1, <1>2, <1>4 DEF LinksInv, LinkShapes
<1>6. RejectionsRemembered' /\ AppliedSoFar'
  BY <1>2 DEF LinksInv, RejectionsRemembered, AppliedSoFar, OnProject, OnTarget, Rivals, Sharers
<1> QED
  BY <1>4, <1>5, <1>6 DEF LinksInv

LEMMA ProposeKeeps ==
  ASSUME LinksInv, NEW x \in Pairs, Propose(x)
  PROVE  LinksInv'
<1>1. UNCHANGED <<links, back, apply, calm>> /\ rows = [y \in Pairs |-> rows[y]]
  BY DEF Propose, LinksInv, LinkShapes
<1>2. AppliedSoFar'
  BY <1>1 DEF LinksInv, AppliedSoFar, OnProject, OnTarget, Rivals, Sharers
<1>3. CASE rows[x] = "none"
  <2>1. UNCHANGED <<propose, undone>> /\ rows' = [rows EXCEPT ![x] = "bare"]
    BY <1>3 DEF Propose
  <2>2. x \notin propose.read
    BY <1>3 DEF LinksInv, ReadAccepted
  <2> QED
    BY <1>1, <1>2, <2>1, <2>2 DEF LinksInv, LinkShapes, ReadAccepted, RejectionsRemembered
<1>4. CASE rows[x] # "none"
  <2>1. /\ rows' = [rows EXCEPT ![x] = "Proposed"]
        /\ propose' = [todo |-> propose.todo \ {x}, read |-> propose.read \ {x}]
        /\ undone' = IF rows[x] \in Decided /\ x \in propose.read
                     THEN undone \cup {rows[x]} ELSE undone
    BY <1>4 DEF Propose
  <2>2. x \in propose.read => rows[x] = "Accepted"
    BY DEF LinksInv, ReadAccepted
  <2>3. RejectionsRemembered'
    BY <2>1, <2>2 DEF LinksInv, RejectionsRemembered
  <2> QED
    BY <1>1, <1>2, <2>1, <2>3 DEF LinksInv, LinkShapes, ReadAccepted
<1> QED
  BY <1>3, <1>4

\* A run that starts to apply reads everything anew.
LEMMA StartApplyKeeps ==
  ASSUME LinksInv, StartApply
  PROVE  LinksInv'
<1>1. /\ UNCHANGED <<links, back, rows, propose, undone>>
      /\ apply' = [on |-> TRUE, links |-> links, back |-> back, todo |-> Accepted,
                   half |-> {}, accepted |-> Accepted]
  BY DEF StartApply
<1>2. Accepted \subseteq Pairs
  BY DEF Accepted
<1> HIDE DEF Accepted
<1>3. LinkShapes'
  BY <1>1, <1>2 DEF LinksInv, LinkShapes
<1>4. AppliedSoFar'
  BY <1>1 DEF AppliedSoFar
<1> QED
  BY <1>1, <1>3, <1>4 DEF LinksInv, ReadAccepted, RejectionsRemembered

LEMMA ApplyToProjectKeeps ==
  ASSUME LinksInv, NEW p \in Projects, NEW t \in Library, ApplyToProject(p, t)
  PROVE  LinksInv'
<1> DEFINE k == OfKind(Kind[t])
<1>1. /\ UNCHANGED <<back, rows, propose, undone, calm>>
      /\ apply.half = {} /\ <<p, t>> \in apply.todo
      /\ links' = [links EXCEPT ![p] = (@ \ k) \cup ((apply.links[p] \cap k) \cup {t})]
      /\ apply' = [apply EXCEPT !.half = {<<p, t>>}]
  BY DEF ApplyToProject, Relation
<1>2. k \subseteq Library /\ t \in k
  BY DEF OfKind
<1>3. /\ links' \in [Projects -> SUBSET Library]
      /\ links'[p] = (links[p] \ k) \cup ((apply.links[p] \cap k) \cup {t})
      /\ \A q \in Projects \ {p} : links'[q] = links[q]
  BY <1>1, <1>2 DEF LinksInv, LinkShapes
<1>4. /\ DOMAIN apply' = DOMAIN apply /\ apply'.half = {<<p, t>>} /\ apply'.on = apply.on
      /\ apply'.links = apply.links /\ apply'.back = apply.back /\ apply'.todo = apply.todo
      /\ apply'.accepted = apply.accepted
  BY <1>1 DEF LinksInv, LinkShapes
<1>5. LinkShapes'
  BY <1>1, <1>3, <1>4 DEF LinksInv, LinkShapes
<1>6. ASSUME calm
      PROVE  /\ \A q \in Projects : apply.links[q] \subseteq links'[q]
             /\ \A x \in apply.accepted :
                    x \notin apply.todo \/ x = <<p, t>> =>
                        \E y \in Rivals(x) : y[2] \in links'[x[1]]
  <2>1. \A q \in Projects : apply.links[q] \subseteq links'[q]
    BY <1>3, <1>6 DEF LinksInv, AppliedSoFar
  <2>2. \A x \in apply.accepted :
            x[1] \in Projects /\ x[2] \in Library /\ x = <<x[1], x[2]>>
    BY DEF LinksInv, LinkShapes, Pairs
  <2>3. ASSUME NEW x \in apply.accepted, x \notin apply.todo \/ x = <<p, t>>
        PROVE  \E y \in Rivals(x) : y[2] \in links'[x[1]]
    <3>1. CASE x[1] = p /\ Kind[x[2]] = Kind[t]
      <4>1. <<p, t>> \in Rivals(x)
        BY <1>1, <3>1 DEF Rivals, LinksInv, LinkShapes
      <4> QED
        BY <1>3, <3>1, <4>1
    <3>2. CASE ~(x[1] = p /\ Kind[x[2]] = Kind[t])
      <4>1. x # <<p, t>>
        BY <3>2
      <4>2. PICK y \in Rivals(x) : y[2] \in links[x[1]]
        BY <1>6, <2>3, <4>1 DEF LinksInv, AppliedSoFar, OnProject
      <4>3. Kind[y[2]] = Kind[x[2]]
        BY <4>2 DEF Rivals
      <4>4. x[1] = p => y[2] \notin k
        BY <3>2, <4>3 DEF OfKind
      <4> QED
        BY <1>3, <2>2, <4>2, <4>4
    <3> QED
      BY <3>1, <3>2
  <2> QED
    BY <2>1, <2>3
<1>7. AppliedSoFar'
  <2>1. \A x : Rivals(x)' = Rivals(x) /\ Sharers(x)' = Sharers(x)
    BY <1>4 DEF Rivals, Sharers
  <2> QED
    BY <1>1, <1>4, <1>6, <2>1 DEF LinksInv, AppliedSoFar, OnProject, OnTarget
<1> QED
  BY <1>1, <1>5, <1>7 DEF LinksInv, ReadAccepted, RejectionsRemembered

LEMMA ApplyToTargetKeeps ==
  ASSUME LinksInv, NEW p \in Projects, NEW t \in Library, ApplyToTarget(p, t)
  PROVE  LinksInv'
<1>1. /\ UNCHANGED <<links, rows, propose, undone, calm>>
      /\ apply.half = {<<p, t>>}
      /\ back' = [back EXCEPT ![t] = apply.back[t] \cup {p}]
      /\ apply' = [apply EXCEPT !.half = {}, !.todo = @ \ {<<p, t>>},
                                !.on = apply.todo # {<<p, t>>}]
  BY DEF ApplyToTarget, Relation
<1>2. /\ back' \in [Library -> SUBSET Projects]
      /\ back'[t] = apply.back[t] \cup {p}
      /\ \A u \in Library \ {t} : back'[u] = back[u]
  BY <1>1 DEF LinksInv, LinkShapes
<1>3. /\ DOMAIN apply' = DOMAIN apply /\ apply'.half = {}
      /\ apply'.on <=> apply.todo # {<<p, t>>}
      /\ apply'.links = apply.links /\ apply'.back = apply.back
      /\ apply'.todo = apply.todo \ {<<p, t>>}
      /\ apply'.accepted = apply.accepted
  BY <1>1 DEF LinksInv, LinkShapes
<1>4. <<p, t>> \in apply.todo /\ <<p, t>> \in apply.accepted
  BY <1>1 DEF LinksInv, LinkShapes
<1>5. LinkShapes'
  BY <1>1, <1>2, <1>3 DEF LinksInv, LinkShapes
<1>6. ASSUME calm
      PROVE  /\ \A u \in Library : apply.back[u] \subseteq back'[u]
             /\ \A x \in apply.accepted :
                    x \notin apply.todo \ {<<p, t>>} =>
                        \E y \in Sharers(x) : y[1] \in back'[x[2]]
  <2>1. \A u \in Library : apply.back[u] \subseteq back'[u]
    BY <1>2, <1>6 DEF LinksInv, AppliedSoFar
  <2>2. ASSUME NEW x \in apply.accepted, x \notin apply.todo \ {<<p, t>>}
        PROVE  \E y \in Sharers(x) : y[1] \in back'[x[2]]
    <3>1. x[2] \in Library
      BY DEF LinksInv, LinkShapes, Pairs
    <3>2. CASE x[2] = t
      <4>1. <<p, t>> \in Sharers(x)
        BY <1>4, <3>2 DEF Sharers
      <4> QED
        BY <1>2, <3>2, <4>1
    <3>3. CASE x[2] # t
      <4>1. x \notin apply.todo
        BY <2>2, <3>3
      <4>2. PICK y \in Sharers(x) : y[1] \in back[x[2]]
        BY <1>6, <4>1 DEF LinksInv, AppliedSoFar, OnTarget
      <4> QED
        BY <1>2, <3>1, <3>3, <4>2
    <3> QED
      BY <3>2, <3>3
  <2> QED
    BY <2>1, <2>2
<1>7. AppliedSoFar'
  <2>1. \A x : Rivals(x)' = Rivals(x) /\ Sharers(x)' = Sharers(x)
    BY <1>3 DEF Rivals, Sharers
  <2>2. calm => \A x \in apply.accepted : x \notin apply.todo \ {<<p, t>>} => OnProject(x)
    BY <1>1 DEF LinksInv, AppliedSoFar
  <2>3. ~apply'.on => apply'.todo = {}
    BY <1>3
  <2> QED
    BY <1>1, <1>3, <1>6, <2>1, <2>2, <2>3 DEF LinksInv, AppliedSoFar, OnProject, OnTarget
<1> QED
  BY <1>1, <1>5, <1>7 DEF LinksInv, ReadAccepted, RejectionsRemembered

\* People, and runs that die.
LEMMA OthersKeep ==
  ASSUME LinksInv,
         \/ \E x \in Pairs, s \in Decided : Decide(x, s)
         \/ \E p \in Projects, t \in Library : Relink(p, t)
         \/ \E p \in Projects : MoveLane(p)
         \/ Die
  PROVE  LinksInv'
<1>1. ASSUME NEW x \in Pairs, NEW s \in Decided, Decide(x, s)
      PROVE  LinksInv'
  <2>1. /\ UNCHANGED <<links, back, apply, undone, calm>>
        /\ rows' = [rows EXCEPT ![x] = s]
        /\ propose' = [propose EXCEPT !.read = @ \ {x}]
    BY <1>1 DEF Decide
  <2>2. DOMAIN propose' = DOMAIN propose /\ propose'.read = propose.read \ {x}
    BY <2>1 DEF LinksInv, LinkShapes
  <2>3. rows' = [y \in Pairs |-> rows'[y]] /\ \A y \in Pairs \ {x} : rows'[y] = rows[y]
    BY <2>1 DEF LinksInv, LinkShapes
  <2>4. LinkShapes' /\ ReadAccepted'
    BY <2>1, <2>2, <2>3 DEF LinksInv, LinkShapes, ReadAccepted
  <2>5. RejectionsRemembered' /\ AppliedSoFar'
    BY <2>1 DEF LinksInv, RejectionsRemembered, AppliedSoFar, OnProject, OnTarget, Rivals, Sharers
  <2> QED
    BY <2>4, <2>5 DEF LinksInv
<1>2. ASSUME NEW p \in Projects, NEW t \in Library, Relink(p, t)
      PROVE  LinksInv'
  <2>1. /\ UNCHANGED <<back, rows, propose, apply, undone>> /\ calm' = FALSE
        /\ links' = [links EXCEPT ![p] = IF t \in @ THEN @ \ {t} ELSE @ \cup {t}]
    BY <1>2 DEF Relink
  <2>2. links' \in [Projects -> SUBSET Library]
    BY <2>1 DEF LinksInv, LinkShapes
  <2> QED
    BY <2>1, <2>2 DEF LinksInv, LinkShapes, ReadAccepted, RejectionsRemembered, AppliedSoFar
<1>3. ASSUME NEW p \in Projects, MoveLane(p)
      PROVE  LinksInv'
  BY <1>3 DEF MoveLane, LinksInv, LinkShapes, ReadAccepted, RejectionsRemembered, AppliedSoFar,
     OnProject, OnTarget, Rivals, Sharers
<1>4. ASSUME Die
      PROVE  LinksInv'
  <2>1. UNCHANGED <<links, back, rows, undone>>
    BY <1>4 DEF Die
  <2>2. CASE propose' = NoProposal /\ UNCHANGED <<apply, calm>>
    BY <2>1, <2>2 DEF LinksInv, LinkShapes, ReadAccepted, RejectionsRemembered, AppliedSoFar,
       OnProject, OnTarget, Rivals, Sharers, NoProposal
  <2>3. CASE apply' = [apply EXCEPT !.on = FALSE] /\ calm' = FALSE /\ UNCHANGED propose
    <3>1. /\ DOMAIN apply' = DOMAIN apply /\ apply'.half = apply.half
          /\ apply'.links = apply.links /\ apply'.back = apply.back
          /\ apply'.todo = apply.todo /\ apply'.accepted = apply.accepted
      BY <2>3 DEF LinksInv, LinkShapes
    <3> QED
      BY <2>1, <2>3, <3>1 DEF LinksInv, LinkShapes, ReadAccepted, RejectionsRemembered, AppliedSoFar
  <2> QED
    BY <1>4, <2>2, <2>3 DEF Die
<1> QED
  BY <1>1, <1>2, <1>3, <1>4

(***************************************************************************)
(* LinksStaySafe: for any projects, library and texts, and whatever people *)
(* decide and link and whichever run dies: no run puts back to Proposed a  *)
(* suggestion it read as rejected, and an apply run that nobody disturbs   *)
(* loses no link and writes each accepted one on both pages, or a rival of *)
(* the same relation (link-suggestions-sync.ts, intelligence-sync.ts).     *)
(***************************************************************************)
THEOREM LinksStaySafe == LinksSpec => []LinksSafe
<1>1. LinksInit => LinksInv
  BY LinksInitInv
<1>2. LinksInv /\ [LinksNext]_linking => LinksInv'
  <2> SUFFICES ASSUME LinksInv, [LinksNext]_linking PROVE LinksInv'
    OBVIOUS
  <2>1. CASE UNCHANGED linking
    BY <2>1 DEF linking, LinksInv, LinkShapes, ReadAccepted, RejectionsRemembered, AppliedSoFar,
       OnProject, OnTarget, Rivals, Sharers
  <2>2. CASE LinksNext
    BY <2>2, StartProposeKeeps, ProposeKeeps, StartApplyKeeps, ApplyToProjectKeeps,
       ApplyToTargetKeeps, OthersKeep DEF LinksNext
  <2> QED
    BY <2>1, <2>2
<1>3. LinksInv => LinksSafe
  BY DEF LinksInv, LinksSafe, LinksApplied, AppliedSoFar, OnProject, OnTarget
<1> QED
  BY <1>1, <1>2, <1>3, PTL DEF LinksSpec

------------------------------------------------------------------------------
(***************************************************************************)
(* The recommendations: blockers and age.                                  *)
(***************************************************************************)
\* The points of the scoring model are natural numbers.
LEMMA TablePoints ==
  /\ \A x : QueueScore(x) \in Nat
  /\ \A x : ShipScore(x) \in Nat
  /\ \A x : TimeToShipScore(x) \in Nat
  /\ \A x : MaturityScore(x) \in Nat
  /\ \A x : TimeToDemoScore(x) \in Nat
  /\ \A x : DriftScore(x) \in Nat
  /\ \A x : DecisionScore(x) \in Nat
  /\ \A f : CoverageScore(f) \in 0 .. 100
BY DEF QueueScore, ShipScore, TimeToShipScore, MaturityScore, TimeToDemoScore, DriftScore,
       DecisionScore, CoverageScore

LEMMA FieldPoints ==
  /\ \A x : Among(x, [Low |-> 20, Medium |-> 12, High |-> 4]) \in Nat
  /\ \A x : Among(x, [Fresh |-> 35, Aging |-> 20, Stale |-> 8]) \in Nat
  /\ \A x : Among(x, [High |-> 20, Medium |-> 12, Low |-> 5]) \in Nat
  /\ \A x : Among(x, [Strong |-> 15, Usable |-> 10, Thin |-> 5]) \in Nat
  /\ \A x : Among(x, [Strong |-> 15, Some |-> 10, Sparse |-> 5, Unknown |-> 3]) \in Nat
  /\ \A x : Among(x, [Core |-> 20, Useful |-> 12, Peripheral |-> 6]) \in Nat
  /\ \A x : Among(x, [Low |-> 40, Medium |-> 24, High |-> 8]) \in Nat
  /\ \A x : Among(x, [Stale |-> 30, Aging |-> 18, Fresh |-> 5]) \in Nat
  /\ \A x : Among(x, [High |-> 70, Medium |-> 45, Low |-> 10]) \in Nat
  /\ \A x : Among(x, [Fresh |-> 70, Aging |-> 40, Stale |-> 10]) \in Nat
BY DEF Among

LEMMA Arithmetic ==
  /\ \A b, x : x \in Nat => If(b, x) \in Nat
  /\ \A x, y : x \in Nat /\ y \in Nat => Least(x, y) \in Nat /\ Least(x, y) <= x /\ Least(x, y) <= y
  /\ \A x, y : x \in Nat /\ y \in Nat => Less(x, y) \in Nat /\ Less(x, y) <= x
  /\ \A x, y : y \in Nat => YesNo(x, y) \in Nat
  /\ \A x \in Nat : Clamp(x) \in 0 .. 100
  /\ \A x \in Nat : Nudge(x) \in Nat
BY DEF If, Least, Less, YesNo, Clamp, Nudge

LEMMA Monotone ==
  /\ \A x \in Nat, y \in Nat : x <= y => Clamp(x) <= Clamp(y)
  /\ \A x \in Nat, y \in Nat : x <= y => Rounded(x) <= Rounded(y)
  /\ \A x \in Nat, y \in Nat, z \in Nat : x <= y => Less(z, y) <= Less(z, x)
<1>1. \A x \in Nat, y \in Nat : x <= y => (x + 50) \div 100 <= (y + 50) \div 100
  OBVIOUS
<1>2. \A x \in Nat : (x + 50) \div 100 \in Nat
  OBVIOUS
<1>3. \A x \in Nat, y \in Nat : x <= y => Clamp(x) <= Clamp(y)
  BY DEF Clamp, Least
<1>4. \A x \in Nat, y \in Nat, z \in Nat : x <= y => Less(z, y) <= Less(z, x)
  BY DEF Less
<1> QED
  BY <1>1, <1>2, <1>3, <1>4 DEF Rounded

LEMMA CountsAreNumbers == \A f \in ProjectFacts : \A day : RecentFailures(f, day) \in Nat
<1> SUFFICES ASSUME NEW f \in ProjectFacts, NEW day PROVE RecentFailures(f, day) \in Nat
  OBVIOUS
<1> DEFINE T == {i \in Those(f.events, "Workflow Run", Failing) : Age(f.events[i].day, day) <= 14}
<1>1. DOMAIN f.events = 1 .. Len(f.events) /\ Len(f.events) \in Nat
  BY DEF ProjectFacts
<1>2. T \subseteq 1 .. Len(f.events)
  BY <1>1, Zenon DEF Those
<1>3. IsFiniteSet(1 .. Len(f.events))
  BY <1>1, FS_Interval
<1> HIDE DEF T
<1>4. Cardinality(T) \in Nat
  BY <1>2, <1>3, FS_Subset, FS_CardinalityType
<1> QED
  BY <1>4, Zenon DEF T, RecentFailures

LEMMA SignalPoints ==
  ASSUME NEW f \in ProjectFacts, NEW day
  PROVE  /\ RepoFreshness(f, day) \in 0 .. 100
         /\ WorkflowHealth(f, day) \in Nat
         /\ DeploymentHealth(f, day) \in Nat
         /\ \A d : Contradiction(f, d, day) \in Nat
<1>0. RecentFailures(f, day) \in Nat
  BY CountsAreNumbers
<1>1. RepoFreshness(f, day) \in 0 .. 100
  BY DEF RepoFreshness
<1>2. WorkflowHealth(f, day) \in Nat
  <2>1. \A b, x : x \in Nat => 22 * RecentFailures(f, day) + If(b, x) \in Nat
    BY <1>0, Arithmetic
  <2>2. \A b : Less(88, 22 * RecentFailures(f, day) + If(b, 18)) \in Nat
    BY <2>1, Arithmetic
  <2> QED
    BY <2>2, <1>0 DEF WorkflowHealth
<1>3. DeploymentHealth(f, day) \in Nat
  <2> DEFINE new(age) == CASE age <= 7 -> 18 [] age \in 8 .. 21 -> 10 [] OTHER -> 0
             s == Head(Deployments(f.events)).status
             age == Age(Head(Deployments(f.events)).day, day)
  <2>1. \A x : new(x) \in Nat
    OBVIOUS
  <2> HIDE DEF new
  <2>2. \A x : Clamp(82 + new(x)) \in Nat /\ Clamp(58 + new(x)) \in Nat
    BY <2>1, Arithmetic
  <2>3. 0 \in Nat /\ 45 \in Nat /\ 16 \in Nat /\ 28 \in Nat /\ 42 \in Nat
    OBVIOUS
  <2> DEFINE graded ==
        CASE s \in Good -> Clamp(82 + new(age)) [] s \in Moving -> Clamp(58 + new(age))
          [] s \in {"failed", "error", "failure"} -> 16
          [] s \in {"canceled", "cancelled"} -> 28 [] OTHER -> 42
  <2>4. DeploymentHealth(f, day) =
          IF "deploy" \notin f.sources THEN 0
          ELSE IF Deployments(f.events) = <<>> THEN 45 ELSE graded
    BY Zenon DEF DeploymentHealth, new, s, age, graded
  <2>5. graded \in Nat
    <3> HIDE DEF s, age
    <3> QED BY <2>2, <2>3, Zenon
  <2> HIDE DEF graded
  <2> QED
    BY <2>4, <2>5
<1>4. ASSUME NEW d PROVE Contradiction(f, d, day) \in Nat
  <2>1. \A b, c : 25 * RecentFailures(f, day) + If(b, 35) + If(c, 18) \in Nat
    BY <1>0, Arithmetic
  <2>2. \A b, c : Clamp(25 * RecentFailures(f, day) + If(b, 35) + If(c, 18)) \in Nat
    BY <2>1, Arithmetic
  <2> QED
    BY <2>2, Zenon DEF Contradiction
<1> QED
  BY <1>1, <1>2, <1>3, <1>4

LEMMA BoostPoints ==
  ASSUME NEW f \in ProjectFacts, NEW d, NEW day
  PROVE  /\ Boosts(f, d, day).Resume \in Nat
         /\ Boosts(f, d, day).Finish \in Nat
         /\ Boosts(f, d, day).Investigate \in Nat
         /\ Boosts(f, d, day).Defer \in Nat
<1> DEFINE cover == 5 * CoverageScore(f)
           repo  == RepoFreshness(f, day)
           work  == WorkflowHealth(f, day)
           ship  == DeploymentHealth(f, day)
           odd   == Contradiction(f, d, day)
<1>1. cover \in Nat /\ repo \in 0 .. 100 /\ work \in Nat /\ ship \in Nat /\ odd \in Nat
  BY TablePoints, SignalPoints
<1>2. Boosts(f, d, day) =
        IF Coverage(f) = "None"
        THEN [Resume |-> 0, Finish |-> 0, Investigate |-> 0, Defer |-> 0]
        ELSE [ Resume |-> Nudge(8 * repo + 7 * work + cover),
               Finish |-> Nudge(12 * ship + 8 * work + cover),
               Investigate |-> Nudge(18 * odd + If(DeploymentStatus(f) = "Failed", 600)
                                     + If(RecentFailures(f, day) > 0, 600)),
               Defer |-> Least(15, Nudge(10 * (100 - repo) + cover)
                                   + If(DeploymentStatus(f) = "Failed", 4)
                                   + If(d.queue = "Cold Storage", 6)) ]
  BY Zenon DEF Boosts
<1> HIDE DEF cover, repo, work, ship, odd
<1>3. /\ Nudge(8 * repo + 7 * work + cover) \in Nat
      /\ Nudge(12 * ship + 8 * work + cover) \in Nat
  <2>1. 8 * repo + 7 * work + cover \in Nat /\ 12 * ship + 8 * work + cover \in Nat
    BY <1>1
  <2> QED
    BY <2>1, Arithmetic
<1>4. \A b, c : Least(15, Nudge(10 * (100 - repo) + cover) + If(b, 4) + If(c, 6)) \in Nat
  <2>1. 10 * (100 - repo) + cover \in Nat
    BY <1>1
  <2>2. \A b, c : Nudge(10 * (100 - repo) + cover) + If(b, 4) + If(c, 6) \in Nat
    BY <2>1, Arithmetic
  <2> QED
    BY <2>2, Arithmetic
<1>5. CASE Coverage(f) = "None"
  BY <1>2, <1>5
<1>6. CASE Coverage(f) # "None"
  <2> DEFINE one == Nudge(8 * repo + 7 * work + cover)
             two == Nudge(12 * ship + 8 * work + cover)
             three == Nudge(18 * odd + If(DeploymentStatus(f) = "Failed", 600)
                            + If(RecentFailures(f, day) > 0, 600))
             four == Least(15, Nudge(10 * (100 - repo) + cover)
                                   + If(DeploymentStatus(f) = "Failed", 4)
                                   + If(d.queue = "Cold Storage", 6))
  <2>1. one \in Nat /\ two \in Nat
    BY <1>3
  <2>2. three \in Nat
    <3> DEFINE down == If(DeploymentStatus(f) = "Failed", 600)
               failures == If(RecentFailures(f, day) > 0, 600)
    <3>1. down \in Nat /\ failures \in Nat
      BY DEF If
    <3> HIDE DEF down, failures
    <3>2. 18 * odd + down + failures \in Nat
      BY <3>1, <1>1
    <3>3. Nudge(18 * odd + down + failures) \in Nat
      BY <3>2, Arithmetic
    <3> QED BY <3>3, Zenon DEF down, failures
  <2>3. four \in Nat
    BY <1>4, ZenonT(60)
  <2>4. Boosts(f, d, day) =
          [Resume |-> one, Finish |-> two, Investigate |-> three, Defer |-> four]
    BY <1>2, <1>6, Zenon
  <2> HIDE DEF one, two, three, four
  <2> QED BY <2>1, <2>2, <2>3, <2>4
<1> QED
  BY <1>5, <1>6

\* The counts the factors are made of.
Counted(f) ==
    /\ f.research \in Nat /\ f.skills \in Nat /\ f.tools \in Nat /\ f.decisions \in Nat
    /\ f.blockedPackets \in Nat /\ f.blockedTasks \in Nat /\ f.rollovers \in Nat
    /\ f.recentDone \in Nat

LEMMA FactsAreCounted == \A f \in ProjectFacts : Counted(f)
BY DEF ProjectFacts, Counted

LEMMA FactorPoints ==
  ASSUME NEW f, Counted(f), NEW d, NEW day
  PROVE  /\ ExecutionReadiness(f, d) \in 0 .. 100
         /\ FinishProximity(f) \in 0 .. 100
         /\ EvidenceStrength(f, d) \in 0 .. 100
         /\ SupportFit(f) \in 0 .. 100
         /\ ExecutionHealth(f) \in 0 .. 100
         /\ AttentionCost(f) \in 0 .. 100
         /\ ColdnessDrift(f, d, day) \in 0 .. 100
         /\ DecisionStateFit(f) \in 0 .. 100
         /\ AmbiguityPenalty(f) \in 0 .. 100
         /\ BlockerPenalty(f) \in 0 .. 100
         /\ FreshnessScore(f, d) \in 0 .. 100
         /\ Clamp(10 * Pain(f)) \in 0 .. 100
<1>0. /\ f.research \in Nat /\ f.skills \in Nat /\ f.tools \in Nat /\ f.decisions \in Nat
      /\ f.blockedPackets \in Nat /\ f.blockedTasks \in Nat /\ f.rollovers \in Nat
      /\ f.recentDone \in Nat
  BY DEF Counted
<1>1. /\ \A b : If(b, 15) \in Nat /\ If(b, 10) \in Nat /\ If(b, 12) \in Nat /\ If(b, 8) \in Nat
      /\ \A b : If(b, 25) \in Nat /\ If(b, 30) \in Nat
      /\ \A x : YesNo(x, 15) \in Nat /\ YesNo(x, 20) \in Nat
  BY Arithmetic
<1>2. /\ If(f.decisions = 0, 10) \in Nat /\ If(SupportRich(f), 12) \in Nat
      /\ If(Age(f.active, day) > 30, 25) \in Nat /\ If(f.active # 0, 30) \in Nat
  BY DEF If
<1>3. /\ Least(f.recentDone, 2) \in Nat /\ Least(f.research, 3) \in Nat
      /\ Least(f.skills, 3) \in Nat /\ Least(f.tools, 3) \in Nat
      /\ Least(f.decisions, 3) \in Nat /\ Least(f.research, 2) \in Nat
  BY <1>0, Arithmetic
<1>4. Pain(f) \in Nat
  BY <1>0 DEF Pain
<1>5. \A x \in Nat : Clamp(x) \in 0 .. 100
  BY Arithmetic
<1>a. ExecutionReadiness(f, d) \in 0 .. 100
  BY <1>1, <1>2, <1>5, TablePoints, FieldPoints DEF ExecutionReadiness
<1>b. FinishProximity(f) \in 0 .. 100
  BY <1>3, <1>5, TablePoints DEF FinishProximity
<1>c. EvidenceStrength(f, d) \in 0 .. 100
  BY <1>3, <1>5, FieldPoints DEF EvidenceStrength
<1>d. SupportFit(f) \in 0 .. 100
  <2> DEFINE rich == If(SupportRich(f), 12)
  <2>1. rich \in Nat
    BY <1>2, Zenon
  <2> HIDE DEF rich
  <2>2. Clamp(12 * Least(f.research, 3) + 10 * Least(f.skills, 3) + 10 * Least(f.tools, 3)
              + Among(f.relevance, [Core |-> 20, Useful |-> 12, Peripheral |-> 6]) + rich)
          \in 0 .. 100
    BY <2>1, <1>3, <1>5, FieldPoints
  <2> QED
    BY <2>2, Zenon DEF SupportFit, rich
<1>e. ExecutionHealth(f) \in 0 .. 100
  <2>1. /\ 100 + If(f.activePacket, 8) \in Nat
        /\ 20 * f.blockedPackets + 10 * f.blockedTasks + 8 * Pain(f) + 8 * f.decisions \in Nat
    BY <1>0, <1>1, <1>4
  <2> QED
    BY <2>1, <1>5, Arithmetic DEF ExecutionHealth
<1>f. AttentionCost(f) \in 0 .. 100
  BY <1>1, <1>5, TablePoints, FieldPoints DEF AttentionCost
<1>g. ColdnessDrift(f, d, day) \in 0 .. 100
  BY <1>2, <1>5, TablePoints, FieldPoints DEF ColdnessDrift
<1>h. DecisionStateFit(f) \in 0 .. 100
  BY <1>3, <1>5, TablePoints DEF DecisionStateFit
<1>i. AmbiguityPenalty(f) \in 0 .. 100
  <2> DEFINE doubt == Among(f.confidence, [High |-> 70, Medium |-> 45, Low |-> 10])
                        + 10 * Least(f.research, 2)
  <2>1. doubt \in Nat
    BY <1>3, FieldPoints
  <2> HIDE DEF doubt
  <2>2. Less(100, doubt) \in Nat /\ Less(100, doubt) <= 100
    BY <2>1, Arithmetic
  <2>3. Less(100, doubt) \in 0 .. 100
    BY <2>2
  <2> QED
    BY <2>3, Zenon DEF AmbiguityPenalty, doubt
<1>j. BlockerPenalty(f) \in 0 .. 100
  BY <1>0, <1>5 DEF BlockerPenalty
<1>k. FreshnessScore(f, d) \in 0 .. 100
  BY <1>2, <1>5, FieldPoints DEF FreshnessScore
<1>l. Clamp(10 * Pain(f)) \in 0 .. 100
  BY <1>4, <1>5
<1> QED
  BY <1>a, <1>b, <1>c, <1>d, <1>e, <1>f, <1>g, <1>h, <1>i, <1>j, <1>k, <1>l

------------------------------------------------------------------------------
LEMMA ScoreSums ==
  ASSUME NEW f, NEW d, NEW day
  PROVE  /\ Scores(f, d, day).Resume =
              Rounded(30 * ExecutionReadiness(f, d) + 20 * SupportFit(f)
                      + 15 * EvidenceStrength(f, d) + 15 * ExecutionHealth(f)
                      + 10 * AttentionCost(f) + 10 * FreshnessScore(f, d)
                      + 100 * Boosts(f, d, day).Resume)
         /\ Scores(f, d, day).Finish =
              Rounded(35 * FinishProximity(f) + 20 * ExecutionHealth(f)
                      + 15 * EvidenceStrength(f, d) + 10 * SupportFit(f)
                      + 10 * AttentionCost(f) + 10 * (100 - BlockerPenalty(f))
                      + 100 * Boosts(f, d, day).Finish)
         /\ Scores(f, d, day).Defer =
              Rounded(30 * ColdnessDrift(f, d, day) + 25 * (100 - EvidenceStrength(f, d))
                      + 20 * (100 - AttentionCost(f)) + 15 * (100 - SupportFit(f))
                      + 10 * Clamp(10 * Pain(f)) + 100 * Boosts(f, d, day).Defer)
BY DEF Scores

LEMMA WorseScores ==
  ASSUME NEW f \in ProjectFacts, NEW g, Counted(g), NEW d, NEW e, NEW day,
         EvidenceStrength(g, e) <= EvidenceStrength(f, d),
         ExecutionHealth(g) <= ExecutionHealth(f),
         FreshnessScore(g, e) <= FreshnessScore(f, d),
         BlockerPenalty(f) <= BlockerPenalty(g),
         ColdnessDrift(f, d, day) <= ColdnessDrift(g, e, day),
         Clamp(10 * Pain(f)) <= Clamp(10 * Pain(g)),
         ExecutionReadiness(g, e) = ExecutionReadiness(f, d),
         FinishProximity(g) = FinishProximity(f),
         SupportFit(g) = SupportFit(f),
         AttentionCost(g) = AttentionCost(f),
         Boosts(g, e, day) = Boosts(f, d, day)
  PROVE  /\ Scores(g, e, day).Resume <= Scores(f, d, day).Resume
         /\ Scores(g, e, day).Finish <= Scores(f, d, day).Finish
         /\ Scores(g, e, day).Defer >= Scores(f, d, day).Defer
<1>1. /\ ExecutionReadiness(f, d) \in Nat /\ FinishProximity(f) \in Nat
      /\ SupportFit(f) \in 0 .. 100 /\ AttentionCost(f) \in 0 .. 100
      /\ EvidenceStrength(f, d) \in 0 .. 100 /\ EvidenceStrength(g, e) \in 0 .. 100
      /\ ExecutionHealth(f) \in Nat /\ ExecutionHealth(g) \in Nat
      /\ FreshnessScore(f, d) \in Nat /\ FreshnessScore(g, e) \in Nat
      /\ BlockerPenalty(f) \in 0 .. 100 /\ BlockerPenalty(g) \in 0 .. 100
      /\ ColdnessDrift(f, d, day) \in Nat /\ ColdnessDrift(g, e, day) \in Nat
      /\ Clamp(10 * Pain(f)) \in Nat /\ Clamp(10 * Pain(g)) \in Nat
  <2>1. \A x : x \in 0 .. 100 => x \in Nat
    OBVIOUS
  <2> QED
    BY FactorPoints, FactsAreCounted, <2>1
<1>2. /\ Boosts(f, d, day).Resume \in Nat
      /\ Boosts(f, d, day).Finish \in Nat
      /\ Boosts(f, d, day).Defer \in Nat
  BY BoostPoints
<1> DEFINE ready == ExecutionReadiness(f, d)     near == FinishProximity(f)
           fit == SupportFit(f)                 cost == AttentionCost(f)
           known == EvidenceStrength(f, d)      known2 == EvidenceStrength(g, e)
           health == ExecutionHealth(f)         health2 == ExecutionHealth(g)
           fresh == FreshnessScore(f, d)        fresh2 == FreshnessScore(g, e)
           stuck == BlockerPenalty(f)           stuck2 == BlockerPenalty(g)
           cold == ColdnessDrift(f, d, day)   cold2 == ColdnessDrift(g, e, day)
           pain == Clamp(10 * Pain(f))          pain2 == Clamp(10 * Pain(g))
           plus == Boosts(f, d, day).Resume   plus2 == Boosts(f, d, day).Finish
           plus3 == Boosts(f, d, day).Defer
           r == 30 * ready + 20 * fit + 15 * known + 15 * health + 10 * cost + 10 * fresh
                + 100 * plus
           r2 == 30 * ready + 20 * fit + 15 * known2 + 15 * health2 + 10 * cost + 10 * fresh2
                 + 100 * plus
           t == 35 * near + 20 * health + 15 * known + 10 * fit + 10 * cost + 10 * (100 - stuck)
                + 100 * plus2
           t2 == 35 * near + 20 * health2 + 15 * known2 + 10 * fit + 10 * cost
                 + 10 * (100 - stuck2) + 100 * plus2
           u == 30 * cold + 25 * (100 - known) + 20 * (100 - cost) + 15 * (100 - fit)
                + 10 * pain + 100 * plus3
           u2 == 30 * cold2 + 25 * (100 - known2) + 20 * (100 - cost) + 15 * (100 - fit)
                 + 10 * pain2 + 100 * plus3
<1>3. /\ Scores(f, d, day).Resume = Rounded(r)
      /\ Scores(f, d, day).Finish = Rounded(t)
      /\ Scores(f, d, day).Defer = Rounded(u)
  BY ScoreSums
<1>4. /\ Scores(g, e, day).Resume = Rounded(r2)
      /\ Scores(g, e, day).Finish = Rounded(t2)
      /\ Scores(g, e, day).Defer = Rounded(u2)
  <2>1. /\ Scores(g, e, day).Resume =
              Rounded(30 * ExecutionReadiness(g, e) + 20 * SupportFit(g) + 15 * known2
                      + 15 * health2 + 10 * AttentionCost(g) + 10 * fresh2
                      + 100 * Boosts(g, e, day).Resume)
        /\ Scores(g, e, day).Finish =
              Rounded(35 * FinishProximity(g) + 20 * health2 + 15 * known2 + 10 * SupportFit(g)
                      + 10 * AttentionCost(g) + 10 * (100 - stuck2)
                      + 100 * Boosts(g, e, day).Finish)
        /\ Scores(g, e, day).Defer =
              Rounded(30 * cold2 + 25 * (100 - known2) + 20 * (100 - AttentionCost(g))
                      + 15 * (100 - SupportFit(g)) + 10 * pain2 + 100 * Boosts(g, e, day).Defer)
    BY ScoreSums
  <2>2. /\ ExecutionReadiness(g, e) = ready /\ FinishProximity(g) = near /\ SupportFit(g) = fit
        /\ AttentionCost(g) = cost /\ Boosts(g, e, day).Resume = plus
        /\ Boosts(g, e, day).Finish = plus2 /\ Boosts(g, e, day).Defer = plus3
    OBVIOUS
  <2> HIDE DEF ready, near, fit, cost, known, known2, health, health2, fresh, fresh2, stuck,
               stuck2, cold, cold2, pain, pain2, plus, plus2, plus3
  <2> QED
    BY <2>1, <2>2
<1>0. /\ ready \in Nat /\ near \in Nat /\ fit \in 0 .. 100 /\ cost \in 0 .. 100
      /\ known \in 0 .. 100 /\ known2 \in 0 .. 100 /\ health \in Nat /\ health2 \in Nat
      /\ fresh \in Nat /\ fresh2 \in Nat /\ stuck \in 0 .. 100 /\ stuck2 \in 0 .. 100
      /\ cold \in Nat /\ cold2 \in Nat /\ pain \in Nat /\ pain2 \in Nat
      /\ plus \in Nat /\ plus2 \in Nat /\ plus3 \in Nat
  BY <1>1, <1>2, Zenon
<1>5. /\ known2 <= known /\ health2 <= health /\ fresh2 <= fresh
      /\ stuck <= stuck2 /\ cold <= cold2 /\ pain <= pain2
  OBVIOUS
<1> HIDE DEF ready, near, fit, cost, known, known2, health, health2, fresh, fresh2, stuck, stuck2,
             cold, cold2, pain, pain2, plus, plus2, plus3
<1>6. r \in Nat /\ r2 \in Nat /\ r2 <= r
  BY <1>0, <1>5
<1>7. t \in Nat /\ t2 \in Nat /\ t2 <= t
  BY <1>0, <1>5
<1>8. u \in Nat /\ u2 \in Nat /\ u <= u2
  BY <1>0, <1>5
<1> HIDE DEF r, r2, t, t2, u, u2
<1>9. Rounded(r2) <= Rounded(r) /\ Rounded(t2) <= Rounded(t) /\ Rounded(u2) >= Rounded(u)
  <2>1. \A x \in Nat : Rounded(x) \in Int
    BY DEF Rounded, Clamp, Least
  <2> QED
    BY <1>6, <1>7, <1>8, <2>1, Monotone
<1> QED
  BY <1>3, <1>4, <1>9

------------------------------------------------------------------------------
\* The boosts look at the sources and events, and at the queue of the page.
LEMMA SameBoosts ==
  ASSUME NEW f, NEW g, NEW d, NEW e, NEW day,
         g.sources = f.sources, g.events = f.events, g.mapped = f.mapped, g.ship = f.ship,
         e.queue = d.queue
  PROVE  Boosts(g, e, day) = Boosts(f, d, day)
<1>1. Coverage(g) = Coverage(f)
  BY Zenon DEF Coverage
<1>2. CoverageScore(g) = CoverageScore(f)
  BY <1>1, Zenon DEF CoverageScore
<1>3. DeploymentStatus(g) = DeploymentStatus(f)
  BY DEF DeploymentStatus
<1>4. RecentFailures(g, day) = RecentFailures(f, day)
  BY Zenon DEF RecentFailures
<1>5. RepoFreshness(g, day) = RepoFreshness(f, day)
  BY DEF RepoFreshness
<1>6. WorkflowHealth(g, day) = WorkflowHealth(f, day)
  BY <1>4, Zenon DEF WorkflowHealth
<1>7. DeploymentHealth(g, day) = DeploymentHealth(f, day)
  BY DEF DeploymentHealth
<1>8. Contradiction(g, e, day) = Contradiction(f, d, day)
  BY <1>1, <1>3, <1>4, <1>5, Zenon DEF Contradiction
<1> QED
  BY <1>1, <1>2, <1>3, <1>4, <1>5, <1>6, <1>7, <1>8 DEF Boosts

\* Two projects that differ in their blockers only.
SameButBlockers(f, g) ==
    /\ g.state = f.state /\ g.runs = f.runs /\ g.friction = f.friction /\ g.ship = f.ship
    /\ g.toShip = f.toShip /\ g.toDemo = f.toDemo /\ g.maturity = f.maturity
    /\ g.confidence = f.confidence /\ g.docs = f.docs /\ g.tests = f.tests
    /\ g.relevance = f.relevance /\ g.move = f.move /\ g.activePacket = f.activePacket
    /\ g.active = f.active /\ g.research = f.research /\ g.skills = f.skills
    /\ g.tools = f.tools /\ g.decisions = f.decisions /\ g.rollovers = f.rollovers
    /\ g.recentDone = f.recentDone /\ g.mapped = f.mapped /\ g.sources = f.sources
    /\ g.events = f.events

FactNames == {
    "state", "call", "runs", "friction", "ship", "toShip", "toDemo", "maturity", "confidence",
    "docs", "tests", "relevance", "review", "move", "activePacket", "active", "session",
    "sessions", "research", "skills", "tools", "decisions", "packets", "tasks",
    "blockedPackets", "blockedTasks", "rollovers", "recentDone", "mapped", "sources", "events" }

LEMMA OneMorePacket ==
  ASSUME NEW f \in ProjectFacts, NEW g, g = [f EXCEPT !.blockedPackets = @ + 1]
  PROVE  /\ Counted(g) /\ SameButBlockers(f, g)
         /\ g.blockedPackets = f.blockedPackets + 1 /\ g.blockedTasks = f.blockedTasks
<1>1. \A x \in DOMAIN f : x # "blockedPackets" => g[x] = f[x]
  OBVIOUS
<1>2. DOMAIN f = FactNames /\ f.blockedPackets \in Nat
  BY DEF ProjectFacts, FactNames
<1>3. g.blockedPackets = f.blockedPackets + 1
  BY <1>2 DEF FactNames
<1>4. Counted(f)
  BY FactsAreCounted
<1> QED
  BY <1>1, <1>2, <1>3, <1>4 DEF FactNames, Counted, SameButBlockers

LEMMA OneMoreTask ==
  ASSUME NEW f \in ProjectFacts, NEW g, g = [f EXCEPT !.blockedTasks = @ + 1]
  PROVE  /\ Counted(g) /\ SameButBlockers(f, g)
         /\ g.blockedTasks = f.blockedTasks + 1 /\ g.blockedPackets = f.blockedPackets
<1>1. \A x \in DOMAIN f : x # "blockedTasks" => g[x] = f[x]
  OBVIOUS
<1>2. DOMAIN f = FactNames /\ f.blockedTasks \in Nat
  BY DEF ProjectFacts, FactNames
<1>3. g.blockedTasks = f.blockedTasks + 1
  BY <1>2 DEF FactNames
<1>4. Counted(f)
  BY FactsAreCounted
<1> QED
  BY <1>1, <1>2, <1>3, <1>4 DEF FactNames, Counted, SameButBlockers

LEMMA BlockersOnly ==
  ASSUME NEW f, NEW g, NEW d, NEW day, SameButBlockers(f, g)
  PROVE  /\ EvidenceStrength(g, d) = EvidenceStrength(f, d)
         /\ FreshnessScore(g, d) = FreshnessScore(f, d)
         /\ ColdnessDrift(g, d, day) = ColdnessDrift(f, d, day)
         /\ ExecutionReadiness(g, d) = ExecutionReadiness(f, d)
         /\ FinishProximity(g) = FinishProximity(f)
         /\ SupportFit(g) = SupportFit(f)
         /\ AttentionCost(g) = AttentionCost(f)
<1>1. EvidenceStrength(g, d) = EvidenceStrength(f, d)
  BY Zenon DEF EvidenceStrength, SameButBlockers
<1>2. FreshnessScore(g, d) = FreshnessScore(f, d)
  BY Zenon DEF FreshnessScore, SameButBlockers
<1>3. ColdnessDrift(g, d, day) = ColdnessDrift(f, d, day)
  BY Zenon DEF ColdnessDrift, SameButBlockers
<1>4. ExecutionReadiness(g, d) = ExecutionReadiness(f, d)
  BY Zenon DEF ExecutionReadiness, SameButBlockers
<1>5. FinishProximity(g) = FinishProximity(f)
  BY Zenon DEF FinishProximity, SameButBlockers
<1>6. SupportFit(g) = SupportFit(f)
  BY Zenon DEF SupportFit, SameButBlockers, SupportRich, Support
<1>7. AttentionCost(g) = AttentionCost(f)
  BY Zenon DEF AttentionCost, SameButBlockers
<1> QED
  BY <1>1, <1>2, <1>3, <1>4, <1>5, <1>6, <1>7

LEMMA BlockersHinder ==
  ASSUME NEW f \in ProjectFacts, NEW g, Counted(g), SameButBlockers(f, g),
         f.blockedPackets <= g.blockedPackets, f.blockedTasks <= g.blockedTasks,
         NEW d, NEW day
  PROVE  /\ Scores(g, d, day).Resume <= Scores(f, d, day).Resume
         /\ Scores(g, d, day).Finish <= Scores(f, d, day).Finish
         /\ Scores(g, d, day).Defer >= Scores(f, d, day).Defer
<1>1. Counted(f)
  BY FactsAreCounted
<1>2. Boosts(g, d, day) = Boosts(f, d, day)
  BY SameBoosts DEF SameButBlockers
<1>3. /\ EvidenceStrength(g, d) = EvidenceStrength(f, d)
      /\ FreshnessScore(g, d) = FreshnessScore(f, d)
      /\ ColdnessDrift(g, d, day) = ColdnessDrift(f, d, day)
      /\ ExecutionReadiness(g, d) = ExecutionReadiness(f, d)
      /\ FinishProximity(g) = FinishProximity(f)
      /\ SupportFit(g) = SupportFit(f)
      /\ AttentionCost(g) = AttentionCost(f)
  BY BlockersOnly
<1>4. Pain(f) \in Nat /\ Pain(g) \in Nat /\ Pain(f) <= Pain(g)
  BY <1>1 DEF Pain, Counted, SameButBlockers
<1>5. ExecutionHealth(g) <= ExecutionHealth(f)
  <2> DEFINE most == 100 + If(f.activePacket, 8)
             x == 20 * f.blockedPackets + 10 * f.blockedTasks + 8 * Pain(f) + 8 * f.decisions
             y == 20 * g.blockedPackets + 10 * g.blockedTasks + 8 * Pain(g) + 8 * g.decisions
  <2>1. most \in Nat
    BY Arithmetic
  <2>2. x \in Nat /\ y \in Nat /\ x <= y
    BY <1>1, <1>4 DEF Counted, SameButBlockers
  <2>3. ExecutionHealth(f) = Clamp(Less(most, x)) /\ ExecutionHealth(g) = Clamp(Less(most, y))
    BY Zenon DEF ExecutionHealth, SameButBlockers
  <2> HIDE DEF most, x, y
  <2>4. Less(most, y) <= Less(most, x) /\ Less(most, y) \in Nat /\ Less(most, x) \in Nat
    BY <2>1, <2>2, Monotone, Arithmetic
  <2> QED
    BY <2>3, <2>4, Monotone
<1>6. BlockerPenalty(f) <= BlockerPenalty(g)
  <2> DEFINE x == 40 * f.blockedPackets + 20 * f.blockedTasks + 15 * f.decisions
             y == 40 * g.blockedPackets + 20 * g.blockedTasks + 15 * g.decisions
  <2>1. x \in Nat /\ y \in Nat /\ x <= y
    BY <1>1 DEF Counted, SameButBlockers
  <2>2. BlockerPenalty(f) = Clamp(x) /\ BlockerPenalty(g) = Clamp(y)
    BY DEF BlockerPenalty
  <2> HIDE DEF x, y
  <2> QED
    BY <2>1, <2>2, Monotone
<1>7. /\ \A x \in 0 .. 100 : x <= x
      /\ EvidenceStrength(f, d) \in 0 .. 100 /\ FreshnessScore(f, d) \in 0 .. 100
      /\ ColdnessDrift(f, d, day) \in 0 .. 100
  BY <1>1, FactorPoints
<1>8. /\ EvidenceStrength(g, d) <= EvidenceStrength(f, d)
      /\ FreshnessScore(g, d) <= FreshnessScore(f, d)
      /\ ColdnessDrift(f, d, day) <= ColdnessDrift(g, d, day)
  BY <1>3, <1>7, Zenon
<1>9. Clamp(10 * Pain(f)) <= Clamp(10 * Pain(g))
  BY <1>4, Monotone
<1> QED
  BY <1>1, <1>2, <1>3, <1>5, <1>6, <1>8, <1>9, WorseScores

LEMMA AgeHinders ==
  ASSUME NEW f \in ProjectFacts, NEW d, NEW e, NEW day,
         d.freshness = "Fresh", e.freshness = "Aging", e.queue = d.queue
  PROVE  /\ Scores(f, e, day).Resume <= Scores(f, d, day).Resume
         /\ Scores(f, e, day).Finish <= Scores(f, d, day).Finish
         /\ Scores(f, e, day).Defer >= Scores(f, d, day).Defer
<1>1. Counted(f)
  BY FactsAreCounted
<1>2. Boosts(f, e, day) = Boosts(f, d, day)
  BY SameBoosts
<1>3. ExecutionReadiness(f, e) = ExecutionReadiness(f, d)
  BY Zenon DEF ExecutionReadiness
<1>4. EvidenceStrength(f, e) <= EvidenceStrength(f, d)
  <2> DEFINE rest == Among(f.confidence, [High |-> 20, Medium |-> 12, Low |-> 5])
                     + Among(f.docs, [Strong |-> 15, Usable |-> 10, Thin |-> 5])
                     + Among(f.tests, [Strong |-> 15, Some |-> 10, Sparse |-> 5, Unknown |-> 3])
                     + 5 * Least(f.research, 3)
  <2>1. rest \in Nat
    BY <1>1, FieldPoints, Arithmetic DEF Counted
  <2>2. /\ Among("Fresh", [Fresh |-> 35, Aging |-> 20, Stale |-> 8]) = 35
        /\ Among("Aging", [Fresh |-> 35, Aging |-> 20, Stale |-> 8]) = 20
    BY DEF Among
  <2>3. EvidenceStrength(f, d) = Clamp(35 + rest) /\ EvidenceStrength(f, e) = Clamp(20 + rest)
    BY <1>1, <2>2, FieldPoints, Arithmetic DEF EvidenceStrength, Counted
  <2> HIDE DEF rest
  <2> QED
    BY <2>1, <2>3, Monotone
<1>5. FreshnessScore(f, e) <= FreshnessScore(f, d)
  <2> DEFINE rest == If(f.active # 0, 30)
  <2>1. rest \in Nat
    BY DEF If
  <2>2. /\ Among("Fresh", [Fresh |-> 70, Aging |-> 40, Stale |-> 10]) = 70
        /\ Among("Aging", [Fresh |-> 70, Aging |-> 40, Stale |-> 10]) = 40
    BY DEF Among
  <2>3. FreshnessScore(f, d) = Clamp(70 + rest) /\ FreshnessScore(f, e) = Clamp(40 + rest)
    BY <2>2, Zenon DEF FreshnessScore
  <2> HIDE DEF rest
  <2> QED
    BY <2>1, <2>3, Monotone
<1>6. ColdnessDrift(f, d, day) <= ColdnessDrift(f, e, day)
  <2> DEFINE one == DriftScore(f.state)
             two == If(Age(f.active, day) > 30, 25)
  <2>1. one \in Nat /\ two \in Nat
    BY TablePoints DEF If
  <2>2. /\ Among("Fresh", [Stale |-> 30, Aging |-> 18, Fresh |-> 5]) = 5
        /\ Among("Aging", [Stale |-> 30, Aging |-> 18, Fresh |-> 5]) = 18
    BY DEF Among
  <2>3. /\ ColdnessDrift(f, d, day) = Clamp(5 + one + two)
        /\ ColdnessDrift(f, e, day) = Clamp(18 + one + two)
    BY <2>2, Zenon DEF ColdnessDrift
  <2> HIDE DEF one, two
  <2> QED
    BY <2>1, <2>3, Monotone
<1>7. /\ \A x \in 0 .. 100 : x <= x
      /\ ExecutionHealth(f) \in 0 .. 100 /\ BlockerPenalty(f) \in 0 .. 100
      /\ Clamp(10 * Pain(f)) \in 0 .. 100
  BY <1>1, FactorPoints
<1>8. /\ ExecutionHealth(f) <= ExecutionHealth(f) /\ BlockerPenalty(f) <= BlockerPenalty(f)
      /\ Clamp(10 * Pain(f)) <= Clamp(10 * Pain(f))
  BY <1>7
<1> QED
  BY <1>1, <1>2, <1>3, <1>4, <1>5, <1>6, <1>8, WorseScores

LEMMA BlockersHelpNever ==
  ASSUME \A p \in Portfolio : /\ facts[p] \in ProjectFacts
                               /\ {"queue", "freshness"} \subseteq DOMAIN fields[p]
  PROVE  BlockersNeverHelp
<1> SUFFICES ASSUME NEW p \in Portfolio
             PROVE  LET f == facts[p]
                        d == fields[p]
                        s == Scores(f, d, today)
                        Worse(t) == /\ t.Resume <= s.Resume /\ t.Finish <= s.Finish
                                    /\ t.Defer >= s.Defer
                    IN  /\ Worse(Scores([f EXCEPT !.blockedPackets = @ + 1], d, today))
                        /\ Worse(Scores([f EXCEPT !.blockedTasks = @ + 1], d, today))
                        /\ d.freshness = "Fresh"
                              => Worse(Scores(f, [d EXCEPT !.freshness = "Aging"], today))
  BY Zenon DEF BlockersNeverHelp
<1> DEFINE f == facts[p]
           d == fields[p]
           g == [f EXCEPT !.blockedPackets = @ + 1]
           h == [f EXCEPT !.blockedTasks = @ + 1]
           e == [d EXCEPT !.freshness = "Aging"]
           s == Scores(f, d, today)
           Worse(t) == t.Resume <= s.Resume /\ t.Finish <= s.Finish /\ t.Defer >= s.Defer
<1>1. f \in ProjectFacts
  OBVIOUS
<1>2. e.freshness = "Aging" /\ e.queue = d.queue
  OBVIOUS
<1>3. Counted(g) /\ SameButBlockers(f, g)
      /\ f.blockedPackets <= g.blockedPackets /\ f.blockedTasks <= g.blockedTasks
  <2>1. Counted(f)
    BY FactsAreCounted
  <2>2. /\ Counted(g) /\ SameButBlockers(f, g)
        /\ g.blockedPackets = f.blockedPackets + 1 /\ g.blockedTasks = f.blockedTasks
    BY OneMorePacket
  <2> QED
    BY <2>1, <2>2 DEF Counted
<1>4. Counted(h) /\ SameButBlockers(f, h)
      /\ f.blockedPackets <= h.blockedPackets /\ f.blockedTasks <= h.blockedTasks
  <2>1. Counted(f)
    BY FactsAreCounted
  <2>2. /\ Counted(h) /\ SameButBlockers(f, h)
        /\ h.blockedTasks = f.blockedTasks + 1 /\ h.blockedPackets = f.blockedPackets
    BY OneMoreTask
  <2> QED
    BY <2>1, <2>2 DEF Counted
<1> HIDE DEF f, d, g, h, e
<1>5. Worse(Scores(g, d, today))
  BY <1>1, <1>3, BlockersHinder
<1>6. Worse(Scores(h, d, today))
  BY <1>1, <1>4, BlockersHinder
<1>7. d.freshness = "Fresh" => Worse(Scores(f, e, today))
  BY <1>1, <1>2, AgeHinders
<1> QED
  BY <1>5, <1>6, <1>7, Zenon DEF f, d, g, h, e

------------------------------------------------------------------------------
\* A recommendation rests on the queue and the freshness the page shows.
LEMMA SameRecommendation ==
  ASSUME NEW f, NEW d, NEW e, NEW day, e.queue = d.queue, e.freshness = d.freshness
  PROVE  Recommendation(f, e, day) = Recommendation(f, d, day)
<1>1. Boosts(f, e, day) = Boosts(f, d, day)
  BY SameBoosts
<1>2. /\ ExecutionReadiness(f, e) = ExecutionReadiness(f, d)
      /\ EvidenceStrength(f, e) = EvidenceStrength(f, d)
      /\ FreshnessScore(f, e) = FreshnessScore(f, d)
      /\ ColdnessDrift(f, e, day) = ColdnessDrift(f, d, day)
  BY Zenon DEF ExecutionReadiness, EvidenceStrength, FreshnessScore, ColdnessDrift
<1>3. Scores(f, e, day) = Scores(f, d, day)
  BY <1>1, <1>2, Zenon DEF Scores
<1>4. \A s : ChooseLane(f, e, s) = ChooseLane(f, d, s)
  BY Zenon DEF ChooseLane, Finishing
<1>5. DetermineConfidence(f, e) = DetermineConfidence(f, d)
  BY Zenon DEF DetermineConfidence
<1> QED
  BY <1>3, <1>4, <1>5, Zenon DEF Recommendation

LEMMA LatestEvidence == \A x, y \in Nat : Newest(x, y) \in Nat /\ (x # 0 => Newest(x, y) # 0)
BY DEF Newest

LEMMA OldEvidence ==
  \A e, c, m, day \in Nat : c <= m /\ e # 0 /\ ~(Age(e, day) <= m) => e + c # 0 /\ e + c <= day
BY DEF Age, Less

LEMMA Windows ==
  /\ CadenceOf("Active Build") \in Nat /\ AgingMaxDays \in Nat
  /\ CadenceOf("Active Build") <= AgingMaxDays
<1>1. \A n \in Nat : \A x \in 0 .. n : x \in Nat /\ x <= n
  OBVIOUS
<1> QED
  BY <1>1, WindowsAssumption, Zenon

LEMMA StaleIsOverdue ==
  ASSUME NEW f \in ProjectFacts, NEW d, NEW day \in Nat,
         d.freshness = Freshness(f, day), d.reviewDate = ReviewDate(f), Rescued(f, d)
  PROVE  RescuePriority(RescueReason(f, d, day)) = "high"
<1>1. f.active \in Nat /\ f.session \in Nat /\ f.state = "Active Build"
  BY DEF ProjectFacts, Rescued
<1>2. f.active # 0 => Evidence(f) \in Nat /\ Evidence(f) # 0
  BY <1>1, LatestEvidence, Zenon DEF Evidence
<1>3. ~(Age(Evidence(f), day) <= AgingMaxDays)
  BY Zenon DEF Freshness, Rescued
<1>4. Evidence(f) # 0 => ReviewDate(f) = Evidence(f) + CadenceOf("Active Build")
  BY <1>1, Zenon DEF ReviewDate
<1>5. f.active # 0 => ReviewDate(f) # 0 /\ ReviewDate(f) <= day
  <2>1. f.active # 0 => /\ Evidence(f) + CadenceOf("Active Build") # 0
                        /\ Evidence(f) + CadenceOf("Active Build") <= day
    BY <1>2, <1>3, Windows, OldEvidence, Zenon
  <2> QED
    BY <1>2, <1>4, <2>1, Zenon
<1>6. RescueReason(f, d, day) \in {"missing-next-move", "missing-last-active", "overdue-review"}
  <2>1. CASE ~f.move
    BY <2>1, Zenon DEF RescueReason
  <2>2. CASE ~(~f.move) /\ f.active = 0
    BY <2>2, Zenon DEF RescueReason
  <2>3. CASE ~(~f.move) /\ f.active # 0
    <3>1. d.reviewDate # 0 /\ d.reviewDate <= day
      BY <1>5, <2>3, Zenon
    <3> QED
      BY <2>3, <3>1, Zenon DEF RescueReason
  <2> QED
    BY <2>1, <2>2, <2>3, Zenon
<1> QED
  BY <1>6, Zenon DEF RescuePriority
------------------------------------------------------------------------------
(***************************************************************************)
(* The derived fields settle.                                              *)
(***************************************************************************)
TowerNames  == {"queue", "freshness", "reviewDate"}
SignalNames == {"lane", "score", "confidence", "coverage", "deployment", "prs", "activity"}

\* The shapes: pages, briefs and runs are records, and a run writes fields of
\* its command only.
FieldShapes ==
    /\ facts \in [Portfolio -> ProjectFacts] /\ today \in Nat /\ settled \in 0 .. 3
    /\ fields = [p \in Portfolio |-> fields[p]] /\ brief = [p \in Portfolio |-> brief[p]]
    /\ \A p \in Portfolio :
          /\ fields[p] = [x \in DOMAIN Underived |-> fields[p][x]]
          /\ brief[p] = [hash |-> brief[p].hash, body |-> brief[p].body]

IsRun(r) ==
    /\ r = [turn |-> r.turn, write |-> r.write, todo |-> r.todo, at |-> r.at, step |-> r.step]
    /\ r.turn \in {"none", "kept", "lost"}
    /\ r.todo \subseteq Portfolio \cap DOMAIN r.write /\ (r.turn = "none" => r.todo = {})

RunShapes ==
    /\ running = [l \in Deriving |-> running[l]] /\ \A l \in Deriving : IsRun(running[l])
    /\ \A p \in running["tower"].todo : DOMAIN running["tower"].write[p] \subseteq TowerNames
    /\ \A p \in running["intelligence"].todo :
          DOMAIN running["intelligence"].write[p].shown = {"lane", "score", "confidence"}
    /\ \A p \in running["signals"].todo : DOMAIN running["signals"].write[p] \subseteq SignalNames

\* A run that lost its turn has nothing settled after it, and none that keeps
\* its turn there; one that keeps its turn has the commands before it settled.
TurnsTaken ==
    \A l \in Deriving :
        /\ running[l].turn = "lost" /\ l # "signals" =>
              /\ settled <= OrderOf(l)
              /\ \A m \in Deriving : OrderOf(l) < OrderOf(m) => running[m].turn # "kept"
        /\ running[l].turn = "kept" => settled >= OrderOf(l)

\* Only a brief that is torn has a hash that is not its body's.
HashesKnown == \A p \in Portfolio \ torn : brief[p].hash = {} \/ brief[p].hash = brief[p].body

\* What a field will be once the run has patched the page.
Will(l, p, x) ==
    IF p \in running[l].todo /\ x \in DOMAIN running[l].write[p]
    THEN running[l].write[p][x] ELSE fields[p][x]

\* A run that keeps its turn brings about what its command derives.
TowerAhead ==
    running["tower"].turn = "kept" =>
        \A p \in Portfolio : \A x \in TowerNames :
            Will("tower", p, x) = Derived(facts[p], today)[x]
BriefsAhead ==
    running["intelligence"].turn = "kept" =>
        \A p \in Portfolio :
            /\ p \in running["intelligence"].todo => running["intelligence"].write[p] = Brief(p)
            /\ p \notin running["intelligence"].todo \cup torn => brief[p].body = {Brief(p)}
SignalsAhead ==
    running["signals"].turn = "kept" =>
        \A p \in Portfolio : \A x \in SignalNames : Will("signals", p, x) = SignalFields(p)[x]

FieldsInv ==
    /\ FieldShapes /\ RunShapes /\ TurnsTaken /\ HashesKnown
    /\ TowerAhead /\ BriefsAhead /\ SignalsAhead /\ Settles
------------------------------------------------------------------------------
\* Which fields the commands derive, and what a patch does to a page.
LEMMA FieldNames ==
  /\ DOMAIN Underived = TowerNames \cup SignalNames
  /\ \A f, day : DOMAIN Derived(f, day) = TowerNames
  /\ \A f, d, day : DOMAIN Recommendation(f, d, day) = {"lane", "score", "confidence"}
  /\ \A p : DOMAIN SignalFields(p) = SignalNames
<1>1. DOMAIN Underived = TowerNames \cup SignalNames
  BY DEF Underived, TowerNames, SignalNames
<1>2. \A f, day : DOMAIN Derived(f, day) = TowerNames
  BY Zenon DEF Derived, TowerNames
<1>3. \A f, d, day : DOMAIN Recommendation(f, d, day) = {"lane", "score", "confidence"}
  BY Zenon DEF Recommendation
<1>4. \A f : DOMAIN Summary(f) = {"coverage", "deployment", "prs", "activity"}
  BY Zenon DEF Summary
<1>5. \A r, s : DOMAIN Both(r, s) = DOMAIN r \cup DOMAIN s
  BY Zenon DEF Both
<1>6. ASSUME NEW p
      PROVE  DOMAIN SignalFields(p)
             = {"lane", "score", "confidence"} \cup {"coverage", "deployment", "prs", "activity"}
  <2>1. DOMAIN SignalFields(p)
        = DOMAIN Recommendation(facts[p], fields[p], today) \cup DOMAIN Summary(facts[p])
    BY <1>5, Zenon DEF SignalFields
  <2> QED
    BY <1>3, <1>4, <2>1, Zenon
<1>7. SignalNames
      = {"lane", "score", "confidence"} \cup {"coverage", "deployment", "prs", "activity"}
  BY DEF SignalNames
<1> QED
  BY <1>1, <1>2, <1>3, <1>6, <1>7, Zenon

LEMMA CorrectedFields ==
  \A old, r :
    /\ DOMAIN Corrections(old, r) = {x \in DOMAIN r : old[x] # r[x]}
    /\ \A x \in DOMAIN Corrections(old, r) : Corrections(old, r)[x] = r[x]
    /\ ~Differs(old, r) <=> \A x \in DOMAIN r : old[x] = r[x]
BY DEF Corrections, Differs

LEMMA CorrectionsAre ==
  ASSUME NEW old, NEW r, NEW c, c = Corrections(old, r)
  PROVE  /\ DOMAIN c \subseteq DOMAIN r /\ \A x \in DOMAIN c : c[x] = r[x]
         /\ \A x \in DOMAIN r \ DOMAIN c : old[x] = r[x]
BY DEF Corrections

\* The page of one project is patched.
Patches(p, r) ==
    /\ \A x \in DOMAIN Underived :
          fields'[p][x] = IF x \in DOMAIN r THEN r[x] ELSE fields[p][x]
    /\ \A q \in Portfolio \ {p} : fields'[q] = fields[q]

LEMMA PatchStep ==
  ASSUME FieldShapes, NEW p \in Portfolio, NEW r, UNCHANGED <<facts, brief, today>>,
         settled' \in 0 .. 3, fields' = [fields EXCEPT ![p] = Patched(@, r)]
  PROVE  FieldShapes' /\ Patches(p, r)
<1> DEFINE new == Patched(fields[p], r)
<1>1. new = [x \in DOMAIN Underived |-> IF x \in DOMAIN r THEN r[x] ELSE fields[p][x]]
  BY DEF FieldShapes, Patched
<1>2. fields' = [q \in Portfolio |-> IF q = p THEN new ELSE fields[q]]
  BY DEF FieldShapes
<1> HIDE DEF new
<1>3. Portfolio' = Portfolio
  BY DEF Portfolio
<1>4. new = [x \in DOMAIN Underived |-> new[x]]
  BY <1>1
<1> QED
  BY <1>1, <1>2, <1>3, <1>4 DEF FieldShapes, Patches

\* One run takes a step.
Moves(l, r) ==
    /\ running'[l] = r /\ \A m \in Deriving \ {l} : running'[m] = running[m]
    /\ running' = [m \in Deriving |-> running'[m]]

LEMMA RunStep ==
  ASSUME RunShapes, NEW l \in Deriving, NEW r, running' = [running EXCEPT ![l] = r]
  PROVE  Moves(l, r)
BY DEF RunShapes, Moves

\* What a run has left to write, and what it wrote, when it is done with a page.
Without(l, p) == [running[l] EXCEPT !.todo = @ \ {p}]

LEMMA TowerStep ==
  ASSUME RunShapes, NEW p, running' = [running EXCEPT !.tower.todo = @ \ {p}]
  PROVE  Moves("tower", Without("tower", p))
BY DEF RunShapes, Moves, Without, Deriving

LEMMA SignalsStep ==
  ASSUME RunShapes, NEW p, running' = [running EXCEPT !.signals.todo = @ \ {p}]
  PROVE  Moves("signals", Without("signals", p))
BY DEF RunShapes, Moves, Without, Deriving

LEMMA WithoutShape ==
  ASSUME NEW l, NEW p, IsRun(running[l])
  PROVE  /\ IsRun(Without(l, p)) /\ Without(l, p).todo = running[l].todo \ {p}
         /\ Without(l, p).write = running[l].write /\ Without(l, p).turn = running[l].turn
BY DEF IsRun, Without
\* What the commands derive rests on the facts and on the tower's fields.
LEMMA SameDerived ==
  ASSUME UNCHANGED <<facts, today>>, NEW p, \A x \in TowerNames : fields'[p][x] = fields[p][x]
  PROVE  Brief(p)' = Brief(p) /\ SignalFields(p)' = SignalFields(p)
<1>1. fields'[p]["queue"] = fields[p]["queue"] /\ fields'[p]["freshness"] = fields[p]["freshness"]
  BY DEF TowerNames
<1>2. Recommendation(facts[p], fields'[p], today) = Recommendation(facts[p], fields[p], today)
  BY <1>1, SameRecommendation
<1> QED
  BY <1>2, Zenon DEF Brief, SignalFields

LEMMA BothKeeps ==
  ASSUME NEW r, NEW s, NEW x \in DOMAIN r
  PROVE  Both(r, s)[x] = r[x]
BY DEF Both

LEMMA SignalFieldsHold ==
  ASSUME NEW p
  PROVE  \A x \in {"lane", "score", "confidence"} :
             Brief(p).shown[x] = SignalFields(p)[x] /\ x \in SignalNames
<1>0. Brief(p).shown = Recommendation(facts[p], fields[p], today)
  BY DEF Brief
<1>1. SignalFields(p) = Both(Brief(p).shown, Summary(facts[p]))
  BY <1>0, Zenon DEF SignalFields
<1>2. DOMAIN Brief(p).shown = {"lane", "score", "confidence"}
  BY <1>0, FieldNames, Zenon
<1>3. {"lane", "score", "confidence"} \subseteq SignalNames
  BY DEF SignalNames
<1>4. ASSUME NEW x \in {"lane", "score", "confidence"}
      PROVE  Brief(p).shown[x] = SignalFields(p)[x]
  <2>1. x \in DOMAIN Brief(p).shown
    BY <1>2
  <2>2. Both(Brief(p).shown, Summary(facts[p]))[x] = Brief(p).shown[x]
    BY <2>1, BothKeeps
  <2> QED
    BY <1>1, <2>2
<1> QED
  BY <1>3, <1>4

\* A step of a run that goes on: what it undoes.
LEMMA TurnsAfterPatch ==
  ASSUME TurnsTaken, settled \in 0 .. 3, NEW l \in Deriving,
         \A m \in Deriving : running'[m].turn = running[m].turn,
         running[l].turn \in {"kept", "lost"}, settled' = Unsettled(l)
  PROVE  /\ TurnsTaken' /\ settled' \in 0 .. 3 /\ settled' <= settled
         /\ running[l].turn = "lost" => settled' <= OrderOf(l)
BY DEF TurnsTaken, Deriving, Unsettled, Least, OrderOf
\* A run that patches a page goes on to bring about the same.
LEMMA WillAfterPatch ==
  ASSUME NEW l \in Deriving, IsRun(running[l]), NEW p \in Portfolio, p \in running[l].todo,
         Patches(p, running[l].write[p]), Moves(l, Without(l, p))
  PROVE  \A q \in Portfolio : \A x \in DOMAIN Underived : Will(l, q, x)' = Will(l, q, x)
<1>1. running'[l].todo = running[l].todo \ {p} /\ running'[l].write = running[l].write
  BY WithoutShape DEF Moves
<1> SUFFICES ASSUME NEW q \in Portfolio, NEW x \in DOMAIN Underived
             PROVE  Will(l, q, x)' = Will(l, q, x)
  OBVIOUS
<1>2. CASE q = p
  BY <1>1, <1>2 DEF Will, Patches
<1>3. CASE q # p
  BY <1>1, <1>3 DEF Will, Patches
<1> QED
  BY <1>2, <1>3

\* The tower and the signal sync patch a page in one call.
LEMMA PatchKeepsShapes ==
  ASSUME FieldsInv, NEW l \in {"tower", "signals"}, NEW p \in running[l].todo,
         fields' = [fields EXCEPT ![p] = Patched(@, running[l].write[p])],
         Moves(l, Without(l, p)), settled' = Unsettled(l),
         UNCHANGED <<facts, brief, today, torn>>
  PROVE  /\ FieldShapes' /\ RunShapes' /\ TurnsTaken' /\ HashesKnown'
         /\ Patches(p, running[l].write[p]) /\ p \in Portfolio /\ Portfolio' = Portfolio
         /\ \A m \in Deriving : running'[m].turn = running[m].turn
         /\ settled' \in 0 .. 3 /\ settled \in 0 .. 3 /\ settled' <= settled
         /\ running[l].turn \in {"kept", "lost"}
         /\ running[l].turn = "lost" => settled' <= OrderOf(l)
         /\ \A q \in Portfolio : \A x \in DOMAIN Underived : Will(l, q, x)' = Will(l, q, x)
<1>1. FieldShapes /\ RunShapes /\ TurnsTaken /\ l \in Deriving
  BY DEF FieldsInv, Deriving
<1>2. IsRun(running[l]) /\ p \in Portfolio
  BY <1>1 DEF RunShapes, IsRun
<1>3. /\ IsRun(Without(l, p)) /\ Without(l, p).todo = running[l].todo \ {p}
      /\ Without(l, p).write = running[l].write /\ Without(l, p).turn = running[l].turn
  BY <1>2, WithoutShape
<1>4. /\ \A m \in Deriving : running'[m].turn = running[m].turn /\ IsRun(running'[m])
      /\ running[l].turn \in {"kept", "lost"} /\ settled \in 0 .. 3
      /\ running' = [m \in Deriving |-> running'[m]]
  BY <1>1, <1>2, <1>3, SMTT(60) DEF Moves, RunShapes, IsRun, FieldShapes
<1>5. /\ TurnsTaken' /\ settled' \in 0 .. 3 /\ settled' <= settled
      /\ running[l].turn = "lost" => settled' <= OrderOf(l)
  BY <1>1, <1>4, TurnsAfterPatch
<1>6. FieldShapes' /\ Patches(p, running[l].write[p]) /\ Portfolio' = Portfolio
  BY <1>1, <1>2, <1>5, PatchStep DEF Portfolio
<1>7. RunShapes'
  <2>1. \A m \in Deriving : IsRun(running[m])'
    BY <1>4, <1>6 DEF IsRun
  <2>2. \A m \in Deriving : running'[m].todo \subseteq running[m].todo
                            /\ running'[m].write = running[m].write
    BY <1>1, <1>3 DEF Moves
  <2> QED
    BY <1>1, <1>4, <2>1, <2>2 DEF RunShapes, Deriving
<1>8. HashesKnown'
  BY <1>6 DEF FieldsInv, HashesKnown
<1> QED
  BY <1>1, <1>2, <1>4, <1>5, <1>6, <1>7, <1>8, WillAfterPatch

LEMMA PatchDerivedKeeps ==
  ASSUME FieldsInv, NEW p \in Portfolio, PatchDerived(p)
  PROVE  FieldsInv'
<1> DEFINE r == running["tower"].write[p]
<1>1. /\ p \in running["tower"].todo /\ fields' = [fields EXCEPT ![p] = Patched(@, r)]
      /\ running' = [running EXCEPT !.tower.todo = @ \ {p}]
      /\ settled' = Unsettled("tower") /\ UNCHANGED <<facts, brief, today, torn>>
  BY DEF PatchDerived
<1>2. FieldShapes /\ RunShapes /\ TurnsTaken /\ DOMAIN r \subseteq TowerNames
  BY <1>1 DEF FieldsInv, RunShapes
<1>3. Moves("tower", Without("tower", p))
  BY <1>1, <1>2, TowerStep
<1>4. /\ FieldShapes' /\ RunShapes' /\ TurnsTaken' /\ HashesKnown'
      /\ Patches(p, r) /\ Portfolio' = Portfolio
  BY <1>1, <1>3, PatchKeepsShapes
<1>5. /\ \A m \in Deriving : running'[m].turn = running[m].turn
      /\ settled' \in 0 .. 3 /\ settled \in 0 .. 3 /\ settled' <= settled
      /\ running["tower"].turn \in {"kept", "lost"}
      /\ running["tower"].turn = "lost" => settled' <= 0
      /\ \A q \in Portfolio : \A x \in DOMAIN Underived :
            Will("tower", q, x)' = Will("tower", q, x)
  BY <1>1, <1>3, PatchKeepsShapes DEF OrderOf
<1>6. TowerAhead'
  <2> SUFFICES ASSUME running["tower"].turn = "kept", NEW q \in Portfolio, NEW x \in TowerNames
               PROVE  Will("tower", q, x)' = Derived(facts[q], today)[x]
    BY <1>1, <1>4, <1>5 DEF TowerAhead, Deriving
  <2>1. Will("tower", q, x) = Derived(facts[q], today)[x]
    BY DEF FieldsInv, TowerAhead
  <2>2. Will("tower", q, x)' = Will("tower", q, x)
    BY <1>5, FieldNames
  <2> QED
    BY <2>1, <2>2
<1>7. CASE settled = 0
  <2>1. settled' = 0 /\ \A m \in {"intelligence", "signals"} : running'[m].turn # "kept"
    BY <1>2, <1>5, <1>7 DEF TurnsTaken, Deriving, OrderOf
  <2> QED
    BY <1>4, <1>6, <2>1
       DEF FieldsInv, BriefsAhead, SignalsAhead, Settles
<1>8. CASE settled # 0
  <2>1. running["tower"].turn = "kept" /\ settled' = settled
    BY <1>1, <1>2, <1>5, <1>8 DEF TurnsTaken, Unsettled, Deriving, OrderOf
  <2>2. \A x \in DOMAIN r : r[x] = fields[p][x]
    <3> SUFFICES ASSUME NEW x \in DOMAIN r PROVE r[x] = fields[p][x]
      OBVIOUS
    <3>1. Will("tower", p, x) = Derived(facts[p], today)[x] /\ x \in TowerNames
      BY <1>2, <2>1 DEF FieldsInv, TowerAhead
    <3>2. fields[p][x] = Derived(facts[p], today)[x]
      BY <1>5, <1>8, <3>1, CorrectedFields, FieldNames DEF FieldsInv, Settles
    <3> QED
      BY <1>1, <3>1, <3>2 DEF Will
  <2>3. fields' = fields
    <3>1. \A x \in DOMAIN Underived : fields'[p][x] = fields[p][x]
      BY <1>4, <2>2 DEF Patches
    <3>2. fields'[p] = fields[p]
      BY <1>2, <1>4, <3>1 DEF FieldShapes
    <3> QED
      BY <1>1, <1>2, <1>4, <3>2 DEF FieldShapes, Patches
  <2>4. \A q : Brief(q)' = Brief(q) /\ SignalFields(q)' = SignalFields(q)
    BY <1>1, <2>3, SameDerived
  <2>5. \A q, x : Will("signals", q, x)' = Will("signals", q, x)
    BY <1>3, <2>3 DEF Will, Moves, Deriving
  <2>6. BriefsAhead' /\ SignalsAhead'
    BY <1>1, <1>3, <1>4, <2>4, <2>5 DEF FieldsInv, BriefsAhead, SignalsAhead, Moves, Deriving
  <2>7. Settles'
    BY <1>1, <1>4, <2>1, <2>3, <2>4 DEF FieldsInv, Settles
  <2> QED
    BY <1>4, <1>6, <2>6, <2>7 DEF FieldsInv
<1> QED
  BY <1>7, <1>8
LEMMA PatchSignalsKeeps ==
  ASSUME FieldsInv, NEW p \in Portfolio, PatchSignals(p)
  PROVE  FieldsInv'
<1> DEFINE r == running["signals"].write[p]
<1>1. /\ p \in running["signals"].todo /\ fields' = [fields EXCEPT ![p] = Patched(@, r)]
      /\ running' = [running EXCEPT !.signals.todo = @ \ {p}]
      /\ settled' = Unsettled("signals") /\ UNCHANGED <<facts, brief, today, torn>>
  BY DEF PatchSignals
<1>2. FieldShapes /\ RunShapes /\ TurnsTaken /\ DOMAIN r \subseteq SignalNames
  BY <1>1 DEF FieldsInv, RunShapes
<1>3. Moves("signals", Without("signals", p))
  BY <1>1, <1>2, SignalsStep
<1>4. /\ FieldShapes' /\ RunShapes' /\ TurnsTaken' /\ HashesKnown'
      /\ Patches(p, r) /\ Portfolio' = Portfolio
  BY <1>1, <1>3, PatchKeepsShapes
<1>5. /\ \A m \in Deriving : running'[m].turn = running[m].turn
      /\ settled' \in 0 .. 3 /\ settled \in 0 .. 3 /\ settled' <= settled
      /\ running["signals"].turn \in {"kept", "lost"}
      /\ running["signals"].turn = "lost" => settled' <= 2
      /\ \A q \in Portfolio : \A x \in DOMAIN Underived :
            Will("signals", q, x)' = Will("signals", q, x)
  BY <1>1, <1>3, PatchKeepsShapes DEF OrderOf
<1>6. \A q \in Portfolio : \A x \in TowerNames : fields'[q][x] = fields[q][x]
  BY <1>2, <1>4, FieldNames DEF Patches, TowerNames, SignalNames
<1>7. \A q \in Portfolio : Brief(q)' = Brief(q) /\ SignalFields(q)' = SignalFields(q)
  BY <1>1, <1>6, SameDerived
<1>8. TowerAhead' /\ BriefsAhead' /\ SignalsAhead'
  <2>1. \A q \in Portfolio : \A x \in TowerNames : Will("tower", q, x)' = Will("tower", q, x)
    BY <1>3, <1>6 DEF Will, Moves, Deriving
  <2>2. TowerAhead'
    BY <1>1, <1>4, <1>5, <2>1 DEF FieldsInv, TowerAhead, Deriving
  <2>3. BriefsAhead'
    BY <1>1, <1>3, <1>4, <1>7 DEF FieldsInv, BriefsAhead, Moves, Deriving
  <2>4. SignalsAhead'
    BY <1>4, <1>5, <1>7, FieldNames DEF FieldsInv, SignalsAhead, Deriving
  <2> QED
    BY <2>2, <2>3, <2>4
<1>9. Settles'
  <2>1. settled' >= 1 => \A q \in Portfolio : ~Differs(fields'[q], Derived(facts[q], today))
    BY <1>5, <1>6, CorrectedFields, FieldNames DEF FieldsInv, Settles
  <2>2. settled' >= 2 => \A q \in Portfolio \ torn : brief[q].body = {Brief(q)'}
    BY <1>5, <1>7 DEF FieldsInv, Settles
  <2>3. ASSUME settled' = 3, NEW q \in Portfolio, NEW x \in SignalNames
        PROVE  fields'[q][x] = SignalFields(q)[x]
    <3>1. running["signals"].turn = "kept" /\ settled = 3
      BY <1>5, <2>3
    <3>2. Will("signals", q, x) = SignalFields(q)[x]
      BY <3>1 DEF FieldsInv, SignalsAhead
    <3>3. fields[q][x] = SignalFields(q)[x]
      BY <3>1, CorrectedFields, FieldNames DEF FieldsInv, Settles
    <3>4. CASE q = p
      BY <1>1, <1>4, <3>2, <3>3, <3>4, FieldNames DEF Patches, Will
    <3>5. CASE q # p
      BY <1>4, <3>3, <3>5 DEF Patches
    <3> QED
      BY <3>4, <3>5
  <2>4. settled' = 3 => \A q \in Portfolio : ~Differs(fields'[q], SignalFields(q)')
    BY <1>7, <2>3, CorrectedFields, FieldNames
  <2> QED
    BY <1>1, <1>4, <2>1, <2>2, <2>4 DEF Settles
<1> QED
  BY <1>4, <1>8, <1>9 DEF FieldsInv
\* A call of the intelligence sync: a project is done with its last one.
LEMMA RecommendedStep ==
  ASSUME FieldsInv, NEW p \in running["intelligence"].todo, Recommended(p), UNCHANGED facts
  PROVE  /\ RunShapes' /\ \A m \in {"tower", "signals"} : running'[m] = running[m]
         /\ \A m \in Deriving : running'[m].turn = running[m].turn
         /\ running'["intelligence"].write = running["intelligence"].write
         /\ running'["intelligence"].todo \subseteq running["intelligence"].todo
         /\ running["intelligence"].todo \ {p} \subseteq running'["intelligence"].todo
         /\ Writes[running["intelligence"].step] # "second"
               => running'["intelligence"].todo = running["intelligence"].todo
         /\ p \in Portfolio /\ running["intelligence"].turn \in {"kept", "lost"}
<1> DEFINE r == running["intelligence"]
           new == IF r.step = 3 THEN [r EXCEPT !.at = {}, !.todo = @ \ {p}, !.step = 1]
                  ELSE [r EXCEPT !.at = {p}, !.step = @ + 1]
<1>1. RunShapes /\ IsRun(r) /\ "intelligence" \in Deriving
  BY DEF FieldsInv, RunShapes, Deriving
<1>2. Len(Writes) = 3 /\ Writes[3] = "second"
  BY DEF Writes
<1>3. running' = [running EXCEPT !["intelligence"] = new]
  <2>1. running' = [running EXCEPT !["intelligence"] =
                       IF r.step = Len(Writes)
                       THEN [r EXCEPT !.at = {}, !.todo = @ \ {p}, !.step = 1]
                       ELSE [r EXCEPT !.at = {p}, !.step = @ + 1]]
    BY Zenon DEF Recommended
  <2> QED
    BY <1>2, <2>1, Zenon
<1>4. IsRun(new) /\ new.turn = r.turn /\ new.write = r.write
  BY <1>1 DEF IsRun
<1>5. /\ new.todo \subseteq r.todo /\ r.todo \ {p} \subseteq new.todo
      /\ r.step # 3 => new.todo = r.todo
  BY <1>1 DEF IsRun
<1>6. p \in Portfolio /\ r.turn \in {"kept", "lost"}
  BY <1>1 DEF IsRun
<1> HIDE DEF new
<1>7. Moves("intelligence", new)
  BY <1>1, <1>3, RunStep
<1>8. RunShapes'
  <2>1. Portfolio' = Portfolio
    BY DEF Portfolio
  <2>2. \A m \in Deriving : IsRun(running[m])'
    BY <1>1, <1>4, <1>7, <2>1 DEF RunShapes, Moves, IsRun
  <2>3. \A m \in Deriving : running'[m].todo \subseteq running[m].todo
                            /\ running'[m].write = running[m].write
    BY <1>4, <1>5, <1>7 DEF Moves
  <2> QED
    BY <1>1, <1>7, <2>2, <2>3 DEF RunShapes, Moves, Deriving
<1> QED
  BY <1>2, <1>4, <1>5, <1>6, <1>7, <1>8 DEF Moves, Deriving

LEMMA RecommendPageKeeps ==
  ASSUME FieldsInv, NEW p \in Portfolio, RecommendPage(p)
  PROVE  FieldsInv'
<1> DEFINE r == running["intelligence"].write[p].shown
<1>1. /\ p \in running["intelligence"].todo /\ Writes[running["intelligence"].step] = "page"
      /\ fields' = [fields EXCEPT ![p] = Patched(@, r)] /\ Recommended(p)
      /\ settled' = Unsettled("intelligence") /\ UNCHANGED <<facts, brief, today, torn>>
  BY DEF RecommendPage, AtCall
<1>2. FieldShapes /\ RunShapes /\ TurnsTaken /\ DOMAIN r = {"lane", "score", "confidence"}
  BY <1>1 DEF FieldsInv, RunShapes
<1>3. /\ RunShapes' /\ \A m \in {"tower", "signals"} : running'[m] = running[m]
      /\ \A m \in Deriving : running'[m].turn = running[m].turn
      /\ running'["intelligence"].write = running["intelligence"].write
      /\ running'["intelligence"].todo = running["intelligence"].todo
      /\ running["intelligence"].turn \in {"kept", "lost"}
  BY <1>1, RecommendedStep
<1>4. /\ TurnsTaken' /\ settled' \in 0 .. 3 /\ settled \in 0 .. 3 /\ settled' <= settled
      /\ running["intelligence"].turn = "lost" => settled' <= 1
  BY <1>1, <1>2, <1>3, TurnsAfterPatch DEF Deriving, OrderOf, FieldShapes
<1>5. FieldShapes' /\ Patches(p, r) /\ Portfolio' = Portfolio
  <2> HIDE DEF r
  <2> QED
    BY <1>1, <1>2, <1>4, PatchStep DEF Portfolio
<1>6. HashesKnown'
  BY <1>1, <1>5 DEF FieldsInv, HashesKnown
<1>7. \A q \in Portfolio : \A x \in TowerNames : fields'[q][x] = fields[q][x]
  BY <1>2, <1>5, FieldNames DEF Patches, TowerNames
<1>8. \A q \in Portfolio : Brief(q)' = Brief(q) /\ SignalFields(q)' = SignalFields(q)
  BY <1>1, <1>7, SameDerived
<1>9. TowerAhead' /\ BriefsAhead'
  <2>1. \A q \in Portfolio : \A x \in TowerNames : Will("tower", q, x)' = Will("tower", q, x)
    BY <1>3, <1>7 DEF Will
  <2>2. TowerAhead'
    BY <1>1, <1>3, <1>5, <2>1 DEF FieldsInv, TowerAhead
  <2>3. BriefsAhead'
    BY <1>1, <1>3, <1>5, <1>8 DEF FieldsInv, BriefsAhead, Deriving
  <2> QED
    BY <2>2, <2>3
<1>10. ASSUME running["intelligence"].turn = "kept"
       PROVE  \A q \in Portfolio : \A x \in SignalNames :
                  fields'[q][x] = fields[q][x] \/ fields'[q][x] = SignalFields(q)[x]
  <2> SUFFICES ASSUME NEW q \in Portfolio, NEW x \in SignalNames, fields'[q][x] # fields[q][x]
               PROVE  fields'[q][x] = SignalFields(q)[x]
    OBVIOUS
  <2>1. q = p /\ x \in DOMAIN r /\ fields'[q][x] = r[x]
    BY <1>5, FieldNames DEF Patches
  <2>2. r = Brief(p).shown
    BY <1>1, <1>10 DEF FieldsInv, BriefsAhead
  <2> QED
    BY <1>2, <2>1, <2>2, SignalFieldsHold
<1>11. running["signals"].turn = "kept" => running["intelligence"].turn = "kept"
  BY <1>2, <1>3 DEF TurnsTaken, Deriving, OrderOf
<1>12. SignalsAhead'
  <2> SUFFICES ASSUME running["signals"].turn = "kept", NEW q \in Portfolio, NEW x \in SignalNames
               PROVE  Will("signals", q, x)' = SignalFields(q)[x]
    BY <1>3, <1>5, <1>8 DEF SignalsAhead
  <2>1. Will("signals", q, x) = SignalFields(q)[x]
    BY DEF FieldsInv, SignalsAhead
  <2> QED
    BY <1>3, <1>10, <1>11, <2>1 DEF Will
<1>13. Settles'
  <2>1. settled' >= 1 => \A q \in Portfolio : ~Differs(fields'[q], Derived(facts[q], today))
    BY <1>4, <1>7, CorrectedFields, FieldNames DEF FieldsInv, Settles
  <2>2. settled' >= 2 => \A q \in Portfolio \ torn : brief[q].body = {Brief(q)'}
    BY <1>4, <1>8 DEF FieldsInv, Settles
  <2>3. ASSUME settled' = 3, NEW q \in Portfolio, NEW x \in SignalNames
        PROVE  fields'[q][x] = SignalFields(q)[x]
    <3>1. running["intelligence"].turn = "kept" /\ settled = 3
      BY <1>3, <1>4, <2>3
    <3>2. fields[q][x] = SignalFields(q)[x]
      BY <3>1, CorrectedFields, FieldNames DEF FieldsInv, Settles
    <3> QED
      BY <1>10, <3>1, <3>2
  <2>4. settled' = 3 => \A q \in Portfolio : ~Differs(fields'[q], SignalFields(q)')
    BY <1>8, <2>3, CorrectedFields, FieldNames
  <2> QED
    BY <1>1, <1>5, <2>1, <2>2, <2>4 DEF Settles
<1> QED
  BY <1>3, <1>4, <1>5, <1>6, <1>9, <1>12, <1>13 DEF FieldsInv
LEMMA RecommendBriefKeeps ==
  ASSUME FieldsInv, NEW p \in Portfolio, RecommendBrief(p)
  PROVE  FieldsInv'
<1> DEFINE new == running["intelligence"].write[p]
           old == brief[p]
           call == Writes[running["intelligence"].step]
<1>1. /\ p \in running["intelligence"].todo /\ Recommended(p)
      /\ UNCHANGED <<facts, fields, today, settled>>
      /\ \/ /\ call = "first" /\ torn' = IF old.body = {} THEN torn ELSE torn \cup {p}
            /\ brief' = [brief EXCEPT ![p] = IF old.body = {} THEN [old EXCEPT !.body = {new}]
                                             ELSE [old EXCEPT !.hash = {new}]]
         \/ /\ call = "second" /\ torn' = torn \ {p}
            /\ brief' = [brief EXCEPT ![p] = [hash |-> {new}, body |-> {new}]]
  BY DEF RecommendBrief, AtCall
<1>2. FieldShapes /\ RunShapes /\ TurnsTaken
  BY DEF FieldsInv
<1>3. /\ RunShapes' /\ \A m \in {"tower", "signals"} : running'[m] = running[m]
      /\ \A m \in Deriving : running'[m].turn = running[m].turn
      /\ running'["intelligence"].write = running["intelligence"].write
      /\ running["intelligence"].todo \ {p} \subseteq running'["intelligence"].todo
      /\ running'["intelligence"].todo \subseteq running["intelligence"].todo
      /\ call # "second" => running'["intelligence"].todo = running["intelligence"].todo
      /\ running["intelligence"].turn \in {"kept", "lost"}
  BY <1>1, RecommendedStep
<1>4. old = [hash |-> old.hash, body |-> old.body]
  BY <1>2 DEF FieldShapes
<1>5. /\ brief' = [q \in Portfolio |-> brief'[q]] /\ \A q \in Portfolio \ {p} : brief'[q] = brief[q]
      /\ brief'[p] = [hash |-> brief'[p].hash, body |-> brief'[p].body]
      /\ \/ /\ call = "first" /\ old.body = {} /\ torn' = torn
            /\ brief'[p].body = {new} /\ brief'[p].hash = old.hash
         \/ /\ call = "first" /\ old.body # {} /\ torn' = torn \cup {p}
         \/ /\ call = "second" /\ torn' = torn \ {p}
            /\ brief'[p].body = {new} /\ brief'[p].hash = {new}
  <2> HIDE DEF new, old, call
  <2>1. brief = [q \in Portfolio |-> brief[q]]
    BY <1>2 DEF FieldShapes
  <2>2. CASE call = "first" /\ old.body = {}
    <3>1. brief' = [brief EXCEPT ![p] = [old EXCEPT !.body = {new}]] /\ torn' = torn
      BY <1>1, <2>2
    <3> QED
      BY <1>4, <2>1, <2>2, <3>1
  <2>3. CASE call = "first" /\ old.body # {}
    <3>1. /\ brief' = [brief EXCEPT ![p] = [old EXCEPT !.hash = {new}]]
          /\ torn' = torn \cup {p}
      BY <1>1, <2>3
    <3> QED
      BY <1>4, <2>1, <2>3, <3>1
  <2>4. CASE call = "second"
    <3>1. /\ brief' = [brief EXCEPT ![p] = [hash |-> {new}, body |-> {new}]]
          /\ torn' = torn \ {p}
      BY <1>1, <2>4
    <3> QED
      BY <2>1, <2>4, <3>1
  <2> QED
    BY <1>1, <2>2, <2>3, <2>4
<1>6. Portfolio' = Portfolio /\ \A q : Brief(q)' = Brief(q) /\ SignalFields(q)' = SignalFields(q)
  BY <1>1, SameDerived DEF Portfolio
<1> HIDE DEF old, call
<1>7. FieldShapes'
  BY <1>1, <1>2, <1>5, <1>6 DEF FieldShapes
<1>8. TurnsTaken'
  BY <1>1, <1>2, <1>3 DEF TurnsTaken
<1>9. HashesKnown'
  <2> SUFFICES ASSUME NEW q \in Portfolio \ torn'
               PROVE  brief'[q].hash = {} \/ brief'[q].hash = brief'[q].body
    BY <1>6 DEF HashesKnown
  <2>1. q # p => brief[q].hash = {} \/ brief[q].hash = brief[q].body
    BY <1>5 DEF FieldsInv, HashesKnown
  <2>2. CASE q = p
    BY <1>5, <2>2 DEF FieldsInv, HashesKnown, old
  <2> QED
    BY <1>5, <2>1, <2>2
<1>10. \A x : /\ \A q : Will("tower", q, x)' = Will("tower", q, x)
              /\ \A q : Will("signals", q, x)' = Will("signals", q, x)
  BY <1>1, <1>3 DEF Will
<1>11. TowerAhead' /\ SignalsAhead'
  BY <1>1, <1>3, <1>6, <1>10 DEF FieldsInv, TowerAhead, SignalsAhead
<1>12. running["intelligence"].turn = "kept" => new = Brief(p)
  BY <1>1 DEF FieldsInv, BriefsAhead
<1> HIDE DEF new
<1>13. BriefsAhead'
  <2> SUFFICES ASSUME running["intelligence"].turn = "kept", NEW q \in Portfolio
               PROVE  /\ q \in running'["intelligence"].todo
                            => running["intelligence"].write[q] = Brief(q)
                      /\ q \notin running'["intelligence"].todo \cup torn'
                            => brief'[q].body = {Brief(q)}
    BY <1>1, <1>3, <1>6 DEF BriefsAhead, Deriving
  <2>1. /\ q \in running["intelligence"].todo => running["intelligence"].write[q] = Brief(q)
        /\ q \notin running["intelligence"].todo \cup torn => brief[q].body = {Brief(q)}
    BY DEF FieldsInv, BriefsAhead
  <2>2. CASE q = p
    BY <1>1, <1>3, <1>5, <1>12, <2>1, <2>2
  <2>3. CASE q # p
    BY <1>3, <1>5, <2>1, <2>3
  <2> QED
    BY <2>2, <2>3
<1>14. Settles'
  <2>1. ASSUME settled >= 2, NEW q \in Portfolio \ torn'
        PROVE  brief'[q].body = {Brief(q)}
    <3>1. running["intelligence"].turn = "kept"
      BY <1>2, <1>3, <2>1 DEF FieldShapes, TurnsTaken, Deriving, OrderOf
    <3>2. q \notin torn => brief[q].body = {Brief(q)}
      BY <2>1 DEF FieldsInv, Settles
    <3>3. CASE q = p
      BY <1>4, <1>5, <1>12, <2>1, <3>1, <3>2, <3>3 DEF old
    <3>4. CASE q # p
      BY <1>5, <2>1, <3>2, <3>4
    <3> QED
      BY <3>3, <3>4
  <2> QED
    BY <1>1, <1>6, <2>1 DEF FieldsInv, Settles
<1> QED
  BY <1>3, <1>7, <1>8, <1>9, <1>11, <1>13, <1>14 DEF FieldsInv
------------------------------------------------------------------------------
\* A run begins with its turn if what comes before it is settled.
Begun(l, write) ==
    [AtRest EXCEPT !.turn = IF settled >= OrderOf(l) THEN "kept" ELSE "lost",
                   !.write = write, !.todo = DOMAIN write]

LEMMA BeginStep ==
  ASSUME FieldsInv, NEW l \in Deriving, NEW write, DOMAIN write \subseteq Portfolio,
         BeginSync(l, write)
  PROVE  /\ UNCHANGED <<facts, fields, brief, today, settled, torn>>
         /\ Moves(l, Begun(l, write)) /\ IsRun(Begun(l, write))
         /\ running'[l].write = write /\ running'[l].todo = DOMAIN write
         /\ running'[l].turn = "kept" <=> settled >= OrderOf(l)
         /\ FieldShapes' /\ TurnsTaken' /\ HashesKnown' /\ Settles'
         /\ running' = [m \in Deriving |-> running'[m]] /\ \A m \in Deriving : IsRun(running[m])'
<1>1. /\ running' = [running EXCEPT ![l] = Begun(l, write)]
      /\ UNCHANGED <<facts, fields, brief, today, settled, torn>>
  BY DEF BeginSync, Begun
<1>2. RunShapes /\ FieldShapes /\ TurnsTaken
  BY DEF FieldsInv
<1>3. Begun(l, write) = [turn |-> IF settled >= OrderOf(l) THEN "kept" ELSE "lost",
                         write |-> write, todo |-> DOMAIN write, at |-> {}, step |-> 1]
  <2> DEFINE turn == IF settled >= OrderOf(l) THEN "kept" ELSE "lost"
             todo == DOMAIN write
  <2>1. Begun(l, write) = [AtRest EXCEPT !.turn = turn, !.write = write, !.todo = todo]
    BY Zenon DEF Begun
  <2> HIDE DEF turn, todo
  <2>2. Begun(l, write)
        = [turn |-> turn, write |-> write, todo |-> todo, at |-> {}, step |-> 1]
    BY <2>1 DEF AtRest
  <2> QED
    BY <2>2, Zenon DEF turn, todo
<1>4. /\ IsRun(Begun(l, write)) /\ Begun(l, write).todo = DOMAIN write
      /\ Begun(l, write).write = write
      /\ Begun(l, write).turn \in {"kept", "lost"}
      /\ Begun(l, write).turn = "kept" <=> settled >= OrderOf(l)
  BY <1>3 DEF IsRun
<1>5. Moves(l, Begun(l, write))
  BY <1>1, <1>2, RunStep
<1>6. TurnsTaken'
  <2>1. /\ \A m \in Deriving \ {l} : running'[m].turn = running[m].turn
        /\ running'[l].turn \in {"kept", "lost"}
        /\ running'[l].turn = "kept" <=> settled >= OrderOf(l)
    BY <1>4, <1>5 DEF Moves
  <2>2. settled \in 0 .. 3
    BY <1>2 DEF FieldShapes
  <2> QED
    BY <1>1, <1>2, <2>1, <2>2 DEF TurnsTaken, Deriving, OrderOf
<1>7. FieldShapes' /\ HashesKnown' /\ Portfolio' = Portfolio
  BY <1>1 DEF FieldsInv, FieldShapes, HashesKnown, Portfolio
<1>8. Settles'
  <2>1. \A q : Brief(q)' = Brief(q) /\ SignalFields(q)' = SignalFields(q)
    BY <1>1, SameDerived
  <2> QED
    BY <1>1, <1>7, <2>1 DEF FieldsInv, Settles
<1>9. \A m \in Deriving : IsRun(running[m])'
  BY <1>2, <1>4, <1>5, <1>7 DEF RunShapes, Moves, IsRun
<1> QED
  BY <1>1, <1>4, <1>5, <1>6, <1>7, <1>8, <1>9 DEF Moves

LEMMA StartTowerKeeps ==
  ASSUME FieldsInv, StartTower
  PROVE  FieldsInv'
<1> DEFINE w == TowerPatches
<1>1. /\ DOMAIN w = {q \in Portfolio : Differs(fields[q], Derived(facts[q], today))}
      /\ \A p \in DOMAIN w : w[p] = Corrections(fields[p], Derived(facts[p], today))
  BY DEF TowerPatches
<1>2. /\ UNCHANGED <<facts, fields, brief, today, settled, torn>>
      /\ Moves("tower", Begun("tower", w)) /\ "tower" \in Deriving
      /\ running'["tower"].write = w /\ running'["tower"].todo = DOMAIN w
      /\ FieldShapes' /\ TurnsTaken' /\ HashesKnown' /\ Settles'
      /\ running' = [m \in Deriving |-> running'[m]] /\ \A m \in Deriving : IsRun(running[m])'
  <2> HIDE DEF w
  <2>1. BeginSync("tower", w)
    BY DEF StartTower, w
  <2> QED
    BY <1>1, <2>1, BeginStep DEF Deriving
<1> HIDE DEF w
<1>3. \A p \in DOMAIN w : /\ DOMAIN w[p] \subseteq TowerNames
                          /\ \A x \in DOMAIN w[p] : w[p][x] = Derived(facts[p], today)[x]
                          /\ \A x \in TowerNames \ DOMAIN w[p] :
                                fields[p][x] = Derived(facts[p], today)[x]
  <2> SUFFICES ASSUME NEW p \in DOMAIN w
               PROVE  /\ DOMAIN w[p] \subseteq TowerNames
                      /\ \A x \in DOMAIN w[p] : w[p][x] = Derived(facts[p], today)[x]
                      /\ \A x \in TowerNames \ DOMAIN w[p] :
                            fields[p][x] = Derived(facts[p], today)[x]
    OBVIOUS
  <2>1. /\ w[p] = Corrections(fields[p], Derived(facts[p], today))
        /\ DOMAIN Derived(facts[p], today) = TowerNames
    BY <1>1, FieldNames
  <2> QED
    BY <2>1, CorrectionsAre
<1>4. RunShapes'
  BY <1>2, <1>3 DEF FieldsInv, RunShapes, Moves, Deriving
<1>5. TowerAhead'
  <2> SUFFICES ASSUME NEW p \in Portfolio, NEW x \in TowerNames
               PROVE  Will("tower", p, x)' = Derived(facts[p], today)[x]
    BY <1>2 DEF TowerAhead, Portfolio
  <2>1. CASE p \in DOMAIN w
    BY <1>2, <1>3, <2>1 DEF Will
  <2>2. CASE p \notin DOMAIN w
    BY <1>1, <1>2, <2>2, CorrectedFields, FieldNames DEF Will
  <2> QED
    BY <2>1, <2>2
<1>6. \A q : Brief(q)' = Brief(q) /\ SignalFields(q)' = SignalFields(q)
  BY <1>2, SameDerived
<1>7. \A q, x : Will("signals", q, x)' = Will("signals", q, x)
  BY <1>2 DEF Will, Moves, Deriving
<1>8. BriefsAhead' /\ SignalsAhead'
  BY <1>2, <1>6, <1>7 DEF FieldsInv, BriefsAhead, SignalsAhead, Moves, Deriving, Portfolio
<1> QED
  BY <1>2, <1>4, <1>5, <1>8 DEF FieldsInv

LEMMA StartSignalsKeeps ==
  ASSUME FieldsInv, StartSignals
  PROVE  FieldsInv'
<1> DEFINE w == SignalPatches
<1>1. /\ DOMAIN w = {q \in Portfolio : Differs(fields[q], SignalFields(q))}
      /\ \A p \in DOMAIN w : w[p] = Corrections(fields[p], SignalFields(p))
  BY DEF SignalPatches
<1>2. /\ UNCHANGED <<facts, fields, brief, today, settled, torn>>
      /\ Moves("signals", Begun("signals", w)) /\ "signals" \in Deriving
      /\ running'["signals"].write = w /\ running'["signals"].todo = DOMAIN w
      /\ FieldShapes' /\ TurnsTaken' /\ HashesKnown' /\ Settles'
      /\ running' = [m \in Deriving |-> running'[m]] /\ \A m \in Deriving : IsRun(running[m])'
  <2> HIDE DEF w
  <2>1. BeginSync("signals", w)
    BY DEF StartSignals, w
  <2> QED
    BY <1>1, <2>1, BeginStep DEF Deriving
<1> HIDE DEF w
<1>3. \A p \in DOMAIN w : /\ DOMAIN w[p] \subseteq SignalNames
                          /\ \A x \in DOMAIN w[p] : w[p][x] = SignalFields(p)[x]
                          /\ \A x \in SignalNames \ DOMAIN w[p] :
                                fields[p][x] = SignalFields(p)[x]
  <2> SUFFICES ASSUME NEW p \in DOMAIN w
               PROVE  /\ DOMAIN w[p] \subseteq SignalNames
                      /\ \A x \in DOMAIN w[p] : w[p][x] = SignalFields(p)[x]
                      /\ \A x \in SignalNames \ DOMAIN w[p] : fields[p][x] = SignalFields(p)[x]
    OBVIOUS
  <2>1. w[p] = Corrections(fields[p], SignalFields(p)) /\ DOMAIN SignalFields(p) = SignalNames
    BY <1>1, FieldNames
  <2> QED
    BY <2>1, CorrectionsAre
<1>4. RunShapes'
  BY <1>2, <1>3 DEF FieldsInv, RunShapes, Moves, Deriving
<1>5. \A q : Brief(q)' = Brief(q) /\ SignalFields(q)' = SignalFields(q)
  BY <1>2, SameDerived
<1>6. SignalsAhead'
  <2> SUFFICES ASSUME NEW p \in Portfolio, NEW x \in SignalNames
               PROVE  Will("signals", p, x)' = SignalFields(p)[x]
    BY <1>2, <1>5 DEF SignalsAhead, Portfolio
  <2>1. CASE p \in DOMAIN w
    BY <1>2, <1>3, <2>1 DEF Will
  <2>2. CASE p \notin DOMAIN w
    BY <1>1, <1>2, <2>2, CorrectedFields, FieldNames DEF Will
  <2> QED
    BY <2>1, <2>2
<1>7. \A q, x : Will("tower", q, x)' = Will("tower", q, x)
  BY <1>2 DEF Will, Moves, Deriving
<1>8. TowerAhead' /\ BriefsAhead'
  BY <1>2, <1>5, <1>7 DEF FieldsInv, TowerAhead, BriefsAhead, Moves, Deriving, Portfolio
<1> QED
  BY <1>2, <1>4, <1>6, <1>8 DEF FieldsInv

LEMMA StartIntelligenceKeeps ==
  ASSUME FieldsInv, StartIntelligence
  PROVE  FieldsInv'
<1> DEFINE w == BriefPatches
<1>1. /\ DOMAIN w = {q \in Portfolio : BriefChanged(q)}
      /\ \A p \in DOMAIN w : w[p] = Brief(p)
  BY DEF BriefPatches
<1>2. /\ UNCHANGED <<facts, fields, brief, today, settled, torn>>
      /\ Moves("intelligence", Begun("intelligence", w)) /\ "intelligence" \in Deriving
      /\ running'["intelligence"].write = w /\ running'["intelligence"].todo = DOMAIN w
      /\ FieldShapes' /\ TurnsTaken' /\ HashesKnown' /\ Settles'
      /\ running' = [m \in Deriving |-> running'[m]] /\ \A m \in Deriving : IsRun(running[m])'
  <2> HIDE DEF w
  <2>1. BeginSync("intelligence", w)
    BY DEF StartIntelligence, w
  <2> QED
    BY <1>1, <2>1, BeginStep DEF Deriving
<1> HIDE DEF w
<1>3. \A p : DOMAIN Brief(p).shown = {"lane", "score", "confidence"}
  <2>1. \A p : Brief(p).shown = Recommendation(facts[p], fields[p], today)
    BY DEF Brief
  <2> QED
    BY <2>1, FieldNames, ZenonT(60)
<1>4. RunShapes'
  BY <1>1, <1>2, <1>3 DEF FieldsInv, RunShapes, Moves, Deriving
<1>5. \A q : Brief(q)' = Brief(q) /\ SignalFields(q)' = SignalFields(q)
  BY <1>2, SameDerived
<1>6. BriefsAhead'
  <2>1. ASSUME NEW p \in Portfolio, p \notin DOMAIN w \cup torn
        PROVE  brief[p].body = {Brief(p)}
    <3>1. ~BriefChanged(p)
      BY <1>1, <2>1
    <3>2. brief[p].hash = {} \/ brief[p].hash = brief[p].body
      BY <2>1 DEF FieldsInv, HashesKnown
    <3> QED
      BY <3>1, <3>2 DEF BriefChanged
  <2> QED
    BY <1>1, <1>2, <1>5, <2>1 DEF BriefsAhead, Portfolio
<1>7. \A q, x : /\ Will("tower", q, x)' = Will("tower", q, x)
                /\ Will("signals", q, x)' = Will("signals", q, x)
  BY <1>2 DEF Will, Moves, Deriving
<1>8. TowerAhead' /\ SignalsAhead'
  BY <1>2, <1>5, <1>7 DEF FieldsInv, TowerAhead, SignalsAhead, Moves, Deriving, Portfolio
<1> QED
  BY <1>2, <1>4, <1>6, <1>8 DEF FieldsInv
------------------------------------------------------------------------------
\* A run is over, whether it ended or died.
LEMMA RestStep ==
  ASSUME FieldsInv, NEW l \in Deriving, running' = [running EXCEPT ![l] = AtRest],
         UNCHANGED <<facts, fields, brief, today, torn>>, settled' \in 0 .. 3
  PROVE  /\ FieldShapes' /\ RunShapes' /\ HashesKnown'
         /\ TowerAhead' /\ BriefsAhead' /\ SignalsAhead'
         /\ Portfolio' = Portfolio
         /\ \A q : Brief(q)' = Brief(q) /\ SignalFields(q)' = SignalFields(q)
         /\ running'[l].turn = "none" /\ \A m \in Deriving \ {l} : running'[m] = running[m]
<1>1. RunShapes /\ FieldShapes
  BY DEF FieldsInv
<1>2. Moves(l, AtRest)
  BY <1>1, RunStep
<1>3. IsRun(AtRest) /\ AtRest.turn = "none" /\ AtRest.todo = {}
  BY DEF IsRun, AtRest
<1>4. FieldShapes' /\ HashesKnown' /\ Portfolio' = Portfolio
  BY <1>1 DEF FieldsInv, FieldShapes, HashesKnown, Portfolio
<1>5. \A q : Brief(q)' = Brief(q) /\ SignalFields(q)' = SignalFields(q)
  BY SameDerived
<1>6. RunShapes'
  <2>1. \A m \in Deriving : IsRun(running[m])'
    BY <1>1, <1>2, <1>3, <1>4 DEF RunShapes, Moves, IsRun
  <2>2. \A m \in Deriving : running'[m].todo # {} => running'[m] = running[m]
    BY <1>2, <1>3 DEF Moves
  <2> QED
    BY <1>1, <1>2, <2>1, <2>2 DEF RunShapes, Moves, Deriving
<1>7. \A m \in Deriving : running'[m].turn = "kept" =>
          running'[m] = running[m] /\ \A q, x : Will(m, q, x)' = Will(m, q, x)
  BY <1>2, <1>3 DEF Moves, Will
<1>8. TowerAhead' /\ BriefsAhead' /\ SignalsAhead'
  BY <1>4, <1>5, <1>7 DEF FieldsInv, TowerAhead, BriefsAhead, SignalsAhead, Deriving
<1> QED
  BY <1>2, <1>3, <1>4, <1>5, <1>6, <1>8 DEF Moves

LEMMA SyncDiesKeeps ==
  ASSUME FieldsInv, NEW l \in Deriving, SyncDies(l)
  PROVE  FieldsInv'
<1>1. /\ running' = [running EXCEPT ![l] = AtRest]
      /\ UNCHANGED <<facts, fields, brief, today, torn>> /\ settled' = settled
      /\ settled \in 0 .. 3
  BY DEF SyncDies, FieldsInv, FieldShapes
<1>2. /\ FieldShapes' /\ RunShapes' /\ HashesKnown'
      /\ TowerAhead' /\ BriefsAhead' /\ SignalsAhead'
      /\ Portfolio' = Portfolio
      /\ \A q : Brief(q)' = Brief(q) /\ SignalFields(q)' = SignalFields(q)
      /\ running'[l].turn = "none" /\ \A m \in Deriving \ {l} : running'[m] = running[m]
  BY <1>1, RestStep
<1>3. TurnsTaken'
  BY <1>1, <1>2 DEF FieldsInv, TurnsTaken
<1>4. Settles'
  BY <1>1, <1>2 DEF FieldsInv, Settles
<1> QED
  BY <1>2, <1>3, <1>4 DEF FieldsInv

LEMMA EndSyncKeeps ==
  ASSUME FieldsInv, NEW l \in Deriving, EndSync(l)
  PROVE  FieldsInv'
<1>1. /\ running' = [running EXCEPT ![l] = AtRest] /\ running[l].todo = {}
      /\ UNCHANGED <<facts, fields, brief, today, torn>>
      /\ settled' = IF running[l].turn = "kept" THEN Newest(settled, OrderOf(l) + 1) ELSE settled
      /\ settled \in 0 .. 3 /\ TurnsTaken /\ running[l].turn \in {"kept", "lost"}
  BY DEF EndSync, FieldsInv, FieldShapes, RunShapes, IsRun
<1>2. settled' \in 0 .. 3 /\ settled <= settled'
      /\ (settled' # settled => running[l].turn = "kept" /\ settled = OrderOf(l)
                                /\ settled' = OrderOf(l) + 1)
  BY <1>1 DEF Newest, OrderOf, Deriving, TurnsTaken
<1>3. /\ FieldShapes' /\ RunShapes' /\ HashesKnown'
      /\ TowerAhead' /\ BriefsAhead' /\ SignalsAhead'
      /\ Portfolio' = Portfolio
      /\ \A q : Brief(q)' = Brief(q) /\ SignalFields(q)' = SignalFields(q)
      /\ running'[l].turn = "none" /\ \A m \in Deriving \ {l} : running'[m] = running[m]
  BY <1>1, <1>2, RestStep
<1>4. TurnsTaken'
  BY <1>1, <1>2, <1>3 DEF TurnsTaken, Deriving, OrderOf
<1>5. \A p \in Portfolio : \A x : Will(l, p, x) = fields[p][x]
  BY <1>1 DEF Will
<1>6. settled' >= 1 => \A p \in Portfolio : ~Differs(fields[p], Derived(facts[p], today))
  <2>1. CASE settled >= 1
    BY <2>1 DEF FieldsInv, Settles
  <2>2. CASE settled = 0 /\ settled' >= 1
    <3>1. l = "tower" /\ running["tower"].turn = "kept"
      BY <1>2, <2>2 DEF OrderOf, Deriving
    <3> QED
      BY <1>5, <3>1, CorrectedFields, FieldNames DEF FieldsInv, TowerAhead
  <2> QED
    BY <1>1, <2>1, <2>2
<1>7. settled' >= 2 => \A p \in Portfolio \ torn : brief[p].body = {Brief(p)}
  <2>1. CASE settled >= 2
    BY <2>1 DEF FieldsInv, Settles
  <2>2. CASE settled < 2 /\ settled' >= 2
    <3>1. l = "intelligence" /\ running["intelligence"].turn = "kept"
      BY <1>1, <1>2, <2>2 DEF OrderOf, Deriving
    <3> QED
      BY <1>1, <3>1 DEF FieldsInv, BriefsAhead
  <2> QED
    BY <1>1, <2>1, <2>2
<1>8. settled' = 3 => \A p \in Portfolio : ~Differs(fields[p], SignalFields(p))
  <2>1. CASE settled = 3
    BY <2>1 DEF FieldsInv, Settles
  <2>2. CASE settled # 3 /\ settled' = 3
    <3>1. l = "signals" /\ running["signals"].turn = "kept"
      BY <1>1, <1>2, <2>2 DEF OrderOf, Deriving
    <3> QED
      BY <1>5, <3>1, CorrectedFields, FieldNames DEF FieldsInv, SignalsAhead
  <2> QED
    BY <1>1, <2>1, <2>2
<1>9. Settles'
  BY <1>1, <1>3, <1>6, <1>7, <1>8 DEF Settles
<1> QED
  BY <1>3, <1>4, <1>9 DEF FieldsInv

LEMMA SkipSignalsKeeps ==
  ASSUME FieldsInv, NEW p \in Portfolio, SkipSignals(p)
  PROVE  FieldsInv'
<1> DEFINE r == running["signals"]
           new == [r EXCEPT !.todo = @ \ {p}, !.turn = "lost"]
<1>1. /\ p \in r.todo /\ UNCHANGED <<facts, fields, brief, today, torn, settled>>
      /\ running' = [running EXCEPT !["signals"] = new]
  BY DEF SkipSignals
<1>2. FieldShapes /\ RunShapes /\ TurnsTaken /\ IsRun(r)
  BY DEF FieldsInv, RunShapes, Deriving
<1>3. Moves("signals", new)
  <2> HIDE DEF new
  <2> QED
    BY <1>1, <1>2, RunStep DEF Deriving
<1>4. IsRun(new) /\ new.turn = "lost" /\ new.todo \subseteq r.todo /\ new.write = r.write
  <2> DEFINE todo == r.todo \ {p}
  <2>1. new = [[r EXCEPT !.todo = todo] EXCEPT !.turn = "lost"]
    BY Zenon
  <2>2. [r EXCEPT !.todo = todo] = [turn |-> r.turn, write |-> r.write, todo |-> todo, at |-> r.at,
                                    step |-> r.step]
    <3> HIDE DEF todo
    <3> QED
      BY <1>2 DEF IsRun
  <2>3. new = [turn |-> "lost", write |-> r.write, todo |-> todo, at |-> r.at, step |-> r.step]
    <3> HIDE DEF todo, r, new
    <3> QED
      BY <2>1, <2>2
  <2> HIDE DEF new
  <2> QED
    BY <1>2, <2>3 DEF IsRun
<1> HIDE DEF new
<1>5. FieldShapes' /\ HashesKnown' /\ Portfolio' = Portfolio
  BY <1>1 DEF FieldsInv, FieldShapes, HashesKnown, Portfolio
<1>6. \A q : Brief(q)' = Brief(q) /\ SignalFields(q)' = SignalFields(q)
  BY <1>1, SameDerived
<1>7. RunShapes'
  <2>1. \A m \in Deriving : IsRun(running[m])'
    BY <1>2, <1>3, <1>4, <1>5 DEF RunShapes, Moves, IsRun
  <2> QED
    BY <1>2, <1>3, <1>4, <2>1 DEF RunShapes, Moves, Deriving
<1>8. TurnsTaken'
  BY <1>1, <1>2, <1>3, <1>4 DEF TurnsTaken, Moves, Deriving, OrderOf
<1>9. \A q, x : Will("tower", q, x)' = Will("tower", q, x)
  BY <1>1, <1>3 DEF Will, Moves, Deriving
<1>10. TowerAhead' /\ BriefsAhead' /\ SignalsAhead'
  BY <1>1, <1>3, <1>4, <1>5, <1>6, <1>9
     DEF FieldsInv, TowerAhead, BriefsAhead, SignalsAhead, Moves, Deriving
<1>11. Settles'
  BY <1>1, <1>5, <1>6 DEF FieldsInv, Settles
<1> QED
  BY <1>5, <1>7, <1>8, <1>10, <1>11 DEF FieldsInv

\* What changes under the commands.
LEMMA EditFactsKeeps ==
  ASSUME FieldsInv, NEW p \in Portfolio, NEW f \in Contents, EditFacts(p, f)
  PROVE  FieldsInv'
<1>1. /\ facts' = [facts EXCEPT ![p] = f] /\ running' = Outdated /\ settled' = 0
      /\ UNCHANGED <<fields, brief, today, torn>> /\ f \in ProjectFacts
  BY FieldsAssumption DEF EditFacts
<1>2. FieldShapes /\ RunShapes
  BY DEF FieldsInv
<1>3. facts' \in [Portfolio -> ProjectFacts] /\ Portfolio' = Portfolio
  BY <1>1, <1>2 DEF FieldShapes, Portfolio
<1>4. FieldShapes' /\ HashesKnown'
  BY <1>1, <1>2, <1>3 DEF FieldsInv, FieldShapes, HashesKnown
<1>5. /\ running' = [l \in Deriving |-> running'[l]]
      /\ \A l \in Deriving :
            running'[l] = [running[l] EXCEPT !.turn = IF @ = "none" THEN @ ELSE "lost"]
  BY <1>1, Zenon DEF Outdated
<1>6. \A l \in Deriving : /\ IsRun(running'[l]) /\ running'[l].turn # "kept"
                          /\ running'[l].todo = running[l].todo
                          /\ running'[l].write = running[l].write
  <2> SUFFICES ASSUME NEW l \in Deriving
               PROVE  /\ IsRun(running'[l]) /\ running'[l].turn # "kept"
                      /\ running'[l].todo = running[l].todo
                      /\ running'[l].write = running[l].write
    OBVIOUS
  <2> DEFINE turn == IF running[l].turn = "none" THEN "none" ELSE "lost"
  <2>1. running'[l] = [running[l] EXCEPT !.turn = turn]
    BY <1>5, Zenon
  <2>2. /\ IsRun(running[l]) /\ turn \in {"none", "lost"}
        /\ turn = "none" => running[l].turn = "none"
    BY <1>2 DEF RunShapes
  <2> HIDE DEF turn
  <2> QED
    BY <2>1, <2>2 DEF IsRun
<1>7. RunShapes'
  <2>1. \A l \in Deriving : IsRun(running[l])'
    BY <1>3, <1>6 DEF IsRun
  <2> QED
    BY <1>2, <1>5, <1>6, <2>1 DEF RunShapes, Deriving
<1>8. TurnsTaken' /\ TowerAhead' /\ BriefsAhead' /\ SignalsAhead' /\ Settles'
  BY <1>1, <1>6 DEF TurnsTaken, TowerAhead, BriefsAhead, SignalsAhead, Settles, Deriving, OrderOf
<1> QED
  BY <1>4, <1>7, <1>8 DEF FieldsInv

LEMMA NextDayKeeps ==
  ASSUME FieldsInv, NextDay
  PROVE  FieldsInv'
<1>1. /\ \A l \in Deriving : running[l].turn = "none"
      /\ today' = today + 1 /\ settled' = 0 /\ torn' = {}
      /\ brief' = [p \in Portfolio |-> [hash |-> {}, body |-> {}]]
      /\ UNCHANGED <<facts, fields, running>>
  BY DEF NextDay
<1>2. Portfolio' = Portfolio
  BY <1>1 DEF Portfolio
<1>3. FieldShapes' /\ HashesKnown'
  BY <1>1, <1>2 DEF FieldsInv, FieldShapes, HashesKnown
<1>4. RunShapes'
  BY <1>1, <1>2 DEF FieldsInv, RunShapes, IsRun
<1>5. TurnsTaken' /\ TowerAhead' /\ BriefsAhead' /\ SignalsAhead' /\ Settles'
  BY <1>1 DEF TurnsTaken, TowerAhead, BriefsAhead, SignalsAhead, Settles, Deriving, OrderOf
<1> QED
  BY <1>3, <1>4, <1>5 DEF FieldsInv

LEMMA FieldsInitInv ==
  ASSUME FieldsInit
  PROVE  FieldsInv
<1>1. facts \in [Portfolio -> ProjectFacts]
  BY FieldsAssumption DEF FieldsInit, Portfolio
<1>2. Underived = [x \in DOMAIN Underived |-> Underived[x]]
  BY DEF Underived
<1>3. FieldShapes
  BY <1>1, <1>2, FieldsAssumption DEF FieldsInit, FieldShapes
<1>4. /\ running = [l \in Deriving |-> running[l]]
      /\ \A l \in Deriving : running[l] = AtRest
  BY DEF FieldsInit
<1>5. IsRun(AtRest) /\ AtRest.turn = "none" /\ AtRest.todo = {}
  BY DEF IsRun, AtRest
<1>6. RunShapes
  BY <1>4, <1>5 DEF RunShapes, Deriving
<1>7. TurnsTaken /\ TowerAhead /\ BriefsAhead /\ SignalsAhead /\ Settles /\ HashesKnown
  BY <1>4, <1>5 DEF FieldsInit, TurnsTaken, TowerAhead, BriefsAhead, SignalsAhead, Settles,
     HashesKnown, Deriving, OrderOf
<1> QED
  BY <1>3, <1>6, <1>7 DEF FieldsInv
LEMMA FieldsAreKept == FieldsInv /\ [FieldsNext]_deriving => FieldsInv'
<1> SUFFICES ASSUME FieldsInv, [FieldsNext]_deriving PROVE FieldsInv'
  OBVIOUS
<1>1. CASE UNCHANGED deriving
  <2>1. \A q : Brief(q)' = Brief(q) /\ SignalFields(q)' = SignalFields(q)
    BY <1>1, SameDerived DEF deriving
  <2> QED
    <3>1. /\ UNCHANGED <<facts, fields, brief, running, today, settled, torn>>
          /\ Portfolio' = Portfolio
      BY <1>1 DEF deriving, Portfolio
    <3>2. FieldShapes' /\ RunShapes' /\ TurnsTaken' /\ HashesKnown'
      BY <3>1 DEF FieldsInv, FieldShapes, RunShapes, IsRun, TurnsTaken, HashesKnown
    <3>3. \A l, q, x : Will(l, q, x)' = Will(l, q, x)
      BY <3>1 DEF Will
    <3>4. TowerAhead' /\ BriefsAhead' /\ SignalsAhead'
      BY <2>1, <3>1, <3>3 DEF FieldsInv, TowerAhead, BriefsAhead, SignalsAhead
    <3>5. Settles'
      BY <2>1, <3>1 DEF FieldsInv, Settles
    <3> QED
      BY <3>2, <3>4, <3>5 DEF FieldsInv
<1>2. CASE FieldsNext
  BY <1>2, StartTowerKeeps, StartIntelligenceKeeps, StartSignalsKeeps, PatchDerivedKeeps,
     RecommendPageKeeps, RecommendBriefKeeps, PatchSignalsKeeps, SkipSignalsKeeps,
     EditFactsKeeps, EndSyncKeeps, SyncDiesKeeps, NextDayKeeps DEF FieldsNext
<1> QED
  BY <1>1, <1>2

\* The milder reasons of the rescue list are gone once the tower is done.
LEMMA RescuesAreUrgent == FieldsInv => RescueIsUrgent
<1> SUFFICES ASSUME FieldsInv, settled >= 1, NEW p \in Portfolio, Rescued(facts[p], fields[p])
             PROVE  RescuePriority(RescueReason(facts[p], fields[p], today)) = "high"
  BY Zenon DEF RescueIsUrgent
<1> DEFINE new == Derived(facts[p], today)
<1>1. facts[p] \in ProjectFacts /\ today \in Nat
  BY DEF FieldsInv, FieldShapes
<1>2. \A x \in TowerNames : fields[p][x] = new[x]
  BY CorrectedFields, FieldNames DEF FieldsInv, Settles
<1>3. fields[p].freshness = new.freshness /\ fields[p].reviewDate = new.reviewDate
  BY <1>2 DEF TowerNames
<1>4. new.freshness = Freshness(facts[p], today) /\ new.reviewDate = ReviewDate(facts[p])
  BY DEF Derived
<1> HIDE DEF new
<1> QED
  BY <1>1, <1>3, <1>4, StaleIsOverdue, Zenon

(***************************************************************************)
(* DerivedFieldsSettle: for any projects, contents and number of edits,    *)
(* days and failures: once the control tower, the intelligence sync and    *)
(* the signal sync went through in this order and nothing changed          *)
(* meanwhile, every derived field is what the page's own fields say,       *)
(* whatever runs with older readings overlapped or died, save the brief    *)
(* whose run died between its hash and its body; and no stale project is   *)
(* rescued mildly then (FieldsSettle).                                     *)
(***************************************************************************)
THEOREM DerivedFieldsSettle == FieldsSpec => []FieldsSettle
<1>1. FieldsInit => FieldsInv
  BY FieldsInitInv
<1>2. FieldsInv => FieldsSettle
  BY RescuesAreUrgent DEF FieldsSettle, FieldsInv
<1> QED
  BY <1>1, <1>2, FieldsAreKept, PTL DEF FieldsSpec

(***************************************************************************)
(* BlockersStayHindrances: whatever the projects are, one more blocked     *)
(* packet or task, or evidence that ages, raises neither Resume nor Finish *)
(* and never lowers Defer (recommendations.ts).                            *)
(***************************************************************************)
THEOREM BlockersStayHindrances == FieldsSpec => []BlockersNeverHelp
<1>1. FieldsInit => FieldsInv
  BY FieldsInitInv
<1>2. FieldsInv => BlockersNeverHelp
  <2> SUFFICES ASSUME FieldsInv PROVE BlockersNeverHelp
    OBVIOUS
  <2>1. \A p \in Portfolio : DOMAIN fields[p] = TowerNames \cup SignalNames
    BY FieldNames DEF FieldsInv, FieldShapes
  <2>2. \A p \in Portfolio : /\ facts[p] \in ProjectFacts
                             /\ {"queue", "freshness"} \subseteq DOMAIN fields[p]
    BY <2>1 DEF FieldsInv, FieldShapes, TowerNames
  <2> QED
    BY <2>2, BlockersHelpNever
<1> QED
  BY <1>1, <1>2, FieldsAreKept, PTL DEF FieldsSpec
================================================================================
