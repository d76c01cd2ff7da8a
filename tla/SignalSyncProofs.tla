--------------------------- MODULE SignalSyncProofs ---------------------------
(***************************************************************************)
(* What the signal sync guarantees for any log and any projects in it, any *)
(* burst limit, and any number of processes with any scopes that overlap,  *)
(* die and meet failing calls.                                             *)
(***************************************************************************)
EXTENDS SignalSync, TLAPS, WellFoundedInduction, FiniteSetTheorems

------------------------------------------------------------------------------
\* The sync takes the first of its keys, and the cursor moves to the last of
\* its lines; there is one.
LEMMA Least ==
  ASSUME NEW T \in SUBSET Nat, T # {}
  PROVE  \E x \in T : \A y \in T : x <= y
<1> DEFINE R == {ss \in Nat \X Nat : ss[1] < ss[2]}
<1>1. IsWellFoundedOn(R, Nat)
  BY NatLessThanWellFounded DEF OpToRel
<1>2. \A x, y \in Nat : <<y, x>> \in R <=> y < x
  OBVIOUS
<1> HIDE DEF R
<1>3. PICK x \in T : \A y \in T : ~(<<y, x>> \in R)
  BY <1>1, WFMin
<1>4. \A y \in T : ~(y < x)
  BY <1>2, <1>3
<1>5. \A y \in T : x <= y
  BY <1>4
<1> QED
  BY <1>5

LEMMA SizeOfLog == Len(Day) \in Nat /\ Resolved \subseteq Lines /\ \A l \in Lines : Day[l] \in Nat
BY SignalsAssumption DEF Lines

LEMMA UptoIsLast ==
  ASSUME NEW S \in SUBSET Lines
  PROVE  /\ Upto(S) \in 0 .. Len(Day)
         /\ S # {} => Upto(S) \in S /\ \A l \in S : l <= Upto(S)
<1> DEFINE T == {Len(Day) - l : l \in S}
<1>0. Len(Day) \in Nat
  BY SizeOfLog
<1>1. CASE S = {}
  BY <1>0, <1>1 DEF Upto
<1>2. CASE S # {}
  <2>0. \A l \in S : l \in 1 .. Len(Day) /\ Len(Day) - l \in Nat
    BY <1>0 DEF Lines
  <2>1. T \in SUBSET Nat /\ T # {}
    BY <1>2, <2>0
  <2>2. PICK x \in T : \A y \in T : x <= y
    BY <2>1, Least
  <2>3. PICK l \in S : x = Len(Day) - l
    BY <2>2
  <2>4. \A k \in S : k <= l
    <3> SUFFICES ASSUME NEW k \in S PROVE k <= l
      OBVIOUS
    <3>1. Len(Day) - l <= Len(Day) - k
      BY <2>2, <2>3
    <3> QED
      BY <1>0, <2>0, <3>1
  <2>5. Upto(S) \in S /\ \A k \in S : k <= Upto(S)
    BY <1>2, <2>4 DEF Upto
  <2>6. Upto(S) \in 1 .. Len(Day)
    BY <2>5, Zenon DEF Lines
  <2>7. Upto(S) \in 0 .. Len(Day)
    BY <1>0, <2>6
  <2> QED
    BY <2>5, <2>7, Zenon
<1> QED
  BY <1>1, <1>2

\* What a run has taken it has taken from the front.
LEMMA TakenFromFront ==
  ASSUME MaxEvents \in Nat, NEW S \in SUBSET Lines, NEW l \in Taken(S), NEW k \in S, k < l
  PROVE  k \in Taken(S)
<1> DEFINE Before(m) == {j \in S \cap Resolved : j < m}
<1>0. IsFiniteSet(1 .. Len(Day))
  <2>1. Len(Day) \in Int
    BY SizeOfLog
  <2> QED
    BY <2>1, FS_Interval
<1>1. Before(l) \in SUBSET Lines /\ IsFiniteSet(Lines)
  BY <1>0 DEF Lines
<1>2. IsFiniteSet(Before(l))
  BY <1>1, FS_Subset
<1>3. Before(k) \subseteq Before(l)
  <2>0. l \in S
    BY DEF Taken
  <2>1. k \in Int /\ l \in Int /\ \A j \in S : j \in Int
    BY <2>0, SizeOfLog DEF Lines
  <2>2. \A j \in S : j < k => j < l
    BY <2>1
  <2> QED
    BY <2>2
<1>4. /\ IsFiniteSet(Before(k))
      /\ Cardinality(Before(k)) <= Cardinality(Before(l))
  BY <1>2, <1>3, FS_Subset
<1>5. Cardinality(Before(k)) \in Nat /\ Cardinality(Before(l)) \in Nat
  BY <1>2, <1>4, FS_CardinalityType
<1>6. Cardinality(Before(l)) < MaxEvents
  BY DEF Taken
<1>7. Cardinality(Before(k)) < MaxEvents
  BY <1>4, <1>5, <1>6
<1> QED
  BY <1>7 DEF Taken

------------------------------------------------------------------------------
\* The shapes of the state.
Sayings == [lines : SUBSET (Keys \cup {Bare}), stages : SUBSET Nat]
EventRows == [key : Keys \cup {Bare}, status : Nat]
Pcs == {"idle", "dedupe", "write", "describe", "brief", "compose", "seal", "hash", "body"}
Running(r) ==
    /\ DOMAIN r = {"pc", "mark", "seen", "todo", "row", "upto", "page", "said"}
    /\ r.pc \in Pcs /\ r.mark \in 0 .. Len(Day) /\ r.seen \in Nat /\ r.todo \in SUBSET Keys
    /\ r.row \in Nat /\ r.upto \in 0 .. Len(Day) /\ r.page \in Nat /\ r.said \in Sayings

Runnable ==
    runner = [p \in Runners |-> runner[p]] /\ \A p \in Runners : Running(runner[p])

Shapes ==
    /\ base \in Nat /\ logged \in 0 .. Len(Day) /\ stage \in Nat
    /\ signalRows \in Seq(EventRows) /\ cursor \in 0 .. Len(Day)
    /\ briefs \in Seq([hash : Sayings, body : Sayings])
    /\ Runnable

LEMMA FirstKey ==
  ASSUME Shapes, NEW p \in Runners, runner[p].todo # {}
  PROVE  Signal(p) \in runner[p].todo /\ Signal(p) \in Keys
<1>1. runner[p].todo \in SUBSET Keys /\ Keys \in SUBSET Nat
  BY SizeOfLog DEF Shapes, Runnable, Running, Keys, Lines, Deploy
<1>2. PICK x \in runner[p].todo : \A y \in runner[p].todo : x <= y
  BY <1>1, Least
<1>3. Signal(p) \in runner[p].todo
  BY <1>2 DEF Signal
<1> QED
  BY <1>1, <1>3

LEMMA SaidShape ==
  ASSUME Shapes
  PROVE  Said(signalRows) \in Sayings /\ Nothing \in Sayings /\ Unhashed \in Sayings
<1>1. \A i \in DOMAIN signalRows : signalRows[i].key \in Keys \cup {Bare} /\ signalRows[i].status \in Nat
  <2>1. signalRows \in Seq(EventRows)
    BY DEF Shapes
  <2>2. \A i \in DOMAIN signalRows : signalRows[i] \in EventRows
    BY <2>1
  <2> QED
    BY <2>2 DEF EventRows
<1>2. {signalRows[i].key : i \in DOMAIN signalRows} \ {Bare, Deploy} \in SUBSET (Keys \cup {Bare})
  BY <1>1
<1>3. {signalRows[i].status : i \in DOMAIN signalRows} \ {0} \in SUBSET Nat
  BY <1>1
<1> QED
  BY <1>2, <1>3 DEF Said, Nothing, Unhashed, Sayings

LEMMA RestingShape == Running(Resting)
BY SizeOfLog DEF Resting, Running, Pcs, Nothing, Sayings

\* A step moves one runner and leaves the others alone.
Elsewhere(p) == \A q \in Runners \ {p} : runner'[q] = runner[q]

LEMMA MoveStep ==
  ASSUME Shapes, NEW p \in Runners, NEW s, Running(s), Move(p, s)
  PROVE  runner'[p] = s /\ Elsewhere(p) /\ Runnable'
BY DEF Shapes, Runnable, Move, Elsewhere

------------------------------------------------------------------------------
\* What each step does.
LEMMA ReadShape ==
  ASSUME Shapes, NEW hub \in BOOLEAN
  PROVE  Candidates(cursor) \in SUBSET Lines /\ Read(hub) \in SUBSET Candidates(cursor)
<1>1. base \in Nat /\ logged \in 0 .. Len(Day) /\ Len(Day) \in Nat
  BY SizeOfLog DEF Shapes
<1>2. base + 1 .. logged \subseteq Lines
  BY <1>1 DEF Lines
<1> QED
  BY <1>2 DEF Read, Candidates, Taken

LEMMA StartDoes ==
  ASSUME Shapes, NEW p \in Runners, Start(p)
  PROVE  /\ Shapes' /\ Elsewhere(p) /\ runner[p].pc = "idle"
         /\ UNCHANGED <<base, signalRows, cursor, briefs, overlaps, torn>>
         /\ runner'[p].pc = "dedupe" /\ runner'[p].mark = cursor
         /\ \E hub \in BOOLEAN : /\ runner'[p].todo = Named(Read(hub))
                                 /\ runner'[p].upto = Upto(Read(hub))
<1>1. PICK hub \in BOOLEAN, vercel \in BOOLEAN :
        Move(p, [Resting EXCEPT !.pc = "dedupe", !.mark = cursor, !.seen = Shown(vercel),
                                !.todo = Named(Read(hub)), !.upto = Upto(Read(hub))])
  BY DEF Start
<1> DEFINE s == [Resting EXCEPT !.pc = "dedupe", !.mark = cursor, !.seen = Shown(vercel),
                                !.todo = Named(Read(hub)), !.upto = Upto(Read(hub))]
<1>2. Read(hub) \in SUBSET Lines
  BY ReadShape
<1>3. Named(Read(hub)) \in SUBSET Keys /\ Upto(Read(hub)) \in 0 .. Len(Day)
  BY <1>2, UptoIsLast DEF Named, Keys
<1>4. Shown(vercel) \in Nat /\ cursor \in 0 .. Len(Day)
  BY DEF Shapes, Shown
<1>5. Running(s)
  BY <1>3, <1>4, RestingShape DEF Running, Pcs
<1>6. /\ s.pc = "dedupe" /\ s.mark = cursor
      /\ s.todo = Named(Read(hub)) /\ s.upto = Upto(Read(hub))
  BY DEF Resting
<1>7. runner'[p] = s /\ Elsewhere(p) /\ Runnable'
  BY <1>1, <1>5, MoveStep
<1> HIDE DEF s
<1>8. Shapes'
  BY <1>7 DEF Shapes, Start, World
<1> QED
  BY <1>6, <1>7, <1>8 DEF Start, In, World

LEMMA StartPagesDoes ==
  ASSUME Shapes, NEW p \in Runners, StartPages(p)
  PROVE  /\ Shapes' /\ Elsewhere(p) /\ runner[p].pc = "idle" /\ runner'[p].pc = "brief"
         /\ UNCHANGED <<base, signalRows, cursor, briefs, overlaps, torn>>
<1> DEFINE s == [Resting EXCEPT !.pc = "brief", !.said = Said(signalRows)]
<1>1. Running(s) /\ s.pc = "brief"
  BY RestingShape, SaidShape DEF Running, Pcs, Resting
<1>2. Move(p, s)
  BY DEF StartPages
<1> HIDE DEF s
<1>3. runner'[p] = s /\ Elsewhere(p) /\ Runnable'
  BY <1>1, <1>2, MoveStep
<1> QED
  BY <1>1, <1>3 DEF Shapes, StartPages, In, World, History

LEMMA DedupeDoes ==
  ASSUME Shapes, NEW p \in Runners, Dedupe(p)
  PROVE  /\ Shapes' /\ Elsewhere(p) /\ runner[p].pc = "dedupe" /\ runner'[p].pc = "write"
         /\ UNCHANGED <<base, signalRows, cursor, briefs, overlaps, torn>>
         /\ runner'[p].upto = runner[p].upto
         /\ IF RowsOf(Deploy) = {} THEN runner'[p].row = 0 ELSE runner'[p].row \in RowsOf(Deploy)
         /\ LET fresh == {l \in runner[p].todo : ~Covered(l, runner[p].mark) /\ RowsOf(l) = {}}
            IN  fresh \subseteq runner'[p].todo /\ runner'[p].todo \subseteq fresh \cup {Deploy}
<1> DEFINE r == runner[p]
           fresh == {l \in r.todo : ~Covered(l, r.mark) /\ RowsOf(l) = {}}
           rest(row) == fresh \cup (IF r.seen # 0 /\ (row = 0 \/ signalRows[row].status # r.seen)
                                    THEN {Deploy} ELSE {})
           said == IF Scope[p] = "full" THEN Said(signalRows) ELSE Nothing
           s(row) == [r EXCEPT !.pc = "write", !.row = row, !.mark = 0,
                               !.said = said, !.todo = rest(row)]
<1>1. PICK row \in (IF RowsOf(Deploy) = {} THEN {0} ELSE RowsOf(Deploy)) : Move(p, s(row))
  BY DEF Dedupe
<1>2. row \in Nat
  BY DEF RowsOf
<1>3. Running(r) /\ said \in Sayings
  BY SaidShape DEF Shapes, Runnable
<1>4. rest(row) \in SUBSET Keys
  <2>1. r.todo \in SUBSET Keys
    <3> HIDE DEF r
    <3> QED
      BY <1>3 DEF Running
  <2>2. fresh \subseteq r.todo /\ Deploy \in Keys
    BY DEF Keys
  <2> HIDE DEF fresh, r
  <2> QED
    BY <2>1, <2>2
<1>5. fresh \subseteq rest(row) /\ rest(row) \subseteq fresh \cup {Deploy}
  OBVIOUS
<1>6. Running(s(row))
  <2> HIDE DEF rest, said, r
  <2> QED
    BY <1>2, <1>3, <1>4, SizeOfLog DEF Running, Pcs
<1>7. s(row).pc = "write" /\ s(row).row = row /\ s(row).todo = rest(row) /\ s(row).upto = r.upto
  <2> HIDE DEF rest, said, r
  <2> QED
    BY <1>3 DEF Running
<1>8. runner'[p] = s(row) /\ Elsewhere(p) /\ Runnable'
  <2> HIDE DEF s
  <2> QED
    BY <1>1, <1>6, MoveStep
<1> HIDE DEF s, rest
<1>9. Shapes'
  BY <1>8 DEF Shapes, Dedupe, World, History
<1> QED
  BY <1>1, <1>5, <1>7, <1>8, <1>9 DEF Dedupe, In, World, History

\* Keys are numbers, and no key is that of a bare page.
LEMMA KeyFacts == Keys \in SUBSET Nat /\ Bare \notin Keys /\ Deploy \in Keys /\ Lines \subseteq Keys
BY SizeOfLog DEF Keys, Lines, Deploy, Bare

LEMMA CreateDoes ==
  ASSUME Shapes, NEW p \in Runners, Create(p)
  PROVE  /\ Shapes' /\ Elsewhere(p) /\ runner[p].pc = "write" /\ runner'[p].pc = "describe"
         /\ runner'[p].todo = runner[p].todo /\ runner[p].todo # {}
         /\ runner'[p].row = runner[p].row /\ runner'[p].upto = runner[p].upto
         /\ runner'[p].page = Len(signalRows) + 1 /\ ~Updates(p)
         /\ signalRows' = Append(signalRows, [key |-> Bare, status |-> 0])
         /\ UNCHANGED <<base, cursor, briefs, torn>> /\ overlaps \subseteq overlaps'
<1> DEFINE s == [runner[p] EXCEPT !.pc = "describe", !.page = Len(signalRows')]
<1>1. /\ Running(runner[p]) /\ signalRows \in Seq(EventRows)
      /\ signalRows' = Append(signalRows, [key |-> Bare, status |-> 0])
  BY DEF Shapes, Runnable, Create
<1>2. [key |-> Bare, status |-> 0] \in EventRows
  BY DEF EventRows
<1>3. /\ signalRows' \in Seq(EventRows)
      /\ Len(signalRows') = Len(signalRows) + 1 /\ Len(signalRows') \in Nat
  BY <1>1, <1>2
<1>4. /\ Running(s) /\ s.pc = "describe" /\ s.page = Len(signalRows')
      /\ s.todo = runner[p].todo /\ s.row = runner[p].row /\ s.upto = runner[p].upto
  BY <1>1, <1>3 DEF Running, Pcs
<1>5. Move(p, s)
  BY DEF Create
<1> HIDE DEF s
<1>6. runner'[p] = s /\ Elsewhere(p) /\ Runnable'
  BY <1>4, <1>5, MoveStep
<1>7. Shapes'
  BY <1>3, <1>6 DEF Shapes, Create, World
<1> QED
  BY <1>1, <1>3, <1>4, <1>6, <1>7 DEF Create, Writing, In, World

LEMMA CountedShape ==
  ASSUME Shapes, NEW p \in Runners, runner[p].todo # {}
  PROVE  /\ Running(Counted(p)) /\ Counted(p).pc = "write" /\ Row(p) \in EventRows
         /\ Counted(p).todo = runner[p].todo \ {Signal(p)}
         /\ Counted(p).row = runner[p].row /\ Counted(p).upto = runner[p].upto
<1> DEFINE said == IF Scope[p] = "providers" THEN Nothing ELSE
                   [ lines |-> runner[p].said.lines \cup ({Signal(p)} \ {Deploy}),
                     stages |-> IF Signal(p) = Deploy THEN {runner[p].seen}
                                ELSE runner[p].said.stages ]
           todo == runner[p].todo \ {Signal(p)}
<1>1. Running(runner[p]) /\ Signal(p) \in Keys
  BY FirstKey DEF Shapes, Runnable
<1>2. said \in Sayings
  <2>1. /\ runner[p].said.lines \in SUBSET (Keys \cup {Bare})
        /\ runner[p].said.stages \in SUBSET Nat /\ runner[p].seen \in Nat
    BY <1>1 DEF Running, Sayings
  <2> QED
    BY <1>1, <2>1, SaidShape DEF Sayings
<1>3. Counted(p) = [runner[p] EXCEPT !.pc = "write", !.todo = todo, !.page = 0, !.said = said]
  BY DEF Counted
<1>4. todo \in SUBSET Keys
  BY <1>1 DEF Running
<1>5. Row(p) \in EventRows
  BY <1>1 DEF Row, EventRows, Running
<1> HIDE DEF said, todo
<1>6. /\ Running(Counted(p)) /\ Counted(p).pc = "write" /\ Counted(p).todo = todo
      /\ Counted(p).row = runner[p].row /\ Counted(p).upto = runner[p].upto
  <2>1. "write" \in Pcs
    BY DEF Pcs
  <2>2. Running(Counted(p))
    BY <1>1, <1>2, <1>3, <1>4, <2>1 DEF Running
  <2> QED
    BY <1>1, <1>3, <2>2 DEF Running
<1> QED
  BY <1>5, <1>6 DEF todo

\* One row is overwritten.
LEMMA RowWritten ==
  ASSUME Shapes, NEW i \in 1 .. Len(signalRows), NEW e \in EventRows,
         signalRows' = [signalRows EXCEPT ![i] = e]
  PROVE  /\ signalRows' \in Seq(EventRows) /\ Len(signalRows') = Len(signalRows)
         /\ \A j \in 1 .. Len(signalRows) :
              signalRows'[j] = IF j = i THEN e ELSE signalRows[j]
BY DEF Shapes

LEMMA DescribeDoes ==
  ASSUME Shapes, NEW p \in Runners, Describe(p),
         runner[p].todo # {}, runner[p].page \in 1 .. Len(signalRows)
  PROVE  /\ Shapes' /\ Elsewhere(p) /\ runner[p].pc = "describe" /\ runner'[p].pc = "write"
         /\ runner'[p].todo = runner[p].todo \ {Signal(p)}
         /\ runner'[p].row = runner[p].row /\ runner'[p].upto = runner[p].upto
         /\ signalRows' = [signalRows EXCEPT ![runner[p].page] = Row(p)]
         /\ UNCHANGED <<base, cursor, briefs, torn>>
         /\ overlaps' = overlaps \cup Overlapped(p)
<1>1. /\ runner'[p] = Counted(p) /\ Elsewhere(p) /\ Runnable'
  BY CountedShape, MoveStep DEF Describe
<1>2. signalRows' \in Seq(EventRows)
  BY CountedShape, RowWritten DEF Describe
<1>3. Shapes'
  BY <1>1, <1>2 DEF Shapes, Describe, World
<1> QED
  BY <1>1, <1>3, CountedShape DEF Describe, In, World

LEMMA UpdateDoes ==
  ASSUME Shapes, NEW p \in Runners, Update(p),
         runner[p].row # 0 => runner[p].row \in 1 .. Len(signalRows)
  PROVE  /\ Shapes' /\ Elsewhere(p) /\ runner[p].pc = "write" /\ runner'[p].pc = "write"
         /\ runner[p].todo # {} /\ Signal(p) = Deploy /\ runner[p].row # 0
         /\ runner'[p].todo = runner[p].todo \ {Signal(p)}
         /\ runner'[p].row = runner[p].row /\ runner'[p].upto = runner[p].upto
         /\ signalRows' = [signalRows EXCEPT ![runner[p].row] = Row(p)]
         /\ UNCHANGED <<base, cursor, briefs, torn, overlaps>>
<1>0. runner[p].todo # {}
  BY DEF Update, Writing
<1>1. /\ runner'[p] = Counted(p) /\ Elsewhere(p) /\ Runnable'
  BY <1>0, CountedShape, MoveStep DEF Update
<1>2. signalRows' \in Seq(EventRows)
  BY <1>0, CountedShape, RowWritten DEF Update, Updates
<1>3. Shapes'
  BY <1>1, <1>2 DEF Shapes, Update, World, History
<1> QED
  BY <1>0, <1>1, <1>3, CountedShape DEF Update, Updates, Writing, In, World, History

LEMMA MarkDoes ==
  ASSUME Shapes, NEW p \in Runners, Mark(p)
  PROVE  /\ Shapes' /\ Elsewhere(p) /\ runner[p].pc = "write" /\ runner[p].todo = {}
         /\ runner'[p].pc \in {"idle", "brief"}
         /\ cursor' = (IF runner[p].upto = 0 THEN cursor ELSE runner[p].upto)
         /\ UNCHANGED <<base, signalRows, briefs, torn, overlaps>>
<1> DEFINE s == IF Scope[p] = "providers" THEN Resting
                ELSE [Resting EXCEPT !.pc = "brief", !.said = runner[p].said]
<1>1. Running(runner[p])
  BY DEF Shapes, Runnable
<1>2. Running(s) /\ s.pc \in {"idle", "brief"}
  BY <1>1, RestingShape DEF Running, Pcs, Resting
<1>3. Move(p, s)
  BY DEF Mark
<1> HIDE DEF s
<1>4. runner'[p] = s /\ Elsewhere(p) /\ Runnable'
  BY <1>2, <1>3, MoveStep
<1>5. cursor' \in 0 .. Len(Day)
  BY <1>1 DEF Mark, Shapes, Running
<1>6. Shapes'
  BY <1>4, <1>5 DEF Shapes, Mark, World, History
<1> QED
  BY <1>2, <1>4, <1>6 DEF Mark, In, World, History

\* The hash or the body of one brief is overwritten.
BriefPages == [hash : Sayings, body : Sayings]

LEMMA BriefWritten ==
  ASSUME Shapes, NEW i \in 1 .. Len(briefs), NEW d \in Sayings,
         \/ briefs' = [briefs EXCEPT ![i].hash = d]
         \/ briefs' = [briefs EXCEPT ![i].body = d]
  PROVE  /\ briefs' \in Seq(BriefPages) /\ Len(briefs') = Len(briefs)
         /\ \A j \in 1 .. Len(briefs) : j # i => briefs'[j] = briefs[j]
         /\ briefs' = [briefs EXCEPT ![i].hash = d] =>
              briefs'[i].hash = d /\ briefs'[i].body = briefs[i].body
         /\ briefs' = [briefs EXCEPT ![i].body = d] =>
              briefs'[i].body = d /\ briefs'[i].hash = briefs[i].hash
<1>1. briefs \in Seq(BriefPages) /\ briefs[i] \in BriefPages
  <2>1. briefs \in Seq(BriefPages)
    BY DEF Shapes, BriefPages
  <2> HIDE DEF BriefPages
  <2> QED
    BY <2>1
<1>2. /\ [briefs[i] EXCEPT !.hash = d] \in BriefPages
      /\ [briefs[i] EXCEPT !.body = d] \in BriefPages
  BY <1>1 DEF BriefPages
<1>3. /\ [briefs[i] EXCEPT !.hash = d].hash = d
      /\ [briefs[i] EXCEPT !.hash = d].body = briefs[i].body
      /\ [briefs[i] EXCEPT !.body = d].body = d
      /\ [briefs[i] EXCEPT !.body = d].hash = briefs[i].hash
  BY <1>1 DEF BriefPages
<1>4. ASSUME NEW b \in BriefPages, briefs' = [briefs EXCEPT ![i] = b]
      PROVE  /\ briefs' \in Seq(BriefPages) /\ Len(briefs') = Len(briefs)
             /\ briefs'[i] = b
             /\ \A j \in 1 .. Len(briefs) : j # i => briefs'[j] = briefs[j]
  <2> HIDE DEF BriefPages
  <2> QED
    BY <1>1, <1>4
<1>5. /\ [briefs EXCEPT ![i].hash = d] = [briefs EXCEPT ![i] = [briefs[i] EXCEPT !.hash = d]]
      /\ [briefs EXCEPT ![i].body = d] = [briefs EXCEPT ![i] = [briefs[i] EXCEPT !.body = d]]
  OBVIOUS
<1> DEFINE h == [briefs[i] EXCEPT !.hash = d]
           b == [briefs[i] EXCEPT !.body = d]
<1>6. h \in BriefPages /\ h.hash = d /\ h.body = briefs[i].body
  BY <1>2, <1>3
<1>7. b \in BriefPages /\ b.body = d /\ b.hash = briefs[i].hash
  BY <1>2, <1>3
<1>8. /\ [briefs EXCEPT ![i].hash = d] = [briefs EXCEPT ![i] = h]
      /\ [briefs EXCEPT ![i].body = d] = [briefs EXCEPT ![i] = b]
  BY <1>5
<1> HIDE DEF h, b
<1>9. CASE briefs' = [briefs EXCEPT ![i] = h] /\ briefs' = [briefs EXCEPT ![i] = b]
  <2>1. briefs'[i] = h /\ briefs'[i] = b
    BY <1>4, <1>6, <1>7, <1>9
  <2> QED
    BY <1>4, <1>6, <1>7, <1>9, <2>1
<1>10. CASE briefs' = [briefs EXCEPT ![i] = h] /\ briefs' # [briefs EXCEPT ![i] = b]
  BY <1>4, <1>6, <1>8, <1>10
<1>11. CASE briefs' # [briefs EXCEPT ![i] = h] /\ briefs' = [briefs EXCEPT ![i] = b]
  BY <1>4, <1>7, <1>8, <1>11
<1> QED
  BY <1>8, <1>9, <1>10, <1>11

LEMMA EvaluateDoes ==
  ASSUME Shapes, NEW p \in Runners, Evaluate(p)
  PROVE  /\ Shapes' /\ Elsewhere(p) /\ runner[p].pc = "brief"
         /\ runner'[p].pc \in {"compose", "idle", "hash"}
         /\ runner'[p].pc = "hash" => runner'[p].page \in 1 .. Len(briefs)
         /\ UNCHANGED <<base, signalRows, cursor, briefs, overlaps, torn>>
<1>1. Running(runner[p])
  BY DEF Shapes, Runnable
<1>2. PICK s : /\ Move(p, s) /\ Running(s) /\ s.pc \in {"compose", "idle", "hash"}
               /\ s.pc = "hash" => s.page \in 1 .. Len(briefs)
  <2>1. CASE briefs = <<>>
    <3> DEFINE s == [runner[p] EXCEPT !.pc = "compose"]
    <3>1. Move(p, s) /\ Running(s) /\ s.pc = "compose"
      BY <1>1, <2>1 DEF Evaluate, Running, Pcs
    <3> HIDE DEF s
    <3> QED
      BY <3>1
  <2>2. CASE briefs # <<>>
    <3>1. PICK i \in 1 .. Len(briefs) :
            \/ Move(p, Resting)
            \/ Move(p, [runner[p] EXCEPT !.pc = "hash", !.page = i])
      BY <2>2 DEF Evaluate
    <3>2. CASE Move(p, Resting)
      BY <3>2, RestingShape DEF Resting
    <3>3. CASE Move(p, [runner[p] EXCEPT !.pc = "hash", !.page = i])
      <4> DEFINE s == [runner[p] EXCEPT !.pc = "hash", !.page = i]
      <4>1. Running(s) /\ s.pc = "hash" /\ s.page = i
        BY <1>1 DEF Running, Pcs
      <4> HIDE DEF s
      <4>2. Move(p, s)
        BY <3>3 DEF s
      <4> QED
        BY <4>1, <4>2
    <3> QED
      BY <3>1, <3>2, <3>3
  <2> QED
    BY <2>1, <2>2
<1>3. runner'[p] = s /\ Elsewhere(p) /\ Runnable'
  BY <1>2, MoveStep
<1> QED
  BY <1>2, <1>3 DEF Shapes, Evaluate, In, World, History

LEMMA ComposeDoes ==
  ASSUME Shapes, NEW p \in Runners, Compose(p)
  PROVE  /\ Shapes' /\ Elsewhere(p) /\ runner[p].pc = "compose" /\ runner'[p].pc = "seal"
         /\ runner'[p].page = Len(briefs) + 1 /\ runner'[p].said = runner[p].said
         /\ briefs' = Append(briefs, [hash |-> Unhashed, body |-> runner[p].said])
         /\ UNCHANGED <<base, signalRows, cursor, overlaps, torn>>
<1> DEFINE s == [runner[p] EXCEPT !.pc = "seal", !.page = Len(briefs')]
<1>1. Running(runner[p]) /\ briefs \in Seq(BriefPages)
  BY DEF Shapes, Runnable, BriefPages
<1>2. [hash |-> Unhashed, body |-> runner[p].said] \in BriefPages
  BY <1>1, SaidShape DEF BriefPages, Running
<1>3. briefs' = Append(briefs, [hash |-> Unhashed, body |-> runner[p].said])
  BY DEF Compose
<1>4. briefs' \in Seq(BriefPages) /\ Len(briefs') = Len(briefs) + 1 /\ Len(briefs') \in Nat
  <2> HIDE DEF BriefPages
  <2> QED
    BY <1>1, <1>2, <1>3
<1>5. Running(s) /\ s.pc = "seal" /\ s.page = Len(briefs') /\ s.said = runner[p].said
  BY <1>1, <1>4 DEF Running, Pcs
<1>6. Move(p, s)
  BY DEF Compose
<1> HIDE DEF s
<1>7. runner'[p] = s /\ Elsewhere(p) /\ Runnable'
  BY <1>5, <1>6, MoveStep
<1>8. Shapes'
  BY <1>4, <1>7 DEF Shapes, Compose, World, BriefPages
<1> QED
  BY <1>3, <1>4, <1>5, <1>7, <1>8 DEF Compose, In, World, History

LEMMA HashDoes ==
  ASSUME Shapes, NEW p \in Runners, Hash(p), runner[p].page \in 1 .. Len(briefs)
  PROVE  /\ Shapes' /\ Elsewhere(p) /\ runner[p].pc \in {"hash", "seal"}
         /\ runner[p].said \in Sayings
         /\ runner[p].pc = "seal" => runner'[p].pc = "idle"
         /\ runner[p].pc = "hash" => /\ runner'[p].pc = "body"
                                     /\ runner'[p].page = runner[p].page
                                     /\ runner'[p].said = runner[p].said
         /\ briefs' = [briefs EXCEPT ![runner[p].page].hash = runner[p].said]
         /\ torn' = torn \cup Contended(p)
         /\ UNCHANGED <<base, signalRows, cursor, overlaps>>
<1> DEFINE s == IF In(p, "seal") THEN Resting ELSE [runner[p] EXCEPT !.pc = "body"]
<1>1. Running(runner[p]) /\ runner[p].said \in Sayings
  BY DEF Shapes, Runnable, Running
<1>2. /\ Running(s)
      /\ runner[p].pc = "seal" => s.pc = "idle"
      /\ runner[p].pc = "hash" => s.pc = "body" /\ s.page = runner[p].page
                                  /\ s.said = runner[p].said
  <2>1. CASE In(p, "seal")
    BY <2>1, RestingShape DEF In, Resting
  <2>2. CASE ~In(p, "seal")
    BY <1>1, <2>2 DEF In, Running, Pcs
  <2> QED
    BY <2>1, <2>2
<1>3. Move(p, s)
  BY DEF Hash
<1> HIDE DEF s
<1>4. runner'[p] = s /\ Elsewhere(p) /\ Runnable'
  BY <1>2, <1>3, MoveStep
<1>5. briefs' \in Seq(BriefPages)
  BY <1>1, BriefWritten DEF Hash
<1>6. Shapes'
  BY <1>4, <1>5 DEF Shapes, Hash, World, BriefPages
<1> QED
  BY <1>1, <1>2, <1>4, <1>6 DEF Hash, In, World

LEMMA BodyDoes ==
  ASSUME Shapes, NEW p \in Runners, Body(p), runner[p].page \in 1 .. Len(briefs)
  PROVE  /\ Shapes' /\ Elsewhere(p) /\ runner[p].pc = "body" /\ runner'[p].pc = "idle"
         /\ runner[p].said \in Sayings
         /\ briefs' = [briefs EXCEPT ![runner[p].page].body = runner[p].said]
         /\ torn' = torn \cup Contended(p)
         /\ UNCHANGED <<base, signalRows, cursor, overlaps>>
<1>1. runner[p].said \in Sayings
  BY DEF Shapes, Runnable, Running
<1>2. runner'[p] = Resting /\ Elsewhere(p) /\ Runnable'
  BY RestingShape, MoveStep DEF Body
<1>3. briefs' \in Seq(BriefPages)
  BY <1>1, BriefWritten DEF Body
<1>4. Shapes'
  BY <1>2, <1>3 DEF Shapes, Body, World, BriefPages
<1> QED
  BY <1>1, <1>2, <1>4 DEF Body, In, World, Resting

LEMMA PatchFailsDoes ==
  ASSUME Shapes, NEW p \in Runners, PatchFails(p)
  PROVE  /\ Shapes' /\ Elsewhere(p) /\ runner[p].pc \in {"hash", "seal", "body"}
         /\ runner[p].pc = "hash" => runner'[p].pc = "body" /\ runner'[p].page = runner[p].page
         /\ runner[p].pc # "hash" => runner'[p].pc = "idle"
         /\ torn' = (IF runner[p].pc = "seal" THEN torn ELSE torn \cup {runner[p].page})
         /\ UNCHANGED <<base, signalRows, cursor, briefs, overlaps>>
<1> DEFINE s == IF In(p, "hash") THEN [runner[p] EXCEPT !.pc = "body"] ELSE Resting
<1>1. Running(runner[p])
  BY DEF Shapes, Runnable
<1>2. /\ Running(s)
      /\ runner[p].pc = "hash" => s.pc = "body" /\ s.page = runner[p].page
      /\ runner[p].pc # "hash" => s.pc = "idle"
  <2>1. CASE In(p, "hash")
    BY <1>1, <2>1 DEF In, Running, Pcs
  <2>2. CASE ~In(p, "hash")
    BY <2>2, RestingShape DEF In, Resting
  <2> QED
    BY <2>1, <2>2
<1>3. Move(p, s)
  BY DEF PatchFails
<1> HIDE DEF s
<1>4. runner'[p] = s /\ Elsewhere(p) /\ Runnable'
  BY <1>2, <1>3, MoveStep
<1>5. Shapes'
  BY <1>4 DEF Shapes, PatchFails, World
<1> QED
  BY <1>2, <1>4, <1>5 DEF PatchFails, In, World

LEMMA EndsDoes ==
  ASSUME Shapes, NEW p \in Runners, Ends(p),
         runner[p].pc = "describe" =>
           runner[p].todo # {} /\ runner[p].page \in 1 .. Len(signalRows)
  PROVE  /\ Shapes' /\ Elsewhere(p) /\ runner[p].pc # "idle" /\ runner'[p].pc = "idle"
         /\ \/ UNCHANGED <<signalRows, overlaps>>
            \/ /\ runner[p].pc = "describe"
               /\ signalRows' = [signalRows EXCEPT ![runner[p].page] = Row(p)]
               /\ overlaps' = overlaps \cup Overlapped(p)
         /\ torn' = (IF runner[p].pc = "body" THEN torn \cup {runner[p].page} ELSE torn)
         /\ UNCHANGED <<base, cursor, briefs>>
<1>1. runner'[p] = Resting /\ Elsewhere(p) /\ Runnable'
  BY RestingShape, MoveStep DEF Ends
<1>2. \/ UNCHANGED <<signalRows, overlaps>>
      \/ /\ runner[p].pc = "describe"
         /\ signalRows' = [signalRows EXCEPT ![runner[p].page] = Row(p)]
         /\ overlaps' = overlaps \cup Overlapped(p)
  BY DEF Ends, In
<1>3. signalRows' \in Seq(EventRows)
  <2>1. CASE UNCHANGED signalRows
    BY <2>1 DEF Shapes
  <2>2. CASE runner[p].pc = "describe" /\ signalRows' = [signalRows EXCEPT ![runner[p].page] = Row(p)]
    BY <2>2, CountedShape, RowWritten
  <2> QED
    BY <1>2, <2>1, <2>2
<1>4. Shapes'
  BY <1>1, <1>3 DEF Shapes, Ends, World
<1> QED
  BY <1>1, <1>2, <1>4 DEF Ends, In, World, Resting

\* The log, the deployment, and nothing.
LEMMA WorldDoes ==
  ASSUME Shapes, Logs \/ Rotates \/ Deploys \/ UNCHANGED vars
  PROVE  /\ Shapes' /\ base <= base'
         /\ UNCHANGED <<signalRows, cursor, briefs, runner, overlaps, torn>>
<1>1. CASE Logs
  BY <1>1, SizeOfLog DEF Shapes, Runnable, Logs, History
<1>2. CASE Rotates
  BY <1>2, SizeOfLog DEF Shapes, Runnable, Rotates, History
<1>3. CASE Deploys
  BY <1>3 DEF Shapes, Runnable, Deploys, History
<1>4. CASE UNCHANGED vars
  BY <1>4 DEF Shapes, Runnable, vars
<1> QED
  BY <1>1, <1>2, <1>3, <1>4

------------------------------------------------------------------------------
(***************************************************************************)
(* The rows.  A run in its pass owes a row to every line up to the one it  *)
(* will move the cursor to; the keys it has still to write have no row,    *)
(* unless two runs were creating it at once; and the page it describes is  *)
(* bare and its own.                                                       *)
(***************************************************************************)
InPass == {"dedupe", "write", "describe"}
Tasked == {"write", "describe"}

Owed(p) == runner[p].pc \in InPass =>
    \A l \in Lines :
        base < l /\ l <= runner[p].upto /\ l \in Resolved /\ ~Late(l) =>
            RowsOf(l) # {} \/ l \in runner[p].todo

Fresh(p) == runner[p].pc = "dedupe" =>
    \A l \in runner[p].todo : l \in Lines /\ runner[p].mark < l

Awaited(p) == runner[p].pc \in Tasked =>
    \A k \in runner[p].todo :
        (k = Deploy /\ runner[p].row # 0) \/ k \in overlaps \/ RowsOf(k) = {}

Kept(p) == runner[p].pc \in Tasked /\ runner[p].row # 0 =>
    /\ runner[p].row \in 1 .. Len(signalRows)
    /\ signalRows[runner[p].row].key = Deploy

InHand(p) == runner[p].pc = "describe" =>
    /\ runner[p].todo # {} /\ ~Updates(p)
    /\ runner[p].page \in 1 .. Len(signalRows)
    /\ signalRows[runner[p].page].key = Bare

Filing(p) == Owed(p) /\ Fresh(p) /\ Awaited(p) /\ Kept(p) /\ InHand(p)

Apart == \A p, q \in Runners :
    p # q /\ runner[p].pc = "describe" /\ runner[q].pc = "describe"
        => runner[p].page # runner[q].page

RowsInv == (\A p \in Runners : Filing(p)) /\ Apart /\ NothingSkipped /\ OneRowPerSignal

\* What a step of p does to the rows: it may give the key in hand its row.
Same(k) == RowsOf(k)' = RowsOf(k)
Gives(p, k) ==
    /\ runner[p].pc = "describe" /\ k = Signal(p)
    /\ RowsOf(k)' = RowsOf(k) \cup {runner[p].page}
    /\ overlaps' = overlaps \cup Overlapped(p)

Stays(p, i) ==
    /\ i \in 1 .. Len(signalRows')
    /\ \/ signalRows'[i].key = signalRows[i].key
       \/ runner[p].pc = "describe" /\ i = runner[p].page

RowsStep(p) ==
    /\ Shapes /\ Shapes' /\ Elsewhere(p) /\ UNCHANGED base /\ overlaps \subseteq overlaps'
    /\ \A k \in Keys : Same(k) \/ Gives(p, k)
    /\ \A i \in 1 .. Len(signalRows) : Stays(p, i)
    /\ runner'[p].pc = "describe" => runner'[p].page = Len(signalRows) + 1

\* One step leaves what the others carry as it is.
LEMMA OthersFile ==
  ASSUME RowsInv, NEW p \in Runners, RowsStep(p), NEW q \in Runners, q # p
  PROVE  Filing(q)'
<1>1. runner'[q] = runner[q] /\ Running(runner[q]) /\ base' = base
  BY DEF RowsStep, Elsewhere, Shapes, Runnable
<1>2. runner[q].todo \subseteq Keys
  BY <1>1 DEF Running
<1>3. \A k \in Keys : RowsOf(k) # {} => RowsOf(k)' # {}
  BY DEF RowsStep, Same, Gives
<1>4. Filing(q)
  BY DEF RowsInv
<1>5. Owed(q)'
  <2> SUFFICES ASSUME runner[q].pc \in InPass, NEW l \in Lines, base < l, l <= runner[q].upto,
                      l \in Resolved, ~Late(l)
               PROVE  RowsOf(l)' # {} \/ l \in runner[q].todo
    BY <1>1 DEF Owed, Late
  <2> QED
    BY <1>3, <1>4, KeyFacts DEF Filing, Owed
<1>6. Fresh(q)'
  BY <1>1, <1>4 DEF Filing, Fresh
<1>7. Awaited(q)'
  <2> SUFFICES ASSUME runner[q].pc \in Tasked, NEW k \in runner[q].todo,
                      ~(k = Deploy /\ runner[q].row # 0), k \notin overlaps'
               PROVE  RowsOf(k)' = {}
    BY <1>1 DEF Awaited
  <2>1. k \in Keys /\ k \notin overlaps /\ RowsOf(k) = {}
    BY <1>2, <1>4 DEF Filing, Awaited, RowsStep
  <2>2. ~Gives(p, k)
    BY DEF Gives, Overlapped, Tasked
  <2> QED
    BY <2>1, <2>2 DEF RowsStep, Same
<1>8. ~(runner[p].pc = "describe" /\ signalRows[runner[p].page].key # Bare)
  BY DEF RowsInv, Filing, InHand
<1>9. Kept(q)'
  <2> SUFFICES ASSUME runner[q].pc \in Tasked, runner[q].row # 0
               PROVE  /\ runner[q].row \in 1 .. Len(signalRows')
                      /\ signalRows'[runner[q].row].key = Deploy
    BY <1>1 DEF Kept
  <2>1. runner[q].row \in 1 .. Len(signalRows) /\ signalRows[runner[q].row].key = Deploy
    BY <1>4 DEF Filing, Kept
  <2>2. ~(runner[p].pc = "describe" /\ runner[q].row = runner[p].page)
    BY <1>8, <2>1, KeyFacts
  <2> QED
    BY <2>1, <2>2 DEF RowsStep, Stays
<1>10. InHand(q)'
  <2> SUFFICES ASSUME runner[q].pc = "describe"
               PROVE  /\ runner[q].todo # {} /\ ~Updates(q)'
                      /\ runner[q].page \in 1 .. Len(signalRows')
                      /\ signalRows'[runner[q].page].key = Bare
    BY <1>1 DEF InHand
  <2>1. /\ runner[q].todo # {} /\ ~Updates(q)
        /\ runner[q].page \in 1 .. Len(signalRows) /\ signalRows[runner[q].page].key = Bare
    BY <1>4 DEF Filing, InHand
  <2>2. ~(runner[p].pc = "describe" /\ runner[q].page = runner[p].page)
    BY DEF RowsInv, Apart
  <2>3. ~Updates(q)'
    BY <1>1, <2>1 DEF Updates, Signal
  <2> QED
    BY <2>1, <2>2, <2>3 DEF RowsStep, Stays
<1> QED
  BY <1>5, <1>6, <1>7, <1>9, <1>10 DEF Filing

LEMMA RowsKept ==
  ASSUME RowsInv, NEW p \in Runners, RowsStep(p), Filing(p)',
         \/ cursor' = cursor
         \/ /\ runner[p].pc = "write" /\ runner[p].todo = {}
            /\ cursor' = runner[p].upto
  PROVE  RowsInv'
<1>1. \A q \in Runners : Filing(q)'
  BY OthersFile
<1>2. Apart'
  <2> SUFFICES ASSUME NEW q \in Runners, NEW r \in Runners, q # r,
                      runner'[q].pc = "describe", runner'[r].pc = "describe"
               PROVE  runner'[q].page # runner'[r].page
    BY DEF Apart
  <2>1. \A u \in Runners : u # p /\ runner'[u].pc = "describe"
          => /\ runner[u].pc = "describe" /\ runner'[u].page = runner[u].page
             /\ runner[u].page \in 1 .. Len(signalRows)
    BY DEF RowsStep, Elsewhere, RowsInv, Filing, InHand
  <2>2. Len(signalRows) \in Nat
    BY DEF RowsStep, Shapes
  <2>3. CASE q = p \/ r = p
    BY <2>1, <2>2, <2>3 DEF RowsStep
  <2>4. CASE q # p /\ r # p
    BY <2>1, <2>4 DEF RowsInv, Apart
  <2> QED
    BY <2>3, <2>4
<1>3. \A k \in Keys : RowsOf(k) # {} => RowsOf(k)' # {}
  BY DEF RowsStep, Same, Gives
<1>4. NothingSkipped'
  <2> SUFFICES ASSUME NEW l \in Lines, base < l, l <= cursor', l \in Resolved, ~Late(l)
               PROVE  RowsOf(l)' # {}
    BY DEF NothingSkipped, RowsStep, Late
  <2>1. CASE cursor' = cursor
    BY <1>3, <2>1, KeyFacts DEF RowsInv, NothingSkipped
  <2>2. CASE runner[p].pc = "write" /\ runner[p].todo = {} /\ cursor' = runner[p].upto
    BY <1>3, <2>2, KeyFacts DEF RowsInv, Filing, Owed, InPass
  <2> QED
    BY <2>1, <2>2
<1>5. OneRowPerSignal'
  <2> SUFFICES ASSUME NEW i \in 1 .. Len(signalRows'), NEW j \in 1 .. Len(signalRows'),
                      signalRows'[i].key = signalRows'[j].key,
                      signalRows'[i].key \notin overlaps' \cup {Bare}
               PROVE  i = j
    BY DEF OneRowPerSignal
  <2> DEFINE k == signalRows'[i].key
  <2>1. k \in Keys /\ k \notin overlaps /\ k \notin overlaps'
    <3>1. signalRows' \in Seq(EventRows)
      BY DEF RowsStep, Shapes
    <3>2. signalRows'[i] \in EventRows
      BY <3>1
    <3> QED
      BY <3>2 DEF EventRows, RowsStep
  <2>2. PICK m \in Keys : m = k
    BY <2>1
  <2>3. i \in RowsOf(m)' /\ j \in RowsOf(m)'
    BY <2>2 DEF RowsOf
  <2>4. \A x, y \in RowsOf(m) : x = y
    BY <2>1, <2>2, KeyFacts DEF RowsInv, OneRowPerSignal, RowsOf
  <2>5. CASE Same(m)
    BY <2>3, <2>4, <2>5 DEF Same
  <2>6. CASE Gives(p, m)
    <3>1. runner[p].todo # {} /\ ~Updates(p) /\ Shapes
      BY <2>6 DEF Gives, RowsInv, Filing, InHand, RowsStep
    <3>2. m \in runner[p].todo /\ ~(m = Deploy /\ runner[p].row # 0)
      BY <2>6, <3>1, FirstKey DEF Gives, Updates
    <3>3. RowsOf(m) = {}
      BY <2>1, <2>2, <2>6, <3>2 DEF RowsInv, Filing, Awaited, Gives, Tasked
    <3> QED
      BY <2>3, <2>6, <3>3 DEF Gives
  <2> QED
    BY <2>5, <2>6 DEF RowsStep
<1> QED
  BY <1>1, <1>2, <1>4, <1>5 DEF RowsInv

\* The kinds of change.
LEMMA QuietStep ==
  ASSUME Shapes, Shapes', NEW p \in Runners, Elsewhere(p),
         UNCHANGED <<base, signalRows, overlaps>>, runner'[p].pc # "describe"
  PROVE  RowsStep(p) /\ \A k \in Keys : Same(k)
<1>1. \A k \in Keys : Same(k)
  BY DEF Same, RowsOf
<1>2. \A i \in 1 .. Len(signalRows) : Stays(p, i)
  BY DEF Stays
<1> QED
  BY <1>1, <1>2 DEF RowsStep

\* A run that is out of its pass carries nothing.
LEMMA NothingCarried ==
  ASSUME NEW p \in Runners, runner'[p].pc \notin InPass
  PROVE  Filing(p)'
BY DEF Filing, Owed, Fresh, Awaited, Kept, InHand, InPass, Tasked

LEMMA LeavesPass ==
  ASSUME Shapes, Shapes', RowsInv, NEW p \in Runners, Elsewhere(p),
         UNCHANGED <<base, signalRows, overlaps>>, runner'[p].pc \notin InPass,
         \/ cursor' = cursor
         \/ /\ runner[p].pc = "write" /\ runner[p].todo = {}
            /\ cursor' = runner[p].upto
  PROVE  RowsInv'
<1>1. runner'[p].pc # "describe"
  BY DEF InPass
<1> QED
  BY <1>1, QuietStep, NothingCarried, RowsKept

LEMMA StartRows ==
  ASSUME MaxEvents \in Nat, Shapes, RowsInv, NEW p \in Runners, Start(p)
  PROVE  RowsInv'
<1>1. /\ Shapes' /\ Elsewhere(p) /\ runner[p].pc = "idle"
      /\ UNCHANGED <<base, signalRows, cursor, briefs, overlaps, torn>>
      /\ runner'[p].pc = "dedupe" /\ runner'[p].mark = cursor
  BY StartDoes
<1>2. PICK hub \in BOOLEAN : /\ runner'[p].todo = Named(Read(hub))
                             /\ runner'[p].upto = Upto(Read(hub))
  BY StartDoes
<1>3. RowsStep(p) /\ \A k \in Keys : Same(k)
  BY <1>1, QuietStep
<1>4. Read(hub) \in SUBSET Lines /\ Read(hub) \in SUBSET Candidates(cursor)
  BY ReadShape
<1>5. Fresh(p)'
  BY <1>1, <1>2, <1>4 DEF Fresh, Named, Candidates
<1>6. Owed(p)'
  <2> SUFFICES ASSUME NEW l \in Lines, base < l, l <= Upto(Read(hub)), l \in Resolved, ~Late(l)
               PROVE  RowsOf(l) # {} \/ l \in Named(Read(hub))
    BY <1>1, <1>2, <1>3, KeyFacts DEF Owed, Late, Same
  <2>1. CASE l <= cursor
    BY <2>1 DEF RowsInv, NothingSkipped
  <2>2. CASE cursor < l
    <3> DEFINE u == Upto(Read(hub))
    <3>1. Read(hub) # {}
      BY SizeOfLog DEF Upto, Lines
    <3>2. u \in Read(hub)
      BY <1>4, <3>1, UptoIsLast
    <3>3. Read(hub) = Taken(Candidates(cursor)) /\ Candidates(cursor) \in SUBSET Lines
      BY <3>1, ReadShape DEF Read
    <3>4. l \in Candidates(cursor)
      BY <1>4, <2>2, <3>2, SizeOfLog DEF Candidates, Lines, Shapes
    <3>5. l \in Read(hub)
      <4> HIDE DEF u
      <4>1. l <= u
        BY DEF u
      <4>2. CASE l = u
        BY <3>2, <4>2
      <4>3. CASE l < u
        BY <3>2, <3>3, <3>4, <4>3, TakenFromFront
      <4> QED
        BY <1>4, <3>2, <4>1, <4>2, <4>3, SizeOfLog DEF Lines
    <3> QED
      BY <3>5 DEF Named
  <2>3. cursor \in Int /\ l \in Int
    BY SizeOfLog DEF Shapes, Lines
  <2> QED
    BY <2>1, <2>2, <2>3
<1>7. Filing(p)'
  BY <1>1, <1>5, <1>6 DEF Filing, Awaited, Kept, InHand, Tasked
<1> QED
  BY <1>1, <1>3, <1>7, RowsKept

LEMMA DedupeRows ==
  ASSUME Shapes, RowsInv, NEW p \in Runners, Dedupe(p)
  PROVE  RowsInv'
<1> DEFINE fresh == {l \in runner[p].todo : ~Covered(l, runner[p].mark) /\ RowsOf(l) = {}}
<1>1. /\ Shapes' /\ Elsewhere(p) /\ runner[p].pc = "dedupe" /\ runner'[p].pc = "write"
      /\ UNCHANGED <<base, signalRows, cursor, briefs, overlaps, torn>>
      /\ runner'[p].upto = runner[p].upto
      /\ IF RowsOf(Deploy) = {} THEN runner'[p].row = 0 ELSE runner'[p].row \in RowsOf(Deploy)
      /\ fresh \subseteq runner'[p].todo /\ runner'[p].todo \subseteq fresh \cup {Deploy}
  BY DedupeDoes
<1>2. RowsStep(p) /\ \A k \in Keys : Same(k)
  BY <1>1, QuietStep
<1>3. Owed(p)'
  <2> SUFFICES ASSUME NEW l \in Lines, base < l, l <= runner[p].upto, l \in Resolved, ~Late(l),
                      RowsOf(l) = {}
               PROVE  l \in runner'[p].todo
    BY <1>1, <1>2, KeyFacts DEF Owed, Late, Same
  <2>1. l \in runner[p].todo /\ runner[p].mark < l
    BY <1>1 DEF RowsInv, Filing, Owed, Fresh, InPass
  <2>2. ~Covered(l, runner[p].mark)
    <3>1. runner[p].mark \in 0 .. Len(Day)
      BY DEF Shapes, Runnable, Running
    <3>2. runner[p].mark # 0 => runner[p].mark \in 1 .. l - 1
      BY <2>1, <3>1, SizeOfLog DEF Lines
    <3>3. runner[p].mark # 0 => Day[runner[p].mark] \in Nat /\ Day[l] \in Nat
      BY <3>1, SizeOfLog DEF Lines
    <3> QED
      BY <3>2, <3>3 DEF Covered, Late
  <2> QED
    BY <1>1, <2>1, <2>2
<1>4. Awaited(p)'
  <2> SUFFICES ASSUME NEW k \in runner'[p].todo
               PROVE  (k = Deploy /\ runner'[p].row # 0) \/ RowsOf(k)' = {}
    BY DEF Awaited
  <2>1. CASE k \in fresh
    BY <1>1, <2>1 DEF RowsOf
  <2>2. CASE k = Deploy
    <3>1. 0 \notin RowsOf(Deploy)
      BY DEF RowsOf
    <3>2. RowsOf(Deploy)' = RowsOf(Deploy)
      BY <1>2, KeyFacts DEF Same
    <3>3. CASE RowsOf(Deploy) = {}
      BY <2>2, <3>2, <3>3
    <3>4. CASE RowsOf(Deploy) # {}
      <4>1. runner'[p].row \in RowsOf(Deploy)
        BY <1>1, <3>4
      <4> QED
        BY <2>2, <3>1, <4>1
    <3> QED
      BY <3>3, <3>4
  <2> QED
    BY <1>1, <2>1, <2>2
<1>5. Kept(p)'
  BY <1>1 DEF Kept, RowsOf
<1>6. Filing(p)'
  BY <1>1, <1>3, <1>4, <1>5 DEF Filing, Fresh, InHand
<1> QED
  BY <1>1, <1>2, <1>6, RowsKept

LEMMA CreateRows ==
  ASSUME Shapes, RowsInv, NEW p \in Runners, Create(p)
  PROVE  RowsInv'
<1>1. /\ Shapes' /\ Elsewhere(p) /\ runner[p].pc = "write" /\ runner'[p].pc = "describe"
      /\ runner'[p].todo = runner[p].todo /\ runner[p].todo # {}
      /\ runner'[p].row = runner[p].row /\ runner'[p].upto = runner[p].upto
      /\ runner'[p].page = Len(signalRows) + 1 /\ ~Updates(p)
      /\ signalRows' = Append(signalRows, [key |-> Bare, status |-> 0])
      /\ UNCHANGED <<base, cursor, briefs, torn>> /\ overlaps \subseteq overlaps'
  BY CreateDoes
<1>2. /\ Len(signalRows) \in Nat /\ Len(signalRows') = Len(signalRows) + 1
      /\ signalRows'[Len(signalRows) + 1].key = Bare
      /\ \A i \in 1 .. Len(signalRows) : signalRows'[i] = signalRows[i]
  <2>1. signalRows \in Seq(EventRows)
    BY DEF Shapes
  <2>2. /\ Len(signalRows) \in Nat /\ Len(signalRows') = Len(signalRows) + 1
        /\ signalRows'[Len(signalRows) + 1] = [key |-> Bare, status |-> 0]
        /\ \A i \in 1 .. Len(signalRows) : signalRows'[i] = signalRows[i]
    BY <1>1, <2>1
  <2> QED
    BY <2>2
<1>3. \A k \in Keys : Same(k)
  BY <1>2, KeyFacts DEF Same, RowsOf
<1>4. \A i \in 1 .. Len(signalRows) : Stays(p, i)
  BY <1>2 DEF Stays
<1>5. RowsStep(p)
  BY <1>1, <1>3, <1>4 DEF RowsStep
<1>6. Filing(p)
  BY DEF RowsInv
<1>7. Owed(p)'
  BY <1>1, <1>3, <1>6, KeyFacts DEF Owed, Filing, InPass, Late, Same
<1>8. Awaited(p)'
  <2>1. runner[p].todo \subseteq Keys
    BY DEF Shapes, Runnable, Running
  <2> QED
    BY <1>1, <1>3, <1>6, <2>1 DEF Awaited, Filing, Tasked, Same
<1>9. Kept(p)'
  BY <1>1, <1>2, <1>6 DEF Kept, Filing, Tasked
<1>10. InHand(p)'
  <2>1. ~Updates(p)'
    BY <1>1 DEF Updates, Signal
  <2> QED
    BY <1>1, <1>2, <2>1 DEF InHand
<1>11. Filing(p)'
  BY <1>1, <1>7, <1>8, <1>9, <1>10 DEF Filing, Fresh
<1> QED
  BY <1>1, <1>5, <1>11, RowsKept

\* The page in hand gets the key in hand.
LEMMA GivesRow ==
  ASSUME Shapes, Shapes', RowsInv, NEW p \in Runners, Elsewhere(p), UNCHANGED base,
         runner[p].pc = "describe", runner'[p].pc # "describe",
         signalRows' = [signalRows EXCEPT ![runner[p].page] = Row(p)],
         overlaps' = overlaps \cup Overlapped(p)
  PROVE  /\ RowsStep(p) /\ runner[p].todo # {}
         /\ \E m \in Keys : /\ m = Signal(p) /\ Gives(p, m)
                            /\ \A k \in Keys \ {m} : Same(k)
<1>1. /\ runner[p].todo # {} /\ runner[p].page \in 1 .. Len(signalRows)
      /\ signalRows[runner[p].page].key = Bare
  BY DEF RowsInv, Filing, InHand
<1>2. Row(p) \in EventRows /\ Row(p).key = Signal(p) /\ Signal(p) \in Keys
  BY <1>1, CountedShape, FirstKey DEF Row
<1>3. /\ Len(signalRows') = Len(signalRows)
      /\ \A j \in 1 .. Len(signalRows) :
           signalRows'[j] = IF j = runner[p].page THEN Row(p) ELSE signalRows[j]
  BY <1>1, <1>2, RowWritten
<1>4. PICK m \in Keys : m = Signal(p)
  BY <1>2
<1>5. \A k \in Keys \ {m} : Same(k)
  BY <1>1, <1>2, <1>3, <1>4, KeyFacts DEF Same, RowsOf
<1>6. RowsOf(m)' = RowsOf(m) \cup {runner[p].page}
  BY <1>1, <1>2, <1>3, <1>4 DEF RowsOf
<1>7. Gives(p, m)
  BY <1>4, <1>6 DEF Gives
<1>8. \A i \in 1 .. Len(signalRows) : Stays(p, i)
  BY <1>3 DEF Stays
<1> QED
  BY <1>1, <1>4, <1>5, <1>7, <1>8 DEF RowsStep

LEMMA DescribeRows ==
  ASSUME Shapes, RowsInv, NEW p \in Runners, Describe(p)
  PROVE  RowsInv'
<1>1. /\ runner[p].pc = "describe" /\ runner[p].todo # {}
      /\ runner[p].page \in 1 .. Len(signalRows) /\ signalRows[runner[p].page].key = Bare
  BY DEF Describe, In, RowsInv, Filing, InHand
<1>2. /\ Shapes' /\ Elsewhere(p) /\ runner'[p].pc = "write"
      /\ runner'[p].todo = runner[p].todo \ {Signal(p)}
      /\ runner'[p].row = runner[p].row /\ runner'[p].upto = runner[p].upto
      /\ signalRows' = [signalRows EXCEPT ![runner[p].page] = Row(p)]
      /\ UNCHANGED <<base, cursor, briefs, torn>>
      /\ overlaps' = overlaps \cup Overlapped(p)
  BY <1>1, DescribeDoes
<1>3. RowsStep(p)
  BY <1>1, <1>2, GivesRow
<1>4. PICK m \in Keys : m = Signal(p) /\ Gives(p, m) /\ \A k \in Keys \ {m} : Same(k)
  BY <1>1, <1>2, GivesRow
<1>5. Filing(p) /\ runner[p].todo \subseteq Keys
  BY DEF RowsInv, Shapes, Runnable, Running
<1>6. Owed(p)'
  <2> SUFFICES ASSUME NEW l \in Lines, base < l, l <= runner[p].upto, l \in Resolved, ~Late(l)
               PROVE  RowsOf(l)' # {} \/ l \in runner[p].todo \ {m}
    BY <1>2, <1>4 DEF Owed, Late
  <2>1. RowsOf(l) # {} \/ l \in runner[p].todo
    BY <1>1, <1>5 DEF Filing, Owed, InPass
  <2>2. CASE l = m
    <3>1. runner[p].page \in RowsOf(m)'
      BY <1>4 DEF Gives
    <3> QED
      BY <2>2, <3>1
  <2>3. CASE l # m
    BY <1>4, <2>1, <2>3, KeyFacts DEF Same
  <2> QED
    BY <2>2, <2>3
<1>7. Awaited(p)'
  <2> SUFFICES ASSUME NEW k \in runner[p].todo, k # m,
                      ~(k = Deploy /\ runner[p].row # 0), k \notin overlaps
               PROVE  RowsOf(k)' = {}
    BY <1>2, <1>3, <1>4 DEF Awaited, RowsStep
  <2>1. RowsOf(k) = {}
    BY <1>1, <1>5 DEF Awaited, Filing, Tasked
  <2> QED
    BY <1>5, <1>4, <2>1 DEF Same
<1>8. Kept(p)'
  <2>1. runner[p].row # 0 => /\ runner[p].row \in 1 .. Len(signalRows)
                             /\ signalRows[runner[p].row].key = Deploy
    BY <1>1, <1>5 DEF Filing, Kept, Tasked
  <2>2. runner[p].row # 0 => runner[p].row # runner[p].page
    BY <1>1, <2>1, KeyFacts
  <2> QED
    BY <1>2, <1>3, <2>1, <2>2 DEF Kept, RowsStep, Stays
<1>9. Filing(p)'
  BY <1>2, <1>6, <1>7, <1>8 DEF Filing, Fresh, InHand
<1> QED
  BY <1>2, <1>3, <1>9, RowsKept

LEMMA UpdateRows ==
  ASSUME Shapes, RowsInv, NEW p \in Runners, Update(p)
  PROVE  RowsInv'
<1>1. /\ runner[p].pc = "write" /\ runner[p].row # 0 /\ runner[p].todo # {}
      /\ Signal(p) = Deploy
      /\ runner[p].row \in 1 .. Len(signalRows) /\ signalRows[runner[p].row].key = Deploy
  BY DEF Update, Updates, Writing, In, RowsInv, Filing, Kept, Tasked
<1>2. /\ Shapes' /\ Elsewhere(p) /\ runner'[p].pc = "write"
      /\ runner'[p].todo = runner[p].todo \ {Signal(p)}
      /\ runner'[p].row = runner[p].row /\ runner'[p].upto = runner[p].upto
      /\ signalRows' = [signalRows EXCEPT ![runner[p].row] = Row(p)]
      /\ UNCHANGED <<base, cursor, briefs, torn, overlaps>>
  BY <1>1, UpdateDoes
<1>3. Row(p) \in EventRows /\ Row(p).key = Deploy
  BY <1>1, CountedShape DEF Row
<1>4. /\ Len(signalRows') = Len(signalRows)
      /\ \A j \in 1 .. Len(signalRows) : signalRows'[j].key = signalRows[j].key
  BY <1>1, <1>2, <1>3, RowWritten
<1>5. \A k \in Keys : Same(k)
  BY <1>4 DEF Same, RowsOf
<1>6. \A i \in 1 .. Len(signalRows) : Stays(p, i)
  BY <1>4 DEF Stays
<1>7. RowsStep(p)
  BY <1>2, <1>5, <1>6 DEF RowsStep
<1>8. Filing(p) /\ runner[p].todo \subseteq Keys
  BY DEF RowsInv, Shapes, Runnable, Running
<1>9. Owed(p)'
  <2> SUFFICES ASSUME NEW l \in Lines, base < l, l <= runner[p].upto, l \in Resolved, ~Late(l)
               PROVE  RowsOf(l)' # {} \/ l \in runner[p].todo \ {Signal(p)}
    BY <1>2 DEF Owed, Late
  <2>1. RowsOf(l) # {} \/ l \in runner[p].todo
    BY <1>1, <1>8 DEF Filing, Owed, InPass
  <2>2. l # Deploy
    BY SizeOfLog DEF Lines, Deploy
  <2> QED
    BY <1>1, <1>5, <2>1, <2>2, KeyFacts DEF Same
<1>10. Awaited(p)'
  BY <1>1, <1>2, <1>5, <1>8 DEF Awaited, Filing, Tasked, Same
<1>11. Kept(p)'
  BY <1>1, <1>2, <1>4 DEF Kept
<1>12. Filing(p)'
  BY <1>2, <1>9, <1>10, <1>11 DEF Filing, Fresh, InHand
<1> QED
  BY <1>2, <1>7, <1>12, RowsKept

LEMMA MarkRows ==
  ASSUME Shapes, RowsInv, NEW p \in Runners, Mark(p)
  PROVE  RowsInv'
BY MarkDoes, LeavesPass DEF InPass

LEMMA EndsRows ==
  ASSUME Shapes, RowsInv, NEW p \in Runners, Ends(p)
  PROVE  RowsInv' /\ Shapes'
<1>1. runner[p].pc = "describe" =>
        runner[p].todo # {} /\ runner[p].page \in 1 .. Len(signalRows)
  BY DEF RowsInv, Filing, InHand
<1>2. /\ Shapes' /\ Elsewhere(p) /\ runner'[p].pc = "idle" /\ UNCHANGED <<base, cursor>>
  BY <1>1, EndsDoes
<1>3. CASE UNCHANGED <<signalRows, overlaps>>
  BY <1>2, <1>3, LeavesPass DEF InPass
<1>4. CASE /\ runner[p].pc = "describe"
           /\ signalRows' = [signalRows EXCEPT ![runner[p].page] = Row(p)]
           /\ overlaps' = overlaps \cup Overlapped(p)
  <2>1. RowsStep(p)
    BY <1>2, <1>4, GivesRow
  <2>2. Filing(p)'
    BY <1>2, NothingCarried DEF InPass
  <2> QED
    BY <1>2, <2>1, <2>2, RowsKept
<1> QED
  BY <1>1, <1>2, <1>3, <1>4, EndsDoes

LEMMA WorldRows ==
  ASSUME Shapes, RowsInv, Shapes', base <= base',
         UNCHANGED <<signalRows, cursor, runner, overlaps>>
  PROVE  RowsInv'
<1>1. \A k : RowsOf(k)' = RowsOf(k)
  BY DEF RowsOf
<1>2. \A l \in Lines : base' < l => base < l
  BY SizeOfLog DEF Shapes, Lines
<1>3. ASSUME NEW p \in Runners PROVE Filing(p)'
  <2>1. Filing(p)
    BY DEF RowsInv
  <2>2. Owed(p)'
    BY <1>1, <1>2, <2>1 DEF Filing, Owed, Late
  <2>3. ~Updates(p) => ~Updates(p)'
    BY DEF Updates, Signal
  <2> QED
    BY <1>1, <2>1, <2>2, <2>3 DEF Filing, Fresh, Awaited, Kept, InHand
<1>4. NothingSkipped'
  BY <1>1, <1>2 DEF RowsInv, NothingSkipped, Late
<1> QED
  BY <1>3, <1>4 DEF RowsInv, Apart, OneRowPerSignal

------------------------------------------------------------------------------
(***************************************************************************)
(* The briefs.  A run that writes a brief has a page of it; between the    *)
(* hash and the body the page has the run's hash, and a new page has the   *)
(* run's body, unless another run wrote there too.                         *)
(***************************************************************************)
AtBrief == {"hash", "body", "seal"}

Briefed(p) == runner[p].pc \in AtBrief =>
    /\ runner[p].page \in 1 .. Len(briefs)
    /\ runner[p].pc = "body" =>
         briefs[runner[p].page].hash = runner[p].said \/ runner[p].page \in torn
    /\ runner[p].pc = "seal" =>
         briefs[runner[p].page].body = runner[p].said \/ runner[p].page \in torn

Whole(i) ==
    \/ briefs[i].hash \in {briefs[i].body, Unhashed}
    \/ i \in torn
    \/ \E p \in Runners : runner[p].pc = "body" /\ runner[p].page = i

BriefsInv == (\A p \in Runners : Briefed(p)) /\ \A i \in 1 .. Len(briefs) : Whole(i)

\* What a step of p does to the briefs: it writes the page in hand, and the
\* page is torn when another run has it in hand too.
BriefsStep(p) ==
    /\ Shapes /\ Shapes' /\ Elsewhere(p) /\ torn \subseteq torn'
    /\ Len(briefs) <= Len(briefs')
    /\ \A j \in 1 .. Len(briefs) :
         \/ briefs'[j] = briefs[j]
         \/ j = runner[p].page /\ runner[p].pc \in AtBrief /\ Contended(p) \subseteq torn'

LEMMA BriefsKept ==
  ASSUME BriefsInv, NEW p \in Runners, BriefsStep(p), Briefed(p)',
         \A j \in 1 .. Len(briefs') :
            \/ j \in 1 .. Len(briefs) /\ briefs'[j] = briefs[j]
            \/ Whole(j)',
         runner[p].pc = "body" =>
            \A j \in 1 .. Len(briefs) : j = runner[p].page => Whole(j)'
  PROVE  BriefsInv'
<1>0. Len(briefs) \in Nat /\ Len(briefs') \in Nat
  BY DEF BriefsStep, Shapes
<1>1. ASSUME NEW q \in Runners, q # p PROVE Briefed(q)'
  <2> SUFFICES ASSUME runner[q].pc \in AtBrief
               PROVE  /\ runner[q].page \in 1 .. Len(briefs')
                      /\ runner[q].pc = "body" =>
                           \/ briefs'[runner[q].page].hash = runner[q].said
                           \/ runner[q].page \in torn'
                      /\ runner[q].pc = "seal" =>
                           \/ briefs'[runner[q].page].body = runner[q].said
                           \/ runner[q].page \in torn'
    BY <1>1 DEF Briefed, BriefsStep, Elsewhere
  <2>1. Briefed(q) /\ runner[q].page \in 1 .. Len(briefs)
    BY DEF BriefsInv, Briefed
  <2>2. CASE briefs'[runner[q].page] = briefs[runner[q].page]
    BY <1>0, <2>1, <2>2 DEF Briefed, BriefsStep
  <2>3. CASE runner[q].page = runner[p].page /\ Contended(p) \subseteq torn'
    <3>1. runner[q].page \in Contended(p)
      BY <1>1, <2>3 DEF Contended, AtBrief
    <3> QED
      BY <1>0, <2>1, <2>3, <3>1 DEF BriefsStep
  <2> QED
    BY <2>1, <2>2, <2>3 DEF BriefsStep
<1>2. ASSUME NEW i \in 1 .. Len(briefs') PROVE Whole(i)'
  <2>1. CASE ~Whole(i)'
    <3>1. i \in 1 .. Len(briefs) /\ briefs'[i] = briefs[i] /\ Whole(i)
      BY <2>1 DEF BriefsInv
    <3>2. ~(runner[p].pc = "body" /\ i = runner[p].page)
      BY <2>1, <3>1
    <3>3. \A q \in Runners : runner[q].pc = "body" /\ runner[q].page = i
            => runner'[q].pc = "body" /\ runner'[q].page = i
      BY <3>2 DEF BriefsStep, Elsewhere
    <3> QED
      BY <3>1, <3>3 DEF Whole, BriefsStep, Unhashed
  <2> QED
    BY <2>1
<1> QED
  BY <1>1, <1>2 DEF BriefsInv

\* A step that leaves the briefs alone.
LEMMA BriefsLeft ==
  ASSUME Shapes, Shapes', BriefsInv, NEW p \in Runners, Elsewhere(p),
         briefs' = briefs, torn \subseteq torn', Briefed(p)',
         runner[p].pc = "body" => runner[p].page \in torn'
  PROVE  BriefsInv'
<1>1. Len(briefs) \in Nat
  BY DEF Shapes
<1>2. BriefsStep(p)
  BY <1>1 DEF BriefsStep
<1>3. runner[p].pc = "body" =>
        \A j \in 1 .. Len(briefs) : j = runner[p].page => Whole(j)'
  BY DEF Whole
<1> QED
  BY <1>2, <1>3, BriefsKept

LEMMA ComposeBriefs ==
  ASSUME Shapes, BriefsInv, NEW p \in Runners, Compose(p)
  PROVE  BriefsInv'
<1> DEFINE b == [hash |-> Unhashed, body |-> runner[p].said]
           n == Len(briefs) + 1
<1>1. /\ Shapes' /\ Elsewhere(p) /\ runner[p].pc = "compose" /\ runner'[p].pc = "seal"
      /\ runner'[p].page = n /\ runner'[p].said = runner[p].said
      /\ briefs' = Append(briefs, b) /\ torn' = torn
  BY ComposeDoes
<1>2. b \in BriefPages /\ b.hash = Unhashed /\ b.body = runner[p].said
  BY SaidShape DEF Shapes, Runnable, Running, BriefPages
<1>3. /\ Len(briefs) \in Nat /\ Len(briefs') = n /\ briefs'[n] = b
      /\ \A j \in 1 .. Len(briefs) : briefs'[j] = briefs[j]
  <2>1. briefs \in Seq(BriefPages)
    BY DEF Shapes, BriefPages
  <2> HIDE DEF b, BriefPages
  <2> QED
    BY <1>1, <1>2, <2>1
<1> HIDE DEF b
<1>4. BriefsStep(p)
  BY <1>1, <1>3 DEF BriefsStep
<1>5. Briefed(p)'
  BY <1>1, <1>2, <1>3 DEF Briefed
<1>6. \A j \in 1 .. Len(briefs') :
        (j \in 1 .. Len(briefs) /\ briefs'[j] = briefs[j]) \/ Whole(j)'
  <2> SUFFICES ASSUME NEW j \in 1 .. Len(briefs'), j \notin 1 .. Len(briefs)
               PROVE  Whole(j)'
    BY <1>3
  <2>1. j = n
    BY <1>3
  <2> QED
    BY <1>2, <1>3, <2>1 DEF Whole, Unhashed
<1> QED
  BY <1>1, <1>4, <1>5, <1>6, BriefsKept

LEMMA HashBriefs ==
  ASSUME Shapes, BriefsInv, NEW p \in Runners, Hash(p)
  PROVE  BriefsInv' /\ Shapes'
<1>1. Briefed(p) /\ runner[p].page \in 1 .. Len(briefs)
  BY DEF BriefsInv, Briefed, Hash, In, AtBrief
<1>2. /\ Shapes' /\ Elsewhere(p) /\ runner[p].pc \in {"hash", "seal"}
      /\ runner[p].said \in Sayings
      /\ runner[p].pc = "seal" => runner'[p].pc = "idle"
      /\ runner[p].pc = "hash" => /\ runner'[p].pc = "body"
                                  /\ runner'[p].page = runner[p].page
                                  /\ runner'[p].said = runner[p].said
      /\ briefs' = [briefs EXCEPT ![runner[p].page].hash = runner[p].said]
      /\ torn' = torn \cup Contended(p)
  BY <1>1, HashDoes
<1>3. /\ Len(briefs') = Len(briefs) /\ Len(briefs) \in Nat
      /\ \A j \in 1 .. Len(briefs) : j # runner[p].page => briefs'[j] = briefs[j]
      /\ briefs'[runner[p].page].hash = runner[p].said
      /\ briefs'[runner[p].page].body = briefs[runner[p].page].body
  BY <1>1, <1>2, BriefWritten, SMTT(60) DEF Shapes
<1>4. BriefsStep(p)
  BY <1>2, <1>3 DEF BriefsStep, AtBrief
<1>5. Briefed(p)'
  BY <1>1, <1>2, <1>3 DEF Briefed, AtBrief
<1>6. ASSUME NEW j \in 1 .. Len(briefs), j = runner[p].page PROVE Whole(j)'
  <2>1. CASE runner[p].pc = "hash"
    BY <1>2, <1>6, <2>1 DEF Whole
  <2>2. CASE runner[p].pc = "seal"
    BY <1>1, <1>2, <1>3, <1>6, <2>2 DEF Whole, Briefed, AtBrief
  <2> QED
    BY <1>2, <2>1, <2>2
<1> QED
  BY <1>2, <1>3, <1>4, <1>5, <1>6, BriefsKept

LEMMA BodyBriefs ==
  ASSUME Shapes, BriefsInv, NEW p \in Runners, Body(p)
  PROVE  BriefsInv' /\ Shapes'
<1>1. Briefed(p) /\ runner[p].page \in 1 .. Len(briefs)
  BY DEF BriefsInv, Briefed, Body, In, AtBrief
<1>2. /\ Shapes' /\ Elsewhere(p) /\ runner[p].pc = "body" /\ runner'[p].pc = "idle"
      /\ runner[p].said \in Sayings
      /\ briefs' = [briefs EXCEPT ![runner[p].page].body = runner[p].said]
      /\ torn' = torn \cup Contended(p)
  BY <1>1, BodyDoes
<1>3. /\ Len(briefs') = Len(briefs) /\ Len(briefs) \in Nat
      /\ \A j \in 1 .. Len(briefs) : j # runner[p].page => briefs'[j] = briefs[j]
      /\ briefs'[runner[p].page].body = runner[p].said
      /\ briefs'[runner[p].page].hash = briefs[runner[p].page].hash
  BY <1>1, <1>2, BriefWritten, SMTT(60) DEF Shapes
<1>4. BriefsStep(p)
  BY <1>2, <1>3 DEF BriefsStep, AtBrief
<1>5. Briefed(p)'
  BY <1>2 DEF Briefed, AtBrief
<1>6. ASSUME NEW j \in 1 .. Len(briefs), j = runner[p].page PROVE Whole(j)'
  BY <1>1, <1>2, <1>3, <1>6 DEF Whole, Briefed, AtBrief
<1> QED
  BY <1>2, <1>3, <1>4, <1>5, <1>6, BriefsKept

LEMMA PatchFailsBriefs ==
  ASSUME Shapes, BriefsInv, NEW p \in Runners, PatchFails(p)
  PROVE  BriefsInv'
<1>1. /\ Shapes' /\ Elsewhere(p) /\ runner[p].pc \in {"hash", "seal", "body"}
      /\ runner[p].pc = "hash" => runner'[p].pc = "body" /\ runner'[p].page = runner[p].page
      /\ runner[p].pc # "hash" => runner'[p].pc = "idle"
      /\ torn' = (IF runner[p].pc = "seal" THEN torn ELSE torn \cup {runner[p].page})
      /\ briefs' = briefs
  BY PatchFailsDoes
<1>2. Briefed(p)'
  BY <1>1 DEF Briefed, AtBrief, BriefsInv
<1> QED
  BY <1>1, <1>2, BriefsLeft

LEMMA EndsBriefs ==
  ASSUME Shapes, Shapes', BriefsInv, NEW p \in Runners, Ends(p)
  PROVE  BriefsInv'
<1>1. /\ runner'[p] = Resting /\ Elsewhere(p)
  BY RestingShape, MoveStep DEF Ends
<1>2. /\ torn' = (IF runner[p].pc = "body" THEN torn \cup {runner[p].page} ELSE torn)
      /\ briefs' = briefs
  BY DEF Ends, In
<1>3. Briefed(p)'
  BY <1>1 DEF Briefed, AtBrief, Resting
<1> QED
  BY <1>1, <1>2, <1>3, BriefsLeft

\* A step of the rows, or of the choice of a page.
LEMMA OtherBriefs ==
  ASSUME Shapes, Shapes', BriefsInv, NEW p \in Runners, Elsewhere(p),
         UNCHANGED <<briefs, torn>>, runner[p].pc # "body",
         \/ runner'[p].pc \notin AtBrief
         \/ runner'[p].pc = "hash" /\ runner'[p].page \in 1 .. Len(briefs)
  PROVE  BriefsInv'
<1>1. Briefed(p)'
  BY DEF Briefed, AtBrief
<1> QED
  BY <1>1, BriefsLeft

------------------------------------------------------------------------------
IInv == Shapes /\ RowsInv /\ BriefsInv

LEMMA InitHolds == Init => IInv
<1> SUFFICES ASSUME Init PROVE IInv
  OBVIOUS
<1>1. runner = [p \in Runners |-> Resting]
  BY DEF Init
<1>2. Shapes
  <2>1. Runnable
    BY <1>1, RestingShape DEF Runnable
  <2>2. /\ base = 0 /\ logged = 0 /\ stage = 0 /\ cursor = 0
        /\ signalRows \in Seq(EventRows) /\ briefs \in Seq([hash : Sayings, body : Sayings])
    BY DEF Init
  <2> QED
    BY <2>1, <2>2, SizeOfLog DEF Shapes
<1>3. \A p \in Runners : runner[p].pc = "idle"
  BY <1>1 DEF Resting
<1>4. RowsInv
  <2>1. \A p \in Runners : Filing(p)
    BY <1>3 DEF Filing, Owed, Fresh, Awaited, Kept, InHand, InPass, Tasked
  <2>2. Apart
    BY <1>3 DEF Apart
  <2>3. NothingSkipped
    BY SizeOfLog DEF NothingSkipped, Lines, Init
  <2>4. OneRowPerSignal
    BY DEF OneRowPerSignal, Init
  <2> QED
    BY <2>1, <2>2, <2>3, <2>4 DEF RowsInv
<1>5. BriefsInv
  <2>1. briefs = <<>>
    BY DEF Init
  <2> QED
    BY <1>3, <2>1 DEF BriefsInv, Briefed, AtBrief
<1> QED
  BY <1>2, <1>4, <1>5 DEF IInv

LEMMA NextHolds ==
  ASSUME MaxEvents \in Nat
  PROVE  IInv /\ [Next]_vars => IInv'
<1> SUFFICES ASSUME IInv, [Next]_vars PROVE IInv'
  OBVIOUS
<1>0. Shapes /\ RowsInv /\ BriefsInv
  BY DEF IInv
<1>1. CASE Logs \/ Rotates \/ Deploys \/ UNCHANGED vars
  <2>1. /\ Shapes' /\ base <= base'
        /\ UNCHANGED <<signalRows, cursor, briefs, runner, overlaps, torn>>
    BY <1>0, <1>1, WorldDoes
  <2>2. RowsInv'
    BY <1>0, <2>1, WorldRows
  <2>3. BriefsInv'
    BY <1>0, <2>1 DEF BriefsInv, Briefed, Whole
  <2> QED
    BY <2>1, <2>2, <2>3 DEF IInv
<1>2. ASSUME NEW p \in Runners, Start(p) PROVE IInv'
  <2>1. RowsInv'
    BY <1>0, <1>2, StartRows
  <2> QED
    BY <1>0, <1>2, <2>1, StartDoes, OtherBriefs DEF IInv, AtBrief
<1>3. ASSUME NEW p \in Runners, StartPages(p) PROVE IInv'
  <2>1. RowsInv'
    BY <1>0, <1>3, StartPagesDoes, LeavesPass DEF InPass
  <2> QED
    BY <1>0, <1>3, <2>1, StartPagesDoes, OtherBriefs DEF IInv, AtBrief
<1>4. ASSUME NEW p \in Runners, Dedupe(p) PROVE IInv'
  <2>1. RowsInv'
    BY <1>0, <1>4, DedupeRows
  <2> QED
    BY <1>0, <1>4, <2>1, DedupeDoes, OtherBriefs DEF IInv, AtBrief
<1>5. ASSUME NEW p \in Runners, Create(p) PROVE IInv'
  <2>1. RowsInv'
    BY <1>0, <1>5, CreateRows
  <2> QED
    BY <1>0, <1>5, <2>1, CreateDoes, OtherBriefs DEF IInv, AtBrief
<1>6. ASSUME NEW p \in Runners, Describe(p) PROVE IInv'
  <2>1. RowsInv'
    BY <1>0, <1>6, DescribeRows
  <2>2. runner[p].todo # {} /\ runner[p].page \in 1 .. Len(signalRows)
    BY <1>0, <1>6 DEF Describe, In, RowsInv, Filing, InHand
  <2> QED
    BY <1>0, <1>6, <2>1, <2>2, DescribeDoes, OtherBriefs DEF IInv, AtBrief
<1>7. ASSUME NEW p \in Runners, Update(p) PROVE IInv'
  <2>1. RowsInv'
    BY <1>0, <1>7, UpdateRows
  <2>2. runner[p].row # 0 => runner[p].row \in 1 .. Len(signalRows)
    BY <1>0, <1>7 DEF Update, Writing, In, RowsInv, Filing, Kept, Tasked
  <2> QED
    BY <1>0, <1>7, <2>1, <2>2, UpdateDoes, OtherBriefs DEF IInv, AtBrief
<1>8. ASSUME NEW p \in Runners, Mark(p) PROVE IInv'
  <2>1. RowsInv'
    BY <1>0, <1>8, MarkRows
  <2> QED
    BY <1>0, <1>8, <2>1, MarkDoes, OtherBriefs DEF IInv, AtBrief
<1>9. ASSUME NEW p \in Runners, Evaluate(p) PROVE IInv'
  <2>1. RowsInv'
    BY <1>0, <1>9, EvaluateDoes, LeavesPass DEF InPass
  <2> QED
    BY <1>0, <1>9, <2>1, EvaluateDoes, OtherBriefs DEF IInv, AtBrief
<1>10. ASSUME NEW p \in Runners, Compose(p) PROVE IInv'
  <2>1. RowsInv'
    BY <1>0, <1>10, ComposeDoes, LeavesPass DEF InPass
  <2> QED
    BY <1>0, <1>10, <2>1, ComposeDoes, ComposeBriefs DEF IInv
<1>11. ASSUME NEW p \in Runners, Hash(p) PROVE IInv'
  <2>1. Shapes' /\ BriefsInv'
    BY <1>0, <1>11, HashBriefs
  <2>2. runner[p].page \in 1 .. Len(briefs)
    BY <1>0, <1>11 DEF Hash, In, BriefsInv, Briefed, AtBrief
  <2>3. RowsInv'
    BY <1>0, <1>11, <2>2, HashDoes, LeavesPass DEF InPass
  <2> QED
    BY <2>1, <2>3 DEF IInv
<1>12. ASSUME NEW p \in Runners, Body(p) PROVE IInv'
  <2>1. Shapes' /\ BriefsInv'
    BY <1>0, <1>12, BodyBriefs
  <2>2. runner[p].page \in 1 .. Len(briefs)
    BY <1>0, <1>12 DEF Body, In, BriefsInv, Briefed, AtBrief
  <2>3. RowsInv'
    BY <1>0, <1>12, <2>2, BodyDoes, LeavesPass DEF InPass
  <2> QED
    BY <2>1, <2>3 DEF IInv
<1>13. ASSUME NEW p \in Runners, PatchFails(p) PROVE IInv'
  <2>1. RowsInv'
    BY <1>0, <1>13, PatchFailsDoes, LeavesPass DEF InPass
  <2> QED
    BY <1>0, <1>13, <2>1, PatchFailsDoes, PatchFailsBriefs DEF IInv
<1>14. ASSUME NEW p \in Runners, Ends(p) PROVE IInv'
  BY <1>0, <1>14, EndsRows, EndsBriefs DEF IInv
<1> QED
  BY <1>1, <1>2, <1>3, <1>4, <1>5, <1>6, <1>7, <1>8, <1>9, <1>10, <1>11, <1>12, <1>13, <1>14
  DEF Next, Proceed

(***************************************************************************)
(* SignalsStayKept: for any log and any projects in it, any limit of       *)
(* events, and any number of processes that run external-signal-sync.ts    *)
(* with any scopes, overlapping, dying and meeting failing calls at any    *)
(* step, the cursor of signal-watermarks.ts passes no line without its     *)
(* row, a signal has one row unless two runs were creating it at once, and *)
(* a stored brief holds what its hash says.                                *)
(***************************************************************************)
THEOREM SignalsStayKept ==
  ASSUME MaxEvents \in Nat
  PROVE  Spec => []SignalsKept
<1>1. IInv => SignalsKept
  BY DEF IInv, RowsInv, BriefsInv, Whole, SignalsKept, BriefsAreWhole
<1> QED
  BY <1>1, InitHolds, NextHolds, PTL DEF Spec
=============================================================================
