---------------------------- MODULE WorkbookImport ----------------------------
(***************************************************************************)
(* The import of the audit's workbook into a Notion database below a given *)
(* page (publish-notion): a run finds the database by its title or creates *)
(* it, and then fills it for the first time, which it refuses unless it is *)
(* empty, or with --update-existing brings the pages of the listed titles  *)
(* up to date and creates the others.                                      *)
(*                                                                         *)
(* Nothing is locked, a run may end after any request, people edit the     *)
(* workbook and add rows of their own, and a listing has a single page.    *)
(***************************************************************************)
EXTENDS Integers, Sequences, FiniteSetsExt, SequencesExt

CONSTANTS
    Workbooks,      \* the workbook at first: rows of [title, status, notes]
    Values,         \* what people write into a field, None: nothing
    Limit,          \* rows in one page of a listing (page_size 100)
    Runners,
    None,
    MaxRuns, MaxEdits, MaxDeaths   \* bounds

VARIABLES
    workbook,
    databases,  \* those below the page, all of one title, as their rows: title,
                \* properties, what the body shows, and who made the row
    run,        \* the runs
    starts, edits, deaths,  \* count those
    overlap,    \* history: have two runs overlapped?
    settled     \* history: runs since which nothing else has happened

vars == <<workbook, databases, run, starts, edits, deaths, overlap, settled>>

Idle == [ pc |-> "idle", mode |-> None, rows |-> <<>>, db |-> None, listed |-> <<>>,
          cut |-> FALSE, i |-> 1 ]

Init ==
    /\ workbook \in Workbooks /\ databases = <<>>
    /\ run = [r \in Runners |-> Idle]
    /\ starts = 0 /\ edits = 0 /\ deaths = 0 /\ overlap = FALSE /\ settled = {}

------------------------------------------------------------------------------
Running(r) == run[r].pc \notin {"idle", "refused", "dead", "finished"}
Set(r, next) == run' = [run EXCEPT ![r] = next]
Goto(r, pc) == Set(r, [run[r] EXCEPT !.pc = pc])
World == <<workbook, starts, edits, deaths, overlap>>

Start(r) ==
    /\ ~Running(r) /\ starts < MaxRuns /\ starts' = starts + 1
    /\ overlap' = (overlap \/ \E other \in Runners \ {r} : Running(other))
    /\ \E mode \in {"fresh", "update"} :
         Set(r, [Idle EXCEPT !.pc = "find", !.mode = mode, !.rows = workbook])
    /\ settled' = {r}
    /\ UNCHANGED <<workbook, databases, edits, deaths>>

\* getOrCreateDatabase: the first database below the page with the title.
Find(r) ==
    /\ run[r].pc = "find"
    /\ IF databases # <<>> THEN Set(r, [run[r] EXCEPT !.pc = "rows", !.db = 1])
       ELSE Goto(r, "create")
    /\ UNCHANGED <<World, databases, settled>>

CreateDatabase(r) ==
    /\ run[r].pc = "create"
    /\ databases' = Append(databases, <<>>)
    /\ Set(r, [run[r] EXCEPT !.pc = "rows", !.db = Len(databases) + 1])
    /\ UNCHANGED <<World, settled>>

Rows(r) == databases[run[r].db]

\* assertDataSourceEmpty
MayImport(rows) == rows = <<>>

RefuseFull(r) ==
    /\ run[r].pc = "rows" /\ run[r].mode = "fresh" /\ ~MayImport(Rows(r))
    /\ Set(r, [Idle EXCEPT !.pc = "refused"])
    /\ UNCHANGED <<World, databases, settled>>
ImportFresh(r) ==
    /\ run[r].pc = "rows" /\ run[r].mode = "fresh" /\ MayImport(Rows(r))
    /\ Goto(r, "row")
    /\ UNCHANGED <<World, databases, settled>>

\* listExistingPages: the first page of rows, of one title the last.
ByTitle(rows) ==
    [ t \in {rows[i].title : i \in DOMAIN rows} |->
        Max({i \in DOMAIN rows : rows[i].title = t}) ]
ListExisting(r) ==
    /\ run[r].pc = "rows" /\ run[r].mode = "update"
    /\ Set(r, [run[r] EXCEPT !.pc = "row", !.cut = Len(Rows(r)) > Limit,
                             !.listed = ByTitle(SubSeq(Rows(r), 1,
                                          IF Len(Rows(r)) > Limit THEN Limit ELSE Len(Rows(r))))])
    /\ UNCHANGED <<World, databases, settled>>

------------------------------------------------------------------------------
Row(r) == run[r].rows[run[r].i]

\* buildPageProperties: an empty value of a field like notes is cleared by an
\* update, one of a field like status is left out of the request.
Properties(page, row) ==
    [page EXCEPT !.status = IF row.status = None THEN @ ELSE row.status,
                 !.notes  = row.notes]

\* populateRows, and syncExistingDatabase for a title that was not listed.
CreatePage(r) ==
    /\ run[r].pc = "row" /\ Row(r).title \notin DOMAIN run[r].listed
    /\ databases' = [databases EXCEPT ![run[r].db] = Append(@,
            [title |-> Row(r).title, status |-> Row(r).status, notes |-> Row(r).notes,
             body |-> Row(r), by |-> run[r].mode])]
    /\ Goto(r, "next")
    /\ UNCHANGED <<World, settled>>

UpdateProperties(r) ==
    /\ run[r].pc = "row" /\ Row(r).title \in DOMAIN run[r].listed
    /\ databases' = [databases EXCEPT ![run[r].db][run[r].listed[Row(r).title]] =
                        Properties(@, Row(r))]
    /\ Goto(r, "body")
    /\ UNCHANGED <<World, settled>>

UpdateBody(r) ==
    /\ run[r].pc = "body"
    /\ databases' = [databases EXCEPT ![run[r].db][run[r].listed[Row(r).title]].body = Row(r)]
    /\ Goto(r, "next")
    /\ UNCHANGED <<World, settled>>

\* After the last row verifyImport only reads.
NextRow(r) ==
    /\ run[r].pc = "next"
    /\ IF run[r].i < Len(run[r].rows)
       THEN Set(r, [run[r] EXCEPT !.pc = "row", !.i = @ + 1])
       ELSE Set(r, [run[r] EXCEPT !.pc = "finished", !.rows = <<>>, !.listed = <<>>, !.i = 1])
    /\ UNCHANGED <<World, databases, settled>>

------------------------------------------------------------------------------
Dies(r) ==
    /\ Running(r) /\ deaths < MaxDeaths /\ deaths' = deaths + 1
    /\ Set(r, [Idle EXCEPT !.pc = "dead"])
    /\ UNCHANGED <<workbook, databases, starts, edits, overlap, settled>>

\* Somebody changes a field of the workbook, or adds a row by hand.
EditsWorkbook(i) ==
    /\ edits < MaxEdits /\ edits' = edits + 1
    /\ \E field \in {"status", "notes"}, v \in Values : workbook' = [workbook EXCEPT ![i][field] = v]
    /\ settled' = {}
    /\ UNCHANGED <<databases, run, starts, deaths, overlap>>
AddsRow(d, t) ==
    /\ edits < MaxEdits /\ edits' = edits + 1
    /\ databases' = [databases EXCEPT ![d] = Append(@,
            [title |-> t, status |-> None, notes |-> None, body |-> None, by |-> "person"])]
    /\ settled' = {}
    /\ UNCHANGED <<workbook, run, starts, deaths, overlap>>

Next ==
    \/ \E r \in Runners :
         \/ Start(r) \/ Find(r) \/ CreateDatabase(r) \/ RefuseFull(r) \/ ImportFresh(r)
         \/ ListExisting(r) \/ CreatePage(r) \/ UpdateProperties(r) \/ UpdateBody(r)
         \/ NextRow(r) \/ Dies(r)
    \/ \E i \in DOMAIN workbook :
         \/ EditsWorkbook(i)
         \/ \E d \in DOMAIN databases : AddsRow(d, workbook[i].title)

Spec == Init /\ [][Next]_vars

------------------------------------------------------------------------------
\* The workbook names no project twice, and no listing left rows out.
Distinct == \A i, j \in DOMAIN workbook : workbook[i].title = workbook[j].title => i = j
Listable == \A d \in DOMAIN databases : Len(databases[d]) <= Limit

(***************************************************************************)
(* TypeOK: a run that is past its search works on a database that exists.  *)
(***************************************************************************)
TypeOK ==
    \A r \in Runners :
        run[r].pc \in {"rows", "row", "body", "next"} => run[r].db \in DOMAIN databases

(***************************************************************************)
(* ImportedOnce: runs that do not overlap leave one database, and one row  *)
(* of their own for each title that the workbook names once, also when a   *)
(* run died and was taken up by another; the update fails this only beyond *)
(* the rows that one listing shows (assertDataSourceEmpty with its message *)
(* "refusing to duplicate-import into it", listExistingPages).             *)
(***************************************************************************)
ImportedOnce ==
    ~overlap =>
        /\ Len(databases) <= 1
        /\ Distinct /\ Listable =>
             \A d \in DOMAIN databases : \A i, j \in DOMAIN databases[d] :
                 /\ databases[d][i].by # "person" /\ databases[d][j].by # "person"
                 /\ databases[d][i].title = databases[d][j].title
                 => i = j

(***************************************************************************)
(* UpdateFollows: after an update that nothing disturbed, every row of the *)
(* workbook has a page whose body is the row and whose properties agree    *)
(* with it, but for those that were emptied and are not cleared            *)
(* (syncExistingDatabase, buildPageProperties).                            *)
(***************************************************************************)
UpdateFollows ==
    \A r \in settled :
        run[r].pc = "finished" /\ run[r].mode = "update" /\ ~overlap /\ ~run[r].cut /\ Distinct =>
            \A row \in ToSet(workbook) :
                \E page \in ToSet(databases[run[r].db]) :
                    /\ page.title = row.title /\ page.body = row
                    /\ page.notes = row.notes
                    /\ page.status = row.status \/ row.status = None
=============================================================================
