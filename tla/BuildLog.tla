------------------------------ MODULE BuildLog ------------------------------
(***************************************************************************)
(* The Notion Build Log and the rows of bridge-db that it stands for: what *)
(* the two say of each other, whoever writes them.  BridgeSync has the     *)
(* commands that do.                                                       *)
(***************************************************************************)
EXTENDS Integers, Sequences

CONSTANT LaneOf  \* [1 .. rows -> RowLanes], the rows of bridge-db in their order

Rows == 1 .. Len(LaneOf)

VARIABLES
    synced,  \* [Rows -> Nat], the page a shipped row was confirmed with, 0 is none
    log,     \* the Build Log: sequence of rows, by their Sync Keys
    excused  \* history: rows whose creates overlapped or were repeated

\* Pages with the Sync Key of r.
PagesOf(r) == {i \in 1 .. Len(log) : log[i] = r}

------------------------------------------------------------------------------
(***************************************************************************)
(* OnePagePerRow: however often runs die, time out or fail to confirm, a   *)
(* row has one Build Log page, unless two runs were between the lookup and *)
(* the create of it at once or the HTTP client repeated the create.        *)
(***************************************************************************)
OnePagePerRow ==
    \A i, j \in 1 .. Len(log) : log[i] = log[j] /\ log[i] \notin excused => i = j

(***************************************************************************)
(* ConfirmedByItsPage: bridge-db holds a row as synced only with a page    *)
(* that carries this row's Sync Key.                                       *)
(***************************************************************************)
ConfirmedByItsPage ==
    \A r \in Rows : synced[r] # 0 => synced[r] \in PagesOf(r)

\* BridgeSafe: what bridge-db and the Build Log say of each other is true.
BridgeSafe == OnePagePerRow /\ ConfirmedByItsPage
=============================================================================
