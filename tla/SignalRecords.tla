---------------------------- MODULE SignalRecords ----------------------------
(***************************************************************************)
(* What the signal syncs keep: the event rows and the stored briefs in     *)
(* Notion and the cursor into the notification hub's log on this machine,  *)
(* and what must be true of them whoever writes them.  SignalSync has the  *)
(* command that does.                                                      *)
(***************************************************************************)
EXTENDS Integers, Sequences

CONSTANTS
    Day,        \* [1 .. lines -> Nat], the day each line of the log was received
    Resolved,   \* lines whose project is one of the portfolio's
    Runners     \* processes that run the command

Lines  == 1 .. Len(Day)
Deploy == 0                     \* the deployment's event key, next to the lines'
Keys   == Lines \cup {Deploy}
Bare   == -1                    \* an event page that has its title only

ASSUME SignalsAssumption == Day \in Seq(Nat) /\ Resolved \subseteq Lines

VARIABLES
    base,       \* lines 1 .. base were rotated out of the log
    signalRows, \* External Signal Events: sequence of [key, status]
    cursor,     \* last line of the watermark on disk, 0 is none
    briefs,     \* pages with today's brief title: sequence of [hash, body]
    runner,     \* [Runners -> record], the running commands
    overlaps,   \* history: keys two runs were creating at once
    torn        \* history: brief pages whose body was not written after the hash

RowsOf(k) == {i \in 1 .. Len(signalRows) : signalRows[i].key = k}

\* The hash of a brief page that has none yet.
Unhashed == [lines |-> {Bare}, stages |-> {}]

\* A line received on an earlier day than one before it.
Late(l) == \E k \in 1 .. l - 1 : Day[k] > Day[l]

------------------------------------------------------------------------------
(***************************************************************************)
(* NothingSkipped: of the lines still in the log, those the cursor has     *)
(* passed have their row, when they name a project and were logged in the  *)
(* order of their days; so no line is lost to a run that died, to a burst  *)
(* larger than MaxEvents, to a rotation or to an overlapping run that put  *)
(* an older cursor back.                                                   *)
(***************************************************************************)
NothingSkipped ==
    \A l \in Lines :
        base < l /\ l <= cursor /\ l \in Resolved /\ ~Late(l) => RowsOf(l) # {}

(***************************************************************************)
(* OneRowPerSignal: an event key has one row, and a deployment keeps its   *)
(* row through its stages, unless two runs were creating that row at once. *)
(***************************************************************************)
OneRowPerSignal ==
    \A i, j \in 1 .. Len(signalRows) :
        signalRows[i].key = signalRows[j].key /\ signalRows[i].key \notin overlaps \cup {Bare}
            => i = j

(***************************************************************************)
(* BriefsAreWhole: a stored brief's body is what its hash says, while      *)
(* nobody is writing it, unless the write of the body was lost behind that *)
(* of the hash (a later run then takes the stale brief for up to date) or  *)
(* two runs wrote it at once.                                              *)
(***************************************************************************)
BriefsAreWhole ==
    \A i \in 1 .. Len(briefs) :
        \/ briefs[i].hash \in {briefs[i].body, Unhashed}
        \/ i \in torn
        \/ \E p \in Runners : runner[p].pc = "body" /\ runner[p].page = i

(***************************************************************************)
(* SignalsKept: the cursor passes no line without its row, overlapping     *)
(* runs leave one row per signal, and a stored brief holds what its hash   *)
(* says.                                                                   *)
(***************************************************************************)
SignalsKept == NothingSkipped /\ OneRowPerSignal /\ BriefsAreWhole
=============================================================================
