-------------------------- MODULE SelectorRegister --------------------------
(***************************************************************************)
(* What the runtime selector promises: a register that holds no selection  *)
(* or one, a record with its current and its previous release, changed in  *)
(* single steps that each name what they replace.                          *)
(***************************************************************************)
CONSTANTS Commits, None

VARIABLES
    selector,   \* the selection, None at first
    shelf       \* selections taken away that may be put back

Init == selector = None /\ shelf = {}

\* Another release is selected and remembers the one it replaces.
Select ==
    /\ selector' # None /\ selector'.current \in Commits
    /\ IF selector = None THEN selector'.previous = None
       ELSE /\ selector'.previous = selector.current
            /\ selector'.current # selector.current
    /\ UNCHANGED shelf

\* Only a first selection can be taken away, and it is kept.
TakeAway ==
    /\ selector # None
    /\ selector.previous = None
    /\ selector' = None /\ shelf' = shelf \cup {selector}

PutBack ==
    /\ selector = None
    /\ selector' \in shelf /\ shelf' = shelf \ {selector'}

Next == Select \/ TakeAway \/ PutBack

Spec == Init /\ [][Next]_<<selector, shelf>>
==============================================================================
