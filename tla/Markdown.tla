------------------------------ MODULE Markdown ------------------------------
(***************************************************************************)
(* Markdown bodies (utils/markdown.ts) as sequences of blocks: plain text, *)
(* a managed section between its markers, a reference to a child page.     *)
(* Blocks are compared as the code compares normalized text, so escapes,   *)
(* links and blank lines that Notion rewrites make no difference.          *)
(***************************************************************************)
EXTENDS Sequences, SequencesExt, FiniteSets

Text(x)       == [kind |-> "text", of |-> x, shows |-> 0]
Section(l, v) == [kind |-> "section", of |-> l, shows |-> v]
Child(x)      == [kind |-> "child", of |-> x, shows |-> 0]

Blocks(md) == {md[i] : i \in DOMAIN md}
IsSection(b, l) == b.kind = "section" /\ b.of = l
At(md, l)  == {i \in DOMAIN md : IsSection(md[i], l)}
First(S)   == CHOOSE i \in S : \A j \in S : i <= j

\* The first managed section of l, an empty sequence if there is none.
Extract(md, l) == IF At(md, l) = {} THEN <<>> ELSE <<md[First(At(md, l))]>>

\* The section in the place of the first one of its lane, or at the end.
Merge(md, s) ==
    IF At(md, s.of) = {} THEN Append(md, s)
    ELSE [md EXCEPT ![First(At(md, s.of))] = s]

\* Mutant: the first lane is not preserved.
PreserveAllButOne(new, old, lanes) ==
    FoldLeft(LAMBDA md, l : IF Extract(old, l) = <<>> THEN md
                            ELSE Merge(md, Extract(old, l)[1]), new, Tail(lanes))

\* The new text with the sections the page has, in the order of `lanes`.
Preserve(new, old, lanes) ==
    FoldLeft(LAMBDA md, l : IF Extract(old, l) = <<>> THEN md
                            ELSE Merge(md, Extract(old, l)[1]), new, lanes)

Children(md) == {b \in Blocks(md) : b.kind = "child"}
SafeReplacement(old, new) == Children(old) \subseteq Children(new)
Childless(md) == SelectSeq(md, LAMBDA b : b.kind # "child")

Occurrences(md, b) == Cardinality({i \in DOMAIN md : md[i] = b})

\* The search text b replaced by the blocks of new, everywhere or once.
RECURSIVE Swapped(_, _, _, _)
Swapped(md, b, new, all) ==
    IF md = <<>> THEN <<>>
    ELSE IF Head(md) # b THEN <<Head(md)>> \o Swapped(Tail(md), b, new, all)
    ELSE new \o IF all THEN Swapped(Tail(md), b, new, all) ELSE Tail(md)
=============================================================================
