---------------------------- MODULE MCDecodePlan ----------------------------
(***************************************************************************)
(* Templates of up to three fields, an element possibly more than once;    *)
(* widths that are swapped and widths that are not; runs of at most two    *)
(* elements; destinations that adjoin, overlap and leave gaps; u32 ends at *)
(* 9, so that record lengths and destinations overflow.                    *)
(***************************************************************************)
EXTENDS DecodePlan

CONSTANTS a, b, c

MCElements == {a, b, c}
MCOctetElements == {b}

\* Elements are numbered in the order in which a template first uses them.
Shapes ==
    {<<>>, <<a>>, <<a, a>>, <<a, b>>,
     <<a, a, a>>, <<a, a, b>>, <<a, b, a>>, <<a, b, b>>, <<a, b, c>>}

MCTemplates ==
    UNION {{[i \in 1..Len(shape) |-> [element |-> shape[i], length |-> lengths[i]]] :
                lengths \in [1..Len(shape) -> {0, 1, 2, 3, 4, 99}]} : shape \in Shapes}

Targets(elements) ==
    {[i \in 1..Len(elements) |-> [element |-> elements[i], dst |-> to[i]]] :
        to \in [1..Len(elements) -> {0, 1, 2, 4, 6}]}

MCMappingLists ==
    UNION {Targets(elements) :
               elements \in {<<>>, <<a>>, <<b>>, <<c>>, <<a, a>>, <<b, a>>, <<a, c>>, <<c, b, a>>}}
=============================================================================
