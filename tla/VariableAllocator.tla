-------------------------- MODULE VariableAllocator -------------------------
(***************************************************************************)
(* The slots of one scope of variables (VariableAllocator.h and .cpp): the *)
(* globals, or the frame of the function being compiled.  A block maps the *)
(* names declared in it to slots; the slots of a closed block are used     *)
(* again, the last one freed first.                                        *)
(***************************************************************************)
EXTENDS Naturals, Sequences, FiniteSets

EmptyBlock == [name \in {} |-> 0]

StartBlock(a) == [a EXCEPT !.blocks = Append(@, EmptyBlock)]

NewAllocator(baseOffset, scope) ==
    StartBlock([base |-> baseOffset, scope |-> scope, firstFree |-> 0,
                free |-> <<>>, blocks |-> <<>>])

TopBlock(a) == a.blocks[Len(a.blocks)]

\* The orders in which a loop over an unordered_map may meet its keys.
Orders(keys) ==
    {s \in [1..Cardinality(keys) -> keys] :
        \A i, j \in DOMAIN s : s[i] = s[j] => i = j}

FreeAll(a, s) ==
    [a EXCEPT !.blocks = SubSeq(@, 1, Len(@) - 1),
              !.free = @ \o [i \in DOMAIN s |-> TopBlock(a)[s[i]]]]

\* The allocators that endBlock may leave behind: none on the last block,
\* where it throws; the visitor never closes that one.
EndBlock(a) ==
    IF Len(a.blocks) <= 1 THEN {}
    ELSE {FreeAll(a, s) : s \in Orders(DOMAIN TopBlock(a))}

\* alloc throws when the innermost block has the name already.
CanAlloc(a, name) == name \notin DOMAIN TopBlock(a)

\* allocAddr
NextSlot(a) == IF a.free # <<>> THEN a.free[Len(a.free)] ELSE a.firstFree

\* mutant: the slot stays on the free list
AllocKeepsFree(a, name) ==
    LET slot == NextSlot(a)
    IN  [a EXCEPT
           !.firstFree = IF a.free # <<>> THEN @ ELSE @ + 1,
           !.blocks[Len(a.blocks)] =
               [n \in DOMAIN @ \cup {name} |-> IF n = name THEN slot ELSE @[n]]]

Alloc(a, name) ==
    LET slot == NextSlot(a)
    IN  [a EXCEPT
           !.free = IF @ # <<>> THEN SubSeq(@, 1, Len(@) - 1) ELSE @,
           !.firstFree = IF a.free # <<>> THEN @ ELSE @ + 1,
           !.blocks[Len(a.blocks)] =
               [n \in DOMAIN @ \cup {name} |-> IF n = name THEN slot ELSE @[n]]]

\* getAddr: the innermost block that has the name decides.
Declares(a, name) == \E i \in DOMAIN a.blocks : name \in DOMAIN a.blocks[i]

GetAddr(a, name) ==
    LET i == CHOOSE i \in DOMAIN a.blocks :
                 /\ name \in DOMAIN a.blocks[i]
                 /\ \A j \in DOMAIN a.blocks : name \in DOMAIN a.blocks[j] => j <= i
    IN  a.base + a.blocks[i][name]

\* mutant: the frame has room for the slots in use at the end only
GetMaxAllocLive(a) == a.firstFree - Len(a.free)
GetMaxAlloc(a) == a.firstFree

-----------------------------------------------------------------------------
\* Two variables that are live together never share a slot, and a slot that
\* is free, or was never handed out, holds no live variable.
LiveSlotsDistinct(a) ==
    \A i, j \in DOMAIN a.blocks :
        \A m \in DOMAIN a.blocks[i], n \in DOMAIN a.blocks[j] :
            a.blocks[i][m] = a.blocks[j][n] => i = j /\ m = n

LiveSlotsTaken(a) ==
    \A i \in DOMAIN a.blocks : \A n \in DOMAIN a.blocks[i] :
        /\ a.blocks[i][n] < a.firstFree
        /\ \A k \in DOMAIN a.free : a.free[k] # a.blocks[i][n]

FreeSlotsDistinct(a) ==
    \A k \in DOMAIN a.free :
        /\ a.free[k] < a.firstFree
        /\ \A l \in DOMAIN a.free : a.free[k] = a.free[l] => k = l
=============================================================================
