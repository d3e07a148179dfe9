-------------------------------- MODULE EntTable --------------------------------
(***************************************************************************)
(* The linked list behind entPhysicalTable.c and entLogicalTable.c: the    *)
(* two files hold the same code for two entry types.                       *)
(*                                                                         *)
(* A table is a record: list, the entries from the head on; tail, what the *)
(* tail pointer points to; size, the entry count the code keeps.  An entry *)
(* has an index, negated while the entry is stale, and its own fields.     *)
(***************************************************************************)
EXTENDS Integers, Sequences, SequencesExt

CONSTANTS LARGE_TABLE,       \* 200 in stdhdr.h
          MAX_ENTITY_INDEX   \* 2^31 - 1 in stdhdr.h

ASSUME TableAssumption == LARGE_TABLE \in Nat /\ MAX_ENTITY_INDEX \in Nat \ {0}

Index == 1 .. MAX_ENTITY_INDEX

\* A sum of ints is reduced to the width of an int, of which MAX_ENTITY_INDEX
\* is the largest.
IntMin == -(MAX_ENTITY_INDEX + 1)
ToInt(n) == ((n - IntMin) % (2 * (MAX_ENTITY_INDEX + 1))) + IntMin
abs(n) == ToInt(IF n < 0 THEN -n ELSE n)

\* The tail pointer: no entry yet, an entry of the list (named by the absolute
\* value of its index) or memory that is not in the list any more.
Null == 0
Outside == -1

EmptyTable == [list |-> <<>>, tail |-> Null, size |-> 0]

\* The first entry with this index, live or stale: 0 when there is none.
Position(t, x) == SelectInSeq(t.list, LAMBDA e : abs(e.index) = x)
\* Planted bug: the sign of the index is not looked at.
Bug_IsLive(t, x) == x \in Index /\ Position(t, x) # 0
IsLive(t, x) ==
    x \in Index /\ Position(t, x) # 0 /\ t.list[Position(t, x)].index = x
IsStale(t, x) ==
    x \in Index /\ Position(t, x) # 0 /\ t.list[Position(t, x)].index = -x

Linked(t, e, idx, k) ==
    [t EXCEPT !.list = InsertAt(@, k, [e EXCEPT !.index = idx]),
              !.size = @ + 1]
AtEnd(t, e, idx) ==
    [Linked(t, e, idx, Len(t.list) + 1) EXCEPT !.tail = abs(idx)]

Outcome(t, idx) == [table |-> t, index |-> idx]

\* The part of AddTo...Table reached with index 0, or with an index in use.
\* Through a tail pointer that left the list, the entry is chained to memory
\* nobody walks, and its index is read from there.
AddAnywhere(t, e) ==
    LET l == t.list
        Gaps == {k \in 1 .. Len(l) - 1 :
                   abs(l[k + 1].index) - abs(l[k].index) > 1}
        After(k) == ToInt(abs(l[k].index) + 1)
    IN  IF t.size > LARGE_TABLE /\ t.tail = Outside
        THEN {Outcome([t EXCEPT !.size = @ + 1], z) : z \in Index}
        ELSE IF l = <<>>
        THEN {Outcome(AtEnd(t, e, 1), 1)}
        ELSE IF t.size > LARGE_TABLE \/ Gaps = {}
        THEN {Outcome(AtEnd(t, e, After(Len(l))), After(Len(l)))}
        ELSE {Outcome(Linked(t, e, After(Min(Gaps)), Min(Gaps) + 1),
                      After(Min(Gaps)))}

\* Planted bug: an index in use is not noticed.
Bug_AddToTable(t, e) ==
    LET k == SelectInSeq(t.list, LAMBDA f : abs(f.index) >= e.index)
    IN  IF e.index > 0 /\ k = 0
        THEN {Outcome(AtEnd(t, e, e.index), e.index)}
        ELSE IF e.index > 0
        THEN {Outcome(Linked(t, e, e.index, k), e.index)}
        ELSE AddAnywhere(t, e)

\* AddToPhysicalTable and AddToLogicalTable: the tables the call may leave,
\* each with the index it returns.
AddToTable(t, e) ==
    LET k == SelectInSeq(t.list, LAMBDA f : abs(f.index) >= e.index)
    IN  IF e.index > 0 /\ k = 0
        THEN {Outcome(AtEnd(t, e, e.index), e.index)}
        ELSE IF e.index > 0 /\ abs(t.list[k].index) # e.index
        THEN {Outcome(Linked(t, e, e.index, k), e.index)}
        ELSE AddAnywhere(t, e)

\* Unlinks a live entry.  Nothing moves the tail pointer off an entry that is
\* freed.
Unlinked(t, x) ==
    [list |-> RemoveAt(t.list, Position(t, x)),
     tail |-> IF t.tail = x THEN Outside ELSE t.tail,
     size |-> t.size - 1]

WithIndex(t, x, idx) == [t EXCEPT !.list[Position(t, x)].index = idx]

\* The list in order of index, without duplicates; the count is right; the tail
\* pointer, when it points into the list, points to the last entry.
WellLinked(t) ==
    /\ \A j, k \in DOMAIN t.list :
         j < k => abs(t.list[j].index) < abs(t.list[k].index)
    /\ t.size = Len(t.list)
    /\ t.tail \notin {Null, Outside} =>
         t.list # <<>> /\ t.tail = abs(Last(t.list).index)
================================================================================
