------------------------------- MODULE EntityMib -------------------------------
(***************************************************************************)
(* The Entity MIB module of the SNMP agent, as the callers of its API see  *)
(* it: net-snmp/sun/agent/modules/entityMib.  Physical entities may        *)
(* contain each other, logical entities are mapped to physical ones, and   *)
(* ports have aliases.  One action per API function that changes a table;  *)
(* the agent is single threaded, so a call is one step.                    *)
(*                                                                         *)
(* An entry's descriptive fields are left out.  Of its class the model     *)
(* keeps whether it is a port.                                             *)
(***************************************************************************)
EXTENDS EntTable

CONSTANTS Callers,      \* the calls made: "contains", "mapping" or both
          Requests,     \* indexes callers ask for (0: any)
          Parents,      \* values callers give for entPhysicalContainedIn
          Ports,        \* values of "is a port" in new entries
          MaxIndex,     \* bound: indexes of physical entries
          MaxLogical,   \* bound: indexes of logical entries
          AliasSlots    \* bound: slots in a row of the alias table

VARIABLES phys, logical,       \* tables
          contains, lp, alias, \* sequences of rows
          ret,                 \* what the last call returned
          stamped              \* whether it called configChanged

tables == <<phys, logical, contains, lp, alias>>
vars == <<tables, ret, stamped>>

\* A row lists indexes in slots.  A deleted slot holds a negative number.
Row(owner, slots) == [owner |-> owner, slots |-> slots]
RowOf(rows, x) == SelectInSeq(rows, LAMBDA r : r.owner = x)
InRow(r, y) == \E k \in DOMAIN r.slots : r.slots[k] = y
Pairs(rows) == {<<rows[j].owner, y>> : j \in DOMAIN rows, y \in 0 .. MaxIndex}
Shown(rows) == {<<x, y>> \in Pairs(rows) :
                  \E j \in DOMAIN rows : rows[j].owner = x /\ InRow(rows[j], y)}

\* Slots holding y become deleted ones.
Struck(r, y, mark) == [r EXCEPT !.slots = ReplaceAll(@, y, mark)]
StruckFrom(rows, y, mark) == [j \in DOMAIN rows |-> Struck(rows[j], y, mark)]

Init ==
    /\ phys = EmptyTable /\ logical = EmptyTable
    /\ contains = <<>> /\ lp = <<>> /\ alias = <<>>
    /\ ret = 0 /\ stamped = FALSE

Crash == -9   \* the agent has died

Refuse(code) == ret' = code /\ stamped' = FALSE /\ UNCHANGED tables
Done(code) == ret' = code /\ stamped' = TRUE

--------------------------------------------------------------------------------
\* entPhysicalContainsTable.c

Holders(rows, y) == {rows[j].owner : j \in {i \in DOMAIN rows : InRow(rows[i], y)}}
Lowest(rows, y) == IF Holders(rows, y) = {} THEN 0 ELSE Min(Holders(rows, y))

\* entPhysicalContainedIn of the entries in the domain of in becomes in[index].
Recontain(t, in) ==
    [t EXCEPT !.list = [k \in DOMAIN t.list |->
        IF t.list[k].index \in DOMAIN in
        THEN [t.list[k] EXCEPT !.in = in[t.list[k].index]]
        ELSE t.list[k]]]

\* Entries whose entPhysicalContainedIn is p.
NamingParent(t, p) == {e.index : e \in {f \in Range(t.list) : f.in = p}}

\* Planted bug: the children keep the parent that goes.
Bug_ParentGone(t, rows, p) ==
    [rows |-> RemoveFirstMatch(rows, LAMBDA r : r.owner = p), table |-> t]

\* deletePhysicalContainsParentIndex: the row goes, and children that named p
\* as their container name the lowest one left.
ParentGone(t, rows, p) ==
    LET left == RemoveFirstMatch(rows, LAMBDA r : r.owner = p)
        row == rows[RowOf(rows, p)]
        kids == {x \in NamingParent(t, p) : x > 0 /\ InRow(row, x) /\ IsLive(t, p)}
    IN  IF RowOf(rows, p) = 0 THEN [rows |-> rows, table |-> t]
        ELSE [rows |-> left,
              table |-> Recontain(t, [x \in kids |-> Lowest(left, x)])]

\* deletePhysicalContainsTableEntry on every row that holds c.  The container
\* of c becomes the lowest one left each time its own row is struck, so it ends
\* as 0 if it was one of those rows.
ChildGone(t, rows, c) ==
    LET struck == {c} \cap UNION {NamingParent(t, p) : p \in Holders(rows, c)}
    IN  [rows |-> StruckFrom(rows, c, -1),
         table |-> Recontain(t, [x \in struck |-> 0])]

deletePhysicalContainsParentIndex(p) ==
    LET after == ParentGone(phys, contains, p)
    IN  IF IsStale(phys, p) THEN Refuse(-2)
        ELSE IF RowOf(contains, p) = 0 THEN Refuse(-1)
        ELSE /\ phys' = after.table /\ contains' = after.rows
             /\ Done(Cardinality({y \in Index :
                       InRow(contains[RowOf(contains, p)], y)}))
             /\ UNCHANGED <<logical, lp, alias>>

deletePhysicalContainsChildIndex(c) ==
    LET after == ChildGone(phys, contains, c)
    IN  IF IsStale(phys, c) THEN Refuse(-2)
        ELSE IF Holders(contains, c) = {} THEN Refuse(-1)
        ELSE /\ phys' = after.table /\ contains' = after.rows
             /\ Done(Cardinality(Holders(contains, c)))
             /\ UNCHANGED <<logical, lp, alias>>

deletePhysicalContainsTableEntry(p, c) ==
    LET left == [contains EXCEPT ![RowOf(contains, p)] = Struck(@, c, -1)]
    IN  IF p \notin Index \/ c \notin Index THEN Refuse(-1)
        ELSE IF IsStale(phys, p) \/ IsStale(phys, c) THEN Refuse(-2)
        ELSE IF p \notin Holders(contains, c) THEN Refuse(-1)
        ELSE /\ contains' = left
             /\ phys' = Recontain(phys,
                          [x \in {c} \cap NamingParent(phys, p) |-> Lowest(left, x)])
             /\ Done(0)
             /\ UNCHANGED <<logical, lp, alias>>

\* getAllChildrenFromPhysicalContainedIn: the array is extended for every child
\* after the first, but the position it writes to stays the second.
ContainedInChildren(p) ==
    LET all == SelectSeq(phys.list, LAMBDA e : e.in = p)
    IN  IF p \notin Index \/ all = <<>> THEN <<>>
        ELSE IF Len(all) = 1 THEN <<all[1].index>>
        ELSE <<all[1].index, Last(all).index>>

\* getPhysicalContainsChildren
ContainsChildren(p) ==
    IF ~IsLive(phys, p) \/ RowOf(contains, p) = 0 THEN <<>>
    ELSE SelectSeq(contains[RowOf(contains, p)].slots, LAMBDA y : y > 0)

\* isRecursiveChild: a depth first search for c below p.  A path longer than
\* the table runs in a circle, and the search never comes back from it.
isRecursiveChild(p, c) ==
    LET Indexes == {phys.list[k].index : k \in DOMAIN phys.list}
        Below[d \in 0 .. Len(phys.list), x \in Indexes] ==
          LET kids == ContainedInChildren(x) \o ContainsChildren(x)
              Found == {k \in DOMAIN kids : Below[d - 1, kids[k]] # "no"}
          IN  IF x = c THEN "yes"
              ELSE IF d = 0 THEN "never returns"
              ELSE IF Found = {} THEN "no"
              ELSE Below[d - 1, kids[Min(Found)]]
    IN  Below[Len(phys.list), p]

\* Planted bug: the row is added whatever the search says.
Bug_addPhysicalContainsTableEntry(p, c) ==
    IF p = c \/ ~IsLive(phys, p) \/ ~IsLive(phys, c) THEN Refuse(-1)
    ELSE /\ contains' = Append(contains, Row(p, <<c>>))
         /\ Done(0)
         /\ UNCHANGED <<phys, logical, lp, alias>>

addPhysicalContainsTableEntry(p, c) ==
    LET k == RowOf(contains, p)
        free == SelectLastInSeq(contains[k].slots, LAMBDA y : y = -1)
    IN  IF p = c \/ p \notin Index \/ c \notin Index THEN Refuse(-1)
        ELSE IF IsStale(phys, p) \/ IsStale(phys, c) THEN Refuse(-2)
        ELSE IF ~IsLive(phys, p) \/ ~IsLive(phys, c) THEN Refuse(-1)
        ELSE IF isRecursiveChild(c, p) = "yes" THEN Refuse(-1)
        ELSE IF isRecursiveChild(c, p) = "never returns" THEN Refuse(Crash)
        ELSE IF k # 0 /\ p \in Holders(contains, c) THEN Refuse(1)
        ELSE /\ contains' =
                  IF k = 0 THEN Append(contains, Row(p, <<c>>))
                  ELSE IF free = 0
                  THEN [contains EXCEPT ![k].slots = Append(@, c)]
                  ELSE [contains EXCEPT ![k].slots[free] = c]
             /\ phys' = Recontain(phys,
                  [x \in {c} \ UNION {NamingParent(phys, q) : q \in 1 .. p} |-> p])
             /\ Done(0)
             /\ UNCHANGED <<logical, lp, alias>>

--------------------------------------------------------------------------------
\* entLPMappingTable.c: rows of logical entries.  A deleted slot holds the
\* negated physical index, and only that index takes it again.

LPFree(rows, p) == [j \in DOMAIN rows |-> Struck(rows[j], p, -p)]

\* Planted bug: a pair that exists is added again.
Bug_addLPMappingTableEntry(l, p) ==
    LET k == RowOf(lp, l)
    IN  IF ~IsLive(logical, l) \/ ~IsLive(phys, p) THEN Refuse(-1)
        ELSE /\ lp' = IF k = 0 THEN Append(lp, Row(l, <<p>>))
                      ELSE [lp EXCEPT ![k].slots = Append(@, p)]
             /\ Len(lp') < 3 /\ Done(0)
             /\ UNCHANGED <<phys, logical, contains, alias>>

\* Planted bug: taking a deleted slot again does not call configChanged.
Bug_reuseLPMappingTableEntry(l, p) ==
    LET k == RowOf(lp, l)
    IN  IF ~IsLive(logical, l) \/ ~IsLive(phys, p) THEN Refuse(-1)
        ELSE IF l \in Holders(lp, p) THEN Refuse(1)
        ELSE IF k # 0 /\ InRow(lp[k], -p)
        THEN /\ lp' = [lp EXCEPT ![k] = Struck(@, -p, p)]
             /\ ret' = 0 /\ stamped' = FALSE
             /\ UNCHANGED <<phys, logical, contains, alias>>
        ELSE /\ lp' = IF k = 0 THEN Append(lp, Row(l, <<p>>))
                      ELSE [lp EXCEPT ![k].slots = Append(@, p)]
             /\ Done(0)
             /\ UNCHANGED <<phys, logical, contains, alias>>

addLPMappingTableEntry(l, p) ==
    LET k == RowOf(lp, l)
    IN  IF l \notin Index \/ p \notin Index THEN Refuse(-1)
        ELSE IF IsStale(logical, l) \/ IsStale(phys, p) THEN Refuse(-2)
        ELSE IF ~IsLive(logical, l) \/ ~IsLive(phys, p) THEN Refuse(-1)
        ELSE IF l \in Holders(lp, p) THEN Refuse(1)
        ELSE /\ lp' = IF k = 0 THEN Append(lp, Row(l, <<p>>))
                      ELSE IF InRow(lp[k], -p)
                      THEN [lp EXCEPT ![k] = Struck(@, -p, p)]
                      ELSE [lp EXCEPT ![k].slots = Append(@, p)]
             /\ Done(0)
             /\ UNCHANGED <<phys, logical, contains, alias>>

deleteLPMappingTableEntry(l, p) ==
    IF l \notin Index \/ p \notin Index THEN Refuse(-1)
    ELSE IF IsStale(logical, l) \/ IsStale(phys, p) THEN Refuse(-2)
    ELSE IF ~IsLive(logical, l) \/ ~IsLive(phys, p) THEN Refuse(-1)
    ELSE IF l \notin Holders(lp, p) THEN Refuse(-1)
    ELSE /\ lp' = [lp EXCEPT ![RowOf(lp, l)] = Struck(@, p, -p)]
         /\ Done(0)
         /\ UNCHANGED <<phys, logical, contains, alias>>

deleteLPMappingPhysicalIndex(p) ==
    IF IsStale(phys, p) THEN Refuse(-2)
    ELSE IF ~IsLive(phys, p) \/ Holders(lp, p) = {} THEN Refuse(-1)
    ELSE /\ lp' = LPFree(lp, p)
         /\ Done(Cardinality(Holders(lp, p)))
         /\ UNCHANGED <<phys, logical, contains, alias>>

deleteLPMappingLogicalIndex(l) ==
    IF IsStale(logical, l) THEN Refuse(-2)
    ELSE IF ~IsLive(logical, l) \/ RowOf(lp, l) = 0 THEN Refuse(-1)
    ELSE /\ lp' = RemoveFirstMatch(lp, LAMBDA r : r.owner = l)
         /\ Done(Cardinality({y \in Index : InRow(lp[RowOf(lp, l)], y)}))
         /\ UNCHANGED <<phys, logical, contains, alias>>

--------------------------------------------------------------------------------
\* entAliasMappingTable.c: rows of ports.  Index 0 stands for "any logical
\* entity"; a deleted slot holds -1 and is not taken again.

addAliasMappingTableEntry(p, l) ==
    LET k == RowOf(alias, p)
    IN  IF p = 0 THEN Refuse(-1)
        ELSE IF IsStale(phys, p) \/ IsStale(logical, l) THEN Refuse(-2)
        ELSE IF ~IsLive(phys, p) THEN Refuse(-1)
        ELSE IF ~phys.list[Position(phys, p)].port THEN Refuse(-1)
        ELSE IF l # 0 /\ ~IsLive(logical, l) THEN Refuse(-1)
        ELSE IF k # 0 /\ InRow(alias[k], l) THEN Refuse(1)
        ELSE /\ k # 0 => Len(alias[k].slots) < AliasSlots
             /\ alias' = IF k = 0 THEN Append(alias, Row(p, <<l>>))
                         ELSE [alias EXCEPT ![k].slots = Append(@, l)]
             /\ Done(0)
             /\ UNCHANGED <<phys, logical, contains, lp>>

deleteAliasMappingTableEntry(p, l) ==
    IF p # 0 /\ (IsStale(phys, p) \/ IsStale(logical, l)) THEN Refuse(-2)
    ELSE IF p \notin Holders(alias, l) THEN Refuse(-1)
    ELSE /\ alias' = [alias EXCEPT ![RowOf(alias, p)] = Struck(@, l, -1)]
         /\ Done(0)
         /\ UNCHANGED <<phys, logical, contains, lp>>

deleteAliasMappingPhysicalIndex(p) ==
    IF IsStale(phys, p) THEN Refuse(-2)
    ELSE IF RowOf(alias, p) = 0 THEN Refuse(-1)
    ELSE /\ alias' = RemoveFirstMatch(alias, LAMBDA r : r.owner = p)
         /\ Done(Cardinality({y \in Index \cup {0} :
                   InRow(alias[RowOf(alias, p)], y)}))
         /\ UNCHANGED <<phys, logical, contains, lp>>

deleteAliasMappingLogicalIndex(l) ==
    IF l # 0 /\ IsStale(logical, l) THEN Refuse(-2)
    ELSE IF l = 0 \/ Holders(alias, l) = {} THEN Refuse(-1)
    ELSE /\ alias' = StruckFrom(alias, l, -1)
         /\ Done(Cardinality(Holders(alias, l)))
         /\ UNCHANGED <<phys, logical, contains, lp>>

--------------------------------------------------------------------------------
\* entPhysicalTable.c

\* Requests refused for what the entry holds, or for lack of memory.
allocRefused == Refuse(-1)

allocPhysicalEntry(idx, in, port) ==
    IF idx \notin 0 .. MAX_ENTITY_INDEX THEN Refuse(0)
    ELSE IF in # 0 /\ ~IsLive(phys, in) THEN Refuse(-1)
    ELSE \E o \in AddToTable(phys, [index |-> idx, in |-> in, port |-> port]) :
           /\ o.index \in 1 .. MaxIndex
           /\ phys' = o.table
           /\ Done(o.index)
           /\ UNCHANGED <<logical, contains, lp, alias>>

\* Planted bug: the entry stays in the rows of its containers and in its alias.
Bug_Disconnected(x) ==
    LET left == ParentGone(phys, contains, x)
    IN  [table |-> left.table, contains |-> left.rows, lp |-> LPFree(lp, x),
         alias |-> alias]

\* What deletePhysicalTableEntry and makePhysicalTableEntryStale do first: take
\* the entry out of the alias, LP and contains tables.
Disconnected(x) ==
    LET orphaned == ParentGone(phys, contains, x)
        left == ChildGone(orphaned.table, orphaned.rows, x)
    IN  [table |-> left.table, contains |-> left.rows,
         lp |-> LPFree(lp, x),
         alias |-> RemoveFirstMatch(alias, LAMBDA r : r.owner = x)]

Release(left, table) ==
    /\ phys' = table
    /\ contains' = left.contains /\ lp' = left.lp /\ alias' = left.alias
    /\ Done(0)
    /\ UNCHANGED logical

deletePhysicalTableEntry(x) ==
    LET left == Disconnected(x)
    IN  IF IsLive(phys, x) THEN Release(left, Unlinked(left.table, x))
        ELSE Refuse(IF IsStale(phys, x) THEN -2 ELSE -1)

makePhysicalTableEntryStale(x) ==
    LET left == Disconnected(x)
    IN  IF IsLive(phys, x) THEN Release(left, WithIndex(left.table, x, -x))
        ELSE Refuse(IF IsStale(phys, x) THEN -2 ELSE -1)

makePhysicalTableEntryLive(x) ==
    IF IsStale(phys, x)
    THEN /\ phys' = WithIndex(phys, x, x)
         /\ Done(0)
         /\ UNCHANGED <<logical, contains, lp, alias>>
    ELSE Refuse(IF IsLive(phys, x) THEN -2 ELSE -1)

--------------------------------------------------------------------------------
\* entLogicalTable.c

allocLogicalEntry(idx) ==
    IF idx \notin 0 .. MAX_ENTITY_INDEX THEN Refuse(0)
    ELSE \E o \in AddToTable(logical, [index |-> idx]) :
           /\ o.index \in 1 .. MaxLogical
           /\ logical' = o.table
           /\ Done(o.index)
           /\ UNCHANGED <<phys, contains, lp, alias>>

ReleaseLogical(x, after) ==
    /\ logical' = after
    /\ lp' = RemoveFirstMatch(lp, LAMBDA r : r.owner = x)
    /\ alias' = StruckFrom(alias, x, -1)
    /\ Done(0)
    /\ UNCHANGED <<phys, contains>>

deleteLogicalTableEntry(x) ==
    IF IsLive(logical, x) THEN ReleaseLogical(x, Unlinked(logical, x))
    ELSE Refuse(IF IsStale(logical, x) THEN -2 ELSE -1)

makeLogicalTableEntryStale(x) ==
    IF IsLive(logical, x) THEN ReleaseLogical(x, WithIndex(logical, x, -x))
    ELSE Refuse(IF IsStale(logical, x) THEN -2 ELSE -1)

makeLogicalTableEntryLive(x) ==
    IF IsStale(logical, x)
    THEN /\ logical' = WithIndex(logical, x, x)
         /\ Done(0)
         /\ UNCHANGED <<phys, contains, lp, alias>>
    ELSE Refuse(IF IsLive(logical, x) THEN -2 ELSE -1)

--------------------------------------------------------------------------------
Args == 0 .. MaxIndex
LArgs == 0 .. MaxLogical

PhysicalCall ==
    \/ allocRefused
    \/ \E idx \in Requests, in \in Parents, port \in Ports :
         allocPhysicalEntry(idx, in, port)
    \/ \E x \in Args : deletePhysicalTableEntry(x)
    \/ \E x \in Args : makePhysicalTableEntryStale(x)
    \/ \E x \in Args : makePhysicalTableEntryLive(x)

ContainsCall ==
    \/ \E p, c \in Args : addPhysicalContainsTableEntry(p, c)
    \/ \E p, c \in Args : deletePhysicalContainsTableEntry(p, c)
    \/ \E p \in Args : deletePhysicalContainsParentIndex(p)
    \/ \E c \in Args : deletePhysicalContainsChildIndex(c)

LogicalCall ==
    \/ \E idx \in Requests : allocLogicalEntry(idx)
    \/ \E x \in LArgs : deleteLogicalTableEntry(x)
    \/ \E x \in LArgs : makeLogicalTableEntryStale(x)
    \/ \E x \in LArgs : makeLogicalTableEntryLive(x)

MappingCall ==
    \/ \E l \in LArgs, p \in Args : addLPMappingTableEntry(l, p)
    \/ \E l \in LArgs, p \in Args : deleteLPMappingTableEntry(l, p)
    \/ \E p \in Args : deleteLPMappingPhysicalIndex(p)
    \/ \E l \in LArgs : deleteLPMappingLogicalIndex(l)
    \/ \E p \in Args, l \in LArgs : addAliasMappingTableEntry(p, l)
    \/ \E p \in Args, l \in LArgs : deleteAliasMappingTableEntry(p, l)
    \/ \E p \in Args : deleteAliasMappingPhysicalIndex(p)
    \/ \E l \in LArgs : deleteAliasMappingLogicalIndex(l)

Next ==
    /\ ret # Crash
    /\ \/ PhysicalCall
       \/ "contains" \in Callers /\ ContainsCall
       \/ "mapping" \in Callers /\ (LogicalCall \/ MappingCall)

Spec == Init /\ [][Next]_vars

--------------------------------------------------------------------------------
Entry(t, x) == t.list[Position(t, x)]
Live(t) == {x \in Index : IsLive(t, x)}

\* What SNMP requests show of the five tables.
View == <<{Entry(phys, x) : x \in Live(phys)}, Live(logical),
          Shown(contains), Shown(lp), Shown(alias)>>

RowsOK(rows) ==
    \A j \in DOMAIN rows :
        /\ rows[j].owner \in Index
        /\ \A k \in DOMAIN rows[j].slots : rows[j].slots[k] \in -MaxIndex .. MaxIndex

TypeOK ==
    /\ \A t \in {phys, logical} : t.tail \in Index \cup {Null, Outside}
    /\ \A k \in DOMAIN phys.list : phys.list[k].in \in Index \cup {0}
    /\ RowsOK(contains) /\ RowsOK(lp) /\ RowsOK(alias)
    /\ ret \in -2 .. MAX_ENTITY_INDEX /\ stamped \in BOOLEAN

\* AddToPhysicalTable, AddToLogicalTable and the deletions keep both lists
\* sorted by index, live and stale entries alike, so that no index is handed
\* out twice; they keep the count, and a tail pointer into the list points to
\* its end.
ListsWellLinked == WellLinked(phys) /\ WellLinked(logical)

\* "to maintain integrity among the various Entity MIB tables"
\* (entity_apidoc.txt): after any sequence of calls the mapping tables name
\* live entries only, and aliases belong to ports.
TableIntegrity ==
    /\ \A <<p, c>> \in Shown(contains) : {p, c} \subseteq Live(phys)
    /\ \A <<l, p>> \in Shown(lp) : l \in Live(logical) /\ p \in Live(phys)
    /\ \A <<p, l>> \in Shown(alias) :
         p \in Live(phys) /\ Entry(phys, p).port /\ l \in Live(logical) \cup {0}

\* Every pair occupies one slot of one row: add... answers 1 for a pair that is
\* there, so a deletion that strikes one slot removes the pair.
PairsOnce ==
    \A rows \in {contains, lp, alias} :
        /\ \A j, k \in DOMAIN rows : rows[j].owner = rows[k].owner => j = k
        /\ \A j \in DOMAIN rows : \A m, n \in DOMAIN rows[j].slots :
             rows[j].slots[m] = rows[j].slots[n] /\ rows[j].slots[m] >= 0 => m = n

\* "We replace entPhysicalContainedIn ... only when this index is lower", and
\* the deletions look for "the next lowest": for callers that build the
\* hierarchy with addPhysicalContainsTableEntry only, entPhysicalContainedIn is
\* always the lowest container, and 0 without one.
ContainedInExact ==
    \A x \in Live(phys) : Entry(phys, x).in = Lowest(contains, x)

\* addPhysicalContainsTableEntry refuses what would put an entity inside
\* itself: for callers that build the hierarchy with it only, the containment
\* relation has no cycle, hence isRecursiveChild always returns.  It is not so
\* for callers that give a container to allocPhysicalEntry: the field outlives
\* the container, and whoever gets its index again may be put inside the entity
\* that still names it.
NoContainmentCycle ==
    LET Inside == {<<Entry(phys, x).in, x>> : x \in Live(phys)} \cup Shown(contains)
        Reach[n \in 0 .. MaxIndex] ==
          IF n = 0 THEN Inside
          ELSE Reach[n - 1] \cup {<<x, z>> \in Args \X Args :
                 \E y \in Args : <<x, y>> \in Reach[n - 1] /\ <<y, z>> \in Inside}
    IN  /\ \A x \in Live(phys) : <<x, x>> \notin Reach[MaxIndex]
        /\ ret # Crash

\* "The index allocated to a stale entry will not be allocated to another
\* entry" (entity_apidoc.txt): a stale entry stays as it is until it is made
\* live, and then it is the same entry.
StaleKeepsIndex ==
    [][ /\ \A x \in Index : IsStale(phys, x) =>
             /\ IsStale(phys, x)' \/ IsLive(phys, x)'
             /\ Entry(phys, x)'.port = Entry(phys, x).port
             /\ Entry(phys, x)'.in = Entry(phys, x).in
        /\ \A x \in Index : IsStale(logical, x) =>
             IsStale(logical, x)' \/ IsLive(logical, x)' ]_vars

\* entLastChangeTime moves whenever something SNMP shows has changed.
ChangeIsStamped == [][ stamped' \/ View' = View ]_vars

\* allocPhysicalEntry "Allocates an entry in the Physical Table" and returns
\* "the index allocated to the physical entry" (entity_apidoc.txt): a call that
\* adds an entry returns the index under which the entry is found.
AllocatedIsFound ==
    [][ phys'.size > phys.size => ret' > 0 /\ IsLive(phys', ret') ]_vars

\* "If the intended parent ... is stale or does not exist, then we will reject
\* the entry" (allocPhysicalEntry) and "If the parent is the last one for this
\* child, reset the entPhysicalContainedIn to 0"
\* (deletePhysicalContainsParentIndex): entPhysicalContainedIn of a live entry
\* names a live entry or is 0.
ContainerIsLive ==
    \A x \in Live(phys) : Entry(phys, x).in \in Live(phys) \cup {0}
================================================================================
