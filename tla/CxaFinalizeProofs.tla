--------------------------- MODULE CxaFinalizeProofs ---------------------------
(***************************************************************************)
(* For lists of any size, with failures of memory and of atexit at any     *)
(* time: until the list is moved or dropped under them the loops stay      *)
(* within it, no handler runs twice until it is moved, and what is true    *)
(* of the order.                                                           *)
(***************************************************************************)
EXTENDS CxaFinalize, TLAPS

Elem == [h : 1 .. MaxHandlers, own : BOOLEAN, done : BOOLEAN]
L == mem[list.block]

Flags == /\ shared \in BOOLEAN /\ initialized \in BOOLEAN
         /\ registered \in BOOLEAN /\ locked \in BOOLEAN
         /\ moved \in BOOLEAN /\ lost \in BOOLEAN

Lists == [block : Nat, size : Nat, nelem : Nat]
Walks == [block : Nat, p : Int, i : Int]

Types ==
    /\ mem \in Seq(Seq(Elem))
    /\ list \in Lists
    /\ made \in 0 .. MaxHandlers /\ before \in 0 .. made /\ late \in 0 .. made
    /\ phase \in {"run", "callback", "cleanup", "end"}
    /\ walk \in Walks
    /\ handler \in {"none"} \cup Doings
    /\ ran \in Seq(1 .. MaxHandlers)

\* The list has a block once it is initialised, until it is dropped, never an
\* empty one, and no handler is in it twice.
ListInv ==
    /\ list.block \in 0 .. Len(mem)
    /\ list.block # 0 => initialized /\ registered
    /\ list.block = 0 => list.nelem = 0 /\ list.size = 0
    /\ list.block # 0 =>
         /\ Len(L) = list.nelem /\ list.nelem >= 1
         /\ \A k \in 1 .. Len(L) : L[k].h <= made
         /\ \A j, k \in 1 .. Len(L) : L[j].h = L[k].h => j = k

\* As long as nothing has failed, it has the room it says.
RoomInv ==
    /\ registered <=> initialized
    /\ initialized <=> list.block # 0
    /\ list.nelem <= list.size

\* Nothing has run before exit.
RanInv ==
    /\ phase \in {"run", "end"} => handler = "none"
    /\ phase = "run" => ran = <<>>
    /\ walk.block \in 0 .. Len(mem)

\* A loop is in the list, or in a block that was freed.  What has run and is in
\* the list is marked as done there.
OnceInv ==
    /\ phase # "run" =>
         walk.block = list.block \/ walk.block = 0 \/ mem[walk.block] = <<>>
    /\ list.block # 0 =>
         \A j \in 1 .. Len(ran), k \in 1 .. Len(L) : L[k].h = ran[j] => L[k].done
    /\ \A j \in 1 .. Len(ran) : ran[j] <= made
    /\ \A j, k \in 1 .. Len(ran) : ran[j] = ran[k] => j = k

\* A loop is at an element of the list, or at its end.
WalkInv ==
    /\ phase = "callback" =>
         /\ walk.p = walk.i /\ walk.i \in 0 .. list.nelem
         /\ walk.i > 0 => walk.block = list.block
         /\ handler # "none" => walk.i > 0
    /\ phase = "cleanup" =>
         /\ list.block # 0 /\ walk.block = list.block
         /\ walk.i \in 0 .. list.nelem
         /\ walk.p = IF shared THEN walk.i + 1 ELSE walk.i
         /\ handler # "none" => walk.p \in 1 .. list.nelem

Inv == /\ Flags /\ Types /\ ListInv /\ RanInv
       /\ lost \/ RoomInv
       /\ moved \/ OnceInv
       /\ moved \/ lost \/ WalkInv

LEMMA InitInv == Init => Inv
<1> SUFFICES ASSUME Init PROVE Inv
  OBVIOUS
<1> USE DEF Init
<1>1. Types
  BY CxaAssumption DEF Types, NoWalk, Doings, Lists, Walks
<1>2. ListInv
  BY DEF ListInv
<1>3. RoomInv
  BY DEF RoomInv
<1>4. WalkInv
  BY DEF WalkInv
<1>5. Len(ran) = 0 /\ walk.block = 0 /\ Len(mem) = 0 /\ list.block = 0
  BY DEF NoWalk
<1>7. RanInv /\ OnceInv
  BY <1>5 DEF RanInv, OnceInv
<1>6. Flags
  BY Zenon DEF Flags
<1> QED BY <1>1, <1>2, <1>3, <1>4, <1>6, <1>7, Zenon DEF Inv

\* What EXCEPT and Append do to a sequence.
LEMMA Updated ==
    ASSUME NEW S, NEW s \in Seq(S), NEW k \in 1 .. Len(s), NEW x \in S
    PROVE  /\ [s EXCEPT ![k] = x] \in Seq(S) /\ Len([s EXCEPT ![k] = x]) = Len(s)
           /\ [s EXCEPT ![k] = x][k] = x
           /\ \A j \in 1 .. Len(s) : j # k => [s EXCEPT ![k] = x][j] = s[j]
  OBVIOUS

LEMMA Appended ==
    ASSUME NEW S, NEW s \in Seq(S), NEW x \in S
    PROVE  /\ Append(s, x) \in Seq(S) /\ Len(Append(s, x)) = Len(s) + 1
           /\ Append(s, x)[Len(s) + 1] = x
           /\ \A j \in 1 .. Len(s) : Append(s, x)[j] = s[j]
  OBVIOUS

\* Numbers stay distinct when one is added that is larger than the others.
LEMMA OneMore ==
    ASSUME NEW t \in Seq(Elem), NEW n \in Nat, NEW m \in Nat,
           Len(t) = n + 1, t[n + 1].h = m + 1,
           \A k \in 1 .. n : t[k].h <= m,
           \A j, k \in 1 .. n : t[j].h = t[k].h => j = k
    PROVE  /\ \A k \in 1 .. Len(t) : t[k].h <= m + 1
           /\ \A j, k \in 1 .. Len(t) : t[j].h = t[k].h => j = k
<1>1. \A k \in 1 .. Len(t) : k \in 1 .. n \/ k = n + 1
  OBVIOUS
<1>2. \A k \in 1 .. n : t[k].h \in Nat
  <2> TAKE k \in 1 .. n
  <2>1. t[k] \in Elem
    OBVIOUS
  <2> QED BY <2>1, CxaAssumption DEF Elem
<1> QED BY <1>1, <1>2, SMTT(60)

\* Marking an element as done changes nothing else.
Mark(s, p) == [s EXCEPT ![p].done = TRUE]

LEMMA Marked ==
    ASSUME NEW s \in Seq(Elem), NEW p \in 1 .. Len(s)
    PROVE  /\ Mark(s, p) \in Seq(Elem) /\ Len(Mark(s, p)) = Len(s) /\ Mark(s, p)[p].done
           /\ \A k \in 1 .. Len(s) :
                /\ Mark(s, p)[k].h = s[k].h /\ Mark(s, p)[k].own = s[k].own
                /\ s[k].done => Mark(s, p)[k].done
                /\ Mark(s, p)[k].done => s[k].done \/ k = p
<1> DEFINE t == Mark(s, p)
<1> USE DEF Mark
<1>1. s[p] \in Elem
  OBVIOUS
<1>2. [s[p] EXCEPT !.done = TRUE] \in Elem
  BY <1>1, Zenon DEF Elem
<1>3. t \in Seq(Elem) /\ Len(t) = Len(s)
  BY <1>2
<1>4. t[p] = [s[p] EXCEPT !.done = TRUE] /\ \A k \in 1 .. Len(s) : k # p => t[k] = s[k]
  <2>1. t = [s EXCEPT ![p] = [s[p] EXCEPT !.done = TRUE]]
    OBVIOUS
  <2>2. p \in DOMAIN s /\ \A k \in 1 .. Len(s) : k \in DOMAIN s
    OBVIOUS
  <2> QED BY <2>1, <2>2, Zenon
<1>5. t[p].done /\ t[p].h = s[p].h /\ t[p].own = s[p].own
  BY <1>1, <1>4 DEF Elem
<1> QED BY <1>3, <1>4, <1>5

\* The list is made ready to take a handler, and keeps those it has.
LEMMA RoomMade ==
    ASSUME Inv
    PROVE  /\ Extended(list) \in Lists
           /\ Extended(list).nelem = list.nelem
           /\ ~lost => list.nelem < Extended(list).size
           /\ Blocks(list) \in Seq(Seq(Elem)) /\ Len(Blocks(list)) >= Len(mem)
           /\ \A b \in 1 .. Len(mem) : Blocks(list)[b] = mem[b]
           /\ \A b \in 1 .. Len(Blocks(list)) :
                b \in 1 .. Len(mem) \/ b = Extended(list).block
           /\ Extended(list).block \in 1 .. Len(Blocks(list))
           /\ Len(Blocks(list)[Extended(list).block]) = list.nelem
           /\ list.block # 0 => Blocks(list)[Extended(list).block] = L
           /\ \/ Extended(list).block = list.block
              \/ Extended(list).block = Len(mem) + 1 /\ (list.block = 0 \/ Full)
<1> DEFINE new == Len(mem) + 1
<1>0. /\ mem \in Seq(Seq(Elem)) /\ Len(mem) \in Nat
      /\ list \in Lists /\ list.block \in Nat /\ list.size \in Nat /\ list.nelem \in Nat
      /\ list.block \in 0 .. Len(mem) /\ (list.block # 0 => initialized)
      /\ Chunk \in Nat \ {0}
  BY CxaAssumption DEF Inv, Types, ListInv, Lists
<1>1. CASE list.block = 0
  <2>1. list.nelem = 0 /\ list.size = 0
    BY <1>1 DEF Inv, ListInv
  <2>2. lost \/ ~initialized
    BY <1>1 DEF Inv, RoomInv
  <2>3. /\ Extended(list) \in Lists /\ Extended(list).nelem = 0 /\ Extended(list).block = new
        /\ ~lost => Extended(list).size = Chunk
    <3>1. CASE ~initialized
      BY <3>1, <1>0 DEF Extended, Lists
    <3>2. CASE initialized
      <4>1. Extended(list) = [block |-> new, size |-> 2 * list.size, nelem |-> list.nelem]
        BY <3>2, <2>1, <1>0, Zenon DEF Extended, Lists
      <4> QED BY <4>1, <3>2, <2>1, <2>2, <1>0 DEF Lists
    <3> QED BY <3>1, <3>2, Zenon
  <2>4. Blocks(list) = Append(mem, <<>>)
    BY <2>3, <1>1, <1>0 DEF Blocks
  <2>5. <<>> \in Seq(Elem)
    OBVIOUS
  <2>6. /\ Append(mem, <<>>) \in Seq(Seq(Elem))
        /\ Len(Append(mem, <<>>)) = new /\ Append(mem, <<>>)[new] = <<>>
        /\ \A b \in 1 .. Len(mem) : Append(mem, <<>>)[b] = mem[b]
    BY <2>5, <1>0
  <2> QED BY <2>1, <2>3, <2>4, <2>6, <1>0, <1>1
<1>2. CASE list.block # 0
  <2>1. /\ list.block \in 1 .. Len(mem) /\ L \in Seq(Elem) /\ Len(L) = list.nelem
        /\ list.nelem >= 1 /\ initialized
    BY <1>2, <1>0 DEF Inv, ListInv, L
  <2>2. CASE list.nelem = list.size
    <3>1. Extended(list) = [block |-> new, size |-> 2 * list.size, nelem |-> list.nelem]
      BY <2>1, <2>2, <1>0, Zenon DEF Extended, Lists
    <3>2. Blocks(list) = Append(mem, L)
      BY <3>1, <2>1, <1>0, SMTT(60) DEF Blocks, L
    <3>3. /\ Append(mem, L) \in Seq(Seq(Elem))
          /\ Len(Append(mem, L)) = new /\ Append(mem, L)[new] = L
          /\ \A b \in 1 .. Len(mem) : Append(mem, L)[b] = mem[b]
      BY <2>1, <1>0
    <3>4. Extended(list) \in Lists /\ list.nelem < 2 * list.size
      BY <3>1, <2>1, <2>2, <1>0 DEF Lists
    <3>5. Full
      BY <2>1, <2>2, Zenon DEF Full
    <3> QED BY <3>1, <3>2, <3>3, <3>4, <3>5, <2>1, <1>0, SMTT(60)
  <2>3. CASE list.nelem # list.size
    <3>1. Extended(list) = list /\ Blocks(list) = mem
      BY <2>1, <2>3, Zenon DEF Extended, Blocks
    <3>2. ~lost => list.nelem < list.size
      BY <2>3, <1>0 DEF Inv, RoomInv
    <3>3. mem[list.block] = L
      BY Zenon DEF L
    <3> QED BY <3>1, <3>2, <3>3, <2>1, <1>0, SMTT(60)
  <2> QED BY <2>2, <2>3, Zenon
<1> QED BY <1>1, <1>2, Zenon

\* The handlers of the list stay what they are, and one is added.
LEMMA AddedGrows ==
    ASSUME Inv, NEW own \in BOOLEAN, made < MaxHandlers, Added(own)
    PROVE  /\ mem' \in Seq(Seq(Elem)) /\ list' \in Lists
           /\ list'.block \in 1 .. Len(mem') /\ Len(mem') >= Len(mem)
           /\ list'.nelem = list.nelem + 1 /\ (~lost => list'.nelem <= list'.size)
           /\ L' \in Seq(Elem) /\ Len(L') = list'.nelem
           /\ L'[list.nelem + 1].h = made + 1 /\ ~L'[list.nelem + 1].done
           /\ list.block # 0 => \A k \in 1 .. list.nelem : L'[k] = L[k]
           /\ \A b \in 1 .. Len(mem) : b # list'.block => mem'[b] = mem[b]
           /\ \A b \in 1 .. Len(mem') : b \in 1 .. Len(mem) \/ b = list'.block
           /\ initialized' = TRUE /\ registered' = TRUE /\ made' = made + 1
           /\ \/ list'.block = list.block
              \/ list'.block = Len(mem) + 1 /\ (list.block = 0 \/ Full)
<1> DEFINE e == [h |-> made + 1, own |-> own, done |-> FALSE]
           l == Extended(list)
           M == Blocks(list)
<1>1. e \in Elem /\ e.h = made + 1 /\ e.done = FALSE
  BY CxaAssumption DEF Elem, Inv, Types
<1>2. /\ l \in Lists
      /\ l.nelem = list.nelem /\ (~lost => list.nelem < l.size)
      /\ M \in Seq(Seq(Elem)) /\ l.block \in 1 .. Len(M) /\ Len(M) >= Len(mem)
      /\ \A b \in 1 .. Len(mem) : M[b] = mem[b]
      /\ \A b \in 1 .. Len(M) : b \in 1 .. Len(mem) \/ b = l.block
      /\ Len(M[l.block]) = list.nelem
      /\ list.block # 0 => M[l.block] = L
      /\ \/ l.block = list.block
         \/ l.block = Len(mem) + 1 /\ (list.block = 0 \/ Full)
  BY RoomMade, Zenon
<1>3. /\ list' = [l EXCEPT !.nelem = @ + 1]
      /\ mem' = [M EXCEPT ![l.block] = Append(@, e)]
      /\ initialized' = TRUE /\ registered' = TRUE /\ made' = made + 1
  BY DEF Added
<1>4. list.nelem \in Nat /\ Len(mem) \in Nat
  BY DEF Inv, Types, Lists
<1> HIDE DEF e, l, M
<1>5. M[l.block] \in Seq(Elem)
  BY <1>2
<1>6. /\ Append(M[l.block], e) \in Seq(Elem)
      /\ Len(Append(M[l.block], e)) = list.nelem + 1
      /\ Append(M[l.block], e)[list.nelem + 1] = e
      /\ \A k \in 1 .. list.nelem : Append(M[l.block], e)[k] = M[l.block][k]
  <2>1. Len(M[l.block]) = list.nelem
    BY <1>2, Zenon
  <2>2. e \in Elem
    BY <1>1, Zenon
  <2> QED BY ONLY <2>2, <1>5, <2>1, Appended
<1>7. /\ mem' \in Seq(Seq(Elem)) /\ Len(mem') = Len(M)
      /\ \A b \in 1 .. Len(M) : b # l.block => mem'[b] = M[b]
      /\ mem'[l.block] = Append(M[l.block], e)
  <2>1. mem' = [M EXCEPT ![l.block] = Append(M[l.block], e)]
    BY <1>3, Zenon
  <2>2. /\ M \in Seq(Seq(Elem)) /\ l.block \in 1 .. Len(M)
        /\ Append(M[l.block], e) \in Seq(Elem)
    BY <1>2, <1>6, Zenon
  <2> QED BY ONLY <2>1, <2>2, Updated
<1>8. /\ list'.block = l.block /\ list'.nelem = list.nelem + 1 /\ list'.size = l.size
      /\ list' \in Lists
  <2>1. l \in Lists /\ l.nelem = list.nelem /\ list' = [l EXCEPT !.nelem = @ + 1]
    BY <1>2, <1>3, Zenon
  <2> QED BY ONLY <2>1, <1>4 DEF Lists
<1>9. L' = Append(M[l.block], e)
  BY <1>7, <1>8, Zenon DEF L
<1>10. /\ L' \in Seq(Elem) /\ Len(L') = list'.nelem
       /\ L'[list.nelem + 1].h = made + 1 /\ ~L'[list.nelem + 1].done
       /\ list.block # 0 => \A k \in 1 .. list.nelem : L'[k] = L[k]
  BY <1>1, <1>2, <1>6, <1>8, <1>9, Zenon
<1>11. \A b \in 1 .. Len(mem) : b # list'.block => mem'[b] = mem[b]
  <2>1. \A b \in 1 .. Len(mem) : b \in 1 .. Len(M)
    BY <1>2, <1>4
  <2> QED BY <1>2, <1>7, <1>8, <2>1, Zenon
<1>12. ~lost => list'.nelem <= list'.size
  BY <1>2, <1>4, <1>8 DEF Lists
<1>13. \A b \in 1 .. Len(mem') : b \in 1 .. Len(mem) \/ b = list'.block
  BY <1>2, <1>7, <1>8, Zenon
<1> QED BY <1>2, <1>3, <1>7, <1>8, <1>10, <1>11, <1>12, <1>13, Zenon

\* Dropping the list empties its block and leaves the others.
LEMMA DroppedEmpties ==
    ASSUME Inv, Dropped
    PROVE  /\ mem' \in Seq(Seq(Elem)) /\ Len(mem') = Len(mem)
           /\ list' \in Lists /\ list'.block = 0 /\ list'.nelem = 0 /\ list'.size = 0
           /\ \A b \in 1 .. Len(mem) :
                mem'[b] = IF b = list.block THEN <<>> ELSE mem[b]
           /\ initialized' = TRUE /\ registered' = registered /\ made' = made
<1>1. mem \in Seq(Seq(Elem)) /\ DOMAIN mem = 1 .. Len(mem) /\ Len(mem) \in Nat
  BY DEF Inv, Types
<1>2. mem' = [b \in 1 .. Len(mem) |-> IF b = list.block THEN <<>> ELSE mem[b]]
  BY <1>1, Zenon DEF Dropped
<1>3. \A b \in 1 .. Len(mem) : mem[b] \in Seq(Elem) /\ <<>> \in Seq(Elem)
  BY <1>1
<1>4. mem' \in Seq(Seq(Elem)) /\ Len(mem') = Len(mem)
  BY ONLY <1>1, <1>2, <1>3
<1>5. \A b \in 1 .. Len(mem) : mem'[b] = IF b = list.block THEN <<>> ELSE mem[b]
  BY <1>2, Zenon
<1>6. /\ list' \in Lists /\ list'.block = 0 /\ list'.nelem = 0 /\ list'.size = 0
      /\ initialized' = TRUE /\ registered' = registered /\ made' = made
  BY DEF Dropped, Lists
<1> QED BY <1>4, <1>5, <1>6, Zenon

\* What a registration leaves, whether it succeeds or not.
RegisterKept ==
    /\ mem' \in Seq(Seq(Elem)) /\ list' \in Lists
    /\ made' \in made .. MaxHandlers
    /\ ListInv' /\ RanInv'
    /\ lost' \/ RoomInv'
    /\ moved' \/ OnceInv'
    /\ moved' \/ ~moved
    /\ \/ lost'
       \/ ~lost /\ list'.nelem >= list.nelem
               /\ (moved' \/ phase = "run" \/ list.block = 0 \/ list'.block = list.block)

\* A registration, by a thread or by a handler.
LEMMA RegisterInv ==
    ASSUME Inv, NEW own \in BOOLEAN, made < MaxHandlers,
           register_with_atexit(own), phase \in {"run", "end"} => handler' = "none",
           UNCHANGED <<phase, ran, walk>>
    PROVE  RegisterKept
<1>0. /\ made \in Nat /\ MaxHandlers \in Nat /\ made <= MaxHandlers /\ list.nelem \in Nat
      /\ list.block \in Nat /\ Len(mem) \in Nat /\ ran \in Seq(1 .. MaxHandlers)
      /\ walk.block \in Nat
  BY CxaAssumption DEF Inv, Types, Lists, Walks
<1>r. /\ phase = "run" => ran = <<>>
      /\ walk.block \in 0 .. Len(mem)
  BY DEF Inv, RanInv
<1>n. \A j \in 1 .. Len(ran) : ran[j] \in Nat
  BY <1>0
<1>1. CASE UNCHANGED <<mem, list, initialized, registered, made, moved, lost>>
  <2>1. ListInv' /\ RanInv'
    BY <1>1 DEF Inv, ListInv, RanInv, L
  <2>2. lost' \/ RoomInv'
    BY <1>1, Zenon DEF Inv, RoomInv
  <2>3. moved' \/ OnceInv'
    <3>1. OnceInv => OnceInv'
      BY <1>1 DEF OnceInv, L
    <3> QED BY <3>1, <1>1, Zenon DEF Inv
  <2>4. mem' \in Seq(Seq(Elem)) /\ list' \in Lists /\ made' \in made .. MaxHandlers
        /\ list'.nelem >= list.nelem
    BY <1>0, <1>1 DEF Inv, Types
  <2>5. Flags /\ (moved' <=> moved) /\ (lost' <=> lost) /\ list' = list
    BY <1>1, Zenon DEF Inv
  <2> QED BY <2>1, <2>2, <2>3, <2>4, <2>5, Zenon DEF RegisterKept
<1>2. CASE /\ Added(own)
           /\ IF phase # "run" /\ Full /\ list.block # 0 THEN moved' = TRUE
                                                       ELSE UNCHANGED moved
           /\ UNCHANGED lost
  <2>1. /\ mem' \in Seq(Seq(Elem)) /\ list' \in Lists
        /\ list'.block \in 1 .. Len(mem') /\ Len(mem') >= Len(mem)
        /\ list'.nelem = list.nelem + 1 /\ (~lost => list'.nelem <= list'.size)
        /\ L' \in Seq(Elem) /\ Len(L') = list'.nelem
        /\ L'[list.nelem + 1].h = made + 1
        /\ list.block # 0 => \A k \in 1 .. list.nelem : L'[k] = L[k]
        /\ \A b \in 1 .. Len(mem) : b # list'.block => mem'[b] = mem[b]
        /\ initialized' = TRUE /\ registered' = TRUE /\ made' = made + 1
        /\ \/ list'.block = list.block
           \/ list'.block = Len(mem) + 1 /\ (list.block = 0 \/ Full)
    BY <1>2, AddedGrows, Zenon
  <2>2. /\ list.block = 0 => list.nelem = 0
        /\ list.block # 0 =>
             /\ Len(L) = list.nelem
             /\ \A k \in 1 .. Len(L) : L[k].h <= made
             /\ \A j, k \in 1 .. Len(L) : L[j].h = L[k].h => j = k
    BY DEF Inv, ListInv
  <2>3. ASSUME NEW k \in 1 .. list.nelem
        PROVE  list.block # 0 /\ k \in 1 .. Len(L) /\ L'[k] = L[k]
    <3>1. list.block # 0
      BY <2>2, <1>0
    <3> QED BY <3>1, <2>1, <2>2, Zenon
  <2>4. /\ \A k \in 1 .. list.nelem : L'[k].h <= made
        /\ \A j, k \in 1 .. list.nelem : L'[j].h = L'[k].h => j = k
    BY <2>3, <2>2, Zenon
  <2>5. /\ L' \in Seq(Elem) /\ Len(L') = list.nelem + 1 /\ L'[list.nelem + 1].h = made + 1
        /\ list'.block # 0
    BY <2>1
  <2>6. /\ \A k \in 1 .. Len(L') : L'[k].h <= made + 1
        /\ \A j, k \in 1 .. Len(L') : L'[j].h = L'[k].h => j = k
    BY <2>4, <2>5, <1>0, OneMore, Zenon
  <2>a. list'.nelem = list.nelem + 1 /\ list'.nelem >= 1 /\ list'.nelem >= list.nelem
        /\ made' = made + 1 /\ made' \in made .. MaxHandlers
    BY <2>1, <1>0, SMTT(60)
  <2>7. ListInv'
    <3>1. list'.block \in 0 .. Len(mem') /\ list'.block # 0
      BY <2>1, <2>5
    <3> QED BY <3>1, <2>a, <2>1, <2>6, Zenon DEF ListInv
  <2>8. RanInv'
    <3>1. walk.block \in 0 .. Len(mem')
      BY <2>1, <1>0, <1>r
    <3> QED BY <3>1, <1>r, Zenon DEF RanInv
  <2>9. lost' \/ RoomInv'
    BY <1>2, <2>1, <2>5, Zenon DEF RoomInv
  <2>10. moved' \/ (~moved /\ (phase = "run" \/ ~Full \/ list.block = 0))
    <3>1. CASE phase # "run" /\ Full /\ list.block # 0
      BY <1>2, <3>1, Zenon
    <3>2. CASE ~(phase # "run" /\ Full /\ list.block # 0)
      <4>1. moved' <=> moved
        BY <1>2, <3>2, Zenon
      <4> QED BY <4>1, <3>2, Zenon
    <3> QED BY <3>1, <3>2, Zenon
  <2>11. ASSUME ~moved' PROVE OnceInv'
    <3>1. ~moved /\ (phase = "run" \/ list.block = 0 \/ list'.block = list.block)
      BY <2>1, <2>10, <2>11, Zenon
    <3>2. OnceInv
      BY <3>1, Zenon DEF Inv
    <3>6. \A j \in 1 .. Len(ran) : ran[j] <= made
      BY <3>2, Zenon DEF OnceInv
    <3>7. \A j \in 1 .. Len(ran) : ran[j] <= made'
      BY <3>6, <2>a, <1>n, <1>0, SMTT(60)
    <3>3. phase # "run" =>
            walk.block = list'.block \/ walk.block = 0 \/ mem'[walk.block] = <<>>
      <4>1. CASE list'.block = list.block
        <5>1. walk.block = list'.block \/ walk.block = 0 \/ walk.block \in 1 .. Len(mem)
          BY <1>r, <1>0
        <5> QED BY <4>1, <5>1, <3>2, <2>1, Zenon DEF OnceInv
      <4>2. CASE list.block = 0 /\ list'.block = Len(mem) + 1
        <5>1. walk.block = 0 \/ (walk.block \in 1 .. Len(mem) /\ walk.block # list'.block)
          BY <4>2, <1>r, <1>0
        <5> QED BY <4>2, <5>1, <3>2, <2>1, Zenon DEF OnceInv
      <4> QED BY <4>1, <4>2, <3>1, <2>1, Zenon
    <3>4. ASSUME NEW j \in 1 .. Len(ran), NEW k \in 1 .. Len(L'), L'[k].h = ran[j]
          PROVE  L'[k].done
      <4>0. made \in Nat /\ ran[j] \in Nat /\ ran[j] <= made
        BY <3>6, <1>n, <1>0, Zenon
      <4>1. k # list.nelem + 1
        <5>1. L'[k].h # made + 1
          BY ONLY <3>4, <4>0
        <5> QED BY <5>1, <2>5, Zenon
      <4>2. k \in 1 .. list.nelem
        BY <4>1, <2>5, <1>0, SMTT(60)
      <4>3. list.block # 0 /\ k \in 1 .. Len(L) /\ L'[k] = L[k]
        BY <4>2, <2>3, Zenon
      <4> QED BY <4>3, <3>4, <3>2, Zenon DEF OnceInv
    <3>5. \A j, k \in 1 .. Len(ran) : ran[j] = ran[k] => j = k
      BY <3>2, Zenon DEF OnceInv
    <3> QED BY <3>3, <3>4, <3>5, <3>7, Zenon DEF OnceInv
  <2>12. \/ lost'
         \/ ~lost /\ (moved' \/ phase = "run" \/ list.block = 0 \/ list'.block = list.block)
    <3>1. lost' <=> lost
      BY <1>2, Zenon
    <3>2. \/ list'.block = list.block
          \/ list'.block = Len(mem) + 1 /\ (list.block = 0 \/ Full)
      BY <2>1, Zenon
    <3> QED BY <3>1, <3>2, <2>10, Zenon
  <2> QED BY <2>1, <2>a, <2>7, <2>8, <2>9, <2>10, <2>11, <2>12, Zenon DEF RegisterKept
<1>3. CASE Dropped /\ lost' = TRUE /\ UNCHANGED moved
  <2>1. /\ mem' \in Seq(Seq(Elem)) /\ Len(mem') = Len(mem)
        /\ list' \in Lists /\ list'.block = 0 /\ list'.nelem = 0 /\ list'.size = 0
        /\ \A b \in 1 .. Len(mem) :
             mem'[b] = IF b = list.block THEN <<>> ELSE mem[b]
        /\ made' = made
    BY <1>3, DroppedEmpties, Zenon
  <2>2. made' \in made .. MaxHandlers /\ list'.block \in 0 .. Len(mem')
    BY <2>1, <1>0
  <2>3. ListInv'
    BY <2>1, <2>2, Zenon DEF ListInv
  <2>4. RanInv'
    BY <2>1, <1>r, Zenon DEF RanInv
  <2>5. ASSUME ~moved' PROVE OnceInv'
    <3>1. OnceInv
      BY <1>3, <2>5, Zenon DEF Inv
    <3>2. walk.block = 0 \/ walk.block \in 1 .. Len(mem)
      BY <1>r, <1>0
    <3>3. phase # "run" =>
            walk.block = list'.block \/ walk.block = 0 \/ mem'[walk.block] = <<>>
      BY <3>1, <3>2, <2>1, Zenon DEF OnceInv
    <3> QED BY <3>1, <3>3, <2>1, Zenon DEF OnceInv
  <2>6. moved' \/ ~moved
    BY <1>3, Zenon
  <2> QED BY <1>3, <2>1, <2>2, <2>3, <2>4, <2>5, <2>6, Zenon DEF RegisterKept
<1> QED BY <1>1, <1>2, <1>3, Zenon DEF register_with_atexit

\* Calling a handler marks its element, and is remembered.
LEMMA CallMarks ==
    ASSUME Inv, Call, InBlock(walk)
    PROVE  /\ walk.block \in 1 .. Len(mem) /\ mem[walk.block] \in Seq(Elem)
           /\ walk.p \in 1 .. Len(mem[walk.block])
           /\ Element = mem[walk.block][walk.p] /\ Element.h \in 1 .. MaxHandlers
           /\ mem' \in Seq(Seq(Elem)) /\ Len(mem') = Len(mem)
           /\ mem'[walk.block] = Mark(mem[walk.block], walk.p)
           /\ \A b \in 1 .. Len(mem) : b # walk.block => mem'[b] = mem[b]
           /\ ran \in Seq(1 .. MaxHandlers)
           /\ ran' \in Seq(1 .. MaxHandlers) /\ Len(ran') = Len(ran) + 1
           /\ ran'[Len(ran) + 1] = Element.h
           /\ \A j \in 1 .. Len(ran) : ran'[j] = ran[j]
<1> DEFINE p == walk.p
           b == walk.block
           B == mem[walk.block]
<1>0. /\ mem \in Seq(Seq(Elem)) /\ b \in 1 .. Len(mem)
      /\ B \in Seq(Elem) /\ p \in 1 .. Len(B) /\ Element = B[p] /\ B[p] \in Elem
      /\ ran \in Seq(1 .. MaxHandlers)
  BY DEF Inv, Types, InBlock, Element
<1>1. /\ mem' = [mem EXCEPT ![b] = Mark(B, p)]
      /\ ran' = Append(ran, Element.h)
  BY Zenon DEF Call, Mark
<1>2. Mark(B, p) \in Seq(Elem)
  <2>1. B \in Seq(Elem) /\ p \in 1 .. Len(B)
    BY <1>0
  <2> HIDE DEF B, p
  <2> QED BY ONLY <2>1, Marked
<1>3. /\ mem' \in Seq(Seq(Elem)) /\ Len(mem') = Len(mem)
      /\ mem'[b] = Mark(B, p)
      /\ \A c \in 1 .. Len(mem) : c # b => mem'[c] = mem[c]
  <2>1. mem \in Seq(Seq(Elem)) /\ b \in 1 .. Len(mem)
    BY <1>0, Zenon
  <2> HIDE DEF b, B, p
  <2> QED BY ONLY <2>1, <1>1, <1>2, Updated
<1>4. Element.h \in 1 .. MaxHandlers
  BY <1>0, Zenon DEF Elem
<1>5. /\ ran' \in Seq(1 .. MaxHandlers) /\ Len(ran') = Len(ran) + 1
      /\ ran'[Len(ran) + 1] = Element.h
      /\ \A j \in 1 .. Len(ran) : ran'[j] = ran[j]
  <2>1. ran \in Seq(1 .. MaxHandlers)
    BY <1>0
  <2> QED BY ONLY <2>1, <1>1, <1>4, Appended
<1> QED BY <1>0, <1>3, <1>4, <1>5, Zenon

\* The list after a call: its elements have the same handlers.
LEMMA CallList ==
    ASSUME Inv, Call, InBlock(walk), UNCHANGED list, list.block # 0
    PROVE  /\ list.block \in 1 .. Len(mem) /\ L \in Seq(Elem)
           /\ L' \in Seq(Elem) /\ Len(L') = Len(L)
           /\ \A k \in 1 .. Len(L) :
                L'[k].h = L[k].h /\ L'[k].own = L[k].own /\ (L[k].done => L'[k].done)
           /\ walk.block = list.block => walk.p \in 1 .. Len(L) /\ L'[walk.p].done
<1>0. list.block \in 1 .. Len(mem) /\ L \in Seq(Elem)
  BY DEF Inv, Types, ListInv, L
<1>1. L' = mem'[list.block]
  BY Zenon DEF L
<1>2. CASE walk.block = list.block
  <2>1. L' = Mark(L, walk.p) /\ walk.p \in 1 .. Len(L)
    BY <1>1, <1>2, CallMarks, Zenon DEF L
  <2>2. /\ Mark(L, walk.p) \in Seq(Elem) /\ Len(Mark(L, walk.p)) = Len(L)
        /\ Mark(L, walk.p)[walk.p].done
        /\ \A k \in 1 .. Len(L) :
             /\ Mark(L, walk.p)[k].h = L[k].h /\ Mark(L, walk.p)[k].own = L[k].own
             /\ L[k].done => Mark(L, walk.p)[k].done
    <3> DEFINE p == walk.p
    <3>1. p \in 1 .. Len(L) /\ L \in Seq(Elem)
      BY <2>1, <1>0
    <3> HIDE DEF p
    <3>2. /\ Mark(L, p) \in Seq(Elem) /\ Len(Mark(L, p)) = Len(L)
          /\ Mark(L, p)[p].done
          /\ \A k \in 1 .. Len(L) :
               /\ Mark(L, p)[k].h = L[k].h /\ Mark(L, p)[k].own = L[k].own
               /\ L[k].done => Mark(L, p)[k].done
      BY ONLY <3>1, Marked, Zenon
    <3> QED BY <3>2, Zenon DEF p
  <2> QED BY <1>0, <2>1, <2>2, Zenon
<1>3. CASE walk.block # list.block
  <2>1. L' = L
    BY <1>0, <1>1, <1>3, CallMarks, Zenon DEF L
  <2> QED BY <1>0, <1>3, <2>1, Zenon
<1> QED BY <1>2, <1>3, Zenon

\* Until the list is moved, a loop that reads an element reads one of the list.
LEMMA InList ==
    ASSUME Inv, ~moved, InBlock(walk), phase \in {"callback", "cleanup"}
    PROVE  /\ walk.block = list.block /\ list.block # 0
           /\ walk.p \in 1 .. Len(L) /\ Element = L[walk.p]
<1>1. OnceInv
  BY Zenon DEF Inv
<1>2. walk.block # 0 /\ mem[walk.block] # <<>> /\ walk.p \in 1 .. Len(mem[walk.block])
  <2>1. mem \in Seq(Seq(Elem))
    BY DEF Inv, Types
  <2>2. walk.block \in 1 .. Len(mem) /\ mem[walk.block] \in Seq(Elem)
        /\ walk.p \in DOMAIN mem[walk.block]
    BY <2>1 DEF InBlock
  <2> QED BY ONLY <2>2
<1>3. walk.block = list.block
  BY <1>1, <1>2 DEF OnceInv
<1> QED BY <1>2, <1>3, Zenon DEF L, Element

\* Calling the handler of an element that is not done.
LEMMA CallInv ==
    ASSUME Inv, Call, InBlock(walk), ~Element.done,
           phase \in {"callback", "cleanup"},
           UNCHANGED <<list, made, initialized, registered, phase, walk, moved, lost>>
    PROVE  /\ mem' \in Seq(Seq(Elem)) /\ ran' \in Seq(1 .. MaxHandlers)
           /\ ListInv' /\ RanInv' /\ (lost' \/ RoomInv') /\ (moved' \/ OnceInv')
<1>0. /\ walk.block \in 1 .. Len(mem) /\ mem[walk.block] \in Seq(Elem)
      /\ walk.p \in 1 .. Len(mem[walk.block])
      /\ Element = mem[walk.block][walk.p] /\ Element.h \in 1 .. MaxHandlers
      /\ mem' \in Seq(Seq(Elem)) /\ Len(mem') = Len(mem)
      /\ ran \in Seq(1 .. MaxHandlers)
      /\ ran' \in Seq(1 .. MaxHandlers) /\ Len(ran') = Len(ran) + 1
      /\ ran'[Len(ran) + 1] = Element.h
      /\ \A j \in 1 .. Len(ran) : ran'[j] = ran[j]
  BY CallMarks, Zenon
<1>1. Len(ran) \in Nat /\ \A j \in 1 .. Len(ran') : j \in 1 .. Len(ran) \/ j = Len(ran) + 1
  BY <1>0, SMTT(60)
<1>6. /\ \A j \in 1 .. Len(ran) : ran'[j] = ran[j]
      /\ ran'[Len(ran) + 1] = Element.h
  BY <1>0, Zenon
<1>2. ListInv'
  <2>1. CASE list.block = 0
    BY <2>1, <1>0, Zenon DEF Inv, ListInv
  <2>2. CASE list.block # 0
    <3>1. /\ list.block \in 0 .. Len(mem) /\ initialized /\ registered
          /\ Len(L) = list.nelem /\ list.nelem >= 1
          /\ \A k \in 1 .. Len(L) : L[k].h <= made
          /\ \A j, k \in 1 .. Len(L) : L[j].h = L[k].h => j = k
      BY <2>2, Zenon DEF Inv, ListInv
    <3>2. Len(L') = Len(L) /\ \A k \in 1 .. Len(L) : L'[k].h = L[k].h
      BY <2>2, CallList, Zenon
    <3> QED BY <2>2, <3>1, <3>2, <1>0, Zenon DEF ListInv
  <2> QED BY <2>1, <2>2, Zenon
<1>3. RanInv'
  BY <1>0, Zenon DEF Inv, RanInv
<1>4. lost' \/ RoomInv'
  BY Zenon DEF Inv, RoomInv
<1>5. ASSUME ~moved' PROVE OnceInv'
  <2>1. OnceInv
    BY <1>5, Zenon DEF Inv
  <2>3. walk.block = list.block /\ list.block # 0 /\ Element = L[walk.p]
    BY <1>5, InList, Zenon
  <2>4. /\ Len(L') = Len(L) /\ walk.p \in 1 .. Len(L) /\ L'[walk.p].done
        /\ \A k \in 1 .. Len(L) : L'[k].h = L[k].h /\ (L[k].done => L'[k].done)
        /\ Element = L[walk.p]
    BY <2>3, CallList, Zenon
  <2>5. /\ \A k \in 1 .. Len(L) : L[k].h <= made
        /\ \A j, k \in 1 .. Len(L) : L[j].h = L[k].h => j = k
    BY <2>3, Zenon DEF Inv, ListInv
  <2>6. /\ \A j \in 1 .. Len(ran), k \in 1 .. Len(L) : L[k].h = ran[j] => L[k].done
        /\ \A j \in 1 .. Len(ran) : ran[j] <= made
        /\ \A j, k \in 1 .. Len(ran) : ran[j] = ran[k] => j = k
    BY <2>1, <2>3, Zenon DEF OnceInv
  <2>7. \A j \in 1 .. Len(ran) : ran[j] # Element.h
    BY <2>4, <2>6, Zenon
  <2>8. ASSUME NEW j \in 1 .. Len(ran'), NEW k \in 1 .. Len(L'), L'[k].h = ran'[j]
        PROVE  L'[k].done
    <3>1. CASE j \in 1 .. Len(ran)
      BY <3>1, <2>8, <2>4, <2>6, <1>6, ZenonT(60)
    <3>2. CASE j = Len(ran) + 1
      <4>1. L[k].h = L[walk.p].h
        BY <3>2, <2>8, <2>4, <1>6, Zenon
      <4>2. k = walk.p
        BY <4>1, <2>4, <2>5, Zenon
      <4> QED BY <4>2, <2>4, Zenon
    <3> QED BY <3>1, <3>2, <1>1, Zenon
  <2>9. \A j \in 1 .. Len(ran') : ran'[j] <= made'
    <3>1. Element.h <= made /\ made' = made
      BY <2>4, <2>5, Zenon
    <3> TAKE j \in 1 .. Len(ran')
    <3>2. CASE j \in 1 .. Len(ran)
      BY <3>1, <3>2, <2>6, <1>6, Zenon
    <3>3. CASE j = Len(ran) + 1
      BY <3>1, <3>3, <1>6, Zenon
    <3> QED BY <3>2, <3>3, <1>1, Zenon
  <2>10. \A j, k \in 1 .. Len(ran') : ran'[j] = ran'[k] => j = k
    BY <2>6, <2>7, <1>6, <1>1, Zenon
  <2> QED BY <2>3, <2>8, <2>9, <2>10, Zenon DEF OnceInv
<1> QED BY <1>0, <1>2, <1>3, <1>4, <1>5, Zenon

\* The steps of the loops that call nothing leave the list as it is.
LEMMA ListKept ==
    ASSUME Inv, UNCHANGED <<mem, list, initialized, registered, made, ran, moved, lost>>,
           phase' = "end" => handler' = "none", phase' # "run",
           \/ walk'.block = list.block \/ walk'.block = 0
           \/ phase # "run" /\ walk'.block = walk.block
    PROVE  ListInv' /\ RanInv' /\ (lost' \/ RoomInv') /\ (moved' \/ OnceInv')
<1>1. ListInv'
  BY Zenon DEF Inv, ListInv, L
<1>2. RanInv'
  <2>1. walk'.block \in 0 .. Len(mem)
    <3>1. list.block \in 0 .. Len(mem) /\ walk.block \in 0 .. Len(mem)
      BY Zenon DEF Inv, ListInv, RanInv
    <3>2. Len(mem) \in Nat
      BY DEF Inv, Types
    <3> QED BY <3>1, <3>2
  <2> QED BY <2>1, Zenon DEF RanInv
<1>3. lost' \/ RoomInv'
  BY Zenon DEF Inv, RoomInv
<1>4. ASSUME ~moved' PROVE OnceInv'
  <2>1. OnceInv
    BY <1>4, Zenon DEF Inv
  <2> QED BY <2>1, Zenon DEF OnceInv, L
<1> QED BY <1>1, <1>2, <1>3, <1>4, Zenon

LEMMA LoopTypes ==
    ASSUME NEW w \in Walks
    PROVE  /\ Down(w) \in Walks /\ Down(w).block = w.block
           /\ Down(w).p = w.p - 1 /\ Down(w).i = w.i - 1
           /\ Up(w) \in Walks /\ Up(w).block = w.block
           /\ Up(w).p = w.p + 1 /\ Up(w).i = w.i + 1
<1>1. w.p - 1 \in Int /\ w.i - 1 \in Int /\ w.p + 1 \in Int /\ w.i + 1 \in Int
  BY DEF Walks
<1> QED BY <1>1, Zenon DEF Down, Up, Walks

LEMMA FlagsInv ==
    ASSUME Inv, Next
    PROVE  Flags'
<1>0. /\ shared \in BOOLEAN /\ initialized \in BOOLEAN
      /\ registered \in BOOLEAN /\ locked \in BOOLEAN
      /\ moved \in BOOLEAN /\ lost \in BOOLEAN
  BY DEF Inv, Flags
<1>1. ASSUME NEW own \in BOOLEAN, register_with_atexit(own), UNCHANGED <<shared, locked>>
      PROVE  Flags'
  BY <1>0, <1>1, Zenon DEF Flags, register_with_atexit, Added, Dropped
<1>2. ASSUME NEW own \in BOOLEAN, cxa_atexit(own) PROVE Flags'
  BY <1>1, <1>2, Zenon DEF cxa_atexit
<1>3. ASSUME NEW own \in BOOLEAN, HandlerRegisters(own) PROVE Flags'
  BY <1>1, <1>3, Zenon DEF HandlerRegisters
<1>4. CASE Exit
  BY <1>0, <1>4, Zenon DEF Flags, Exit
<1>5. CASE HandlerGivesUp
  BY <1>0, <1>5, Zenon DEF Flags, HandlerGivesUp
<1>6. CASE HandlerReturns
  BY <1>0, <1>6, Zenon DEF Flags, HandlerReturns, WalkOnly
<1>7. CASE Exiting
  BY <1>0, <1>7, Zenon DEF Flags, Exiting, cxa_atexit_callback, do_cleanup, FinalizeAll,
     FinalizeDso, Finished, WalkOnly
<1> QED BY <1>2, <1>3, <1>4, <1>5, <1>6, <1>7, Zenon DEF Next, Handler

\* Every action keeps the types, the list, the loop's place in it and what the
\* list says of the handlers that have run.
LEMMA NextInv ==
    ASSUME Inv, Next
    PROVE  Inv'
<1> DEFINE Lasting == ListInv' /\ RanInv' /\ (lost' \/ RoomInv') /\ (moved' \/ OnceInv')
           Rest == Types' /\ Lasting /\ (moved' \/ lost' \/ WalkInv')
<1> SUFFICES Rest
  BY FlagsInv DEF Inv
<1>0. /\ Types /\ ListInv /\ RanInv /\ MaxHandlers \in Nat
      /\ moved \/ lost \/ WalkInv
  BY CxaAssumption DEF Inv
<1>l. /\ list.block \in Nat /\ list.nelem \in Nat
      /\ walk \in Walks /\ walk.p \in Int /\ walk.i \in Int
      /\ (list.block # 0 => list.nelem >= 1)
  BY <1>0 DEF Types, Lists, Walks, ListInv
<1>1. ASSUME NEW own \in BOOLEAN, cxa_atexit(own) PROVE Rest
  <2>1. /\ phase = "run" /\ made < MaxHandlers /\ register_with_atexit(own)
        /\ UNCHANGED <<shared, locked, phase, walk, handler, before, late, ran>>
    BY <1>1 DEF cxa_atexit
  <2>2. RegisterKept
    <3>1. phase \in {"run", "end"} => handler' = "none"
      BY <2>1, <1>0 DEF RanInv
    <3> QED BY <2>1, <3>1, RegisterInv, Zenon
  <2>3. Types'
    BY <2>1, <2>2, <1>0 DEF Types, RegisterKept
  <2>4. WalkInv'
    BY <2>1 DEF WalkInv
  <2> QED BY <2>2, <2>3, <2>4, Zenon DEF RegisterKept
<1>2. ASSUME NEW own \in BOOLEAN, HandlerRegisters(own) PROVE Rest
  <2>1. /\ handler = "registers" /\ made < MaxHandlers
        /\ register_with_atexit(own) /\ handler' \in Doings
        /\ UNCHANGED <<shared, locked, phase, walk, before, late, ran>>
    BY <1>2, Zenon DEF HandlerRegisters
  <2>2. phase \in {"callback", "cleanup"}
    BY <2>1, <1>0 DEF Types, RanInv
  <2>3. RegisterKept
    <3>1. phase \in {"run", "end"} => handler' = "none"
      BY <2>2
    <3> QED BY <2>1, <3>1, RegisterInv, Zenon
  <2>4. Types'
    BY <2>1, <2>3, <1>0 DEF Types, RegisterKept
  <2>5. ASSUME ~moved', ~lost' PROVE WalkInv'
    <3>1. WalkInv /\ list'.nelem >= list.nelem
          /\ (list.block = 0 \/ list'.block = list.block)
      BY <2>2, <2>3, <2>5, <1>0 DEF RegisterKept
    <3>2. list'.nelem \in Nat
      BY <2>3 DEF RegisterKept, Lists
    <3>3. list.block = 0 => list.nelem = 0
      BY <1>0, Zenon DEF ListInv
    <3>4. handler # "none"
      BY <2>1
    <3> QED BY <3>1, <3>2, <3>3, <3>4, <2>1, <2>2, <1>l DEF WalkInv
  <2> QED BY <2>3, <2>4, <2>5, Zenon DEF RegisterKept
<1>3. CASE Exit
  <2>0. /\ phase = "run" /\ phase' = "callback" /\ handler' = handler /\ handler = "none"
        /\ walk' = (IF registered THEN FromLast ELSE NoWalk) /\ before' = made
        /\ UNCHANGED <<shared, mem, list, initialized, registered, locked, made, handler,
                       late, ran, moved, lost>>
    BY <1>3, <1>0 DEF Exit, RanInv
  <2>1. /\ walk'.p = walk'.i /\ walk' \in Walks
        /\ \/ walk'.block = 0 /\ walk'.i = 0
           \/ walk'.block = list.block /\ walk'.i = list.nelem
    BY <2>0, <1>l DEF FromLast, NoWalk, Walks
  <2>2. Lasting
    BY <2>0, <2>1, ListKept, Zenon
  <2>3. Types'
    BY <2>0, <2>1, <1>0 DEF Types
  <2>4. WalkInv'
    BY <2>0, <2>1, <1>l DEF WalkInv
  <2> QED BY <2>2, <2>3, <2>4, Zenon
<1>4. CASE HandlerGivesUp
  <2>0. phase \in {"callback", "cleanup"}
    BY <1>4, <1>0 DEF HandlerGivesUp, Types, RanInv
  <2>1. Lasting
    BY <1>4, <2>0, ListKept DEF HandlerGivesUp
  <2>2. Types'
    BY <1>4, <1>0, Zenon DEF HandlerGivesUp, Types, Doings
  <2>3. moved' \/ lost' \/ WalkInv'
    <3>1. WalkInv => WalkInv'
      BY <1>4, Zenon DEF HandlerGivesUp, WalkInv
    <3> QED BY <1>0, <1>4, <3>1, Zenon DEF HandlerGivesUp
  <2> QED BY <2>1, <2>2, <2>3
<1>5. CASE HandlerReturns
  <2>0. /\ handler # "none" /\ handler' = "none" /\ phase' = phase
        /\ walk' = IF phase = "cleanup" /\ shared THEN Up(walk) ELSE Down(walk)
        /\ UNCHANGED <<mem, phase, late, ran, shared, list, initialized, registered, made,
                       before, moved, lost>>
    BY <1>5 DEF HandlerReturns, WalkOnly
  <2>1. phase \in {"callback", "cleanup"}
    BY <2>0, <1>0 DEF Types, RanInv
  <2>2. /\ walk' \in Walks /\ walk'.block = walk.block
        /\ IF phase = "cleanup" /\ shared
           THEN walk'.p = walk.p + 1 /\ walk'.i = walk.i + 1
           ELSE walk'.p = walk.p - 1 /\ walk'.i = walk.i - 1
    BY <2>0, <1>l, LoopTypes, Zenon
  <2>3. Lasting
    BY <2>0, <2>1, <2>2, ListKept
  <2>4. Types'
    BY <2>0, <2>2, <1>0 DEF Types
  <2>5. moved' \/ lost' \/ WalkInv'
    <3>1. WalkInv => WalkInv'
      BY <2>0, <2>1, <2>2, <1>l DEF WalkInv
    <3> QED BY <1>0, <2>0, <3>1, Zenon
  <2> QED BY <2>3, <2>4, <2>5
<1>c. ASSUME Call, InBlock(walk), ~Element.done, phase \in {"callback", "cleanup"},
             UNCHANGED <<phase, walk, late>>, WalkOnly,
             WalkInv => walk.p \in 1 .. list.nelem
      PROVE  Rest
  <2>1. UNCHANGED <<shared, list, made, initialized, registered, before, moved, lost>>
    BY <1>c DEF WalkOnly
  <2>2. mem' \in Seq(Seq(Elem)) /\ ran' \in Seq(1 .. MaxHandlers) /\ Lasting
    BY <1>c, <2>1, CallInv, Zenon
  <2>3. handler' \in Doings
    BY <1>c DEF Call
  <2>4. Types'
    BY <1>c, <2>1, <2>2, <2>3, <1>0 DEF Types
  <2>5. moved' \/ lost' \/ WalkInv'
    <3>1. WalkInv => WalkInv'
      BY <1>c, <2>1, <1>l DEF WalkInv
    <3> QED BY <1>0, <2>1, <3>1, Zenon
  <2> QED BY <2>2, <2>4, <2>5, Zenon
<1>s. ASSUME Skip, handler = "none", phase \in {"callback", "cleanup"},
             UNCHANGED <<phase, late>>, WalkOnly, walk' \in Walks,
             walk'.block = walk.block, WalkInv => WalkInv'
      PROVE  Rest
  <2>1. UNCHANGED <<shared, mem, handler, ran, list, made, initialized, registered, before,
                    moved, lost>>
    BY <1>s DEF WalkOnly, Skip
  <2>2. Lasting
    BY <1>s, <2>1, ListKept
  <2>3. Types'
    BY <1>s, <2>1, <1>0 DEF Types
  <2>4. moved' \/ lost' \/ WalkInv'
    BY <1>s, <1>0, <2>1, Zenon
  <2> QED BY <2>2, <2>3, <2>4, Zenon
<1>6. CASE cxa_atexit_callback
  <2>0. /\ phase = "callback" /\ handler = "none" /\ walk.i > 0 /\ InBlock(walk)
        /\ UNCHANGED <<phase, late>> /\ WalkOnly
    BY <1>6 DEF cxa_atexit_callback, LoopsOn
  <2>1. CASE Call /\ UNCHANGED walk /\ ~Element.done
    <3>1. WalkInv => walk.p \in 1 .. list.nelem
      BY <2>0, <1>l DEF WalkInv
    <3> QED BY <2>0, <2>1, <3>1, <1>c
  <2>2. CASE Skip /\ walk' = Down(walk)
    <3>1. /\ walk' \in Walks /\ walk'.block = walk.block
          /\ walk'.p = walk.p - 1 /\ walk'.i = walk.i - 1
      BY <2>2, <1>l, LoopTypes, Zenon
    <3>2. WalkInv => WalkInv'
      BY <2>0, <2>2, <3>1, <1>l DEF WalkInv, Skip, WalkOnly
    <3> QED BY <2>0, <2>2, <3>1, <3>2, <1>s
  <2> QED BY <1>6, <2>1, <2>2 DEF cxa_atexit_callback
<1>7. CASE do_cleanup
  <2>0. /\ phase = "callback" /\ handler = "none" /\ late' = made
        /\ UNCHANGED <<mem, handler, ran, shared, list, initialized, registered, made, before,
                       moved, lost>>
        /\ \/ phase' = "end" /\ walk' = walk
           \/ /\ phase' = "cleanup" /\ list.block # 0
              /\ walk' = IF shared THEN FromFirst ELSE FromLast
    BY <1>7, Zenon DEF do_cleanup, Skip, WalkOnly
  <2>1. /\ walk' \in Walks
        /\ \/ phase' = "end" /\ walk'.block = walk.block
           \/ /\ phase' = "cleanup" /\ list.block # 0 /\ walk'.block = list.block
              /\ walk'.i \in 0 .. list.nelem
              /\ walk'.p = IF shared THEN walk'.i + 1 ELSE walk'.i
    BY <2>0, <1>l DEF FromFirst, FromLast, Walks
  <2>2. Lasting
    BY <2>0, <2>1, ListKept
  <2>3. Types'
    BY <2>0, <2>1, <1>0 DEF Types
  <2>4. WalkInv'
    BY <2>0, <2>1, <1>l DEF WalkInv
  <2> QED BY <2>2, <2>3, <2>4
<1>8. CASE FinalizeAll
  <2>0. /\ phase = "cleanup" /\ ~shared /\ handler = "none" /\ walk.i > 0 /\ InBlock(walk)
        /\ UNCHANGED <<phase, late>> /\ WalkOnly
    BY <1>8 DEF FinalizeAll, LoopsOn
  <2>1. CASE Call /\ UNCHANGED walk /\ ~Element.done
    <3>1. WalkInv => walk.p \in 1 .. list.nelem
      BY <2>0, <1>l DEF WalkInv
    <3> QED BY <2>0, <2>1, <3>1, <1>c
  <2>2. CASE Skip /\ walk' = Down(walk)
    <3>1. /\ walk' \in Walks /\ walk'.block = walk.block
          /\ walk'.p = walk.p - 1 /\ walk'.i = walk.i - 1
      BY <2>2, <1>l, LoopTypes, Zenon
    <3>2. WalkInv => WalkInv'
      BY <2>0, <2>2, <3>1, <1>l DEF WalkInv, Skip, WalkOnly
    <3> QED BY <2>0, <2>2, <3>1, <3>2, <1>s
  <2> QED BY <1>8, <2>1, <2>2 DEF FinalizeAll
<1>9. CASE FinalizeDso
  <2>0. /\ phase = "cleanup" /\ shared /\ handler = "none" /\ InBlock(walk)
        /\ walk.i = 0 \/ walk.i < list.nelem
        /\ UNCHANGED <<phase, late>> /\ WalkOnly
    BY <1>9 DEF FinalizeDso, LoopsOn
  <2>1. CASE Call /\ UNCHANGED walk /\ ~Element.done
    <3>1. WalkInv => walk.p \in 1 .. list.nelem
      BY <2>0, <1>l DEF WalkInv
    <3> QED BY <2>0, <2>1, <3>1, <1>c
  <2>2. CASE Skip /\ walk' = Up(walk)
    <3>1. /\ walk' \in Walks /\ walk'.block = walk.block
          /\ walk'.p = walk.p + 1 /\ walk'.i = walk.i + 1
      BY <2>2, <1>l, LoopTypes, Zenon
    <3>2. WalkInv => WalkInv'
      BY <2>0, <2>2, <3>1, <1>l DEF WalkInv, Skip, WalkOnly
    <3> QED BY <2>0, <2>2, <3>1, <3>2, <1>s
  <2> QED BY <1>9, <2>1, <2>2 DEF FinalizeDso
<1>10. CASE Finished
  <2>0. /\ phase = "cleanup" /\ handler = "none" /\ phase' = "end"
        /\ UNCHANGED <<walk, late, mem, handler, ran, shared, list, initialized, registered,
                       made, before, moved, lost>>
    BY <1>10 DEF Finished, Skip, WalkOnly
  <2>1. Lasting
    BY <2>0, ListKept
  <2>2. Types'
    BY <2>0, <1>0 DEF Types
  <2>3. WalkInv'
    BY <2>0 DEF WalkInv
  <2> QED BY <2>1, <2>2, <2>3
<1> HIDE DEF Rest
<1> QED BY <1>1, <1>2, <1>3, <1>4, <1>5, <1>6, <1>7, <1>8, <1>9, <1>10, Zenon
   DEF Next, Handler, Exiting

LEMMA InvCorrect == Spec => []Inv
<1>1. ASSUME Inv, UNCHANGED vars PROVE Inv'
  <2>1. Flags'
    BY <1>1, Zenon DEF Inv, Flags, vars
  <2>2. Types'
    BY <1>1, Zenon DEF Inv, Types, vars
  <2>3. ListInv' /\ RanInv'
    BY <1>1, Zenon DEF Inv, ListInv, RanInv, L, vars
  <2>4. lost' \/ RoomInv'
    BY <1>1, Zenon DEF Inv, RoomInv, vars
  <2>5. moved' \/ OnceInv'
    BY <1>1, Zenon DEF Inv, OnceInv, L, vars
  <2>6. moved' \/ lost' \/ WalkInv'
    BY <1>1, Zenon DEF Inv, WalkInv, vars
  <2> QED BY <2>1, <2>2, <2>3, <2>4, <2>5, <2>6, Zenon DEF Inv
<1>2. Inv /\ [Next]_vars => Inv'
  BY <1>1, NextInv
<1> QED BY <1>2, InitInv, PTL DEF Spec

\* The list is one of handlers that were registered, in a block that exists.
THEOREM TypeCorrect == Spec => []TypeOK
<1>1. Inv => TypeOK
  <2> SUFFICES ASSUME Inv PROVE TypeOK
    OBVIOUS
  <2>1. {shared, initialized, registered, locked} \subseteq BOOLEAN
    BY Zenon DEF Inv, Flags
  <2>2. ASSUME NEW b \in DOMAIN mem, NEW k \in DOMAIN mem[b]
        PROVE  mem[b][k] \in [h : 1 .. MaxHandlers, own : BOOLEAN, done : BOOLEAN]
    <3>1. mem[b] \in Seq(Elem)
      BY DEF Inv, Types
    <3>2. mem[b][k] \in Elem
      BY <3>1
    <3> QED BY <3>2, Zenon DEF Elem
  <2>3. /\ list.block \in 0 .. Len(mem) /\ list.size \in Nat /\ list.nelem \in Nat
        /\ made \in 0 .. MaxHandlers /\ {before, late} \subseteq 0 .. made
        /\ phase \in {"run", "callback", "cleanup", "end"}
        /\ handler \in {"none"} \cup Doings
    BY DEF Inv, Types, ListInv, Lists
  <2> QED BY <2>1, <2>2, <2>3, Zenon DEF TypeOK
<1> QED BY <1>1, InvCorrect, PTL

\* __CXA_FUNC_DONE does its work for lists of any length and whatever memory
\* or atexit calls fail: no destructor runs twice, whatever destructors
\* register, until the list moves under them.
THEOREM OnceCorrect == Spec => []RunOnce
<1>1. Inv => RunOnce
  <2> SUFFICES ASSUME Inv PROVE RunOnce
    OBVIOUS
  <2>1. DOMAIN ran = 1 .. Len(ran)
    BY DEF Inv, Types
  <2> QED BY <2>1, Zenon DEF Inv, OnceInv, RunOnce
<1> QED BY <1>1, InvCorrect, PTL

\* Until a failure drops the list, a registration never writes past its block;
\* and until it is moved as well, the loops of the callback and of
\* __cxa_finalize read elements of the list only.
THEOREM BoundsCorrect == Spec => []InBounds
<1>1. Inv => InBounds
  <2> SUFFICES ASSUME Inv PROVE InBounds
    OBVIOUS
  <2>0. Types /\ ListInv
    BY DEF Inv
  <2>1. ~lost => list.nelem <= list.size
    BY Zenon DEF Inv, RoomInv
  <2>2. ASSUME ~moved, ~lost, LoopsOn
        PROVE  walk.block = list.block /\ list.block # 0 /\ walk.p \in 1 .. list.nelem
    <3>1. WalkInv
      BY <2>2, Zenon DEF Inv
    <3>2. /\ list.block \in Nat /\ list.nelem \in Nat /\ walk.p \in Int /\ walk.i \in Int
          /\ (list.block # 0 => list.nelem >= 1) /\ (list.block = 0 => list.nelem = 0)
      BY <2>0 DEF Types, Lists, Walks, ListInv
    <3> QED BY <2>2, <3>1, <3>2 DEF LoopsOn, WalkInv
  <2>3. ASSUME list.block # 0
        PROVE list.block \in DOMAIN mem /\ DOMAIN mem[list.block] = 1 .. list.nelem
    <3>1. list.block \in 1 .. Len(mem) /\ mem \in Seq(Seq(Elem))
      BY <2>0, <2>3 DEF Types, ListInv
    <3>2. mem[list.block] \in Seq(Elem) /\ Len(mem[list.block]) = list.nelem
      BY <3>1, <2>0, <2>3 DEF ListInv, L
    <3> QED BY <3>1, <3>2
  <2> QED BY <2>1, <2>2, <2>3, Zenon DEF InBounds, InBlock
<1> QED BY <1>1, InvCorrect, PTL

--------------------------------------------------------------------------------
\* The loop has been at element k.
Past(k) ==
    \/ handler # "none" /\ k = walk.p
    \/ IF phase = "cleanup" /\ shared THEN k < walk.p ELSE k > walk.p

\* The callback goes over the list in it, or over one that was dropped.
Here == phase = "callback" /\ walk.block = list.block /\ list.block # 0
Gone == phase = "callback" /\ walk.block # list.block /\ list.block # 0

\* Handlers are in the list in the order of their registration.  The callback
\* has called every handler it has been at, and only such; __do_cleanup finds
\* none left that was registered before exit.
Sorted == list.block # 0 => \A j, k \in 1 .. Len(L) : j < k => L[j].h < L[k].h
Level == phase = "callback" => walk.p = walk.i
Inside == Here => walk.p <= list.nelem
PastDone == Here => \A k \in 1 .. Len(L) : Past(k) /\ L[k].h <= before => L[k].done
AheadLess ==
    Here => \A j \in 1 .. Len(ran), k \in 1 .. Len(L) : ~Past(k) => ran[j] > L[k].h
NoneBefore == Gone => \A k \in 1 .. Len(L) : L[k].h > before
BeforeDone ==
    phase \in {"cleanup", "end"} /\ list.block # 0 =>
        \A k \in 1 .. Len(L) : L[k].h <= before => L[k].done
Descending ==
    \A j, k \in 1 .. Len(ran) :
        j < k /\ ran[j] <= before /\ ran[k] <= before => ran[j] > ran[k]
OrderInv ==
    /\ Sorted /\ Level /\ Inside /\ PastDone /\ AheadLess
    /\ NoneBefore /\ BeforeDone /\ Descending

\* What the callback has called does not change with the handler, as long as it
\* has been at the same elements.
LEMMA SameOrder ==
    ASSUME OrderInv, UNCHANGED <<shared, mem, list, phase, before, ran, walk>>,
           handler' = "none" <=> handler = "none"
    PROVE  OrderInv'
<1>1. L' = L /\ (Here' <=> Here) /\ (Gone' <=> Gone)
  BY Zenon DEF L, Here, Gone
<1>2. \A k : Past(k)' <=> Past(k)
  BY Zenon DEF Past
<1>3. Sorted' /\ Level' /\ Inside' /\ NoneBefore' /\ BeforeDone' /\ Descending'
  BY <1>1, Zenon DEF OrderInv, Sorted, Level, Inside, NoneBefore, BeforeDone, Descending
<1>4. PastDone' /\ AheadLess'
  BY <1>1, <1>2, Zenon DEF OrderInv, PastDone, AheadLess
<1> QED BY <1>3, <1>4, Zenon DEF OrderInv

\* What of the order is about the list.
Numbers ==
    /\ made \in Nat /\ before \in Nat /\ before <= made /\ list.nelem \in Nat
    /\ walk.p \in Int /\ walk.i \in Int /\ walk.block \in 0 .. Len(mem) /\ Len(mem) \in Nat
    /\ ran \in Seq(1 .. MaxHandlers) /\ \A j \in 1 .. Len(ran) : ran[j] \in Nat
    /\ list.block # 0 =>
         /\ Len(L) = list.nelem
         /\ \A k \in 1 .. Len(L) : L[k].h \in Nat /\ L[k].h <= made

LEMMA HasNumbers == Inv => Numbers
<1> SUFFICES ASSUME Inv PROVE Numbers
  OBVIOUS
<1>1. /\ made \in Nat /\ before \in Nat /\ before <= made /\ list.nelem \in Nat
      /\ walk.p \in Int /\ walk.i \in Int /\ Len(mem) \in Nat
  BY CxaAssumption DEF Inv, Types, Lists, Walks
<1>2. walk.block \in 0 .. Len(mem)
  BY Zenon DEF Inv, RanInv
<1>3. ran \in Seq(1 .. MaxHandlers) /\ \A j \in 1 .. Len(ran) : ran[j] \in Nat
  BY CxaAssumption DEF Inv, Types
<1>4. ASSUME list.block # 0
      PROVE  Len(L) = list.nelem /\ \A k \in 1 .. Len(L) : L[k].h <= made
  BY <1>4, Zenon DEF Inv, ListInv
<1>5. ASSUME list.block # 0, NEW k \in 1 .. Len(L)
      PROVE  L[k].h \in Nat
  <2>1. mem \in Seq(Seq(Elem)) /\ list.block \in 1 .. Len(mem)
    BY <1>5 DEF Inv, Types, ListInv
  <2>2. L \in Seq(Elem)
    BY <2>1 DEF L
  <2>3. L[k] \in Elem
    BY <2>2
  <2>4. L[k].h \in 1 .. MaxHandlers
    BY <2>3, Zenon DEF Elem
  <2> QED BY <2>4, CxaAssumption
<1> QED BY <1>1, <1>2, <1>3, <1>4, <1>5, Zenon DEF Numbers

\* A registration puts the handler where the callback has been, and after all
\* others.
LEMMA RegisterOrder ==
    ASSUME Inv, OrderInv, NEW own \in BOOLEAN, made < MaxHandlers, ~moved',
           register_with_atexit(own),
           handler' = "none" <=> handler = "none",
           UNCHANGED <<shared, phase, walk, before, ran>>
    PROVE  OrderInv'
<1>0. Numbers
  BY HasNumbers
<1>1. CASE UNCHANGED <<mem, list, initialized, registered, made, moved, lost>>
  BY <1>1, SameOrder, Zenon
<1>2. CASE /\ Added(own)
           /\ IF phase # "run" /\ Full /\ list.block # 0 THEN moved' = TRUE
                                                       ELSE UNCHANGED moved
  <2>1. /\ list'.nelem = list.nelem + 1
        /\ Len(L') = list.nelem + 1
        /\ L'[list.nelem + 1].h = made + 1
        /\ list.block # 0 => \A k \in 1 .. list.nelem : L'[k] = L[k]
        /\ list'.block \in 1 .. Len(mem')
        /\ \/ list'.block = list.block
           \/ list'.block = Len(mem) + 1 /\ (list.block = 0 \/ Full)
    BY <1>2, AddedGrows, Zenon
  <2>2. \/ phase = "run" \/ list'.block = list.block
        \/ list.block = 0 /\ list'.block = Len(mem) + 1
    BY <1>2, <2>1, Zenon
  <2>3. list.block = 0 => list.nelem = 0
    BY Zenon DEF Inv, ListInv
  <2>4. \A k \in 1 .. list.nelem : list.block # 0 /\ k \in 1 .. Len(L) /\ L'[k] = L[k]
    <3>1. list.nelem = 0 => 1 .. list.nelem = {}
      OBVIOUS
    <3> QED BY <2>1, <2>3, <3>1, <1>0, Zenon DEF Numbers
  <2>5. \A k \in 1 .. Len(L') : k \in 1 .. list.nelem \/ k = list.nelem + 1
    BY <2>1, <1>0 DEF Numbers
  <2>6. \A k \in 1 .. list.nelem : L'[k].h \in Nat /\ L'[k].h < made + 1
    <3>1. \A k \in 1 .. list.nelem : L'[k].h \in Nat /\ L'[k].h <= made
      BY <2>4, <1>0, Zenon DEF Numbers
    <3>2. made \in Nat
      BY <1>0, Zenon DEF Numbers
    <3> QED BY ONLY <3>1, <3>2
  <2>7. Sorted'
    <3> SUFFICES ASSUME NEW j \in 1 .. Len(L'), NEW k \in 1 .. Len(L'), j < k
                 PROVE  L'[j].h < L'[k].h
      BY Zenon DEF Sorted
    <3>1. j \in 1 .. list.nelem
      BY <2>1, <1>0, SMTT(60) DEF Numbers
    <3>2. CASE k \in 1 .. list.nelem
      BY <3>1, <3>2, <2>4, Zenon DEF OrderInv, Sorted
    <3>3. CASE k = list.nelem + 1
      BY <3>1, <3>3, <2>1, <2>6, Zenon
    <3> QED BY <3>2, <3>3, <2>5, Zenon
  <2>8. Level' /\ Descending'
    BY Zenon DEF OrderInv, Level, Descending
  <2>9. made + 1 > before /\ ~(made + 1 <= before)
    BY <1>0 DEF Numbers
  <2>10. \A k : Past(k)' <=> Past(k)
    BY Zenon DEF Past
  <2>11. ASSUME Here' PROVE Here
    <3>1. phase = "callback" /\ walk.block = list'.block /\ list'.block # 0
      BY <2>11, Zenon DEF Here
    <3>2. walk.block # Len(mem) + 1 /\ phase # "run"
      BY <3>1, <1>0 DEF Numbers
    <3> QED BY <3>1, <3>2, <2>2, Zenon DEF Here
  <2>12. Inside'
    <3> SUFFICES ASSUME Here' PROVE walk.p <= list'.nelem
      BY Zenon DEF Inside
    <3>1. walk.p <= list.nelem
      BY <2>11, Zenon DEF OrderInv, Inside
    <3> QED BY <3>1, <2>1, <1>0, SMTT(60) DEF Numbers
  <2>13. PastDone'
    <3> SUFFICES ASSUME Here', NEW k \in 1 .. Len(L'), Past(k)', L'[k].h <= before
                 PROVE  L'[k].done
      BY Zenon DEF PastDone
    <3>1. k \in 1 .. list.nelem
      BY <2>1, <2>5, <2>9, Zenon
    <3> QED BY <3>1, <2>4, <2>10, <2>11, Zenon DEF OrderInv, PastDone
  <2>14. AheadLess'
    <3> SUFFICES ASSUME Here', NEW j \in 1 .. Len(ran), NEW k \in 1 .. Len(L'), ~Past(k)'
                 PROVE  ran[j] > L'[k].h
      BY Zenon DEF AheadLess
    <3>1. walk.p <= list.nelem /\ phase = "callback"
      BY <2>11, Zenon DEF OrderInv, Inside, Here
    <3>2. list.nelem + 1 > walk.p
      BY <3>1, <1>0, SMTT(60) DEF Numbers
    <3>3. k # list.nelem + 1
      BY <3>1, <3>2, <2>10 DEF Past
    <3>4. k \in 1 .. list.nelem
      BY <3>3, <2>5, Zenon
    <3> QED BY <3>4, <2>4, <2>10, <2>11, Zenon DEF OrderInv, AheadLess
  <2>15. NoneBefore'
    <3> SUFFICES ASSUME Gone', NEW k \in 1 .. Len(L') PROVE L'[k].h > before
      BY Zenon DEF NoneBefore
    <3>1. CASE k = list.nelem + 1
      BY <3>1, <2>1, <2>9, Zenon
    <3>2. CASE k \in 1 .. list.nelem
      <4>1. list.block # 0 /\ phase = "callback" /\ walk.block # list'.block /\ phase # "run"
        BY <3>2, <2>4 DEF Gone
      <4>2. Gone
        BY <4>1, <2>2, Zenon DEF Gone
      <4> QED BY <4>2, <3>2, <2>4, Zenon DEF OrderInv, NoneBefore
    <3> QED BY <3>1, <3>2, <2>5, Zenon
  <2>16. BeforeDone'
    <3> SUFFICES ASSUME phase \in {"cleanup", "end"}, NEW k \in 1 .. Len(L'), L'[k].h <= before
                 PROVE  L'[k].done
      BY Zenon DEF BeforeDone
    <3>1. k \in 1 .. list.nelem
      BY <2>1, <2>5, <2>9, Zenon
    <3> QED BY <3>1, <2>4, Zenon DEF OrderInv, BeforeDone
  <2> QED BY <2>7, <2>8, <2>12, <2>13, <2>14, <2>15, <2>16, Zenon DEF OrderInv
<1>3. CASE Dropped
  <2>1. list'.block = 0
    BY <1>3 DEF Dropped
  <2>2. /\ Sorted' /\ Inside' /\ PastDone' /\ AheadLess' /\ NoneBefore' /\ BeforeDone'
    BY <2>1, Zenon DEF Sorted, Inside, PastDone, AheadLess, NoneBefore, BeforeDone, Here, Gone
  <2>3. Level' /\ Descending'
    BY Zenon DEF OrderInv, Level, Descending
  <2> QED BY <2>2, <2>3, Zenon DEF OrderInv
<1> QED BY <1>1, <1>2, <1>3, Zenon DEF register_with_atexit

\* Calling the handler the loop is at.
LEMMA CallOrder ==
    ASSUME Inv, OrderInv, ~moved, Call, InBlock(walk),
           ~Element.done, handler = "none", phase \in {"callback", "cleanup"},
           UNCHANGED <<shared, list, made, before, phase, walk>>
    PROVE  OrderInv'
<1> DEFINE p == walk.p
<1>0. Numbers
  BY HasNumbers
<1>1. walk.block = list.block /\ list.block # 0 /\ p \in 1 .. Len(L) /\ Element = L[p]
  BY InList, Zenon
<1>2. /\ Len(L') = Len(L) /\ L'[p].done
      /\ \A k \in 1 .. Len(L) : L'[k].h = L[k].h /\ (L[k].done => L'[k].done)
  BY <1>1, CallList, Zenon
<1>3. /\ Len(ran') = Len(ran) + 1 /\ ran'[Len(ran) + 1] = L[p].h
      /\ \A j \in 1 .. Len(ran) : ran'[j] = ran[j]
  BY <1>1, CallMarks, Zenon
<1>4. Len(ran) \in Nat /\ \A j \in 1 .. Len(ran') : j \in 1 .. Len(ran) \/ j = Len(ran) + 1
  BY <1>0, <1>3 DEF Numbers
<1>5. handler' # "none"
  BY Zenon DEF Call, Doings
<1>6. \A k : Past(k)' <=> Past(k) \/ k = p
  BY <1>5, Zenon DEF Past
<1>7. (Here' <=> Here) /\ (Gone' <=> Gone) /\ ~Gone /\ (phase = "callback" => Here)
  BY <1>1, Zenon DEF Here, Gone
<1>8. Sorted' /\ Level' /\ Inside' /\ NoneBefore'
  BY <1>2, <1>7, Zenon DEF OrderInv, Sorted, Level, Inside, NoneBefore
<1>9. PastDone' /\ BeforeDone'
  BY <1>2, <1>6, <1>7, Zenon DEF OrderInv, PastDone, BeforeDone
<1>10. p \in Int /\ (phase = "callback" => ~Past(p))
  <2>1. p \in Int /\ ~(p > p)
    BY <1>0 DEF Numbers
  <2> QED BY <2>1 DEF Past
<1>11. AheadLess'
  <2> SUFFICES ASSUME Here, NEW j \in 1 .. Len(ran'), NEW k \in 1 .. Len(L), ~Past(k)'
               PROVE  ran'[j] > L[k].h
    BY <1>2, <1>7, Zenon DEF AheadLess
  <2>1. ~Past(k) /\ k # p
    BY <1>6, Zenon
  <2>2. CASE j \in 1 .. Len(ran)
    BY <2>1, <2>2, <1>3, Zenon DEF OrderInv, AheadLess
  <2>3. CASE j = Len(ran) + 1
    <3>1. k < p
      <4>1. phase = "callback"
        BY Zenon DEF Here
      <4>2. ~(k > p)
        BY <2>1, <4>1 DEF Past
      <4> QED BY <4>2, <2>1, <1>10
    <3>2. L[k].h < L[p].h
      BY <3>1, <1>1, Zenon DEF OrderInv, Sorted
    <3>3. L[k].h \in Nat /\ L[p].h \in Nat
      BY <1>0, <1>1, Zenon DEF Numbers
    <3>4. L[p].h > L[k].h
      BY <3>2, <3>3
    <3> QED BY <3>4, <2>3, <1>3, Zenon
  <2> QED BY <2>2, <2>3, <1>4, Zenon
<1>12. Descending'
  <2> SUFFICES ASSUME NEW j \in 1 .. Len(ran'), NEW k \in 1 .. Len(ran'),
                      j < k, ran'[j] <= before, ran'[k] <= before
               PROVE  ran'[j] > ran'[k]
    BY Zenon DEF Descending
  <2>1. j \in 1 .. Len(ran)
    BY <1>4, <1>3
  <2>2. ran'[j] = ran[j]
    BY <1>3, <2>1, Zenon
  <2>3. CASE k \in 1 .. Len(ran)
    <3>1. ran'[k] = ran[k]
      BY <1>3, <2>3, Zenon
    <3> QED BY <2>1, <2>2, <2>3, <3>1, Zenon DEF OrderInv, Descending
  <2>4. CASE k = Len(ran) + 1
    <3>1. ran'[k] = L[p].h
      BY <2>4, <1>3, Zenon
    <3>2. CASE phase = "callback"
      BY <3>1, <3>2, <2>1, <2>2, <1>1, <1>7, <1>10, Zenon DEF OrderInv, AheadLess
    <3>3. CASE phase = "cleanup"
      BY <3>1, <3>3, <1>1 DEF OrderInv, BeforeDone
    <3> QED BY <3>2, <3>3, Zenon
  <2> QED BY <2>3, <2>4, <1>4, Zenon
<1> QED BY <1>8, <1>9, <1>11, <1>12, Zenon DEF OrderInv

\* A loop that goes on has nothing left to do where it was.
LEMMA MoveOrder ==
    ASSUME Inv, OrderInv, phase \in {"callback", "cleanup"},
           phase = "callback" => walk'.p = walk'.i /\ walk'.p <= walk.p,
           walk'.block = walk.block,
           phase = "callback" => \A k \in Int : Past(k) => Past(k)',
           Here => \A k \in 1 .. Len(L) : Past(k)' => Past(k) \/ L[k].done,
           UNCHANGED <<shared, mem, list, before, ran, phase>>, walk'.p \in Int
    PROVE  OrderInv'
<1>0. Numbers
  BY HasNumbers
<1>1. L' = L /\ (Here' <=> Here) /\ (Gone' <=> Gone) /\ (Here => phase = "callback")
  BY Zenon DEF L, Here, Gone
<1>2. Sorted' /\ Level' /\ NoneBefore' /\ BeforeDone' /\ Descending'
  BY <1>1, Zenon DEF OrderInv, Sorted, Level, NoneBefore, BeforeDone, Descending
<1>3. Inside'
  <2> SUFFICES ASSUME Here PROVE walk'.p <= list.nelem
    BY <1>1, Zenon DEF Inside
  <2>1. walk.p <= list.nelem /\ walk'.p <= walk.p
    BY <1>1, Zenon DEF OrderInv, Inside
  <2> QED BY <2>1, <1>0 DEF Numbers
<1>4. PastDone'
  BY <1>1, Zenon DEF OrderInv, PastDone
<1>5. AheadLess'
  <2>1. \A k \in 1 .. Len(L) : k \in Int
    OBVIOUS
  <2> QED BY <1>1, <2>1, Zenon DEF OrderInv, AheadLess
<1> QED BY <1>2, <1>3, <1>4, <1>5, Zenon DEF OrderInv

LEMMA InitOrder == Init => OrderInv
<1> SUFFICES ASSUME Init PROVE OrderInv
  OBVIOUS
<1>1. list.block = 0 /\ phase = "run" /\ Len(ran) = 0
  BY DEF Init
<1>2. Sorted /\ Level /\ Inside /\ PastDone /\ AheadLess /\ NoneBefore /\ BeforeDone
  BY <1>1 DEF Sorted, Level, Inside, PastDone, AheadLess, NoneBefore, BeforeDone, Here, Gone
<1>3. Descending
  BY <1>1 DEF Descending
<1> QED BY <1>2, <1>3, Zenon DEF OrderInv

\* The loops that go down the list from element walk.p.
LEMMA DownOrder ==
    ASSUME Inv, OrderInv, phase \in {"callback", "cleanup"}, walk' = Down(walk),
           handler' = "none", ~(phase = "cleanup" /\ shared),
           Here => \/ handler # "none"
                   \/ walk.p \in 1 .. Len(L) /\ L[walk.p].done,
           UNCHANGED <<shared, mem, list, before, ran, phase>>
    PROVE  OrderInv'
<1>0. Numbers /\ walk \in Walks
  BY HasNumbers DEF Inv, Types
<1>1. walk'.block = walk.block /\ walk'.p = walk.p - 1 /\ walk'.i = walk.i - 1
  BY <1>0, LoopTypes, Zenon
<1>2. walk.p \in Int /\ walk.i \in Int /\ (phase = "callback" => walk.p = walk.i)
  BY <1>0, Zenon DEF Numbers, OrderInv, Level
<1>3. walk'.p \in Int /\ (phase = "callback" => walk'.p = walk'.i /\ walk'.p <= walk.p)
  BY ONLY <1>1, <1>2
<1>4. \A k \in Int : k > walk'.p <=> k > walk.p \/ k = walk.p
  BY ONLY <1>1, <1>2
<1>5. \A k \in Int : Past(k)' <=> Past(k) \/ k = walk.p
  BY <1>4, Zenon DEF Past
<1>6. \A k \in 1 .. Len(L) : k \in Int
  OBVIOUS
<1>7. Here => \A k \in 1 .. Len(L) : Past(k)' => Past(k) \/ L[k].done
  <2> SUFFICES ASSUME Here, NEW k \in 1 .. Len(L), Past(k)' PROVE Past(k) \/ L[k].done
    OBVIOUS
  <2>1. CASE k = walk.p /\ handler # "none"
    BY <2>1, Zenon DEF Past
  <2>2. CASE k = walk.p /\ handler = "none"
    BY <2>2, Zenon
  <2> QED BY <2>1, <2>2, <1>5, <1>6, Zenon
<1>8. \A k \in Int : Past(k) => Past(k)'
  BY <1>5, Zenon
<1> QED BY <1>1, <1>3, <1>7, <1>8, MoveOrder, Zenon

\* Every action keeps the order, until the list is moved.
LEMMA NextOrder ==
    ASSUME Inv, OrderInv, Next, ~moved, ~moved'
    PROVE  OrderInv'
<1>0. /\ Numbers /\ walk \in Walks
      /\ phase \in {"run", "callback", "cleanup", "end"}
      /\ handler \in {"none"} \cup Doings
      /\ phase \in {"run", "end"} => handler = "none"
      /\ phase = "run" => ran = <<>>
      /\ list.block # 0 => registered
  BY HasNumbers DEF Inv, Types, RanInv, ListInv
<1>1. ASSUME NEW own \in BOOLEAN, cxa_atexit(own) PROVE OrderInv'
  BY <1>1, RegisterOrder, Zenon DEF cxa_atexit
<1>2. ASSUME NEW own \in BOOLEAN, HandlerRegisters(own) PROVE OrderInv'
  <2>1. handler # "none" /\ handler' # "none"
    BY <1>2 DEF HandlerRegisters, Doings
  <2> QED BY <1>2, <2>1, RegisterOrder, Zenon DEF HandlerRegisters
<1>3. CASE Exit
  <2>1. /\ phase' = "callback" /\ handler' = "none" /\ ran' = <<>>
        /\ UNCHANGED <<shared, mem, list>>
        /\ walk' = IF registered THEN FromLast ELSE NoWalk
    BY <1>3, <1>0 DEF Exit
  <2>2. /\ walk'.p = walk'.i /\ (list.block # 0 => walk'.block = list.block)
        /\ (list.block # 0 => walk'.p = list.nelem)
    BY <2>1, <1>0 DEF FromLast, NoWalk
  <2>3. L' = L /\ Len(ran') = 0
    BY <2>1 DEF L
  <2>4. Sorted' /\ Level' /\ BeforeDone' /\ NoneBefore'
    BY <2>1, <2>2, <2>3 DEF OrderInv, Sorted, Level, BeforeDone, NoneBefore, Gone
  <2>5. Inside'
    <3> SUFFICES ASSUME Here' PROVE walk'.p <= list.nelem
      BY <2>1, Zenon DEF Inside
    <3>1. walk'.p = list.nelem
      BY <2>1, <2>2, Zenon DEF Here
    <3> QED BY <3>1, <1>0 DEF Numbers
  <2>6. AheadLess' /\ Descending'
    BY <2>3 DEF AheadLess, Descending
  <2>7. PastDone'
    <3> SUFFICES ASSUME Here', NEW k \in 1 .. Len(L), Past(k)' PROVE FALSE
      BY <2>3, Zenon DEF PastDone
    <3>1. walk'.p = list.nelem /\ Len(L) = list.nelem
      BY <2>1, <2>2, <1>0, Zenon DEF Here, Numbers
    <3>2. k > walk'.p
      BY <2>1 DEF Past
    <3> QED BY <3>1, <3>2, <1>0 DEF Numbers
  <2> QED BY <2>4, <2>5, <2>6, <2>7, Zenon DEF OrderInv
<1>4. CASE HandlerGivesUp
  BY <1>4, SameOrder, Zenon DEF HandlerGivesUp
<1>5. CASE HandlerReturns
  <2>1. /\ handler # "none" /\ handler' = "none" /\ phase \in {"callback", "cleanup"}
        /\ walk' = (IF phase = "cleanup" /\ shared THEN Up(walk) ELSE Down(walk))
        /\ UNCHANGED <<shared, mem, list, before, ran, phase>>
    BY <1>5, <1>0 DEF HandlerReturns, WalkOnly
  <2>2. CASE phase = "cleanup" /\ shared
    <3>1. walk'.block = walk.block /\ walk'.p \in Int
      BY <2>1, <2>2, <1>0, LoopTypes DEF Walks
    <3>2. ~Here /\ phase # "callback"
      BY <2>2, Zenon DEF Here
    <3> QED BY <2>1, <3>1, <3>2, MoveOrder, Zenon
  <2>3. CASE ~(phase = "cleanup" /\ shared)
    BY <2>1, <2>3, DownOrder, Zenon
  <2> QED BY <2>2, <2>3, Zenon
<1>6. ASSUME Skip, handler = "none", Element.done, InBlock(walk), walk' = Down(walk),
             phase = "callback" \/ (phase = "cleanup" /\ ~shared), phase' = phase, WalkOnly
      PROVE  OrderInv'
  <2>1. UNCHANGED <<shared, mem, list, before, ran, phase>> /\ handler' = "none"
    BY <1>6, Zenon DEF Skip, WalkOnly
  <2>2. phase \in {"callback", "cleanup"}
    BY <1>6, Zenon
  <2>3. walk.p \in 1 .. Len(L) /\ L[walk.p].done
    BY <1>6, <2>2, InList, Zenon
  <2>4. ~(phase = "cleanup" /\ shared)
    BY <1>6, Zenon
  <2> QED BY <1>6, <2>1, <2>2, <2>3, <2>4, DownOrder, Zenon
<1>7. CASE cxa_atexit_callback
  <2>1. /\ phase = "callback" /\ handler = "none" /\ InBlock(walk)
        /\ UNCHANGED <<shared, list, made, before, phase>> /\ WalkOnly
    BY <1>7, Zenon DEF cxa_atexit_callback, LoopsOn, WalkOnly
  <2>2. CASE Call /\ UNCHANGED walk /\ ~Element.done
    BY <2>1, <2>2, CallOrder, Zenon
  <2>3. CASE Skip /\ walk' = Down(walk) /\ Element.done
    BY <2>1, <2>3, <1>6, Zenon
  <2> QED BY <1>7, <2>2, <2>3, Zenon DEF cxa_atexit_callback
<1>8. CASE FinalizeAll
  <2>1. /\ phase = "cleanup" /\ ~shared /\ handler = "none" /\ InBlock(walk)
        /\ UNCHANGED <<shared, list, made, before, phase>> /\ WalkOnly
    BY <1>8, Zenon DEF FinalizeAll, LoopsOn, WalkOnly
  <2>2. CASE Call /\ UNCHANGED walk /\ ~Element.done
    BY <2>1, <2>2, CallOrder, Zenon
  <2>3. CASE Skip /\ walk' = Down(walk) /\ Element.done
    BY <2>1, <2>3, <1>6, Zenon
  <2> QED BY <1>8, <2>2, <2>3, Zenon DEF FinalizeAll
<1>9. CASE FinalizeDso
  <2>1. /\ phase = "cleanup" /\ handler = "none" /\ InBlock(walk)
        /\ UNCHANGED <<shared, list, made, before, phase>>
    BY <1>9, Zenon DEF FinalizeDso, LoopsOn, WalkOnly
  <2>2. CASE Call /\ UNCHANGED walk /\ ~Element.done
    BY <2>1, <2>2, CallOrder, Zenon
  <2>3. CASE Skip /\ walk' = Up(walk)
    <3>1. walk'.block = walk.block /\ walk'.p \in Int
      BY <2>3, <1>0, LoopTypes DEF Walks
    <3>2. ~Here /\ phase # "callback" /\ UNCHANGED <<mem, ran>>
      BY <2>1, <2>3, Zenon DEF Here, Skip
    <3> QED BY <2>1, <3>1, <3>2, MoveOrder, Zenon
  <2> QED BY <1>9, <2>2, <2>3, Zenon DEF FinalizeDso
<1>10. CASE do_cleanup
  <2>1. /\ phase = "callback" /\ handler = "none" /\ ~(walk.i > 0)
        /\ UNCHANGED <<shared, mem, list, made, before, ran>>
        /\ phase' \in {"cleanup", "end"}
    BY <1>10 DEF do_cleanup, LoopsOn, Skip, WalkOnly
  <2>2. L' = L
    BY <2>1, Zenon DEF L
  <2>3. ASSUME list.block # 0, NEW k \in 1 .. Len(L), L[k].h <= before PROVE L[k].done
    <3>1. CASE walk.block = list.block
      <4>1. walk.p = walk.i
        BY <2>1, Zenon DEF OrderInv, Level
      <4>2. k > walk.p
        BY <4>1, <2>1, <1>0 DEF Numbers
      <4>3. Past(k)
        BY <4>2, <2>1 DEF Past
      <4> QED BY <4>3, <3>1, <2>1, <2>3, Zenon DEF OrderInv, PastDone, Here
    <3>2. CASE walk.block # list.block
      <4>1. L[k].h > before /\ L[k].h \in Nat
        BY <3>2, <2>1, <2>3, <1>0, Zenon DEF OrderInv, NoneBefore, Gone, Numbers
      <4> QED BY <4>1, <2>3, <1>0 DEF Numbers
    <3> QED BY <3>1, <3>2, Zenon
  <2>4. BeforeDone'
    BY <2>1, <2>2, <2>3, Zenon DEF BeforeDone
  <2>5. Sorted' /\ Descending'
    BY <2>1, <2>2, Zenon DEF OrderInv, Sorted, Descending
  <2>6. phase' # "callback"
    BY <2>1
  <2>7. Level' /\ Inside' /\ PastDone' /\ AheadLess' /\ NoneBefore'
    BY <2>6, Zenon DEF Level, Inside, PastDone, AheadLess, NoneBefore, Here, Gone
  <2> QED BY <2>4, <2>5, <2>7, Zenon DEF OrderInv
<1>11. CASE Finished
  <2>1. /\ phase = "cleanup" /\ phase' = "end"
        /\ UNCHANGED <<shared, mem, list, made, before, ran>>
    BY <1>11, Zenon DEF Finished, Skip, WalkOnly
  <2>2. L' = L
    BY <2>1, Zenon DEF L
  <2>3. Sorted' /\ Descending' /\ BeforeDone'
    BY <2>1, <2>2, Zenon DEF OrderInv, Sorted, Descending, BeforeDone
  <2>4. phase' # "callback"
    BY <2>1
  <2>5. Level' /\ Inside' /\ PastDone' /\ AheadLess' /\ NoneBefore'
    BY <2>4, Zenon DEF Level, Inside, PastDone, AheadLess, NoneBefore, Here, Gone
  <2> QED BY <2>3, <2>5, Zenon DEF OrderInv
<1> QED BY <1>1, <1>2, <1>3, <1>4, <1>5, <1>7, <1>8, <1>9, <1>10, <1>11, Zenon
   DEF Next, Handler, Exiting

\* Once moved, or lost, it stays so.
Stays ==
    /\ moved' = TRUE \/ moved' = moved
    /\ lost' = TRUE \/ lost' = lost

LEMMA HistoryStays ==
    ASSUME [Next]_vars
    PROVE  (moved' \/ ~moved) /\ (lost' \/ ~lost)
<1> SUFFICES Stays
  <2>1. ASSUME Stays PROVE moved' \/ ~moved
    <3>1. CASE moved' = TRUE
      BY <3>1, Zenon
    <3>2. CASE moved' = moved
      BY <3>2, Zenon
    <3> QED BY <3>1, <3>2, <2>1, Zenon DEF Stays
  <2>2. ASSUME Stays PROVE lost' \/ ~lost
    <3>1. CASE lost' = TRUE
      BY <3>1, Zenon
    <3>2. CASE lost' = lost
      BY <3>2, Zenon
    <3> QED BY <3>1, <3>2, <2>2, Zenon DEF Stays
  <2> QED BY <2>1, <2>2, Zenon
<1>1. ASSUME NEW own, register_with_atexit(own) PROVE Stays
  BY <1>1, Zenon DEF register_with_atexit, Stays
<1>2. CASE \E own \in BOOLEAN : cxa_atexit(own)
  BY <1>1, <1>2, Zenon DEF cxa_atexit
<1>3. CASE Handler
  BY <1>1, <1>3, Zenon DEF Handler, HandlerRegisters, HandlerGivesUp, HandlerReturns, WalkOnly,
     Stays
<1>4. CASE Exiting
  BY <1>4, Zenon DEF Exiting, cxa_atexit_callback, do_cleanup, FinalizeAll, FinalizeDso,
     Finished, WalkOnly, Stays
<1>5. CASE Exit \/ UNCHANGED vars
  BY <1>5, Zenon DEF Exit, vars, Stays
<1> QED BY <1>2, <1>3, <1>4, <1>5, Zenon DEF Next

\* The callback undoes the registrations made before exit one by one, however
\* many there are, whatever its handlers register meanwhile and whatever
\* fails: they run in the reverse order, until the list moves under them.
THEOREM ReverseCorrect == Spec => []ReverseOrder
<1>1. Inv /\ (moved \/ OrderInv) => ReverseOrder
  <2> SUFFICES ASSUME Inv, ~moved, OrderInv PROVE ReverseOrder
    BY Zenon DEF ReverseOrder
  <2>1. DOMAIN ran = 1 .. Len(ran) /\ before \in Nat
    BY DEF Inv, Types
  <2>2. \A h \in 1 .. before : h <= before
    BY <2>1
  <2> QED BY <2>1, <2>2, Zenon DEF OrderInv, Descending, ReverseOrder
<1>2. Inv /\ (moved \/ OrderInv) /\ [Next]_vars => (moved \/ OrderInv)'
  <2> SUFFICES ASSUME Inv, moved \/ OrderInv, [Next]_vars, ~moved' PROVE OrderInv'
    BY Zenon
  <2>1. ~moved /\ OrderInv
    BY HistoryStays, Zenon
  <2>2. CASE Next
    BY <2>1, <2>2, NextOrder, Zenon
  <2>3. CASE UNCHANGED vars
    BY <2>1, <2>3, SameOrder, Zenon DEF vars
  <2> QED BY <2>2, <2>3, Zenon
<1> QED BY <1>1, <1>2, InitOrder, InvCorrect, PTL DEF Spec

--------------------------------------------------------------------------------
\* The handlers that have run.
Ran == {ran[j] : j \in 1 .. Len(ran)}

\* __do_cleanup has to call the handler of element k.
Wanted(k) == IF shared THEN L[k].own ELSE k <= late

\* A handler is found at its number in every block that was ever the list's,
\* and has run if it is marked there.
Copies ==
    \A b \in 1 .. Len(mem) : \A k \in 1 .. Len(mem[b]) :
        /\ k <= made /\ mem[b][k].h = k /\ mem[b][k].own = L[k].own
        /\ mem[b][k].done => k \in Ran
Count == list.nelem = made /\ (list.block = 0 => made = 0)

\* The loops call every handler they come by that they have to call.
Place ==
    /\ phase = "callback" => walk.p = walk.i
    /\ phase = "cleanup" => walk.p = IF shared THEN walk.i + 1 ELSE walk.i
    /\ handler # "none" => walk.p <= made
CallbackRan == phase = "callback" => \A k \in 1 .. before : Past(k) => k \in Ran
BeforeRan == phase \in {"cleanup", "end"} => \A k \in 1 .. before : k \in Ran
CleanupRan == phase = "cleanup" => \A k \in 1 .. made : Past(k) /\ Wanted(k) => k \in Ran
EndRan == phase = "end" => \A k \in 1 .. made : Wanted(k) => k \in Ran
AllInv ==
    Copies /\ Count /\ Place /\ CallbackRan /\ BeforeRan /\ CleanupRan /\ EndRan

Counts ==
    /\ made \in Nat /\ before \in 0 .. made /\ late \in 0 .. made
    /\ walk \in Walks /\ walk.p \in Int /\ walk.i \in Int
    /\ mem \in Seq(Seq(Elem)) /\ Len(mem) \in Nat

LEMMA HasCounts == Inv => Counts
  BY CxaAssumption DEF Inv, Types, Walks, Counts

\* A registration puts the handler where no loop of __do_cleanup has been.
LEMMA RegisterAll ==
    ASSUME Inv, AllInv, NEW own \in BOOLEAN, made < MaxHandlers,
           Added(own), phase # "end", phase = "run" \/ handler # "none",
           handler' = "none" <=> handler = "none",
           UNCHANGED <<shared, phase, walk, before, late, ran>>
    PROVE  AllInv'
<1>0. Counts /\ Count
  BY HasCounts, Zenon DEF AllInv
<1>1. /\ list'.nelem = list.nelem + 1 /\ made' = made + 1
      /\ list'.block \in 1 .. Len(mem') /\ Len(L') = list'.nelem
      /\ L'[list.nelem + 1].h = made + 1 /\ ~L'[list.nelem + 1].done
      /\ list.block # 0 => \A k \in 1 .. list.nelem : L'[k] = L[k]
      /\ \A b \in 1 .. Len(mem) : b # list'.block => mem'[b] = mem[b]
      /\ \A b \in 1 .. Len(mem') : b \in 1 .. Len(mem) \/ b = list'.block
  BY AddedGrows, Zenon
<1>2. /\ list.nelem = made /\ made \in Nat /\ (list.block = 0 => made = 0)
      /\ before \in 0 .. made /\ late \in 0 .. made /\ walk.p \in Int
  BY <1>0, Zenon DEF Count, Counts
<1>3. \A k \in 1 .. made : list.block # 0 /\ L'[k] = L[k]
  BY <1>1, <1>2
<1>4. list'.block # 0 /\ list'.nelem = made' /\ made' = made + 1
  BY <1>1, <1>2
<1>5. \A k \in 1 .. made' : k \in 1 .. made \/ k = made + 1
  BY <1>2, <1>4
<1>6. \A k \in 1 .. made : k <= made' /\ k <= made
  BY <1>2, <1>4
<1>7. Ran' = Ran
  BY Zenon DEF Ran
<1>8. \A k \in 1 .. made : L[k].h = k /\ (L[k].done => k \in Ran)
  <2> TAKE k \in 1 .. made
  <2>1. list.block # 0 /\ list.block \in 1 .. Len(mem) /\ Len(L) = made
    BY <1>3, <1>0, <1>2 DEF Inv, ListInv, Counts
  <2> QED BY <2>1, Zenon DEF AllInv, Copies, L
<1>9. Copies'
  <2> SUFFICES ASSUME NEW b \in 1 .. Len(mem'), NEW k \in 1 .. Len(mem'[b])
               PROVE  /\ k <= made' /\ mem'[b][k].h = k /\ mem'[b][k].own = L'[k].own
                      /\ mem'[b][k].done => k \in Ran
    BY <1>7, Zenon DEF Copies
  <2>1. CASE b = list'.block
    <3>1. mem'[b] = L'
      BY <2>1, Zenon DEF L
    <3>2. k \in 1 .. made'
      BY <3>1, <1>1, <1>4, Zenon
    <3>3. CASE k \in 1 .. made
      BY <3>1, <3>3, <1>3, <1>6, <1>8, Zenon
    <3>4. CASE k = made + 1
      <4>1. k <= made'
        BY <3>4, <1>2, <1>4
      <4> QED BY <3>1, <3>4, <4>1, <1>1, <1>2, Zenon
    <3> QED BY <3>2, <3>3, <3>4, <1>5, Zenon
  <2>2. CASE b # list'.block
    <3>1. b \in 1 .. Len(mem) /\ mem'[b] = mem[b]
      BY <2>2, <1>1, Zenon
    <3>2. /\ k <= made /\ mem[b][k].h = k /\ mem[b][k].own = L[k].own
          /\ mem[b][k].done => k \in Ran
      BY <3>1, Zenon DEF AllInv, Copies
    <3>3. k \in 1 .. made
      BY <3>2, <1>2
    <3> QED BY <3>1, <3>2, <3>3, <1>3, <1>6, Zenon
  <2> QED BY <2>1, <2>2, Zenon
<1>10. Count'
  BY <1>4, Zenon DEF Count
<1>11. Place'
  <2>1. handler # "none" => walk.p <= made + 1
    BY <1>2 DEF AllInv, Place
  <2> QED BY <2>1, <1>4, Zenon DEF AllInv, Place
<1>12. \A k : Past(k)' <=> Past(k)
  BY Zenon DEF Past
<1>13. CallbackRan' /\ BeforeRan' /\ EndRan'
  BY <1>7, <1>12, Zenon DEF AllInv, CallbackRan, BeforeRan, EndRan
<1>14. CleanupRan'
  <2> SUFFICES ASSUME phase = "cleanup", NEW k \in 1 .. made', Past(k), Wanted(k)'
               PROVE  k \in Ran
    BY <1>7, <1>12, Zenon DEF CleanupRan
  <2>1. CASE k \in 1 .. made
    <3>1. Wanted(k)
      BY <2>1, <1>3, Zenon DEF Wanted
    <3> QED BY <2>1, <3>1, Zenon DEF AllInv, CleanupRan
  <2>2. CASE k = made + 1
    <3>1. handler # "none"
      OBVIOUS
    <3>2. walk.p <= made
      BY <3>1, Zenon DEF AllInv, Place
    <3>3. ~(made + 1 < walk.p) /\ made + 1 # walk.p /\ ~(made + 1 <= late)
      BY <3>2, <1>2
    <3> QED BY <2>2, <3>3, Zenon DEF Past, Wanted
  <2> QED BY <2>1, <2>2, <1>5, Zenon
<1> QED BY <1>9, <1>10, <1>11, <1>13, <1>14, Zenon DEF AllInv

\* Nothing but the place of the loop changes.
LEMMA KeptAll ==
    ASSUME AllInv, UNCHANGED <<mem, list, made, ran>>
    PROVE  Copies' /\ Count' /\ L' = L /\ Ran' = Ran
<1>1. L' = L /\ Ran' = Ran
  BY Zenon DEF L, Ran
<1>2. Copies
  BY Zenon DEF AllInv
<1>3. mem' = mem /\ made' = made
  BY Zenon
<1>4. Copies'
  BY ONLY <1>1, <1>2, <1>3, ZenonT(60) DEF Copies
<1>5. Count'
  BY Zenon DEF AllInv, Count
<1> QED BY <1>1, <1>4, <1>5, Zenon

LEMMA SameAll ==
    ASSUME AllInv, UNCHANGED <<shared, mem, list, made, before, late, ran>>
    PROVE  /\ Copies' /\ Count' /\ Ran' = Ran
           /\ \A k : Wanted(k)' <=> Wanted(k)
<1>1. Copies' /\ Count' /\ L' = L /\ Ran' = Ran
  BY KeptAll, Zenon
<1>2. \A k : Wanted(k)' <=> Wanted(k)
  BY <1>1, Zenon DEF Wanted
<1> QED BY <1>1, <1>2, Zenon

\* Calling the handler the loop is at, in whatever block.
LEMMA CallAll ==
    ASSUME Inv, AllInv, Call, InBlock(walk), handler = "none",
           phase \in {"callback", "cleanup"},
           UNCHANGED <<shared, list, made, before, late, phase, walk>>
    PROVE  AllInv'
<1> DEFINE p == walk.p
           b == walk.block
<1>0. Counts
  BY HasCounts
<1>1. /\ b \in 1 .. Len(mem) /\ p \in 1 .. Len(mem[b]) /\ mem[b] \in Seq(Elem)
      /\ Element = mem[b][p] /\ Len(mem') = Len(mem)
      /\ mem'[b] = Mark(mem[b], p)
      /\ \A c \in 1 .. Len(mem) : c # b => mem'[c] = mem[c]
      /\ Len(ran') = Len(ran) + 1 /\ ran'[Len(ran) + 1] = Element.h
      /\ \A j \in 1 .. Len(ran) : ran'[j] = ran[j]
      /\ ran \in Seq(1 .. MaxHandlers)
  BY CallMarks, Zenon
<1>2. p <= made /\ Element.h = p
  BY <1>1, Zenon DEF AllInv, Copies
<1>3. Ran' = Ran \cup {p}
  <2>1. /\ \A j \in 1 .. Len(ran') : j \in 1 .. Len(ran) \/ j = Len(ran) + 1
        /\ Len(ran) + 1 \in 1 .. Len(ran')
        /\ \A j \in 1 .. Len(ran) : j \in 1 .. Len(ran')
    BY <1>1
  <2>2. /\ ran'[Len(ran) + 1] = p
        /\ \A j \in 1 .. Len(ran) : ran'[j] = ran[j]
    BY <1>1, <1>2, Zenon
  <2> HIDE DEF p
  <2> QED BY ONLY <2>1, <2>2, Zenon DEF Ran
<1>4. \A c \in 1 .. Len(mem) :
        /\ Len(mem'[c]) = Len(mem[c])
        /\ \A k \in 1 .. Len(mem[c]) :
             /\ mem'[c][k].h = mem[c][k].h /\ mem'[c][k].own = mem[c][k].own
             /\ mem'[c][k].done => mem[c][k].done \/ k = p
  <2>1. /\ Len(Mark(mem[b], p)) = Len(mem[b])
        /\ \A k \in 1 .. Len(mem[b]) :
             /\ Mark(mem[b], p)[k].h = mem[b][k].h /\ Mark(mem[b], p)[k].own = mem[b][k].own
             /\ Mark(mem[b], p)[k].done => mem[b][k].done \/ k = p
    <3>1. mem[b] \in Seq(Elem) /\ p \in 1 .. Len(mem[b])
      BY <1>1, Zenon
    <3> HIDE DEF p, b
    <3> QED BY ONLY <3>1, Marked
  <2> QED BY <1>1, <2>1, ZenonT(60)
<1>5. \A k \in 1 .. made : L'[k].own = L[k].own
  <2> TAKE k \in 1 .. made
  <2>1. list.block # 0
    BY <1>0 DEF AllInv, Count, Counts
  <2>2. Len(L) = made
    BY <2>1, Zenon DEF Inv, ListInv, AllInv, Count
  <2> QED BY <2>1, <2>2, CallList, Zenon
<1>6. p \in 1 .. made /\ made \in Nat
  <2>1. made \in Nat /\ p \in 1 .. Len(mem[b]) /\ p <= made
    BY <1>0, <1>1, <1>2, Zenon DEF Counts
  <2> QED BY ONLY <2>1
<1>7. Copies'
  <2> SUFFICES ASSUME NEW c \in 1 .. Len(mem'), NEW k \in 1 .. Len(mem'[c])
               PROVE  /\ k <= made' /\ mem'[c][k].h = k /\ mem'[c][k].own = L'[k].own
                      /\ mem'[c][k].done => k \in Ran'
    BY Zenon DEF Copies
  <2>0. c \in 1 .. Len(mem) /\ k \in 1 .. Len(mem[c])
    BY <1>1, <1>4, Zenon
  <2>1. /\ k <= made /\ mem[c][k].h = k /\ mem[c][k].own = L[k].own
        /\ mem[c][k].done => k \in Ran
    BY <2>0, Zenon DEF AllInv, Copies
  <2>2. k \in 1 .. made
    BY <2>1, <1>6
  <2>3. /\ mem'[c][k].h = mem[c][k].h /\ mem'[c][k].own = mem[c][k].own
        /\ mem'[c][k].done => mem[c][k].done \/ k = p
    BY <2>0, <1>4, Zenon
  <2> QED BY <2>1, <2>2, <2>3, <1>3, <1>5, Zenon
<1>8. Count'
  BY Zenon DEF AllInv, Count
<1>9. Place'
  BY <1>2, Zenon DEF AllInv, Place
<1>10. handler' # "none"
  BY Zenon DEF Call, Doings
<1>11. \A k : Past(k)' <=> Past(k) \/ k = p
  BY <1>10, Zenon DEF Past
<1>12. \A k \in 1 .. made : Wanted(k)' <=> Wanted(k)
  BY <1>5, Zenon DEF Wanted
<1>13. CallbackRan' /\ BeforeRan'
  BY <1>3, <1>11, Zenon DEF AllInv, CallbackRan, BeforeRan
<1>14. CleanupRan' /\ EndRan'
  BY <1>3, <1>11, <1>12, Zenon DEF AllInv, CleanupRan, EndRan
<1> QED BY <1>7, <1>8, <1>9, <1>13, <1>14, Zenon DEF AllInv

\* A loop that goes on has nothing left to do where it was.
LEMMA MoveAll ==
    ASSUME Inv, AllInv, phase \in {"callback", "cleanup"}, handler' = "none",
           UNCHANGED <<shared, mem, list, made, before, late, ran, phase>>,
           IF phase = "cleanup" /\ shared THEN walk' = Up(walk) ELSE walk' = Down(walk),
           \/ handler # "none"
           \/ walk.p \in Ran
           \/ phase = "cleanup" /\ (walk.p \in 1 .. made => ~Wanted(walk.p))
    PROVE  AllInv'
<1>0. Counts
  BY HasCounts
<1>1. /\ Copies' /\ Count' /\ Ran' = Ran
      /\ \A k : Wanted(k)' <=> Wanted(k)
  BY SameAll, Zenon
<1>2. IF phase = "cleanup" /\ shared
      THEN walk'.p = walk.p + 1 /\ walk'.i = walk.i + 1
      ELSE walk'.p = walk.p - 1 /\ walk'.i = walk.i - 1
  BY <1>0, LoopTypes, Zenon DEF Counts
<1>3. walk.p \in Int /\ walk.i \in Int
  BY <1>0, Zenon DEF Counts
<1>4. \A k \in Int : Past(k)' <=> Past(k) \/ k = walk.p
  <2>1. CASE phase = "cleanup" /\ shared
    <3>1. \A k \in Int : k < walk'.p <=> k < walk.p \/ k = walk.p
      BY <2>1, <1>2, <1>3
    <3> QED BY <2>1, <3>1, Zenon DEF Past
  <2>2. CASE ~(phase = "cleanup" /\ shared)
    <3>1. \A k \in Int : k > walk'.p <=> k > walk.p \/ k = walk.p
      BY <2>2, <1>2, <1>3
    <3> QED BY <2>2, <3>1, Zenon DEF Past
  <2> QED BY <2>1, <2>2, Zenon
<1>5. Place'
  <2>1. Place
    BY Zenon DEF AllInv
  <2> QED BY <2>1, <1>2, <1>3 DEF Place
<1>6. \A k \in 1 .. made : k \in Int
  BY <1>0 DEF Counts
<1>7. \A k \in 1 .. before : k \in Int
  BY <1>0 DEF Counts
<1>8. \A k : k = walk.p /\ handler # "none" => Past(k)
  BY Zenon DEF Past
<1>9. CallbackRan'
  BY <1>1, <1>4, <1>7, <1>8, Zenon DEF AllInv, CallbackRan
<1>10. CleanupRan'
  BY <1>1, <1>4, <1>6, <1>8, Zenon DEF AllInv, CleanupRan
<1>11. BeforeRan' /\ EndRan'
  BY <1>1, Zenon DEF AllInv, BeforeRan, EndRan
<1> QED BY <1>1, <1>5, <1>9, <1>10, <1>11, Zenon DEF AllInv

LEMMA InitAll == Init => AllInv
<1> SUFFICES ASSUME Init PROVE AllInv
  OBVIOUS
<1>1. Len(mem) = 0 /\ list.nelem = made /\ made = 0 /\ phase = "run" /\ handler = "none"
  BY DEF Init
<1>2. Copies /\ Count /\ Place
  BY <1>1 DEF Copies, Count, Place
<1>3. CallbackRan /\ BeforeRan /\ CleanupRan /\ EndRan
  BY <1>1 DEF CallbackRan, BeforeRan, CleanupRan, EndRan
<1> QED BY <1>2, <1>3, Zenon DEF AllInv

\* Every action lets the loops call what they have to, until the list is dropped.
LEMMA NextAll ==
    ASSUME Inv, AllInv, Next, ~lost'
    PROVE  AllInv'
<1>0. /\ Counts /\ Place /\ Count
      /\ phase \in {"run", "callback", "cleanup", "end"}
      /\ handler \in {"none"} \cup Doings
      /\ phase \in {"run", "end"} => handler = "none"
  BY HasCounts DEF Inv, Types, RanInv, AllInv
<1>n. made \in Nat /\ before \in 0 .. made /\ walk.p \in Int /\ walk.i \in Int
  BY <1>0, Zenon DEF Counts
<1>r. ASSUME NEW own \in BOOLEAN, register_with_atexit(own), made < MaxHandlers,
             phase # "end", phase = "run" \/ handler # "none",
             handler' = "none" <=> handler = "none",
             UNCHANGED <<shared, phase, walk, before, late, ran>>
      PROVE  AllInv'
  <2>1. CASE Added(own)
    BY <1>r, <2>1, RegisterAll, Zenon
  <2>2. CASE UNCHANGED <<mem, list, made>>
    <3>1. /\ Copies' /\ Count' /\ Ran' = Ran
          /\ \A k : Wanted(k)' <=> Wanted(k)
      BY <1>r, <2>2, SameAll, Zenon
    <3>2. \A k : Past(k)' <=> Past(k)
      BY <1>r, Zenon DEF Past
    <3>3. Place'
      BY <1>0, <1>r, <2>2, Zenon DEF Place
    <3>4. CallbackRan' /\ BeforeRan' /\ CleanupRan' /\ EndRan'
      BY <1>r, <2>2, <3>1, <3>2, Zenon DEF AllInv, CallbackRan, BeforeRan, CleanupRan, EndRan
    <3> QED BY <3>1, <3>3, <3>4, Zenon DEF AllInv
  <2> QED BY <1>r, <2>1, <2>2, Zenon DEF register_with_atexit
<1>1. ASSUME NEW own \in BOOLEAN, cxa_atexit(own) PROVE AllInv'
  <2>1. phase = "run" /\ phase # "end"
    BY <1>1 DEF cxa_atexit
  <2> QED BY <1>1, <2>1, <1>r, Zenon DEF cxa_atexit
<1>2. ASSUME NEW own \in BOOLEAN, HandlerRegisters(own) PROVE AllInv'
  <2>1. handler # "none" /\ handler' # "none" /\ phase # "end"
    BY <1>2, <1>0 DEF HandlerRegisters, Doings
  <2> QED BY <1>2, <2>1, <1>r, Zenon DEF HandlerRegisters
<1>3. CASE Exit
  <2>1. /\ phase = "run" /\ phase' = "callback" /\ before' = made /\ handler' = "none"
        /\ UNCHANGED <<shared, mem, list, made, late, ran>>
        /\ walk' = IF registered THEN FromLast ELSE NoWalk
    BY <1>3, <1>0 DEF Exit
  <2>2. Copies' /\ Count' /\ L' = L /\ Ran' = Ran
    BY <2>1, KeptAll, Zenon
  <2>4. walk'.p = walk'.i /\ (registered => walk'.p = made)
    BY <2>1, <1>0 DEF FromLast, NoWalk, Count
  <2>5. registered \/ made = 0
    <3>1. ~lost
      BY HistoryStays, Zenon
    <3> QED BY <3>1, <1>0, Zenon DEF Inv, RoomInv, Count
  <2>6. \A k \in 1 .. made : ~Past(k)'
    <3> SUFFICES ASSUME NEW k \in 1 .. made, k > walk'.p PROVE FALSE
      BY <2>1 DEF Past
    <3> QED BY <2>4, <2>5, <1>n
  <2>7. CallbackRan' /\ Place'
    BY <2>1, <2>4, <2>6 DEF CallbackRan, Place
  <2>8. BeforeRan' /\ CleanupRan' /\ EndRan'
    BY <2>1 DEF BeforeRan, CleanupRan, EndRan
  <2> QED BY <2>2, <2>7, <2>8, Zenon DEF AllInv
<1>4. CASE HandlerGivesUp
  <2>1. /\ handler # "none" /\ handler' # "none"
        /\ UNCHANGED <<shared, mem, list, made, phase, walk, before, late, ran>>
    BY <1>4 DEF HandlerGivesUp
  <2>2. /\ Copies' /\ Count' /\ Ran' = Ran
        /\ \A k : Wanted(k)' <=> Wanted(k)
    BY <2>1, SameAll, Zenon
  <2>3. \A k : Past(k)' <=> Past(k)
    BY <2>1, Zenon DEF Past
  <2>4. Place'
    BY <1>0, <2>1, Zenon DEF Place
  <2>5. CallbackRan' /\ BeforeRan' /\ CleanupRan' /\ EndRan'
    BY <2>1, <2>2, <2>3, Zenon DEF AllInv, CallbackRan, BeforeRan, CleanupRan, EndRan
  <2> QED BY <2>2, <2>4, <2>5, Zenon DEF AllInv
<1>5. CASE HandlerReturns
  <2>1. /\ handler # "none" /\ handler' = "none" /\ phase \in {"callback", "cleanup"}
        /\ IF phase = "cleanup" /\ shared THEN walk' = Up(walk) ELSE walk' = Down(walk)
        /\ UNCHANGED <<shared, mem, list, made, before, late, ran, phase>>
    BY <1>5, <1>0 DEF HandlerReturns, WalkOnly
  <2> QED BY <2>1, MoveAll, Zenon
<1>d. ASSUME Element.done, InBlock(walk) PROVE walk.p \in Ran
  <2>1. walk.block \in 1 .. Len(mem) /\ walk.p \in 1 .. Len(mem[walk.block])
    <3>1. mem \in Seq(Seq(Elem)) /\ walk.block \in DOMAIN mem
          /\ walk.p \in DOMAIN mem[walk.block]
      BY <1>0, <1>d, Zenon DEF Counts, InBlock
    <3> QED BY ONLY <3>1
  <2> QED BY <1>d, <2>1, Zenon DEF AllInv, Copies, Element
<1>o. ASSUME InBlock(walk), walk.p \in 1 .. made PROVE Element.own <=> L[walk.p].own
  <2>1. walk.block \in 1 .. Len(mem) /\ walk.p \in 1 .. Len(mem[walk.block])
    <3>1. mem \in Seq(Seq(Elem)) /\ walk.block \in DOMAIN mem
          /\ walk.p \in DOMAIN mem[walk.block]
      BY <1>0, <1>o, Zenon DEF Counts, InBlock
    <3> QED BY ONLY <3>1
  <2>2. mem[walk.block][walk.p].own = L[walk.p].own
    BY <2>1, Zenon DEF AllInv, Copies
  <2> QED BY <2>2, Zenon DEF Element
<1>7. CASE cxa_atexit_callback
  <2>1. /\ phase = "callback" /\ handler = "none" /\ InBlock(walk)
        /\ UNCHANGED <<shared, list, made, before, late, phase>>
    BY <1>7, Zenon DEF cxa_atexit_callback, LoopsOn, WalkOnly
  <2>2. CASE Call /\ UNCHANGED walk
    BY <2>1, <2>2, CallAll, Zenon
  <2>3. CASE Skip /\ walk' = Down(walk) /\ Element.done
    BY <2>1, <2>3, <1>d, MoveAll DEF Skip
  <2> QED BY <1>7, <2>2, <2>3, Zenon DEF cxa_atexit_callback
<1>8. CASE FinalizeAll
  <2>1. /\ phase = "cleanup" /\ ~shared /\ handler = "none" /\ InBlock(walk)
        /\ UNCHANGED <<shared, list, made, before, late, phase>>
    BY <1>8, Zenon DEF FinalizeAll, LoopsOn, WalkOnly
  <2>2. CASE Call /\ UNCHANGED walk
    BY <2>1, <2>2, CallAll, Zenon
  <2>3. CASE Skip /\ walk' = Down(walk) /\ Element.done
    BY <2>1, <2>3, <1>d, MoveAll DEF Skip
  <2> QED BY <1>8, <2>2, <2>3, Zenon DEF FinalizeAll
<1>9. CASE FinalizeDso
  <2>1. /\ phase = "cleanup" /\ shared /\ handler = "none" /\ InBlock(walk)
        /\ UNCHANGED <<shared, list, made, before, late, phase>>
    BY <1>9, Zenon DEF FinalizeDso, LoopsOn, WalkOnly
  <2>2. CASE Call /\ UNCHANGED walk
    BY <2>1, <2>2, CallAll, Zenon
  <2>3. CASE Skip /\ walk' = Up(walk) /\ (Element.done \/ ~Element.own)
    <3>1. \/ walk.p \in Ran
          \/ walk.p \in 1 .. made => ~Wanted(walk.p)
      BY <2>1, <2>3, <1>d, <1>o, Zenon DEF Wanted
    <3> QED BY <2>1, <2>3, <3>1, MoveAll DEF Skip
  <2> QED BY <1>9, <2>2, <2>3, Zenon DEF FinalizeDso
<1>10. CASE do_cleanup
  <2>1. /\ phase = "callback" /\ handler = "none" /\ ~(walk.i > 0) /\ late' = made
        /\ UNCHANGED <<shared, mem, list, made, before, ran, handler>>
    BY <1>10 DEF do_cleanup, LoopsOn, Skip, WalkOnly
  <2>2. Copies' /\ Count' /\ L' = L /\ Ran' = Ran
    BY <2>1, KeptAll, Zenon
  <2>3. \A k \in 1 .. before : k \in Ran
    <3>1. walk.p = walk.i
      BY <1>0, <2>1, Zenon DEF Place
    <3>2. \A k \in 1 .. before : k > walk.p
      BY <3>1, <2>1, <1>n
    <3>3. \A k \in 1 .. before : Past(k)
      BY <3>2, <2>1 DEF Past
    <3> QED BY <2>1, <3>3, Zenon DEF AllInv, CallbackRan
  <2>4. \/ phase' = "end" /\ made = 0
        \/ phase' = "cleanup" /\ walk' = IF shared THEN FromFirst ELSE FromLast
    BY <1>10, <1>0, Zenon DEF do_cleanup, Count
  <2>6. BeforeRan' /\ CallbackRan'
    BY <2>1, <2>2, <2>3, <2>4 DEF BeforeRan, CallbackRan
  <2>7. EndRan'
    BY <2>1, <2>4 DEF EndRan
  <2>8. phase' = "cleanup" =>
          /\ walk'.p = IF shared THEN walk'.i + 1 ELSE walk'.i
          /\ walk'.p = IF shared THEN 1 ELSE made
    BY <2>4, <1>0 DEF FromFirst, FromLast, Count
  <2>9. Place'
    BY <2>1, <2>4, <2>8 DEF Place
  <2>10. ASSUME phase' = "cleanup", NEW k \in 1 .. made PROVE ~Past(k)'
    <3>1. IF shared THEN ~(k < walk'.p) ELSE ~(k > walk'.p)
      BY <2>8, <2>10, <1>n
    <3> QED BY <2>1, <2>10, <3>1, Zenon DEF Past
  <2>11. CleanupRan'
    BY <2>1, <2>10, Zenon DEF CleanupRan
  <2> QED BY <2>2, <2>6, <2>7, <2>9, <2>11, Zenon DEF AllInv
<1>11. CASE Finished
  <2>1. /\ phase = "cleanup" /\ phase' = "end" /\ handler = "none" /\ ~LoopsOn
        /\ UNCHANGED <<shared, mem, list, made, before, late, ran, handler>>
    BY <1>11, Zenon DEF Finished, Skip, WalkOnly
  <2>2. /\ Copies' /\ Count' /\ Ran' = Ran
        /\ \A k : Wanted(k)' <=> Wanted(k)
    BY <2>1, SameAll, Zenon
  <2>3. IF shared THEN walk.p > made ELSE walk.p <= 0
    BY <2>1, <1>0, <1>n DEF LoopsOn, Place, Count
  <2>4. \A k \in 1 .. made : Past(k)
    <3>1. \A k \in 1 .. made : IF shared THEN k < walk.p ELSE k > walk.p
      BY <2>3, <1>n
    <3> QED BY <2>1, <3>1, Zenon DEF Past
  <2>5. EndRan'
    BY <2>1, <2>2, <2>4, Zenon DEF AllInv, CleanupRan, EndRan
  <2>6. BeforeRan'
    BY <2>1, <2>2, Zenon DEF AllInv, BeforeRan
  <2>7. Place' /\ CallbackRan' /\ CleanupRan'
    BY <2>1 DEF Place, CallbackRan, CleanupRan
  <2> QED BY <2>2, <2>5, <2>6, <2>7, Zenon DEF AllInv
<1> QED BY <1>1, <1>2, <1>3, <1>4, <1>5, <1>7, <1>8, <1>9, <1>10, <1>11, Zenon
   DEF Next, Handler, Exiting

\* No destructor is forgotten at exit: the callback and __do_cleanup between them
\* run every one they have to, for any number of registrations and however
\* often the list is moved, as long as no failure drops it.
THEOREM AllRunCorrect == Spec => []AllRun
<1>1. Inv /\ (lost \/ AllInv) => AllRun
  <2> SUFFICES ASSUME Inv, AllInv, phase = "end", NEW k \in 1 .. list.nelem,
                      \/ L[k].h <= before
                      \/ IF shared THEN L[k].own ELSE L[k].h <= late
               PROVE  \E j \in DOMAIN ran : ran[j] = L[k].h
    BY Zenon DEF AllRun, L
  <2>0. Counts
    BY HasCounts
  <2>1. k \in 1 .. made /\ list.block # 0
    BY <2>0 DEF AllInv, Count, Counts
  <2>2. list.block \in 1 .. Len(mem) /\ Len(L) = made
    BY <2>0, <2>1 DEF Inv, ListInv, AllInv, Count, Counts
  <2>3. L[k].h = k
    BY <2>1, <2>2, Zenon DEF AllInv, Copies, L
  <2>4. k \in Ran
    <3>1. CASE L[k].h <= before
      <4>1. k \in 1 .. before
        BY <2>0, <2>1, <2>3, <3>1 DEF Counts
      <4> QED BY <4>1, Zenon DEF AllInv, BeforeRan
    <3>2. CASE IF shared THEN L[k].own ELSE L[k].h <= late
      BY <2>1, <2>3, <3>2, Zenon DEF AllInv, EndRan, Wanted
    <3> QED BY <3>1, <3>2, Zenon
  <2>5. DOMAIN ran = 1 .. Len(ran)
    BY DEF Inv, Types
  <2> QED BY <2>3, <2>4, <2>5, Zenon DEF Ran
<1>2. Inv /\ (lost \/ AllInv) /\ [Next]_vars => (lost \/ AllInv)'
  <2> SUFFICES ASSUME Inv, lost \/ AllInv, [Next]_vars, ~lost' PROVE AllInv'
    BY Zenon
  <2>1. AllInv
    BY HistoryStays, Zenon
  <2>2. CASE Next
    BY <2>1, <2>2, NextAll, Zenon
  <2>3. CASE UNCHANGED vars
    <3>1. /\ Copies' /\ Count' /\ Ran' = Ran
          /\ \A k : Wanted(k)' <=> Wanted(k)
      BY <2>1, <2>3, SameAll, Zenon DEF vars
    <3>2. \A k : Past(k)' <=> Past(k)
      BY <2>3, Zenon DEF Past, vars
    <3>3. Place'
      BY <2>1, <2>3, Zenon DEF AllInv, Place, vars
    <3>4. CallbackRan' /\ BeforeRan' /\ CleanupRan' /\ EndRan'
      BY <2>1, <2>3, <3>1, <3>2, Zenon
         DEF AllInv, CallbackRan, BeforeRan, CleanupRan, EndRan, vars
    <3> QED BY <3>1, <3>3, <3>4, Zenon DEF AllInv
  <2> QED BY <2>2, <2>3, Zenon
<1> QED BY <1>1, <1>2, InitAll, InvCorrect, PTL DEF Spec
================================================================================
