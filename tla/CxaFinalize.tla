------------------------------ MODULE CxaFinalize ------------------------------
(***************************************************************************)
(* llvm-21/cxa_finalize/cxa_finalize.c (llvm-13 has the same): the list of *)
(* destructors an executable or shared object keeps for its static         *)
(* objects.  __cxa_atexit adds to it; at exit or dlclose the callback that *)
(* was given to atexit runs the destructors, then __do_cleanup those that  *)
(* are left.  A destructor may register others.                            *)
(*                                                                         *)
(* Each registration is a handler, numbered in the order of registration.  *)
(* Threads register under the mutex and have stopped when the program      *)
(* exits, so a registration is one step; while handlers run, every test    *)
(* of a list element is a step.  Every handler has the global scope that   *)
(* __cxa_atexit gives it, so the callback's loop over local ones is empty. *)
(* A loop that is to read an element which was never written, or one of a  *)
(* block that was freed, gets no further here.                             *)
(***************************************************************************)
EXTENDS Integers, Sequences

CONSTANTS Chunk,        \* __CXA_ATEXIT_CHUNK
          MaxHandlers   \* bound: registrations

ASSUME CxaAssumption ==
    Chunk \in Nat \ {0} /\ MaxHandlers \in Nat

VARIABLES shared,       \* __dso_handle is not NULL: not an executable
          mem,          \* blocks of memory: sequences of the elements written
          list,         \* _list: the number of its block (0: NULL), size, nelem
          initialized,  \* _initialized
          registered,   \* _registered
          locked,       \* _mtx, between steps
          made,         \* handlers registered
          phase,        \* "run", "callback", "cleanup" or "end"
          walk,         \* the loop over the list: block, position, counter
          handler,      \* what the running handler does next
          before,       \* history: handlers registered before the callback
          late,         \* history: handlers registered before __do_cleanup
          ran,          \* history: the handlers run
          moved,        \* history: the list was copied while a handler ran
          lost          \* history: a failure has dropped the list

vars == <<shared, mem, list, initialized, registered, locked, made, phase, walk,
          handler, before, late, ran, moved, lost>>

NoWalk == [block |-> 0, p |-> 0, i |-> 0]

Init ==
    /\ shared \in BOOLEAN
    /\ mem = <<>> /\ list = [block |-> 0, size |-> 0, nelem |-> 0]
    /\ initialized = FALSE /\ registered = FALSE /\ locked = FALSE
    /\ made = 0 /\ phase = "run" /\ walk = NoWalk /\ handler = "none"
    /\ before = 0 /\ late = 0 /\ ran = <<>>
    /\ moved = FALSE /\ lost = FALSE

--------------------------------------------------------------------------------
\* Planted bug: a full list is noticed one element late.
Bug_Extended(l) ==
    IF ~initialized THEN [block |-> Len(mem) + 1, size |-> Chunk, nelem |-> 0]
    ELSE IF l.nelem > l.size
    THEN [l EXCEPT !.block = Len(mem) + 1, !.size = 2 * @]
    ELSE l

\* The list as __register_with_atexit extends it: by its first block, by a copy
\* of twice the size, or not at all.
Extended(l) ==
    IF ~initialized THEN [block |-> Len(mem) + 1, size |-> Chunk, nelem |-> 0]
    ELSE IF l.nelem = l.size
    THEN [l EXCEPT !.block = Len(mem) + 1, !.size = 2 * @]
    ELSE l

Blocks(l) ==
    IF Extended(l).block = l.block THEN mem
    ELSE Append(mem, IF l.block = 0 THEN <<>> ELSE mem[l.block])

Added(own) ==
    LET l == Extended(list)
    IN  /\ list' = [l EXCEPT !.nelem = @ + 1]
        /\ mem' = [Blocks(list) EXCEPT ![l.block] =
                     Append(@, [h |-> made + 1, own |-> own, done |-> FALSE])]
        /\ initialized' = TRUE /\ registered' = TRUE /\ made' = made + 1

\* The list is given up: its block is freed.
Dropped ==
    /\ list' = [block |-> 0, size |-> 0, nelem |-> 0]
    /\ mem' = [b \in DOMAIN mem |-> IF b = list.block THEN <<>> ELSE mem[b]]
    /\ initialized' = TRUE
    /\ UNCHANGED <<registered, made>>

Full == initialized /\ list.nelem = list.size

\* __register_with_atexit.  There is no memory for the first block or for a
\* larger one, or atexit fails: in the last two cases the list is dropped.
register_with_atexit(own) ==
    \/ /\ Added(own)
       /\ IF phase # "run" /\ Full /\ list.block # 0 THEN moved' = TRUE
                                                   ELSE UNCHANGED moved
       /\ UNCHANGED lost
    \/ /\ ~initialized
       /\ UNCHANGED <<mem, list, initialized, registered, made, moved, lost>>
    \/ /\ Full \/ ~registered
       /\ Dropped
       /\ lost' = TRUE /\ UNCHANGED moved

\* From a thread, before the program exits.
cxa_atexit(own) ==
    /\ phase = "run" /\ made < MaxHandlers
    /\ register_with_atexit(own)
    /\ UNCHANGED <<shared, locked, phase, walk, handler, before, late, ran>>

--------------------------------------------------------------------------------
\* A handler that is called registers others, or returns.
Doings == {"registers", "returns"}

HandlerRegisters(own) ==
    /\ handler = "registers" /\ ~locked /\ made < MaxHandlers
    /\ register_with_atexit(own)
    /\ handler' \in Doings
    /\ UNCHANGED <<shared, locked, phase, walk, before, late, ran>>

\* The handler does without a registration beyond the bound.
HandlerGivesUp ==
    /\ handler = "registers" /\ made = MaxHandlers
    /\ handler' = "returns"
    /\ UNCHANGED <<shared, mem, list, initialized, registered, locked, made, phase,
                   walk, before, late, ran, moved, lost>>

InBlock(w) == w.block \in DOMAIN mem /\ w.p \in DOMAIN mem[w.block]
Element == mem[walk.block][walk.p]

\* Planted bug: a handler is called without being marked as done.
Bug_Call ==
    /\ handler' \in Doings
    /\ ran' = Append(ran, Element.h)
    /\ UNCHANGED mem

\* The element is marked as done, then its function is called.
Call ==
    /\ mem' = [mem EXCEPT ![walk.block][walk.p].done = TRUE]
    /\ handler' \in Doings
    /\ ran' = Append(ran, Element.h)

Skip == UNCHANGED <<mem, handler, ran>>

WalkOnly ==
    UNCHANGED <<shared, list, initialized, registered, made, before, moved, lost>>

FromLast == [block |-> list.block, p |-> list.nelem, i |-> list.nelem]
FromFirst == [block |-> list.block, p |-> 1, i |-> 0]
Down(w) == [w EXCEPT !.p = @ - 1, !.i = @ - 1]
Up(w) == [w EXCEPT !.p = @ + 1, !.i = @ + 1]

\* Planted bug: the length of the list is read once, at the start.
Bug_LoopsOn ==
    /\ handler = "none"
    /\ \/ phase = "callback" /\ walk.i > 0
       \/ phase = "cleanup" /\ ~shared /\ walk.i > 0
       \/ phase = "cleanup" /\ shared /\ (walk.i = 0 \/ walk.i < before)

\* The loops go on: down to the start of the list, or up to its end as it is
\* then, after one turn at least.
LoopsOn ==
    /\ handler = "none"
    /\ \/ phase = "callback" /\ walk.i > 0
       \/ phase = "cleanup" /\ ~shared /\ walk.i > 0
       \/ phase = "cleanup" /\ shared /\ (walk.i = 0 \/ walk.i < list.nelem)

\* exit, or dlclose: atexit's callback is called if it was registered.
Exit ==
    /\ phase = "run"
    /\ phase' = "callback"
    /\ walk' = IF registered THEN FromLast ELSE NoWalk
    /\ before' = made
    /\ UNCHANGED <<shared, mem, list, initialized, registered, locked, made, handler,
                   late, ran, moved, lost>>

\* Planted bug: handlers of other objects are left to __do_cleanup.
Bug_cxa_atexit_callback ==
    /\ phase = "callback" /\ LoopsOn /\ InBlock(walk)
    /\ IF Element.done \/ ~Element.own THEN Skip /\ walk' = Down(walk)
                                       ELSE Call /\ UNCHANGED walk
    /\ UNCHANGED <<locked, phase, late>> /\ WalkOnly

\* One turn of the loop of __cxa_atexit_callback over global handlers.
cxa_atexit_callback ==
    /\ phase = "callback" /\ LoopsOn /\ InBlock(walk)
    /\ IF Element.done THEN Skip /\ walk' = Down(walk)
                       ELSE Call /\ UNCHANGED walk
    /\ UNCHANGED <<locked, phase, late>> /\ WalkOnly

\* The callback is over, and __do_cleanup calls __cxa_finalize(__dso_handle).
do_cleanup ==
    /\ phase = "callback" /\ handler = "none" /\ ~LoopsOn
    /\ late' = made
    /\ IF list.block = 0 THEN phase' = "end" /\ UNCHANGED <<walk, locked>>
       ELSE /\ phase' = "cleanup"
            /\ walk' = IF shared THEN FromFirst ELSE FromLast
            /\ locked' = ~shared
    /\ Skip /\ WalkOnly

\* Planted bug: the mutex is held while the handler runs.
Bug_FinalizeAll ==
    /\ phase = "cleanup" /\ ~shared /\ LoopsOn /\ InBlock(walk)
    /\ IF Element.done THEN Skip /\ walk' = Down(walk) ELSE Call /\ UNCHANGED walk
    /\ UNCHANGED <<phase, locked, late>> /\ WalkOnly

\* __cxa_finalize(NULL), a turn of the loop.
FinalizeAll ==
    /\ phase = "cleanup" /\ ~shared /\ LoopsOn /\ InBlock(walk)
    /\ IF Element.done THEN Skip /\ walk' = Down(walk) /\ UNCHANGED locked
                       ELSE Call /\ locked' = FALSE /\ UNCHANGED walk
    /\ UNCHANGED <<phase, late>> /\ WalkOnly

\* __cxa_finalize(dso), a turn of the loop.
FinalizeDso ==
    /\ phase = "cleanup" /\ shared /\ LoopsOn /\ InBlock(walk)
    /\ IF Element.done \/ ~Element.own THEN Skip /\ walk' = Up(walk)
                                       ELSE Call /\ UNCHANGED walk
    /\ UNCHANGED <<phase, locked, late>> /\ WalkOnly

\* The loop goes on from the handler's element, in __cxa_finalize(NULL) with
\* the mutex.
HandlerReturns ==
    /\ handler = "returns" /\ handler' = "none"
    /\ walk' = IF phase = "cleanup" /\ shared THEN Up(walk) ELSE Down(walk)
    /\ locked' = (phase = "cleanup" /\ ~shared)
    /\ UNCHANGED <<mem, phase, late, ran>> /\ WalkOnly

Finished ==
    /\ phase = "cleanup" /\ handler = "none" /\ ~LoopsOn
    /\ phase' = "end" /\ locked' = FALSE
    /\ UNCHANGED <<walk, late>> /\ Skip /\ WalkOnly

Handler ==
    \/ \E own \in BOOLEAN : HandlerRegisters(own)
    \/ HandlerGivesUp
    \/ HandlerReturns
Exiting == cxa_atexit_callback \/ do_cleanup \/ FinalizeAll \/ FinalizeDso \/ Finished

Next == (\E own \in BOOLEAN : cxa_atexit(own)) \/ Exit \/ Handler \/ Exiting

\* A program that exits goes on, and its handlers return.
Spec == Init /\ [][Next]_vars /\ WF_vars(Handler) /\ WF_vars(Exiting)

--------------------------------------------------------------------------------
TypeOK ==
    /\ \A b \in DOMAIN mem : \A k \in DOMAIN mem[b] :
         mem[b][k] \in [h : 1 .. MaxHandlers, own : BOOLEAN, done : BOOLEAN]
    /\ list.block \in 0 .. Len(mem) /\ list.size \in Nat /\ list.nelem \in Nat
    /\ {shared, initialized, registered, locked} \subseteq BOOLEAN
    /\ made \in 0 .. MaxHandlers /\ {before, late} \subseteq 0 .. made
    /\ phase \in {"run", "callback", "cleanup", "end"}
    /\ handler \in {"none"} \cup Doings

\* A loop is about to read what is not an element.
Astray == LoopsOn /\ ~InBlock(walk)

\* The list never holds more than its block does, as long as no failure has left
\* it with a block of no size, and the loops over it only read elements of the
\* list: handlers that register handlers do not lead a loop astray unless the
\* list is moved or dropped under it.
InBounds ==
    /\ ~lost => list.nelem <= list.size
    /\ ~lost /\ ~moved /\ LoopsOn => InBlock(walk) /\ walk.block = list.block

\* __CXA_FUNC_DONE: no destructor runs twice, though two loops go over the list,
\* handlers add to it under them and failures drop it, unless a full list was
\* moved while a handler ran.
RunOnce == moved \/ \A j, k \in DOMAIN ran : ran[j] = ran[k] => j = k

\* "A Solaris implementation of the Itanium C++ ABI __cxa_atexit and
\* __cxa_finalize functions", by which a destructor that was registered once is
\* called once.  A list that moves under the callback takes the marks along that
\* it has then, and __do_cleanup runs the others again.
CalledOnce == \A j, k \in DOMAIN ran : ran[j] = ran[k] => j = k

\* Destructors registered before the program exits run in the reverse order of
\* their registration, again unless a full list was moved meanwhile.
ReverseOrder ==
    moved \/ \A j, k \in DOMAIN ran :
        j < k /\ {ran[j], ran[k]} \subseteq 1 .. before => ran[j] > ran[k]

\* When the process ends every destructor of the list has run that was registered
\* before exit; those destructors registered during the callback as well, in a
\* shared object if they are its own; and in a shared object also its own ones
\* that were registered last of all, by the destructors __do_cleanup ran.  This
\* holds however often the list was moved, as long as it was not dropped.
AllRun ==
    phase = "end" /\ ~lost =>
        \A k \in 1 .. list.nelem :
            LET e == mem[list.block][k]
            IN  (e.h <= before \/ IF shared THEN e.own ELSE e.h <= late)
                    => \E j \in DOMAIN ran : ran[j] = e.h

\* exit and dlclose come to an end, unless a loop is led astray: no handler waits
\* for the mutex that the loop calling it holds.
ExitFinishes == (phase = "callback") ~> (phase = "end" \/ Astray)
================================================================================
