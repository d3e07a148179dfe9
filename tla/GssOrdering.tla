------------------------------ MODULE GssOrdering ------------------------------
(***************************************************************************)
(* The replay and sequence window of a Kerberos GSS security context,      *)
(* components/krb5/Solaris/util_ordering.c.  Per-message tokens carry a    *)
(* sequence number of fixed width; the context keeps the last              *)
(* QUEUE_LENGTH numbers it took in a circular queue and classifies every   *)
(* number it is given.                                                     *)
(*                                                                         *)
(* A call of g_order_check is a call step that brings in a token, a step   *)
(* for rules 1-3, and one step per iteration of the rule 4-5 loop.  Tokens *)
(* are identified by their true, unbounded position n in the sender's      *)
(* stream; the code only ever sees the number on the wire.                 *)
(***************************************************************************)
EXTENDS Integers

CONSTANTS QUEUE_LENGTH,  \* slots of queue.elem (20 in the code)
          Half,          \* half the range of sequence numbers: 2^31 or 2^63
          Fill,          \* what memset leaves in a slot: 0xfe...fe
          FirstNums,     \* initial sequence numbers to consider
          Horizon        \* bound: tokens are numbered 0..Horizon-1

ASSUME QueueLengthAssumption == QUEUE_LENGTH \in Nat \ {0}
ASSUME HalfAssumption == Half \in Nat \ {0}
ASSUME HorizonAssumption == Horizon \in Nat

Modulus == 2 * Half              \* mask + 1
SeqNum == 0 .. Modulus - 1
Mask(x) == x % Modulus           \* x & q->mask
Slots == 0 .. QUEUE_LENGTH - 1

ASSUME FirstNumsAssumption == FirstNums \subseteq SeqNum
ASSUME FillAssumption == Fill \in SeqNum

VARIABLES do_replay, do_sequence, start, length, firstnum, elem,  \* queue
          pc, seqnum, i,      \* the call in progress
          cur, ret,           \* the token it was given, the last status
          newest,             \* history: true number of the newest element
          watched, done       \* history: some token, and whether it has been
                              \* given COMPLETE or GAP_TOKEN

flags == <<do_replay, do_sequence, firstnum, watched>>
queue == <<start, length, elem>>
vars == <<do_replay, do_sequence, start, length, firstnum, elem, pc, seqnum, i,
          cur, ret, newest, watched, done>>

Status == {"none", "COMPLETE", "GAP_TOKEN", "OLD_TOKEN", "UNSEQ_TOKEN",
           "DUPLICATE_TOKEN", "FAILURE"}

Slot(k) == k % QUEUE_LENGTH
QELEM(k) == elem[Slot(k)]
Last == start + length - 1

\* Planted bug: compares without regard to wrap-around.
Bug_after(n1, n2) == n1 > n2

\* n1 is after n2, with numbers more than half the range apart compared the
\* other way round.  n1 & half is not zero exactly when n1 >= half.
after(n1, n2) ==
    LET diff == IF n1 > n2 THEN n1 - n2 ELSE n2 - n1
    IN  /\ n1 # n2
        /\ IF diff < Half THEN n1 > n2 ELSE n1 < Half

\* Elements (pos, Last] move up one slot, s goes into slot pos+1.  A slot k is
\* the slot of exactly one index of pos+1 .. pos+QUEUE_LENGTH.
queue_insert(pos, s) ==
    /\ elem' = [k \in Slots |->
                  LET j == pos + 1 + ((k - pos - 1) % QUEUE_LENGTH)
                  IN  IF j = pos + 1 THEN s
                      ELSE IF j <= Last + 1 THEN QELEM(j - 1) ELSE elem[k]]
    /\ IF length = QUEUE_LENGTH
       THEN /\ start' = IF start + 1 = QUEUE_LENGTH THEN 0 ELSE start + 1
            /\ length' = length
       ELSE /\ start' = start
            /\ length' = length + 1

Init ==
    /\ do_replay \in BOOLEAN /\ do_sequence \in BOOLEAN
    /\ firstnum \in FirstNums
    /\ start = 0 /\ length = 1
    /\ elem = [k \in Slots |-> IF k = 0 THEN Mask(0 - 1) ELSE Fill]
    /\ pc = "idle" /\ seqnum = 0 /\ i = 0
    /\ cur = 0 /\ ret = "none"
    /\ newest = -1 /\ watched \in 0 .. Horizon - 1 /\ done = FALSE

ReplayOnly == do_replay /\ ~do_sequence

Return(s) ==
    /\ pc' = "idle"
    /\ ret' = s
    /\ done' = (done \/ (cur = watched /\ s \in {"COMPLETE", "GAP_TOKEN"}))
    /\ seqnum' = 0 /\ i' = 0
    /\ cur' = cur
    /\ UNCHANGED flags

\* Entry of g_order_check: the number read from the token, relative to the
\* first number of the context and reduced to its width.
Wire(n) == Mask(firstnum + n)

Call(n) ==
    /\ pc = "idle"
    /\ pc' = "check"
    /\ cur' = n
    /\ seqnum' = Mask(Wire(n) - firstnum)
    /\ UNCHANGED <<flags, queue, i, ret, newest, done>>

expected == Mask(QELEM(Last) + 1)

\* The early return, rules 1 to 3, and the test against the newest element.
Unprotected ==
    /\ ~do_replay /\ ~do_sequence
    /\ Return("COMPLETE")
    /\ UNCHANGED <<queue, newest>>

Rule1Expected ==
    /\ seqnum = expected
    /\ queue_insert(Last, seqnum)
    /\ newest' = cur
    /\ Return("COMPLETE")

\* Planted bug: a gap is reported to a context that only detects replays.
Bug_Rule2Ahead ==
    /\ seqnum # expected
    /\ after(seqnum, expected)
    /\ queue_insert(Last, seqnum)
    /\ newest' = cur
    /\ Return("GAP_TOKEN")

Rule2Ahead ==
    /\ seqnum # expected
    /\ after(seqnum, expected)
    /\ queue_insert(Last, seqnum)
    /\ newest' = cur
    /\ Return(IF ReplayOnly THEN "COMPLETE" ELSE "GAP_TOKEN")

Rule3Old ==
    /\ seqnum # expected
    /\ ~after(seqnum, expected)
    /\ after(QELEM(start), seqnum)
    /\ Return(IF ReplayOnly THEN "OLD_TOKEN" ELSE "UNSEQ_TOKEN")
    /\ UNCHANGED <<queue, newest>>

\* Planted bug: the newest element is not compared before the loop.
Bug_Rule45 ==
    /\ seqnum # expected
    /\ ~after(seqnum, expected)
    /\ ~after(QELEM(start), seqnum)
    /\ pc' = "scan"
    /\ i' = start
    /\ UNCHANGED <<flags, seqnum, cur, ret, done, queue, newest>>

Rule45 ==
    /\ seqnum # expected
    /\ ~after(seqnum, expected)
    /\ ~after(QELEM(start), seqnum)
    /\ IF seqnum = QELEM(Last)
       THEN Return("DUPLICATE_TOKEN")
       ELSE /\ pc' = "scan"
            /\ i' = start
            /\ UNCHANGED <<flags, seqnum, cur, ret, done>>
    /\ UNCHANGED <<queue, newest>>

Check ==
    /\ pc = "check"
    /\ \/ Unprotected
       \/ /\ do_replay \/ do_sequence
          /\ Rule1Expected \/ Rule2Ahead \/ Rule3Old \/ Rule45

\* One iteration of the loop over [start, Last), and the return after it.
ScanDuplicate ==
    /\ seqnum = QELEM(i)
    /\ Return("DUPLICATE_TOKEN")
    /\ UNCHANGED <<queue, newest>>

Between == after(seqnum, QELEM(i)) /\ after(QELEM(i + 1), seqnum)

\* Planted bug: a late token goes to the end of the queue.
Bug_ScanInsert ==
    /\ seqnum # QELEM(i)
    /\ Between
    /\ queue_insert(Last, seqnum)
    /\ Return(IF ReplayOnly THEN "COMPLETE" ELSE "UNSEQ_TOKEN")
    /\ UNCHANGED newest

ScanInsert ==
    /\ seqnum # QELEM(i)
    /\ Between
    /\ queue_insert(i, seqnum)
    /\ Return(IF ReplayOnly THEN "COMPLETE" ELSE "UNSEQ_TOKEN")
    /\ UNCHANGED newest

ScanOn ==
    /\ seqnum # QELEM(i)
    /\ ~Between
    /\ i' = i + 1
    /\ UNCHANGED <<flags, queue, pc, seqnum, cur, ret, newest, done>>

Scan ==
    /\ pc = "scan"
    /\ IF i < Last
       THEN ScanDuplicate \/ ScanInsert \/ ScanOn
       ELSE Return("FAILURE") /\ UNCHANGED <<queue, newest>>

\* Export and import of a context between calls: the bytes of the queue move
\* into the token and back, unchanged.
Externalize ==
    /\ pc = "idle"
    /\ pc' = "exported"
    /\ UNCHANGED <<flags, queue, seqnum, i, cur, ret, newest, done>>

Internalize ==
    /\ pc = "exported"
    /\ pc' = "idle"
    /\ UNCHANGED <<flags, queue, seqnum, i, cur, ret, newest, done>>

System == Check \/ Scan \/ Internalize

Next == System \/ Externalize \/ \E n \in 0 .. Horizon - 1 : Call(n)

\* Any number at all may arrive, in any order and any number of times.
Spec == Init /\ [][Next]_vars /\ WF_vars(System)

(***************************************************************************)
(* The comment above after() assumes that no token is further out of order *)
(* than half the range of numbers: beyond that nobody can tell a gap from  *)
(* an old token that wrapped.  HalfRangeSpec is the specification under    *)
(* that assumption: the token, the elements of the queue and the number    *)
(* expected next lie less than half the range apart.                       *)
(***************************************************************************)
TrueNum(e) == newest - Mask(newest - e)
Window == {TrueNum(QELEM(k)) : k \in start .. Last}
InHalfRange(n) ==
    \A w \in Window \cup {newest + 1} : n - w < Half /\ w - n < Half

HalfRangeNext ==
    \/ System
    \/ Externalize
    \/ \E n \in 0 .. Horizon - 1 : InHalfRange(n) /\ Call(n)

HalfRangeSpec == Init /\ [][HalfRangeNext]_vars /\ WF_vars(System)

TypeOK ==
    /\ do_replay \in BOOLEAN /\ do_sequence \in BOOLEAN
    /\ firstnum \in SeqNum
    /\ start \in Slots /\ length \in 1 .. QUEUE_LENGTH
    /\ elem \in [Slots -> SeqNum]
    /\ pc \in {"idle", "check", "scan", "exported"}
    /\ seqnum \in SeqNum /\ i \in Nat
    /\ cur \in Nat /\ ret \in Status
    /\ newest \in Int /\ watched \in Nat /\ done \in BOOLEAN

\* "this should never happen" (end of g_order_check): whatever numbers arrive,
\* however far out of range, every call ends in one of rules 1 to 5.
NeverFails == ret # "FAILURE"

\* The loop of rules 4 and 5 keeps seqnum at or after the element it looks at
\* and before the newest one, so it cannot run off the end of the queue.
ScanInv ==
    pc = "scan" =>
        /\ i \in start .. Last
        /\ seqnum = QELEM(i) \/ after(seqnum, QELEM(i))
        /\ after(QELEM(Last), seqnum)

\* The rep invariant of the queue: from the first element to the last, every
\* element is newer than the ones before it.
RepInv ==
    \A j, k \in start .. Last : j < k => after(QELEM(k), QELEM(j))

\* Replay protection: when replay or sequence checking is on, no token is
\* given COMPLETE or GAP twice, across wrap-around, eviction from the full
\* queue, reordering and duplication.
NoReplay ==
    [][ (do_replay \/ do_sequence) /\ pc \in {"check", "scan"} /\ pc' = "idle"
        /\ cur = watched /\ ret' \in {"COMPLETE", "GAP_TOKEN"}
        => ~done ]_vars

\* Every call of g_order_check returns.
CallReturns == pc = "check" ~> pc = "idle"

\* The queue implements a window over unbounded numbers: see GssWindow.
Abstract == INSTANCE GssWindow
              WITH window <- Window, busy <- pc \in {"check", "scan"}
ImplementsWindow == Abstract!Spec
================================================================================
