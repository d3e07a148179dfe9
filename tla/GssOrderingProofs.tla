--------------------------- MODULE GssOrderingProofs ---------------------------
(***************************************************************************)
(* Theorems about the sequence window, for every queue length and every    *)
(* width of sequence number.                                               *)
(***************************************************************************)
EXTENDS GssOrdering, FiniteSetTheorems, TLAPS

(***************************************************************************)
(* Arithmetic.                                                             *)
(***************************************************************************)

\* Reducing modulo a positive number gives a number below it.
LEMMA ModRange ==
    ASSUME NEW m \in Nat \ {0}, NEW x \in Int
    PROVE  x % m \in 0 .. m - 1
OBVIOUS

\* The successor of a sequence number: it wraps to zero at the mask only.
LEMMA MaskSuccessor ==
    ASSUME NEW e \in SeqNum
    PROVE  Mask(e + 1) = IF e + 1 = Modulus THEN 0 ELSE e + 1
  BY HalfAssumption DEF Mask, Modulus, SeqNum

\* after() orders any two different numbers, exactly one way round.
LEMMA AfterTournament ==
    ASSUME NEW a \in SeqNum, NEW b \in SeqNum, a # b
    PROVE  after(a, b) <=> ~after(b, a)
  BY HalfAssumption DEF after, SeqNum, Modulus

\* A number that is neither the newest element nor past the expected one is
\* before the newest element.
LEMMA BeforeNewest ==
    ASSUME NEW e \in SeqNum, NEW s \in SeqNum,
           s # Mask(e + 1), s # e, ~after(s, Mask(e + 1))
    PROVE  after(e, s)
  BY HalfAssumption, MaskSuccessor DEF after, SeqNum, Modulus

\* A remainder is the one number below the modulus with the right difference.
LEMMA ModIs ==
    ASSUME NEW m \in Nat \ {0}, NEW d \in 0 .. m - 1, NEW q \in Int
    PROVE  ((m * q) + d) % m = d
  OBVIOUS

\* Every number is a multiple of the modulus and its remainder.
LEMMA ModDiv ==
    ASSUME NEW m \in Nat \ {0}, NEW a \in Int
    PROVE  \E q \in Int : a = (m * q) + (a % m)
<1>1. a \div m \in Int /\ a = (m * (a \div m)) + (a % m)
  OBVIOUS
<1> QED BY <1>1, Zenon

\* Adding the modulus does not change the remainder.
LEMMA ModUp ==
    ASSUME NEW m \in Nat \ {0}, NEW a \in Int
    PROVE  (a + m) % m = a % m
<1> DEFINE r == a % m
<1>0. r \in 0 .. m - 1
  OBVIOUS
<1>1. PICK q \in Int : a = (m * q) + r
  BY ModDiv, Zenon
<1> HIDE DEF r
<1>2. PICK p \in Int : p = q + 1
  OBVIOUS
<1>3. a + m = (m * p) + r
  BY <1>0, <1>1, <1>2
<1>4. ((m * p) + r) % m = r
  BY <1>0, ModIs
<1> QED BY <1>3, <1>4 DEF r

\* A number moved by less than the modulus wraps at most once.
LEMMA ModShift ==
    ASSUME NEW m \in Nat \ {0}, NEW a \in Int, NEW d \in 0 .. m - 1
    PROVE  (a + d) % m = IF (a % m) + d < m THEN (a % m) + d ELSE (a % m) + d - m
<1> DEFINE r == a % m
<1>0. r \in 0 .. m - 1
  OBVIOUS
<1>1. PICK q \in Int : a = (m * q) + r
  BY ModDiv, Zenon
<1> HIDE DEF r
<1>2. CASE r + d < m
  <2>1. a + d = (m * q) + (r + d)
    BY <1>0, <1>1
  <2>2. r + d \in 0 .. m - 1
    BY <1>0, <1>2
  <2> QED BY <1>2, <2>1, <2>2, ModIs, SMTT(60) DEF r
<1>3. CASE ~(r + d < m)
  <2>1. PICK e \in 0 .. m - 1 : e = r + d - m
    BY <1>0, <1>3
  <2>2. PICK p \in Int : p = q + 1
    OBVIOUS
  <2>3. a + d = (m * p) + e
    BY <1>0, <1>1, <2>1, <2>2
  <2>4. ((m * p) + e) % m = e
    BY ModIs
  <2> QED BY <1>3, <2>1, <2>3, <2>4 DEF r
<1> QED BY <1>2, <1>3

\* Numbers less than half the range apart compare on the wire as they are.
LEMMA AfterTrue ==
    ASSUME NEW a \in Int, NEW b \in Int, a - b < Half, b - a < Half
    PROVE  /\ after(Mask(a), Mask(b)) <=> a > b
           /\ Mask(a) = Mask(b) <=> a = b
<1>0. Half \in Nat \ {0} /\ Modulus = 2 * Half /\ Modulus \in Nat \ {0}
  BY HalfAssumption DEF Modulus
<1>1. ASSUME NEW x \in Int, NEW y \in Int, NEW d \in 0 .. Half - 1, y = x + d
      PROVE  /\ Mask(x) \in 0 .. Modulus - 1
             /\ Mask(y) = IF Mask(x) + d < Modulus THEN Mask(x) + d ELSE Mask(x) + d - Modulus
  <2>1. d \in 0 .. Modulus - 1
    BY <1>0
  <2>2. x % Modulus \in 0 .. Modulus - 1
    BY <1>0
  <2> QED BY <2>1, <2>2, <1>1, <1>0, ModShift, Zenon DEF Mask
<1>2. CASE a > b
  <2>1. PICK d \in 0 .. Half - 1 : a = b + d /\ d # 0
    <3>1. a - b \in 0 .. Half - 1 /\ a = b + (a - b) /\ a - b # 0
      BY <1>0, <1>2
    <3> QED BY <3>1
  <2>2. /\ Mask(b) \in 0 .. Modulus - 1
        /\ Mask(a) = IF Mask(b) + d < Modulus THEN Mask(b) + d ELSE Mask(b) + d - Modulus
    BY <1>1, <2>1
  <2> HIDE DEF Mask
  <2>3. after(Mask(a), Mask(b)) /\ Mask(a) # Mask(b)
    BY <1>0, <2>1, <2>2 DEF after
  <2> QED BY <2>3, <1>2
<1>3. CASE b > a
  <2>1. PICK d \in 0 .. Half - 1 : b = a + d /\ d # 0
    <3>1. b - a \in 0 .. Half - 1 /\ b = a + (b - a) /\ b - a # 0
      BY <1>0, <1>3
    <3> QED BY <3>1
  <2>2. /\ Mask(a) \in 0 .. Modulus - 1
        /\ Mask(b) = IF Mask(a) + d < Modulus THEN Mask(a) + d ELSE Mask(a) + d - Modulus
    BY <1>1, <2>1
  <2>3. ~after(Mask(a), Mask(b)) /\ Mask(a) # Mask(b)
    BY <1>0, <2>1, <2>2 DEF after
  <2> QED BY <2>3, <1>3
<1>4. CASE a = b
  BY <1>4 DEF after
<1> QED BY <1>2, <1>3, <1>4

\* The highest number that is not above n and has t's remainder is t, if t is
\* less than the range of sequence numbers below n.
LEMMA TrueNumMask ==
    ASSUME NEW n \in Int, NEW t \in Int, n - t \in 0 .. Modulus - 1
    PROVE  n - Mask(n - Mask(t)) = t
<1>0. Half \in Nat \ {0} /\ Modulus = 2 * Half /\ Modulus \in Nat \ {0}
  BY HalfAssumption DEF Modulus
<1>1. PICK q \in Int : t = (Modulus * q) + Mask(t)
  BY <1>0, ModDiv, Zenon DEF Mask
<1>2. Mask(t) \in Int
  BY <1>0 DEF Mask
<1>3. n - Mask(t) = (Modulus * q) + (n - t)
  BY <1>0, <1>1, <1>2
<1>4. ((Modulus * q) + (n - t)) % Modulus = n - t
  <2>1. PICK d \in 0 .. Modulus - 1 : d = n - t
    OBVIOUS
  <2> QED BY <1>0, <2>1, ModIs
<1>5. Mask(n - Mask(t)) = n - t
  BY <1>3, <1>4 DEF Mask
<1> QED BY <1>5

\* Reducing a number to the width of sequence numbers gives one.
LEMMA MaskType == \A x \in Int : Mask(x) \in SeqNum
  BY HalfAssumption, ModRange DEF Mask, SeqNum, Modulus

\* A multiple of the modulus more or less does not change the remainder.
LEMMA ModPeriod ==
    ASSUME NEW m \in Nat \ {0}, NEW a \in Int, NEW q \in Int
    PROVE  (a - (m * q)) % m = a % m
<1> DEFINE r == a % m
<1>0. r \in 0 .. m - 1
  OBVIOUS
<1>1. PICK p \in Int : a = (m * p) + r
  BY ModDiv, Zenon
<1> HIDE DEF r
<1>2. PICK d \in Int : d = p - q
  OBVIOUS
<1>3. a - (m * q) = (m * d) + r
  BY <1>0, <1>1, <1>2
<1>4. ((m * d) + r) % m = r
  BY <1>0, ModIs
<1> QED BY <1>3, <1>4 DEF r

\* Subtracting from a remainder, or from the number it is the remainder of.
LEMMA ModBack ==
    ASSUME NEW m \in Nat \ {0}, NEW a \in Int, NEW c \in Int
    PROVE  ((a % m) - c) % m = (a - c) % m
<1> DEFINE r == a % m
<1>0. r \in Int
  OBVIOUS
<1>1. PICK q \in Int : a = (m * q) + r
  BY ModDiv, Zenon
<1> HIDE DEF r
<1>2. PICK b \in Int : b = a - c
  OBVIOUS
<1>3. r - c = b - (m * q)
  BY <1>0, <1>1, <1>2
<1>4. (b - (m * q)) % m = b % m
  BY ModPeriod, Zenon
<1> QED BY <1>2, <1>3, <1>4 DEF r

\* The token's number relative to the first one of the context is its number.
LEMMA MaskWire ==
    ASSUME NEW f \in Int, NEW n \in Int
    PROVE  Mask(Mask(f + n) - f) = Mask(n)
<1>0. Modulus \in Nat \ {0}
  BY HalfAssumption DEF Modulus
<1>1. PICK x \in Int : x = f + n
  OBVIOUS
<1>2. ((x % Modulus) - f) % Modulus = (x - f) % Modulus
  BY <1>0, ModBack, Zenon
<1>3. x - f = n
  BY <1>1
<1> QED BY <1>1, <1>2, <1>3 DEF Mask

(***************************************************************************)
(* The queue.                                                              *)
(***************************************************************************)

\* Every index names a slot of the queue.
LEMMA SlotType == \A k \in Int : Slot(k) \in Slots
  BY QueueLengthAssumption, ModRange DEF Slot, Slots

\* queue_insert leaves a well-formed queue.
LEMMA InsertType ==
    ASSUME TypeOK, NEW pos \in Nat, NEW s \in SeqNum, queue_insert(pos, s)
    PROVE  /\ elem' \in [Slots -> SeqNum]
           /\ start' \in Slots
           /\ length' \in 1 .. QUEUE_LENGTH
<1>1. \A k \in Int : QELEM(k) \in SeqNum
  BY SlotType DEF TypeOK, QELEM
<1>2. \A k \in Slots : (k - pos - 1) % QUEUE_LENGTH \in Int
  BY QueueLengthAssumption, ModRange DEF Slots
<1>3. elem' \in [Slots -> SeqNum]
  BY <1>1, <1>2 DEF TypeOK, queue_insert, Slots
<1>4. start' \in Slots /\ length' \in 1 .. QUEUE_LENGTH
  <2>1. start \in Slots /\ length \in 1 .. QUEUE_LENGTH
    BY DEF TypeOK
  <2>2. IF length = QUEUE_LENGTH
        THEN length' = length /\ start' = IF start + 1 = QUEUE_LENGTH THEN 0 ELSE start + 1
        ELSE length' = length + 1 /\ start' = start
    BY DEF queue_insert
  <2> QED BY <2>1, <2>2, QueueLengthAssumption DEF Slots
<1> QED
  BY <1>3, <1>4

\* The variables a returning call leaves well typed.
LEMMA ReturnType ==
    ASSUME TypeOK, NEW s \in Status, Return(s)
    PROVE  /\ pc' = "idle" /\ ret' = s
           /\ do_replay' \in BOOLEAN /\ do_sequence' \in BOOLEAN
           /\ firstnum' \in SeqNum
           /\ seqnum' \in SeqNum /\ i' \in Nat /\ cur' \in Nat /\ ret' \in Status
           /\ watched' \in Nat /\ done' \in BOOLEAN
  BY HalfAssumption DEF TypeOK, Return, flags, SeqNum, Modulus

\* The type invariant holds in the first state.
LEMMA InitType == Init => TypeOK
<1>1. Mask(0 - 1) \in SeqNum /\ 0 \in SeqNum
  BY HalfAssumption, ModRange DEF Mask, SeqNum, Modulus
<1>2. Init => elem \in [Slots -> SeqNum]
  BY <1>1, FillAssumption DEF Init
<1>3. Init => start \in Slots /\ length \in 1 .. QUEUE_LENGTH
  BY QueueLengthAssumption DEF Init, Slots
<1>4. Init => /\ do_replay \in BOOLEAN /\ do_sequence \in BOOLEAN
              /\ firstnum \in SeqNum /\ seqnum \in SeqNum
  BY <1>1, FirstNumsAssumption DEF Init
<1>5. Init => watched \in Nat /\ i \in Nat /\ cur \in Nat /\ newest \in Int
  BY HorizonAssumption DEF Init
<1>6. Init => ret \in Status /\ pc \in {"idle", "check", "scan", "exported"}
  BY DEF Init, Status
<1> QED
  BY <1>2, <1>3, <1>4, <1>5, <1>6, Zenon DEF Init, TypeOK

\* Every step of g_order_check and of export and import preserves it.
LEMMA NextType == TypeOK /\ [Next]_vars => TypeOK'
<1> SUFFICES ASSUME TypeOK, [Next]_vars PROVE TypeOK'
  OBVIOUS
<1> USE DEF TypeOK
<1>0. Last \in Nat
  BY QueueLengthAssumption DEF Last, Slots
<1>1. ASSUME NEW n \in 0 .. Horizon - 1, Call(n) PROVE TypeOK'
  <2>1. Mask(Wire(n) - firstnum) \in SeqNum
    BY HalfAssumption, ModRange DEF Mask, Wire, SeqNum, Modulus
  <2> QED
    BY <1>1, <2>1, HorizonAssumption DEF Call, flags, queue
<1>2. CASE pc = "check" /\ Unprotected
  BY <1>2, ReturnType DEF Unprotected, queue, Status
<1>3. CASE pc = "check" /\ Rule1Expected
  BY <1>0, <1>3, ReturnType, InsertType DEF Rule1Expected, Status
<1>4. CASE pc = "check" /\ Rule2Ahead
  BY <1>0, <1>4, ReturnType, InsertType DEF Rule2Ahead, Status
<1>5. CASE pc = "check" /\ Rule3Old
  BY <1>5, ReturnType DEF Rule3Old, queue, Status
<1>6. CASE pc = "check" /\ Rule45
  BY <1>6, ReturnType DEF Rule45, queue, flags, Slots, Status
<1>7. CASE Scan
  <2>1. CASE ScanDuplicate
    BY <2>1, ReturnType DEF ScanDuplicate, queue, Status
  <2>2. CASE ScanInsert
    BY <2>2, ReturnType, InsertType DEF ScanInsert, Status
  <2>3. CASE ScanOn
    BY <2>3 DEF ScanOn, queue, flags
  <2>4. CASE Return("FAILURE") /\ UNCHANGED <<queue, newest>>
    BY <2>4, ReturnType DEF queue, Status
  <2> QED
    BY <1>7, <2>1, <2>2, <2>3, <2>4 DEF Scan
<1>8. CASE Internalize \/ Externalize
  BY <1>8 DEF Internalize, Externalize, flags, queue
<1>9. CASE UNCHANGED vars
  BY <1>9 DEF vars
<1> QED
  BY <1>1, <1>2, <1>3, <1>4, <1>5, <1>6, <1>7, <1>8, <1>9 DEF Next, System, Check

\* The queue stays well formed and every variable keeps its type, whatever
\* tokens arrive.
THEOREM TypeCorrect == Spec => []TypeOK
  BY InitType, NextType, PTL DEF Spec

(***************************************************************************)
(* Every call ends in one of the five rules.                               *)
(***************************************************************************)

IInv == TypeOK /\ ScanInv /\ NeverFails

\* The loop invariant and the absence of FAILURE are inductive together: rule
\* 1 to 3 put seqnum between the first and the newest element, and the loop
\* leaves an element behind only when seqnum is not before the next one.
LEMMA NextScan == IInv /\ [Next]_vars => ScanInv' /\ NeverFails'
<1> SUFFICES ASSUME IInv, [Next]_vars PROVE ScanInv' /\ NeverFails'
  OBVIOUS
<1> USE DEF IInv, NeverFails
<1>0. Last \in Nat /\ start <= Last
  BY QueueLengthAssumption DEF TypeOK, Last, Slots
<1>a. \A k \in Int : QELEM(k) \in SeqNum
  BY SlotType DEF TypeOK, QELEM
<1>1. ASSUME NEW n \in 0 .. Horizon - 1, Call(n) PROVE ScanInv' /\ NeverFails'
  BY <1>1 DEF Call, ScanInv
<1>2. ASSUME NEW s \in Status \ {"FAILURE"}, Return(s) PROVE ScanInv' /\ NeverFails'
  BY <1>2 DEF Return, ScanInv
<1>3. CASE pc = "check" /\ (Unprotected \/ Rule1Expected \/ Rule2Ahead \/ Rule3Old)
  BY <1>2, <1>3 DEF Unprotected, Rule1Expected, Rule2Ahead, Rule3Old, Status
<1>4. CASE pc = "check" /\ Rule45
  <2>1. CASE seqnum = QELEM(Last)
    BY <1>2, <1>4, <2>1 DEF Rule45, Status
  <2>2. CASE seqnum # QELEM(Last)
    <3>1. after(QELEM(Last), seqnum)
      BY <1>0, <1>4, <1>a, <2>2, BeforeNewest DEF Rule45, expected, TypeOK
    <3>2. seqnum = QELEM(start) \/ after(seqnum, QELEM(start))
      BY <1>4, <1>a, AfterTournament DEF Rule45, TypeOK, Slots
    <3>3. /\ pc' = "scan" /\ i' = start /\ seqnum' = seqnum /\ ret' = ret
          /\ start' = start /\ length' = length /\ elem' = elem
      BY <1>4, <2>2 DEF Rule45, queue
    <3> QED
      BY <1>0, <3>1, <3>2, <3>3 DEF ScanInv, QELEM, Last, TypeOK, Slots
  <2> QED
    BY <2>1, <2>2
<1>5. CASE Scan
  <2>0. /\ i \in start .. Last
        /\ seqnum = QELEM(i) \/ after(seqnum, QELEM(i))
        /\ after(QELEM(Last), seqnum)
    BY <1>5 DEF Scan, ScanInv
  <2>1. i < Last
    <3> SUFFICES ASSUME i = Last PROVE FALSE
      BY <1>0, <2>0 DEF TypeOK, Slots
    <3>1. seqnum # QELEM(Last)
      BY <2>0 DEF after
    <3> QED
      BY <1>0, <1>a, <2>0, <3>1, AfterTournament DEF TypeOK
  <2>2. CASE ScanDuplicate \/ ScanInsert
    BY <1>2, <2>2 DEF ScanDuplicate, ScanInsert, Status
  <2>3. CASE ScanOn
    <3>1. after(seqnum, QELEM(i))
      BY <2>0, <2>3 DEF ScanOn
    <3>2. ~after(QELEM(i + 1), seqnum)
      BY <2>3, <3>1 DEF ScanOn, Between
    <3>3. seqnum = QELEM(i + 1) \/ after(seqnum, QELEM(i + 1))
      BY <1>a, <3>2, AfterTournament DEF TypeOK
    <3>4. /\ i' = i + 1 /\ seqnum' = seqnum /\ ret' = ret
          /\ start' = start /\ length' = length /\ elem' = elem
      BY <2>3 DEF ScanOn, queue
    <3> QED
      BY <1>0, <2>0, <2>1, <3>3, <3>4 DEF ScanInv, QELEM, Last, TypeOK, Slots
  <2> QED
    BY <1>5, <2>1, <2>2, <2>3 DEF Scan
<1>6. CASE Internalize \/ Externalize
  BY <1>6 DEF Internalize, Externalize, ScanInv
<1>7. CASE UNCHANGED vars
  BY <1>7 DEF vars, ScanInv, QELEM, Last
<1> QED
  BY <1>1, <1>3, <1>4, <1>5, <1>6, <1>7 DEF Next, System, Check

\* "this should never happen": g_order_check never falls through to
\* GSS_S_FAILURE, for every queue length and width, and with no assumption on
\* how far out of order the tokens arrive.
THEOREM NeverFailsCorrect == Spec => [](ScanInv /\ NeverFails)
<1>1. Init => IInv
  BY InitType DEF Init, IInv, ScanInv, NeverFails
<1>2. IInv /\ [Next]_vars => IInv'
  BY NextType, NextScan DEF IInv
<1>3. IInv => ScanInv /\ NeverFails
  BY DEF IInv
<1> QED
  BY <1>1, <1>2, <1>3, PTL DEF Spec

(***************************************************************************)
(* The queue holds true numbers.  From here on no token is further out of  *)
(* order than half the range of sequence numbers (HalfRangeSpec).          *)
(***************************************************************************)

\* The true number of the element at index k.
T(k) == TrueNum(QELEM(k))

\* What the code's order of the elements stands for: their true numbers grow
\* from the first to the newest, within half the range.
Order ==
    /\ T(Last) = newest
    /\ \A j, k \in start .. Last : j < k => T(j) < T(k)
    /\ newest - T(start) < Half

\* The token of a call that has not returned.
InCall == pc \in {"check", "scan"} => seqnum = Mask(cur) /\ InHalfRange(cur)

\* A token that was accepted is remembered, or older than all that are.
Protected == do_replay \/ do_sequence
Seen ==
    /\ pc = "scan" => Protected
    /\ Protected /\ done => watched \in Window \/ watched < T(start)

HInv == IInv /\ Order /\ InCall /\ Seen

\* An element is its true number, reduced to the width of sequence numbers.
LEMMA TrueNums ==
    ASSUME TypeOK, NEW k \in Int
    PROVE  T(k) \in Int /\ T(k) <= newest /\ QELEM(k) = Mask(T(k))
<1> DEFINE e == QELEM(k)
<1>0. Modulus \in Nat \ {0} /\ newest \in Int
  BY HalfAssumption DEF Modulus, TypeOK
<1>1. e \in 0 .. Modulus - 1
  BY SlotType DEF TypeOK, QELEM, SeqNum
<1> HIDE DEF e
<1>2. PICK x \in Int : x = newest - e
  BY <1>0, <1>1
<1>3. PICK r \in 0 .. Modulus - 1 : r = x % Modulus
  BY <1>0
<1>4. PICK q \in Int : x = (Modulus * q) + r
  BY <1>0, <1>3, ModDiv, Zenon
<1>5. PICK t \in Int : t = newest - r
  BY <1>0
<1>6. newest - r = (newest - e - r) + e /\ newest - e - r = Modulus * q
  BY <1>0, <1>1, <1>2, <1>4
<1>7. t = (Modulus * q) + e
  BY <1>0, <1>1, <1>5, <1>6
<1>8. t % Modulus = e
  BY <1>0, <1>1, <1>7, ModIs
<1>9. T(k) = t
  BY <1>2, <1>3, <1>5 DEF T, TrueNum, Mask, e
<1> QED BY <1>0, <1>5, <1>8, <1>9 DEF Mask, e

\* Indices that are QUEUE_LENGTH apart name the same slot.
LEMMA SlotUp == \A k \in Int : Slot(k + QUEUE_LENGTH) = Slot(k)
  BY QueueLengthAssumption, ModUp, Zenon DEF Slot

\* Where queue_insert finds the element of an index: j of its definition.
LEMMA SlotBack ==
    ASSUME NEW pos \in Nat, NEW k \in pos + 1 .. pos + QUEUE_LENGTH
    PROVE  pos + 1 + ((Slot(k) - pos - 1) % QUEUE_LENGTH) = k
<1>0. QUEUE_LENGTH \in Nat \ {0}
  BY QueueLengthAssumption
<1>1. PICK c \in Int : c = pos + 1 /\ k \in Int
  BY <1>0
<1>2. ((k % QUEUE_LENGTH) - c) % QUEUE_LENGTH = (k - c) % QUEUE_LENGTH
  BY <1>0, <1>1, ModBack, Zenon
<1>3. PICK d \in 0 .. QUEUE_LENGTH - 1 : d = k - c
  BY <1>0, <1>1
<1>4. ((QUEUE_LENGTH * 0) + d) % QUEUE_LENGTH = d
  BY <1>0, ModIs
<1>5. (k - c) % QUEUE_LENGTH = k - c
  BY <1>0, <1>3, <1>4
<1>6. Slot(k) \in Int /\ Slot(k) - pos - 1 = (k % QUEUE_LENGTH) - c
  BY <1>0, <1>1, ModRange DEF Slot
<1> QED BY <1>1, <1>2, <1>5, <1>6

\* queue_insert with a full queue gives up the first element.
Evicted == IF length = QUEUE_LENGTH THEN 1 ELSE 0

\* The elements by their indices, and their true numbers.
Elems == [k \in start .. Last |-> QELEM(k)]
Nums == [k \in start .. Last |-> T(k)]

\* What is at index k, counted as before, when x has been put after pos.
With(f, pos, x, k) == IF k <= pos THEN f[k] ELSE IF k = pos + 1 THEN x ELSE f[k - 1]

\* The elements after queue_insert, by their old indices.
LEMMA InsertElems ==
    ASSUME TypeOK, NEW pos \in start .. Last, NEW s \in SeqNum, queue_insert(pos, s)
    PROVE  \A k \in start + Evicted .. Last + 1 :
               elem'[Slot(k)] = With(Elems, pos, s, k)
<1>0. /\ QUEUE_LENGTH \in Nat \ {0} /\ start \in Nat /\ length \in 1 .. QUEUE_LENGTH
      /\ Last = start + length - 1 /\ pos \in Nat /\ Last \in Nat
  BY QueueLengthAssumption DEF TypeOK, Slots, Last
<1> SUFFICES ASSUME NEW k \in start + Evicted .. Last + 1
             PROVE  elem'[Slot(k)] = With(Elems, pos, s, k)
  OBVIOUS
<1>1. k \in Nat /\ Slot(k) \in Slots
  BY <1>0, SlotType DEF Evicted
<1>2. ASSUME NEW j \in Int, pos + 1 + ((Slot(k) - pos - 1) % QUEUE_LENGTH) = j
      PROVE  elem'[Slot(k)] = IF j = pos + 1 THEN s
                              ELSE IF j <= Last + 1 THEN QELEM(j - 1) ELSE elem[Slot(k)]
  BY <1>1, <1>2 DEF queue_insert
<1>3. CASE k > pos
  <2>1. k \in pos + 1 .. pos + QUEUE_LENGTH
    BY <1>0, <1>1, <1>3
  <2>2. pos + 1 + ((Slot(k) - pos - 1) % QUEUE_LENGTH) = k
    BY <1>0, <2>1, SlotBack
  <2>3. k > pos + 1 => k - 1 \in start .. Last
    BY <1>0, <1>1
  <2> QED BY <1>0, <1>1, <1>2, <1>3, <2>2, <2>3 DEF With, Elems
<1>4. CASE k <= pos
  <2>1. PICK j \in Nat : j = k + QUEUE_LENGTH
    BY <1>0, <1>1
  <2>2. j \in pos + 1 .. pos + QUEUE_LENGTH /\ j > Last + 1 /\ j # pos + 1
    BY <1>0, <1>1, <1>4, <2>1 DEF Evicted
  <2>3. Slot(j) = Slot(k)
    BY <1>1, <2>1, SlotUp
  <2>4. pos + 1 + ((Slot(k) - pos - 1) % QUEUE_LENGTH) = j
    BY <1>0, <2>2, <2>3, SlotBack
  <2>5. elem'[Slot(k)] = elem[Slot(k)]
    BY <1>0, <1>2, <2>1, <2>2, <2>4
  <2>6. k \in start .. Last
    BY <1>0, <1>1, <1>4 DEF Evicted
  <2> QED BY <1>4, <2>5, <2>6 DEF With, QELEM, Elems
<1> QED BY <1>0, <1>1, <1>3, <1>4

\* The queue after queue_insert: one element more at the end, or one less at
\* the start, and start wraps at the end of the array.
LEMMA NewIndices ==
    ASSUME TypeOK, NEW pos, NEW s, queue_insert(pos, s)
    PROVE  \E shift \in {0, QUEUE_LENGTH} :
               start' = start + Evicted - shift /\ Last' = Last + 1 - shift
<1>0. /\ QUEUE_LENGTH \in Nat \ {0} /\ start \in 0 .. QUEUE_LENGTH - 1
      /\ length \in 1 .. QUEUE_LENGTH
  BY QueueLengthAssumption DEF TypeOK, Slots
<1>1. IF length = QUEUE_LENGTH
      THEN length' = length /\ start' = IF start + 1 = QUEUE_LENGTH THEN 0 ELSE start + 1
      ELSE length' = length + 1 /\ start' = start
  BY DEF queue_insert
<1> QED BY <1>0, <1>1 DEF Evicted, Last

\* Numbers put in order after pos stay in order.
LEMMA WithOrder ==
    ASSUME NEW lo \in Int, NEW hi \in Int, NEW f, NEW pos \in lo .. hi, NEW c \in Int,
           \A k \in lo .. hi : f[k] \in Int,
           \A j, k \in lo .. hi : j < k => f[j] < f[k],
           f[pos] < c, pos < hi => c < f[pos + 1]
    PROVE  /\ \A k \in lo .. hi + 1 : With(f, pos, c, k) \in Int
           /\ \A j, k \in lo .. hi + 1 : j < k => With(f, pos, c, j) < With(f, pos, c, k)
<1>1. \A k \in lo .. hi + 1 : k > pos + 1 => k - 1 \in lo .. hi /\ k - 1 >= pos + 1
  OBVIOUS
<1>2. \A k \in lo .. hi + 1 : k <= pos => k \in lo .. hi
  OBVIOUS
<1>3. \A k \in lo .. hi + 1 : With(f, pos, c, k) \in Int
  BY <1>1, <1>2 DEF With
<1>4. ASSUME NEW j \in lo .. hi + 1, NEW k \in lo .. hi + 1, j < k
      PROVE  With(f, pos, c, j) < With(f, pos, c, k)
  <2>1. CASE j <= pos
    <3>1. f[j] \in Int /\ f[j] <= f[pos] /\ With(f, pos, c, j) = f[j] /\ f[pos] \in Int
      BY <2>1, <1>2 DEF With
    <3>2. CASE k <= pos
      BY <3>1, <3>2, <1>2, <1>4 DEF With
    <3>3. CASE k = pos + 1
      BY <3>1, <3>3 DEF With
    <3>4. CASE k > pos + 1
      <4>1. pos < hi /\ pos + 1 \in lo .. hi /\ f[pos + 1] \in Int /\ f[k - 1] \in Int
            /\ f[pos + 1] <= f[k - 1] /\ With(f, pos, c, k) = f[k - 1]
        BY <3>4, <1>1 DEF With
      <4> QED BY <3>1, <4>1
    <3> QED BY <3>2, <3>3, <3>4
  <2>2. CASE j = pos + 1
    <3>1. pos < hi /\ pos + 1 \in lo .. hi /\ f[pos + 1] \in Int /\ f[k - 1] \in Int
          /\ f[pos + 1] <= f[k - 1] /\ With(f, pos, c, k) = f[k - 1]
      BY <2>2, <1>1, <1>4 DEF With
    <3>2. With(f, pos, c, j) = c
      BY <2>2 DEF With
    <3> QED BY <3>1, <3>2
  <2>3. CASE j > pos + 1
    BY <2>3, <1>1, <1>4 DEF With
  <2> QED BY <2>1, <2>2, <2>3
<1> QED BY <1>3, <1>4

\* The true numbers with one put where it belongs.
LEMMA NumsOrder ==
    ASSUME TypeOK, Order, NEW pos \in start .. Last, NEW c \in Int, T(pos) < c,
           pos < Last => c < T(pos + 1)
    PROVE  /\ \A k \in start .. Last + 1 : With(Nums, pos, c, k) \in Int
           /\ \A j, k \in start .. Last + 1 :
                j < k => With(Nums, pos, c, j) < With(Nums, pos, c, k)
           /\ With(Nums, pos, c, Last + 1) = IF pos < Last THEN newest ELSE c
           /\ With(Nums, pos, c, start) = T(start)
<1>0. start \in Nat /\ Last \in Nat /\ start <= Last /\ newest \in Int
  BY QueueLengthAssumption DEF TypeOK, Slots, Last
<1>1. /\ \A k \in start .. Last : Nums[k] \in Int
      /\ \A j, k \in start .. Last : j < k => Nums[j] < Nums[k]
  BY <1>0, TrueNums DEF Order, Nums
<1>2. Nums[pos] < c /\ (pos < Last => c < Nums[pos + 1])
  BY <1>0 DEF Nums
<1>3. /\ \A k \in start .. Last + 1 : With(Nums, pos, c, k) \in Int
      /\ \A j, k \in start .. Last + 1 :
           j < k => With(Nums, pos, c, j) < With(Nums, pos, c, k)
  <2>1. start \in Int /\ Last \in Int
    BY <1>0
  <2> QED BY <1>1, <1>2, <2>1, WithOrder, Zenon
<1>4. Nums[Last] = newest /\ Nums[start] = T(start) /\ pos <= Last /\ start <= pos
      /\ Last + 1 - 1 = Last
  BY <1>0 DEF Order, Nums
<1> HIDE DEF T, Last
<1>5. With(Nums, pos, c, Last + 1) = IF pos < Last THEN newest ELSE c
  BY <1>0, <1>4 DEF With
<1>6. With(Nums, pos, c, start) = T(start)
  BY <1>0, <1>4 DEF With
<1> QED BY <1>3, <1>5, <1>6

\* queue_insert puts the true number of the token between those of the elements
\* it goes between.
LEMMA InsertNums ==
    ASSUME TypeOK, TypeOK', Order, NEW pos \in start .. Last, NEW c \in Int,
           queue_insert(pos, Mask(c)), T(pos) < c,
           IF pos < Last THEN c < T(pos + 1) /\ newest' = newest ELSE newest' = c,
           c - T(start) < Half
    PROVE  \E shift \in Int :
             /\ start' = start + Evicted - shift /\ Last' = Last + 1 - shift
             /\ \A k \in start' .. Last' : T(k)' = With(Nums, pos, c, k + shift)
<1>0. /\ QUEUE_LENGTH \in Nat \ {0} /\ start \in Nat /\ length \in 1 .. QUEUE_LENGTH
      /\ Last = start + length - 1 /\ Half \in Nat \ {0} /\ Modulus = 2 * Half
      /\ newest \in Int /\ newest' \in Int /\ Evicted \in {0, 1}
  BY QueueLengthAssumption, HalfAssumption DEF TypeOK, Slots, Last, Modulus, Evicted
<1>1. Mask(c) \in SeqNum
  BY MaskType
<1>2. PICK shift \in {0, QUEUE_LENGTH} :
        start' = start + Evicted - shift /\ Last' = Last + 1 - shift
  BY NewIndices
<1>3. \A k \in start .. Last : T(k) \in Int /\ QELEM(k) = Mask(T(k))
  BY <1>0, TrueNums
<1>4. /\ \A k \in start .. Last + 1 : With(Nums, pos, c, k) \in Int
      /\ \A j, k \in start .. Last + 1 :
           j < k => With(Nums, pos, c, j) < With(Nums, pos, c, k)
  BY NumsOrder
<1>5. With(Nums, pos, c, Last + 1) = newest' /\ With(Nums, pos, c, start) = T(start)
  BY NumsOrder
<1>6. newest' - T(start) < Half
  BY <1>0 DEF Order
<1>7. ASSUME NEW j \in start + Evicted .. Last + 1
      PROVE  newest' - With(Nums, pos, c, j) \in 0 .. Modulus - 1
  <2>1. j \in start .. Last + 1 /\ start \in start .. Last + 1 /\ Last + 1 \in start .. Last + 1
    BY <1>0
  <2>2. With(Nums, pos, c, j) <= newest' /\ T(start) <= With(Nums, pos, c, j)
        /\ With(Nums, pos, c, j) \in Int /\ T(start) \in Int
    BY <2>1, <1>0, <1>4, <1>5
  <2>3. PICK w \in Int, t \in Int : w = With(Nums, pos, c, j) /\ t = T(start)
    BY <2>2
  <2> QED BY <2>2, <2>3, <1>0, <1>6
<1>8. ASSUME NEW k \in start' .. Last'
      PROVE  T(k)' = With(Nums, pos, c, k + shift)
  <2>1. PICK j \in start + Evicted .. Last + 1 : j = k + shift
    BY <1>0, <1>2
  <2>2. k \in Int /\ Slot(k) = Slot(j)
    BY <2>1, <1>0, <1>2, SlotUp
  <2>3. elem'[Slot(j)] = With(Elems, pos, Mask(c), j)
    BY <1>1, InsertElems
  <2>4. With(Elems, pos, Mask(c), j) = Mask(With(Nums, pos, c, j))
    <3>1. j <= pos => j \in start .. Last
      BY <1>0
    <3>2. j > pos + 1 => j - 1 \in start .. Last
      BY <1>0
    <3> HIDE DEF T, Last, Mask, QELEM
    <3> QED BY <1>3, <3>1, <3>2, <1>0 DEF With, Elems, Nums
  <2>5. QELEM(k)' = Mask(With(Nums, pos, c, j))
    BY <2>2, <2>3, <2>4 DEF QELEM, Slot
  <2>6. PICK t \in Int : t = With(Nums, pos, c, j)
    BY <1>0, <1>4
  <2>7. newest' - Mask(newest' - Mask(t)) = t
    BY <1>0, <1>7, <2>6, TrueNumMask
  <2>8. T(k)' = newest' - Mask(newest' - QELEM(k)')
    BY DEF T, TrueNum, Mask
  <2> QED BY <2>1, <2>5, <2>6, <2>7, <2>8
<1> QED BY <1>0, <1>2, <1>8

\* The window after queue_insert has the token's number, and has lost the lowest
\* one if the queue was full.
LEMMA InsertWindow ==
    ASSUME TypeOK, TypeOK', Order, NEW pos \in start .. Last, NEW c \in Int,
           queue_insert(pos, Mask(c)), T(pos) < c,
           IF pos < Last THEN c < T(pos + 1) /\ newest' = newest ELSE newest' = c,
           c - T(start) < Half
    PROVE  /\ Order'
           /\ Window' = (Window \cup {c}) \ (IF length = QUEUE_LENGTH THEN {T(start)} ELSE {})
           /\ T(start)' >= T(start)
           /\ length = QUEUE_LENGTH => T(start)' > T(start)
<1> DEFINE W(k) == With(Nums, pos, c, k)
<1>0. /\ start \in Nat /\ Last \in Nat /\ start <= Last /\ Evicted \in {0, 1}
      /\ newest \in Int /\ newest' \in Int /\ Half \in Nat \ {0}
      /\ \A k \in start .. Last : T(k) \in Int
  <2>1. /\ start \in Nat /\ Last \in Nat /\ start <= Last /\ Evicted \in {0, 1}
        /\ newest \in Int /\ newest' \in Int /\ Half \in Nat \ {0}
    BY QueueLengthAssumption, HalfAssumption DEF TypeOK, Slots, Last, Evicted
  <2>2. \A k \in start .. Last : T(k) \in Int
    BY <2>1, TrueNums
  <2> QED BY <2>1, <2>2
<1>1. PICK shift \in Int :
        /\ start' = start + Evicted - shift /\ Last' = Last + 1 - shift
        /\ \A k \in start' .. Last' : T(k)' = W(k + shift)
  BY InsertNums
<1>2. /\ \A k \in start .. Last + 1 : W(k) \in Int
      /\ \A j, k \in start .. Last + 1 : j < k => W(j) < W(k)
      /\ W(Last + 1) = newest' /\ W(start) = T(start)
  BY NumsOrder
<1>3. \A k \in start' .. Last' : k + shift \in start + Evicted .. Last + 1
  BY <1>0, <1>1
<1>4. start' \in start' .. Last' /\ Last' \in start' .. Last'
  BY <1>0, <1>1
<1>5. \A k \in start .. Last :
        /\ k <= pos => W(k) = T(k)
        /\ k > pos => W(k + 1) = T(k) /\ k + 1 \in start .. Last + 1
  <2> HIDE DEF T, Last
  <2> QED BY <1>0 DEF With, Nums
<1>6. W(pos + 1) = c /\ pos + 1 \in start + Evicted .. Last + 1
  BY <1>0 DEF With
<1>7. \A k \in start .. Last + 1 : W(k) \in Window \cup {c}
  <2> SUFFICES ASSUME NEW k \in start .. Last + 1, k # pos + 1
               PROVE  \E j \in start .. Last : W(k) = T(j)
    BY <1>6 DEF Window, T
  <2>1. CASE k <= pos
    BY <2>1, <1>0, <1>5
  <2>2. CASE k > pos
    <3>1. k - 1 \in start .. Last /\ k - 1 > pos /\ (k - 1) + 1 = k
      BY <2>2, <1>0
    <3> QED BY <3>1, <1>5
  <2> QED BY <2>1, <2>2, <1>0
<1>8. \A w \in Window \cup {c} : \E k \in start .. Last + 1 : W(k) = w
  <2> SUFFICES ASSUME NEW j \in start .. Last
               PROVE  \E k \in start .. Last + 1 : W(k) = T(j)
    BY <1>0, <1>6 DEF Window, T
  <2> QED BY <1>0, <1>5
<1> HIDE DEF W
<1>9. Order'
  <2>1. \A k \in start' .. Last' : T(k)' \in Int
    BY <1>0, <1>1, <1>2, <1>3
  <2>2. T(Last)' = newest'
    <3>1. Last' + shift = Last + 1
      BY <1>0, <1>1
    <3>2. \A k \in start' .. Last' : k = Last' => T(k)' = newest'
      BY <3>1, <1>1, <1>2
    <3> QED BY <3>2, <1>4
  <2>3. ASSUME NEW j \in start' .. Last', NEW k \in start' .. Last', j < k
        PROVE  T(j)' < T(k)'
    <3>1. j + shift \in start .. Last + 1 /\ k + shift \in start .. Last + 1 /\ j + shift < k + shift
      BY <1>0, <1>3, <1>1, <2>3
    <3> QED BY <3>1, <1>1, <1>2
  <2>4. newest' - T(start)' < Half
    <3>1. start' + shift \in start .. Last + 1 /\ W(start' + shift) >= W(start)
      BY <1>0, <1>1, <1>2, <1>3, <1>4
    <3>2. T(start)' = W(start' + shift)
      BY <1>1, <1>4
    <3>3. newest' - T(start) < Half
      BY <1>0 DEF Order
    <3>4. T(start) \in Int /\ W(start' + shift) \in Int
      BY <1>0, <1>2, <3>1
    <3> QED BY <1>0, <1>2, <3>1, <3>2, <3>3, <3>4, SMTT(60)
  <2> QED BY <2>2, <2>3, <2>4 DEF Order
<1>10. T(start)' = W(start + Evicted)
  <2>1. start' + shift = start + Evicted
    BY <1>0, <1>1
  <2>2. \A k \in start' .. Last' : k = start' => T(k)' = W(start + Evicted)
    BY <2>1, <1>1
  <2> QED BY <2>2, <1>4
<1>11. Window' = {W(k) : k \in start + Evicted .. Last + 1}
  <2>1. Window' = {T(k)' : k \in start' .. Last'}
    BY DEF Window, T, TrueNum, QELEM, Slot, Mask
  <2>2. ASSUME NEW k \in start + Evicted .. Last + 1
        PROVE  \E j \in start' .. Last' : T(j)' = W(k)
    <3>1. k - shift \in start' .. Last' /\ (k - shift) + shift = k
      BY <1>0, <1>1
    <3>2. PICK j \in start' .. Last' : j = k - shift
      BY <3>1
    <3>3. j + shift = k
      BY <3>1, <3>2
    <3> QED BY <3>2, <3>3, <1>1
  <2>3. ASSUME NEW j \in start' .. Last'
        PROVE  \E k \in start + Evicted .. Last + 1 : T(j)' = W(k)
    BY <1>1, <1>3
  <2> QED BY <2>1, <2>2, <2>3
<1>12. Window \cup {c} = {W(k) : k \in start .. Last + 1}
  BY <1>7, <1>8
<1>13. T(start)' >= T(start) /\ (length = QUEUE_LENGTH => T(start)' > T(start))
  BY <1>0, <1>2, <1>10 DEF Evicted
<1>14. CASE length = QUEUE_LENGTH
  <2>1. Evicted = 1
    BY <1>14 DEF Evicted
  <2>2. \A k \in start .. Last + 1 : W(k) = T(start) <=> k = start
    BY <1>0, <1>2
  <2>3. {W(k) : k \in start + 1 .. Last + 1} = {W(k) : k \in start .. Last + 1} \ {T(start)}
    BY <1>0, <2>2
  <2> QED BY <1>9, <1>11, <1>12, <1>13, <1>14, <2>1, <2>3
<1>15. CASE length # QUEUE_LENGTH
  <2>1. start + Evicted = start
    BY <1>0, <1>15 DEF Evicted
  <2> QED BY <1>9, <1>11, <1>12, <1>13, <1>15, <2>1
<1> QED BY <1>14, <1>15

(***************************************************************************)
(* What g_order_check sees on the wire is how the true numbers compare.    *)
(***************************************************************************)

\* The elements lie less than half the range apart.
LEMMA Spread ==
    ASSUME TypeOK, Order
    PROVE  /\ start \in Nat /\ Last \in Nat /\ start \in start .. Last /\ Last \in start .. Last
           /\ newest \in Int /\ Half \in Nat \ {0}
           /\ \A k \in start .. Last :
                /\ T(k) \in Int /\ QELEM(k) = Mask(T(k))
                /\ T(start) <= T(k) /\ T(k) <= newest
           /\ T(start) \in Int /\ newest - T(start) < Half
<1>0. start \in Nat /\ Last \in Nat /\ start \in start .. Last /\ Last \in start .. Last
      /\ newest \in Int /\ Half \in Nat \ {0}
  BY QueueLengthAssumption, HalfAssumption DEF TypeOK, Slots, Last
<1>1. \A k \in start .. Last : T(k) \in Int /\ T(k) <= newest /\ QELEM(k) = Mask(T(k))
  BY <1>0, TrueNums
<1>2. \A k \in start .. Last : k = start \/ T(start) < T(k)
  BY <1>0 DEF Order
<1>3. \A k \in start .. Last : T(start) <= T(k)
  BY <1>0, <1>1, <1>2
<1> QED BY <1>0, <1>1, <1>3 DEF Order

\* The rules of g_order_check compare the token with the elements, and with the
\* number expected next, as if numbers did not wrap.
LEMMA Compared ==
    ASSUME TypeOK, Order, InCall, pc \in {"check", "scan"}
    PROVE  /\ \A k \in start .. Last :
                /\ after(seqnum, QELEM(k)) <=> cur > T(k)
                /\ after(QELEM(k), seqnum) <=> T(k) > cur
                /\ seqnum = QELEM(k) <=> cur = T(k)
           /\ seqnum = expected <=> cur = newest + 1
           /\ after(seqnum, expected) <=> cur > newest + 1
           /\ cur \in Int /\ seqnum = Mask(cur) /\ cur - T(start) < Half
<1>0. cur \in Int /\ newest \in Int /\ seqnum = Mask(cur) /\ InHalfRange(cur)
  BY DEF TypeOK, InCall
<1>1. ASSUME NEW k \in start .. Last
      PROVE  /\ T(k) \in Int /\ cur - T(k) < Half /\ T(k) - cur < Half
             /\ QELEM(k) = Mask(T(k))
  <2>1. T(k) \in Int /\ QELEM(k) = Mask(T(k))
    BY Spread
  <2>2. T(k) \in Window
    BY DEF Window, T
  <2> QED BY <2>1, <2>2, <1>0 DEF InHalfRange
<1>2. ASSUME NEW k \in start .. Last
      PROVE  /\ after(seqnum, QELEM(k)) <=> cur > T(k)
             /\ after(QELEM(k), seqnum) <=> T(k) > cur
             /\ seqnum = QELEM(k) <=> cur = T(k)
  <2>1. PICK t \in Int : t = T(k)
    BY <1>1
  <2>2. cur - t < Half /\ t - cur < Half /\ QELEM(k) = Mask(t)
    BY <1>1, <2>1
  <2>3. /\ after(Mask(cur), Mask(t)) <=> cur > t
        /\ after(Mask(t), Mask(cur)) <=> t > cur
        /\ Mask(cur) = Mask(t) <=> cur = t
    BY <1>0, <2>2, AfterTrue
  <2> QED BY <1>0, <2>1, <2>2, <2>3
<1>3. PICK x \in Int : x = newest + 1
  BY <1>0
<1>4. expected = Mask(x)
  <2>1. QELEM(Last) = Mask(newest)
    BY Spread DEF Order
  <2>2. Modulus \in Nat \ {0}
    BY HalfAssumption DEF Modulus
  <2>3. PICK c \in Int : c = 0 - 1
    OBVIOUS
  <2>4. ((newest % Modulus) - c) % Modulus = (newest - c) % Modulus
    BY <1>0, <2>2, ModBack, Zenon
  <2>5. newest % Modulus \in Int
    BY <1>0, <2>2
  <2>6. (newest % Modulus) - c = (newest % Modulus) + 1 /\ newest - c = x
    BY <1>0, <1>3, <2>3, <2>5
  <2> QED BY <2>1, <2>4, <2>6 DEF expected, Mask
<1>5. cur - x < Half /\ x - cur < Half
  BY <1>0, <1>3 DEF InHalfRange
<1>6. /\ after(Mask(cur), Mask(x)) <=> cur > x
      /\ Mask(cur) = Mask(x) <=> cur = x
  BY <1>0, <1>5, AfterTrue
<1>7. cur - T(start) < Half
  BY <1>1, Spread
<1> QED BY <1>0, <1>2, <1>3, <1>4, <1>6, <1>7

\* Every element is newer than the ones before it, in the code's order.
LEMMA OrderedNums == TypeOK /\ Order => RepInv
<1> SUFFICES ASSUME TypeOK, Order, NEW j \in start .. Last, NEW k \in start .. Last, j < k
             PROVE  after(QELEM(k), QELEM(j))
  BY DEF RepInv
<1>1. PICK a \in Int, b \in Int : a = T(k) /\ b = T(j)
  BY Spread
<1>2. /\ QELEM(k) = Mask(a) /\ QELEM(j) = Mask(b) /\ a <= newest /\ b <= newest
      /\ T(start) <= a /\ T(start) <= b
  BY <1>1, Spread
<1>3. b < a
  BY <1>1 DEF Order
<1>4. a - b < Half /\ b - a < Half
  BY <1>2, <1>3, Spread
<1>5. after(Mask(a), Mask(b))
  BY <1>3, <1>4, AfterTrue
<1> QED BY <1>2, <1>5

(***************************************************************************)
(* A call of g_order_check ends by taking the token into the window or by  *)
(* leaving the window as it is, as the token's true number decides.        *)
(***************************************************************************)

Takes(status) ==
    /\ cur \notin Window /\ T(start) < cur
    /\ Order' /\ T(start)' >= T(start)
    /\ length = QUEUE_LENGTH => T(start)' > T(start)
    /\ Window' = (Window \cup {cur}) \ (IF length = QUEUE_LENGTH THEN {T(start)} ELSE {})
    /\ length' = IF length = QUEUE_LENGTH THEN length ELSE length + 1
    /\ Return(status)

Leaves(status) == UNCHANGED <<queue, newest>> /\ Return(status)

ScansOn ==
    /\ Protected /\ pc \in {"check", "scan"} /\ pc' = "scan"
    /\ UNCHANGED <<flags, queue, seqnum, cur, ret, newest, done>>

Verdict ==
    \/ ~Protected /\ Leaves("COMPLETE")
    \/ /\ Protected
       /\ \/ cur = newest + 1 /\ Takes("COMPLETE")
          \/ cur > newest + 1 /\ Takes(IF ReplayOnly THEN "COMPLETE" ELSE "GAP_TOKEN")
          \/ cur < T(start) /\ Leaves(IF ReplayOnly THEN "OLD_TOKEN" ELSE "UNSEQ_TOKEN")
          \/ cur \in Window /\ Leaves("DUPLICATE_TOKEN")
          \/ cur < newest /\ Takes(IF ReplayOnly THEN "COMPLETE" ELSE "UNSEQ_TOKEN")

\* A token newer than every element goes to the end of the queue.
LEMMA TakesNew ==
    ASSUME HInv, TypeOK', pc = "check", cur > newest,
           queue_insert(Last, seqnum), newest' = cur, NEW st, Return(st)
    PROVE  Takes(st)
<1>0. TypeOK /\ Order /\ InCall /\ T(Last) = newest
  BY DEF HInv, IInv, Order
<1>1. cur \in Int /\ seqnum = Mask(cur) /\ cur - T(start) < Half
  BY <1>0, Compared
<1>2. /\ Last \in start .. Last /\ T(Last) < cur /\ ~(Last < Last)
      /\ T(start) \in Int /\ T(start) <= newest /\ newest \in Int
      /\ \A k \in start .. Last : T(k) \in Int /\ T(k) <= newest
  BY <1>0, <1>1, Spread
<1>3. /\ Order' /\ T(start)' >= T(start)
      /\ length = QUEUE_LENGTH => T(start)' > T(start)
      /\ Window' = (Window \cup {cur}) \ (IF length = QUEUE_LENGTH THEN {T(start)} ELSE {})
  BY <1>0, <1>1, <1>2, InsertWindow
<1>4. T(start) < cur
  BY <1>1, <1>2
<1>5. \A k \in start .. Last : T(k) # cur
  BY <1>1, <1>2
<1>6. cur \notin Window
  BY <1>5 DEF Window, T
<1>7. length' = IF length = QUEUE_LENGTH THEN length ELSE length + 1
  BY DEF queue_insert
<1> QED BY <1>3, <1>4, <1>6, <1>7 DEF Takes

\* A token between two elements goes between them.
LEMMA TakesLate ==
    ASSUME HInv, TypeOK', pc = "scan", i < Last, T(i) < cur, cur < T(i + 1),
           queue_insert(i, seqnum), newest' = newest, NEW st, Return(st)
    PROVE  Takes(st) /\ cur < newest
<1>0. TypeOK /\ Order /\ InCall /\ i \in start .. Last
  BY DEF HInv, IInv, ScanInv
<1>1. cur \in Int /\ seqnum = Mask(cur) /\ cur - T(start) < Half
  BY <1>0, Compared
<1>2. /\ T(start) \in Int /\ newest \in Int /\ i + 1 \in start .. Last
      /\ start \in Nat /\ Last \in Nat
      /\ \A k \in start .. Last : T(k) \in Int /\ T(start) <= T(k) /\ T(k) <= newest
  BY <1>0, Spread
<1>3. /\ Order' /\ T(start)' >= T(start)
      /\ length = QUEUE_LENGTH => T(start)' > T(start)
      /\ Window' = (Window \cup {cur}) \ (IF length = QUEUE_LENGTH THEN {T(start)} ELSE {})
  BY <1>0, <1>1, InsertWindow
<1>4. T(start) < cur /\ cur < newest
  BY <1>0, <1>1, <1>2
<1>5. ASSUME NEW k \in start .. Last PROVE T(k) # cur
  <2>1. CASE k <= i
    <3>1. T(k) <= T(i) /\ T(k) \in Int /\ T(i) \in Int
      BY <2>1, <1>0, <1>2 DEF Order
    <3> QED BY <3>1, <1>1
  <2>2. CASE k > i
    <3>1. k = i + 1 \/ i + 1 < k
      BY <2>2, <1>0, <1>2
    <3>2. T(i + 1) <= T(k) /\ T(k) \in Int /\ T(i + 1) \in Int
      BY <3>1, <1>0, <1>2 DEF Order
    <3> QED BY <3>2, <1>1
  <2> QED BY <2>1, <2>2, <1>0, <1>2
<1>6. cur \notin Window
  BY <1>5 DEF Window, T
<1>7. length' = IF length = QUEUE_LENGTH THEN length ELSE length + 1
  BY DEF queue_insert
<1> QED BY <1>3, <1>4, <1>6, <1>7 DEF Takes

\* Every step of the code's rules is a verdict, or goes on with the loop.
LEMMA Judged ==
    ASSUME HInv, TypeOK', Check \/ Scan
    PROVE  Verdict \/ ScansOn
<1>0. TypeOK /\ Order /\ InCall /\ ScanInv /\ T(Last) = newest
  BY DEF HInv, IInv, Order
<1>1. /\ start \in start .. Last /\ Last \in start .. Last /\ start \in Nat /\ Last \in Nat
      /\ newest \in Int
      /\ \A k \in start .. Last : T(k) \in Int /\ T(k) \in Window
  BY <1>0, Spread DEF Window, T
<1>2. pc \in {"check", "scan"}
  BY DEF Check, Scan
<1>3. /\ \A k \in start .. Last :
           /\ after(seqnum, QELEM(k)) <=> cur > T(k)
           /\ after(QELEM(k), seqnum) <=> T(k) > cur
           /\ seqnum = QELEM(k) <=> cur = T(k)
      /\ seqnum = expected <=> cur = newest + 1
      /\ after(seqnum, expected) <=> cur > newest + 1
      /\ cur \in Int
  BY <1>0, <1>2, Compared
<1>4. CASE pc = "check" /\ Unprotected
  BY <1>4 DEF Unprotected, Verdict, Protected, Leaves
<1>5. CASE pc = "check" /\ Protected /\ Rule1Expected
  <2>1. cur = newest + 1 /\ cur > newest
    BY <1>1, <1>3, <1>5 DEF Rule1Expected
  <2>2. Takes("COMPLETE")
    BY <1>5, <2>1, TakesNew DEF Rule1Expected
  <2> QED BY <1>5, <2>1, <2>2 DEF Verdict
<1>6. CASE pc = "check" /\ Protected /\ Rule2Ahead
  <2>1. cur > newest + 1 /\ cur > newest
    BY <1>1, <1>3, <1>6 DEF Rule2Ahead
  <2>2. Takes(IF ReplayOnly THEN "COMPLETE" ELSE "GAP_TOKEN")
    BY <1>6, <2>1, TakesNew DEF Rule2Ahead
  <2> QED BY <1>6, <2>1, <2>2 DEF Verdict
<1>7. CASE pc = "check" /\ Protected /\ Rule3Old
  <2>1. T(start) > cur /\ T(start) \in Int
    BY <1>1, <1>3, <1>7 DEF Rule3Old
  <2>2. cur < T(start)
    BY <2>1, <1>3
  <2> QED BY <1>7, <2>2 DEF Rule3Old, Verdict, Leaves
<1>8. CASE pc = "check" /\ Protected /\ Rule45
  <2>1. CASE seqnum = QELEM(Last)
    <3>1. cur \in Window
      BY <1>1, <1>3, <2>1
    <3> QED BY <1>8, <2>1, <3>1 DEF Rule45, Verdict, Leaves
  <2>2. CASE seqnum # QELEM(Last)
    BY <1>8, <2>2 DEF Rule45, ScansOn
  <2> QED BY <2>1, <2>2
<1>9. CASE Scan
  <2>1. /\ pc = "scan" /\ Protected
        /\ i \in start .. Last /\ (cur = T(i) \/ cur > T(i)) /\ T(Last) > cur
    BY <1>0, <1>1, <1>3, <1>9 DEF Scan, ScanInv, HInv, Seen
  <2>2. i < Last /\ i + 1 \in start .. Last
    <3>1. i # Last
      BY <1>1, <1>3, <2>1
    <3> QED BY <3>1, <2>1, <1>1
  <2>3. CASE ScanDuplicate
    <3>1. cur \in Window
      BY <1>1, <1>3, <2>1, <2>3 DEF ScanDuplicate
    <3> QED BY <2>1, <2>3, <3>1 DEF ScanDuplicate, Verdict, Leaves
  <2>4. CASE ScanInsert
    <3>1. T(i) < cur /\ cur < T(i + 1)
      BY <1>1, <1>3, <2>1, <2>2, <2>4 DEF ScanInsert, Between
    <3>2. Takes(IF ReplayOnly THEN "COMPLETE" ELSE "UNSEQ_TOKEN") /\ cur < newest
      BY <2>1, <2>2, <2>4, <3>1, TakesLate DEF ScanInsert
    <3> QED BY <2>1, <3>2 DEF Verdict
  <2>5. CASE ScanOn
    BY <2>1, <2>5 DEF ScanOn, ScansOn
  <2> QED BY <1>9, <2>2, <2>3, <2>4, <2>5, SMTT(60) DEF Scan
<1> QED BY <1>4, <1>5, <1>6, <1>7, <1>8, <1>9 DEF Check, Protected

\* Steps that leave the queue alone leave the true numbers alone.
LEMMA QueueKept ==
    ASSUME UNCHANGED <<queue, newest>>
    PROVE  /\ length' = length /\ Window' = Window /\ T(start)' = T(start)
           /\ Order' <=> Order
           /\ \A n \in Int : InHalfRange(n)' <=> InHalfRange(n)
<1>1. start' = start /\ length' = length /\ elem' = elem /\ newest' = newest
  BY DEF queue
<1>2. Window' = Window
  BY <1>1 DEF Window, Last, QELEM, Slot, TrueNum, Mask
<1> QED BY <1>1, <1>2 DEF Order, Last, T, QELEM, Slot, TrueNum, Mask, InHalfRange

LEMMA InitHInv == Init => HInv
<1> SUFFICES ASSUME Init PROVE HInv
  OBVIOUS
<1>1. IInv /\ InCall
  BY InitType DEF Init, IInv, ScanInv, NeverFails, InCall
<1>2. start = 0 /\ Last = 0 /\ newest = 0 - 1 /\ Half \in Nat \ {0}
  BY HalfAssumption DEF Init, Last
<1>3. T(0) = newest
  <2>1. Slot(0) = 0 /\ 0 \in Slots
    BY QueueLengthAssumption DEF Slot, Slots
  <2>2. QELEM(0) = Mask(0 - 1)
    BY <2>1 DEF QELEM, Init
  <2>3. PICK n \in Int : n = 0 - 1
    OBVIOUS
  <2>4. n - n \in 0 .. Modulus - 1
    BY <1>2 DEF Modulus
  <2>5. n - Mask(n - Mask(n)) = n
    BY <2>4, TrueNumMask
  <2> QED BY <1>2, <2>2, <2>3, <2>5 DEF T, TrueNum
<1>4. Order
  BY <1>2, <1>3 DEF Order
<1>5. Seen
  BY DEF Seen, Init
<1> QED BY <1>1, <1>4, <1>5 DEF HInv

\* The history of accepted tokens agrees with the window.
LEMMA SeenKept ==
    ASSUME HInv, TypeOK', Verdict \/ ScansOn
    PROVE  Order' /\ InCall' /\ Seen'
<1>0. Order /\ Seen /\ InCall /\ TypeOK
  BY DEF HInv, IInv
<1>1. ASSUME NEW st, Leaves(st), Protected => st \notin {"COMPLETE", "GAP_TOKEN"}
      PROVE  Order' /\ InCall' /\ Seen'
  <2>1. /\ pc' = "idle" /\ (Protected' <=> Protected) /\ watched' = watched
        /\ done' = (done \/ (cur = watched /\ st \in {"COMPLETE", "GAP_TOKEN"}))
    BY <1>1 DEF Leaves, Return, flags, Protected
  <2>2. Protected => (done' <=> done)
    BY <1>1, <2>1, Zenon
  <2>3. Seen'
    BY <1>0, <1>1, <2>1, <2>2, QueueKept, Zenon DEF Seen, Leaves
  <2>4. Order'
    BY <1>0, <1>1, QueueKept, SMTT(60) DEF Leaves
  <2> QED BY <2>1, <2>3, <2>4 DEF InCall
<1>2. ASSUME NEW st, Takes(st)
      PROVE  Order' /\ InCall' /\ Seen'
  <2>1. /\ pc' = "idle" /\ (Protected' <=> Protected) /\ watched' = watched
        /\ done' = (done \/ (cur = watched /\ st \in {"COMPLETE", "GAP_TOKEN"}))
    BY <1>2 DEF Takes, Return, flags, Protected
  <2>2. /\ length = QUEUE_LENGTH => T(start)' > T(start)
        /\ Order' /\ T(start)' >= T(start) /\ T(start) < cur /\ cur \notin Window
        /\ Window' = (Window \cup {cur}) \ (IF length = QUEUE_LENGTH THEN {T(start)} ELSE {})
    BY <1>2 DEF Takes
  <2>3. /\ T(start) \in Int /\ T(start)' \in Int /\ cur \in Int /\ watched \in Int
        /\ \A w \in Window : w \in Int /\ w >= T(start)
    <3>1. T(start) \in Int /\ \A k \in start .. Last : T(k) \in Int /\ T(k) >= T(start)
      BY <1>0, Spread
    <3>2. \A w \in Window : w \in Int /\ w >= T(start)
      BY <3>1 DEF Window, T
    <3>3. T(start)' \in Int
      <4>1. start' \in Int /\ \A k \in Int : T(k)' \in Int
        <5>1. start' \in Int /\ newest' \in Int /\ elem' \in [Slots -> SeqNum]
              /\ Modulus \in Nat \ {0}
          BY QueueLengthAssumption, HalfAssumption DEF TypeOK, Slots, Modulus
        <5>2. \A k \in Int : elem'[Slot(k)] \in Int
          BY <5>1, SlotType DEF SeqNum
        <5>3. \A e \in Int : newest' - Mask(newest' - e) \in Int
          BY <5>1, MaskType DEF SeqNum
        <5> QED BY <5>1, <5>2, <5>3, Zenon DEF T, TrueNum, QELEM, Mask, Slot
      <4> QED BY <4>1 DEF T, TrueNum, QELEM, Slot, Mask
    <3>4. cur \in Int /\ watched \in Int
      BY <1>0 DEF TypeOK
    <3> QED BY <3>1, <3>2, <3>3, <3>4
  <2>4. ASSUME Protected, done' PROVE watched \in Window' \/ watched < T(start)'
    <3>1. CASE cur = watched
      BY <3>1, <2>2, <2>3
    <3>2. CASE cur # watched
      <4>1. done
        BY <3>2, <2>1, <2>4, Zenon
      <4>2. watched \in Window \/ watched < T(start)
        BY <4>1, <2>4, <1>0 DEF Seen
      <4>3. CASE watched < T(start)
        BY <4>3, <2>2, <2>3
      <4>4. CASE watched \in Window /\ watched # T(start)
        BY <4>4, <2>2
      <4>5. CASE watched = T(start) /\ length # QUEUE_LENGTH
        BY <4>2, <4>5, <2>2, <2>3
      <4>6. CASE watched = T(start) /\ length = QUEUE_LENGTH
        BY <4>6, <2>2, <2>3
      <4> QED BY <4>2, <4>3, <4>4, <4>5, <4>6
    <3> QED BY <3>1, <3>2
  <2> QED BY <2>1, <2>2, <2>4 DEF InCall, Seen
<1>3. CASE ScansOn
  <2>1. /\ pc \in {"check", "scan"} /\ pc' = "scan" /\ Protected' /\ done' = done /\ watched' = watched /\ cur' = cur
        /\ seqnum' = seqnum /\ UNCHANGED <<queue, newest>> /\ Protected
    BY <1>3 DEF ScansOn, flags, Protected
  <2> QED BY <1>0, <2>1, QueueKept DEF Seen, InCall, TypeOK
<1>4. CASE Verdict
  BY <1>1, <1>2, <1>4 DEF Verdict
<1> QED BY <1>3, <1>4

\* Every step keeps the order, whatever tokens of the half range arrive.
LEMMA NextHInv == HInv /\ [HalfRangeNext]_vars => HInv'
<1> SUFFICES ASSUME HInv, [HalfRangeNext]_vars PROVE HInv'
  OBVIOUS
<1>0. IInv /\ TypeOK /\ Order /\ InCall /\ Seen
  BY DEF HInv, IInv
<1>1. [Next]_vars
  BY DEF HalfRangeNext, Next
<1>2. TypeOK'
  BY <1>0, <1>1, NextType
<1>3. IInv'
  BY <1>0, <1>1, <1>2, NextScan DEF IInv
<1>4. CASE Check \/ Scan
  <2>1. Verdict \/ ScansOn
    BY <1>2, <1>4, Judged
  <2> QED BY <1>2, <1>3, <2>1, SeenKept DEF HInv
<1>5. ASSUME NEW n \in 0 .. Horizon - 1, InHalfRange(n), Call(n) PROVE HInv'
  <2>1. /\ UNCHANGED <<queue, newest>> /\ cur' = n /\ seqnum' = Mask(Wire(n) - firstnum)
        /\ pc' = "check" /\ done' = done /\ watched' = watched
        /\ do_replay' = do_replay /\ do_sequence' = do_sequence
    BY <1>5 DEF Call, flags
  <2>2. n \in Int /\ firstnum \in Int
    BY <1>0, HorizonAssumption, HalfAssumption DEF TypeOK, SeqNum, Modulus
  <2>3. Mask(Wire(n) - firstnum) = Mask(n)
    BY <2>2, MaskWire DEF Wire
  <2>4. InCall'
    BY <1>5, <2>1, <2>2, <2>3, QueueKept, SMTT(60) DEF InCall, InHalfRange, Mask
  <2>5. Order' /\ Seen'
    BY <1>0, <2>1, QueueKept DEF Seen, Protected
  <2> QED BY <1>2, <1>3, <2>4, <2>5 DEF HInv
<1>6. CASE Internalize \/ Externalize
  <2>1. /\ UNCHANGED <<queue, newest, done, watched, do_replay, do_sequence>>
        /\ pc' \in {"idle", "exported"}
    BY <1>6 DEF Internalize, Externalize, flags
  <2>2. Order' /\ Seen' /\ InCall'
    BY <1>0, <2>1, QueueKept, SMTT(60) DEF Seen, Protected, InCall
  <2> QED BY <1>2, <1>3, <2>2 DEF HInv
<1>7. CASE UNCHANGED vars
  <2>1. /\ UNCHANGED <<queue, newest, done, watched, do_replay, do_sequence, pc, cur, seqnum>>
    BY <1>7 DEF vars, queue
  <2>2. Order' /\ Seen' /\ InCall'
    BY <1>0, <2>1, QueueKept DEF Seen, Protected, InCall, TypeOK
  <2> QED BY <1>2, <1>3, <2>2 DEF HInv
<1> QED BY <1>4, <1>5, <1>6, <1>7 DEF HalfRangeNext, System

LEMMA HInvCorrect == HalfRangeSpec => []HInv
  BY InitHInv, NextHInv, PTL DEF HalfRangeSpec

\* The rep invariant of the queue, for every queue length and width: eviction,
\* late insertion and wrap-around keep the elements in order as long as no token
\* is further out of order than half the range.
THEOREM RepCorrect == HalfRangeSpec => []RepInv
<1>1. HInv => RepInv
  BY OrderedNums DEF HInv, IInv
<1> QED BY <1>1, HInvCorrect, PTL

\* Replay protection, for every queue length and width: a token is accepted
\* once at most, however tokens are reordered, repeated and forgotten.
THEOREM NoReplayCorrect == HalfRangeSpec => NoReplay
<1>1. ASSUME HInv, [HalfRangeNext]_vars,
             do_replay \/ do_sequence, pc \in {"check", "scan"}, pc' = "idle",
             cur = watched, ret' \in {"COMPLETE", "GAP_TOKEN"}
      PROVE  ~done
  <2>0. TypeOK /\ Order /\ Seen /\ Protected
    BY <1>1 DEF HInv, IInv, Protected
  <2>1. Check \/ Scan
    BY <1>1 DEF HalfRangeNext, System, Internalize, Externalize, Call, vars
  <2>2. TypeOK'
    BY <1>1, NextType DEF HInv, IInv, HalfRangeNext, Next
  <2>3. Verdict
    BY <1>1, <2>1, <2>2, Judged, SMTT(60) DEF ScansOn
  <2>4. PICK st : Takes(st)
    BY <1>1, <2>0, <2>3, SMTT(60) DEF Verdict, Leaves, Return
  <2>5. cur \notin Window /\ T(start) < cur /\ T(start) \in Int /\ cur \in Int
    BY <2>0, <2>4, Spread DEF Takes, TypeOK
  <2> QED BY <1>1, <2>0, <2>5 DEF Seen
<1>2. HInv /\ [HalfRangeNext]_vars
        => [ (do_replay \/ do_sequence) /\ pc \in {"check", "scan"} /\ pc' = "idle"
             /\ cur = watched /\ ret' \in {"COMPLETE", "GAP_TOKEN"}
             => ~done ]_vars
  BY <1>1
<1> QED BY <1>2, HInvCorrect, PTL DEF HalfRangeSpec, NoReplay

(***************************************************************************)
(* The queue implements the window of GssWindow: every step of the code is *)
(* a step of it on the true numbers, or leaves it alone.                   *)
(***************************************************************************)

\* The elements of the queue stand for as many numbers.
Counted == IsFiniteSet(Window) /\ Cardinality(Window) = length

\* The abstract module has its own name for the size of a set.
LEMMA SameCardinality == \A S : Abstract!Cardinality(S) = Cardinality(S)
  BY Zenon DEF Abstract!Cardinality, Cardinality

\* The lowest and the highest number of a set.
LEMMA MinIs ==
    ASSUME NEW S \in SUBSET Int, NEW m \in S, \A x \in S : m <= x
    PROVE  Abstract!Min(S) = m
<1>1. \E x \in S : \A y \in S : x =< y
  OBVIOUS
<1>2. PICK x \in S : x = Abstract!Min(S) /\ \A y \in S : x <= y
  BY <1>1, Zenon DEF Abstract!Min
<1>3. x \in Int /\ m \in Int /\ x <= m /\ m <= x
  BY <1>2
<1>4. x = m
  BY <1>3
<1> QED BY <1>2, <1>4, Zenon

LEMMA MaxIs ==
    ASSUME NEW S \in SUBSET Int, NEW m \in S, \A x \in S : x <= m
    PROVE  Abstract!Max(S) = m
<1>1. \E x \in S : \A y \in S : x >= y
  OBVIOUS
<1>2. PICK x \in S : x = Abstract!Max(S) /\ \A y \in S : x >= y
  BY <1>1, Zenon DEF Abstract!Max
<1>3. x \in Int /\ m \in Int /\ x <= m /\ m <= x
  BY <1>2
<1>4. x = m
  BY <1>3
<1> QED BY <1>2, <1>4, Zenon

\* The first and the last element are the ends of the window.
LEMMA WindowEnds ==
    ASSUME TypeOK, Order
    PROVE  /\ Window \in SUBSET Int /\ T(start) \in Window /\ newest \in Window
           /\ \A w \in Window : T(start) <= w /\ w <= newest
           /\ Abstract!Min(Window) = T(start) /\ Abstract!Max(Window) = newest
<1>1. \A k \in start .. Last : T(k) \in Int /\ T(start) <= T(k) /\ T(k) <= newest
  BY Spread
<1>2. Window = {T(k) : k \in start .. Last}
  BY DEF Window, T
<1>3. T(start) \in Window /\ newest \in Window
  BY <1>2, Spread DEF Order
<1>4. Window \in SUBSET Int /\ \A w \in Window : T(start) <= w /\ w <= newest
  BY <1>1, <1>2
<1>5. Abstract!Min(Window) = T(start)
  BY <1>3, <1>4, MinIs, Zenon
<1>6. Abstract!Max(Window) = newest
  BY <1>3, <1>4, MaxIs
<1> QED BY <1>3, <1>4, <1>5, <1>6

\* Taking a token is what the abstract window does.
LEMMA TakesHighest ==
    ASSUME TypeOK, Order, Counted, NEW st, Takes(st)
    PROVE  Counted' /\ Window' = Abstract!Highest(Window \cup {cur})
<1>0. /\ length \in 1 .. QUEUE_LENGTH /\ QUEUE_LENGTH \in Nat /\ cur \in Int
      /\ IsFiniteSet(Window) /\ Cardinality(Window) = length
  BY QueueLengthAssumption DEF TypeOK, Counted
<1>1. /\ cur \notin Window /\ T(start) < cur
      /\ Window' = (Window \cup {cur}) \ (IF length = QUEUE_LENGTH THEN {T(start)} ELSE {})
      /\ length' = IF length = QUEUE_LENGTH THEN length ELSE length + 1
  BY DEF Takes
<1>2. IsFiniteSet(Window \cup {cur}) /\ Cardinality(Window \cup {cur}) = length + 1
  BY <1>0, <1>1, FS_AddElement
<1>3. T(start) \in Window \cup {cur} /\ Window \cup {cur} \in SUBSET Int
      /\ \A w \in Window \cup {cur} : T(start) <= w
  BY <1>0, <1>1, WindowEnds
<1>4. Abstract!Min(Window \cup {cur}) = T(start)
  BY <1>3, MinIs
<1>5. CASE length = QUEUE_LENGTH
  <2>1. Window' = (Window \cup {cur}) \ {T(start)} /\ length' = length
    BY <1>1, <1>5
  <2>2. IsFiniteSet(Window') /\ Cardinality(Window') = (length + 1) - 1
    <3>1. PICK S, x : S = Window \cup {cur} /\ x = T(start)
      BY Zenon
    <3>2. IsFiniteSet(S) /\ Cardinality(S) = length + 1 /\ x \in S /\ Window' = S \ {x}
      BY <3>1, <2>1, <1>2, <1>3
    <3>3. IsFiniteSet(S \ {x}) /\ Cardinality(S \ {x}) = Cardinality(S) - 1
      BY <3>2, FS_RemoveElement
    <3> QED BY <3>2, <3>3, Zenon
  <2>3. Cardinality(Window \cup {cur}) > QUEUE_LENGTH
    BY <1>0, <1>2, <1>5
  <2>4. Abstract!Highest(Window \cup {cur}) = (Window \cup {cur}) \ {T(start)}
    BY <2>3, <1>4, SameCardinality DEF Abstract!Highest
  <2>5. Counted'
    BY <1>0, <2>1, <2>2 DEF Counted
  <2> QED BY <2>1, <2>4, <2>5
<1>6. CASE length # QUEUE_LENGTH
  <2>1. Window' = Window \cup {cur} /\ length' = length + 1
    BY <1>1, <1>6
  <2>2. ~(Cardinality(Window \cup {cur}) > QUEUE_LENGTH)
    BY <1>0, <1>2, <1>6
  <2>3. Abstract!Highest(Window \cup {cur}) = Window \cup {cur}
    BY <2>2, SameCardinality DEF Abstract!Highest
  <2>4. Counted'
    BY <2>1, <1>2, SMTT(60) DEF Counted
  <2> QED BY <2>1, <2>3, <2>4
<1> QED BY <1>5, <1>6

\* A verdict of the code is the abstract window's.
LEMMA VerdictJudges ==
    ASSUME HInv, Counted, pc \in {"check", "scan"}, Verdict
    PROVE  Counted' /\ Abstract!Judge
<1>0. TypeOK /\ Order
  BY DEF HInv, IInv
<1>1. /\ Abstract!Min(Window) = T(start) /\ Abstract!Max(Window) = newest
      /\ Window \in SUBSET Int /\ newest \in Int /\ T(start) \in Int /\ cur \in Int
  BY <1>0, WindowEnds DEF TypeOK
<1>2. ASSUME NEW st, Return(st)
      PROVE  /\ ret' = st /\ UNCHANGED <<do_replay, do_sequence, cur>>
             /\ (pc' \in {"check", "scan"}) = FALSE
  BY <1>2 DEF Return, flags
<1>3. ASSUME NEW st, Leaves(st)
      PROVE  /\ Counted' /\ Window' = Window /\ ret' = st
             /\ UNCHANGED <<do_replay, do_sequence, cur>>
             /\ (pc' \in {"check", "scan"}) = FALSE
  <2>1. Window' = Window /\ length' = length
    BY <1>3, QueueKept DEF Leaves
  <2> QED BY <1>2, <1>3, <2>1, Zenon DEF Leaves, Counted
<1>4. ASSUME NEW st, Takes(st)
      PROVE  /\ Counted' /\ Window' = Abstract!Highest(Window \cup {cur}) /\ ret' = st
             /\ UNCHANGED <<do_replay, do_sequence, cur>>
             /\ (pc' \in {"check", "scan"}) = FALSE
             /\ T(start) < cur /\ cur \notin Window
  BY <1>0, <1>2, <1>4, TakesHighest, Zenon DEF Takes
<1>5. ReplayOnly <=> Abstract!ReplayOnly
  BY DEF ReplayOnly, Abstract!ReplayOnly
<1> USE DEF Abstract!Judge, Abstract!Leave, Abstract!Take
<1>6. CASE ~Protected /\ Leaves("COMPLETE")
  BY <1>3, <1>6, Zenon DEF Protected
<1>7. CASE Protected /\ cur = newest + 1 /\ Takes("COMPLETE")
  BY <1>1, <1>4, <1>7, Zenon DEF Protected
<1>8. CASE /\ Protected /\ cur > newest + 1
           /\ Takes(IF ReplayOnly THEN "COMPLETE" ELSE "GAP_TOKEN")
  BY <1>1, <1>4, <1>5, <1>8, Zenon DEF Protected
<1>9. CASE /\ Protected /\ cur < T(start)
           /\ Leaves(IF ReplayOnly THEN "OLD_TOKEN" ELSE "UNSEQ_TOKEN")
  <2>1. cur < Abstract!Min(Window)
    BY <1>1, <1>9
  <2>2. CASE ReplayOnly
    <3>1. Leaves("OLD_TOKEN")
      BY <1>9, <2>2
    <3> QED BY <2>1, <2>2, <3>1, <1>3, <1>5, <1>9, Zenon DEF Protected
  <2>3. CASE ~ReplayOnly
    <3>1. Leaves("UNSEQ_TOKEN")
      BY <1>9, <2>3
    <3> QED BY <2>1, <2>3, <3>1, <1>3, <1>5, <1>9, Zenon DEF Protected
  <2> QED BY <2>2, <2>3, Zenon
<1>10. CASE Protected /\ cur \in Window /\ Leaves("DUPLICATE_TOKEN")
  BY <1>3, <1>10, Zenon DEF Protected
<1>11. CASE /\ Protected /\ cur < newest
            /\ Takes(IF ReplayOnly THEN "COMPLETE" ELSE "UNSEQ_TOKEN")
  <2>1. cur > Abstract!Min(Window) /\ cur < Abstract!Max(Window)
    BY <1>1, <1>4, <1>11, Zenon
  <2> QED BY <2>1, <1>4, <1>5, <1>11, Zenon DEF Protected
<1> QED BY <1>6, <1>7, <1>8, <1>9, <1>10, <1>11 DEF Verdict

\* The first state is the abstract one's, and has one element.
LEMMA InitWindow == Init => Abstract!Init /\ Counted
<1> SUFFICES ASSUME Init PROVE Abstract!Init /\ Counted
  OBVIOUS
<1>1. TypeOK /\ Order
  BY InitHInv DEF HInv, IInv
<1>2. start = 0 /\ Last = 0 /\ newest = -1
  BY DEF Init, Last
<1>3. Window = {T(k) : k \in 0 .. 0} /\ T(0) = -1
  BY <1>1, <1>2 DEF Window, T, Order
<1>4. Window = {-1}
  BY <1>3
<1>5. Counted
  BY <1>4, FS_Singleton, Zenon DEF Counted, Init
<1>6. (pc \in {"check", "scan"}) = FALSE
  BY DEF Init
<1> QED BY <1>4, <1>5, <1>6 DEF Init, Abstract!Init

\* Every step is a step of the abstract window or none.
LEMMA StepWindow ==
    ASSUME HInv, Counted, [HalfRangeNext]_vars
    PROVE  Counted' /\ [Abstract!Next]_(Abstract!vars)
<1>1. TypeOK'
  BY NextType DEF HInv, IInv, HalfRangeNext, Next
<1>2. CASE Check \/ Scan
  <2>1. pc \in {"check", "scan"}
    BY <1>2 DEF Check, Scan
  <2>2. CASE Verdict
    BY <2>1, <2>2, VerdictJudges DEF Abstract!Next
  <2>3. CASE ScansOn
    <3>1. Window' = Window /\ length' = length /\ UNCHANGED <<do_replay, do_sequence, cur, ret>>
          /\ pc' \in {"check", "scan"}
      BY <2>3, QueueKept DEF ScansOn, flags
    <3>2. (pc' \in {"check", "scan"}) = (pc \in {"check", "scan"})
      BY <2>1, <3>1
    <3> QED BY <3>1, <3>2 DEF Counted, Abstract!vars
  <2> QED BY <1>1, <1>2, <2>2, <2>3, Judged
<1>3. ASSUME NEW n \in 0 .. Horizon - 1, Call(n)
      PROVE  Counted' /\ Abstract!Next
  <2>1. /\ Window' = Window /\ length' = length /\ UNCHANGED <<do_replay, do_sequence, ret>>
        /\ cur' = n /\ pc = "idle" /\ pc' = "check"
    BY <1>3, QueueKept DEF Call, flags
  <2>2. ~(pc \in {"check", "scan"}) /\ (pc' \in {"check", "scan"}) = TRUE
    BY <2>1
  <2>3. Abstract!Call(n)
    BY <2>1, <2>2 DEF Abstract!Call
  <2> QED BY <2>1, <2>3 DEF Counted, Abstract!Next
<1>4. CASE Internalize \/ Externalize \/ UNCHANGED vars
  <2>0. UNCHANGED <<queue, newest, do_replay, do_sequence, cur, ret>>
    BY <1>4 DEF Internalize, Externalize, queue, flags, vars
  <2>1. /\ Window' = Window /\ length' = length
        /\ UNCHANGED <<do_replay, do_sequence, cur, ret>>
    BY <2>0, QueueKept
  <2>2. (pc' \in {"check", "scan"}) = (pc \in {"check", "scan"})
    BY <1>4 DEF Internalize, Externalize, vars
  <2> QED BY <2>1, <2>2 DEF Counted, Abstract!vars
<1> QED BY <1>2, <1>3, <1>4 DEF HalfRangeNext, System

\* The circular queue of reduced numbers implements the abstract window, for
\* every queue length and width: it remembers the highest numbers taken, and
\* each token gets the status that the true numbers call for.
THEOREM WindowImplemented ==
    HalfRangeSpec => Abstract!Init /\ [][Abstract!Next]_(Abstract!vars)
  BY InitHInv, NextHInv, InitWindow, StepWindow, PTL DEF HalfRangeSpec
================================================================================
