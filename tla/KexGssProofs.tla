----------------------------- MODULE KexGssProofs -----------------------------
(***************************************************************************)
(* For any mechanism, any group requests, any number of exchanges and any  *)
(* messages of a peer of another make: keys are derived only from proven   *)
(* exchanges, and the two ends keep the contexts of the same exchange.     *)
(***************************************************************************)
EXTENDS KexGss, TLAPS

ClientFields == {"pc", "step", "maj", "first", "tok", "type", "hostkey", "completes",
                 "blob", "mic", "gex", "kept"}
ServerFields == {"pc", "step", "pub", "gex", "hash", "kept"}

IsQueue(q) == \E S : q \in Seq(S)

Fields ==
    /\ DOMAIN c = ClientFields /\ DOMAIN s = ServerFields
    /\ IsQueue(toClient)

\* What the client has before it goes on: a call that was complete has established
\* the context, and the loop ends only after it; the MIC came with the COMPLETE.
ClientInv ==
    /\ c.maj \in {"CONTINUE", "COMPLETE"} /\ c.completes \in {0, 1}
    /\ c.maj = "COMPLETE" => Established(c.step)
    /\ c.pc \in {"check", "keys"} => c.maj = "COMPLETE"
    /\ c.type = "COMPLETE" => c.completes = 1
    /\ c.pc = "keys" => c.type = "COMPLETE" /\ c.mic = ClientHash

ServerInv == s.pc = "keys" => Established(s.step) /\ s.pub # 0

Completes(q) == {k \in 1 .. Len(q) : q[k].type = "COMPLETE"}

\* Between the two ends of this code: a COMPLETE on its way is the only one of the
\* exchange and carries the hash of the server's keys, as does the one the client
\* has.
WireInv ==
    peers = "both ours" =>
        /\ \A k \in Completes(toClient) :
             s.pc = "keys" /\ c.completes = 0 /\ toClient[k].mic = s.hash
        /\ \A j, k \in Completes(toClient) : j = k
        /\ c.completes = 1 => s.pc = "keys" /\ c.mic = s.hash

IInv == Fields /\ ClientInv /\ ServerInv /\ WireInv

\* A side keeps its context when it derives keys, and at no other time.
ClientKeeps ==
    \/ c'.kept = c.kept /\ c'.pc # "keys"
    \/ c'.kept = Keep(c.kept) /\ c'.pc = "keys"
ServerKeeps ==
    \/ s'.kept = s.kept /\ s'.pc # "keys"
    \/ s'.kept = Keep(s.kept) /\ s'.pc = "keys"

\* The invariant has what the property says.
LEMMA InvProves == IInv => KeysAreProven
  BY DEF IInv, ClientInv, ServerInv, WireInv, KeysAreProven

\* A connection starts without packets and without keys.
LEMMA InitInv == Init => IInv
<1> SUFFICES ASSUME Init PROVE IInv
  OBVIOUS
<1>1. c = NewClient(0) /\ s = NewServer(0) /\ toClient = << >>
  BY DEF Init
<1>2. Fields
  BY <1>1 DEF Fields, IsQueue, NewClient, NewServer, ClientFields, ServerFields
<1>3. ClientInv /\ ServerInv
  BY <1>1 DEF ClientInv, ServerInv, NewClient, NewServer
<1>4. WireInv
  <2>1. Len(<< >>) = 0 /\ 1 .. 0 = {} /\ c.completes # 1
    BY <1>1 DEF NewClient
  <2>2. Completes(toClient) = {}
    BY <1>1, <2>1 DEF Completes
  <2> QED BY <2>1, <2>2, Zenon DEF WireInv
<1> QED BY <1>2, <1>3, <1>4 DEF IInv

\* Packets that are sent and read.
LEMMA Sent ==
    ASSUME NEW q, IsQueue(q), NEW m
    PROVE  /\ IsQueue(Append(q, m)) /\ Len(Append(q, m)) = Len(q) + 1
           /\ \A k \in 1 .. Len(q) : Append(q, m)[k] = q[k]
           /\ Append(q, m)[Len(q) + 1] = m /\ Len(q) \in Nat
<1>1. PICK S : q \in Seq(S)
  BY DEF IsQueue
<1> DEFINE T == S \cup {m}
<1>2. q \in Seq(T) /\ m \in T
  BY <1>1
<1> HIDE DEF T
<1>3. Append(q, m) \in Seq(T)
  BY <1>2
<1>4. IsQueue(Append(q, m))
  BY <1>3 DEF IsQueue
<1>5. /\ Len(Append(q, m)) = Len(q) + 1 /\ Append(q, m)[Len(q) + 1] = m
      /\ \A k \in 1 .. Len(q) : Append(q, m)[k] = q[k] /\ Len(q) \in Nat
  BY <1>2
<1> QED BY <1>4, <1>5

LEMMA Taken ==
    ASSUME NEW q, IsQueue(q), q # << >>
    PROVE  /\ IsQueue(Tail(q)) /\ Len(Tail(q)) = Len(q) - 1 /\ Len(q) \in Nat \ {0}
           /\ \A k \in 1 .. Len(q) - 1 : Tail(q)[k] = q[k + 1]
           /\ Head(q) = q[1]
<1>1. PICK S : q \in Seq(S)
  BY DEF IsQueue
<1>2. IsQueue(Tail(q))
  BY <1>1 DEF IsQueue
<1> QED BY <1>1, <1>2

-------------------------------------------------------------------------------
\* A call that is complete has seen or sent the last token.
LEMMA ContextDone ==
    ASSUME NEW step, NEW t, NEW o \in SecContext(step, t), o.status = "COMPLETE"
    PROVE  o.step = mech.n
  BY DEF SecContext

\* A step of the client that reads no COMPLETE, and one of its other fields.
LEMMA ClientKeepsWire ==
    ASSUME IInv, ClientOnly, c'.completes = c.completes, c'.mic = c.mic,
           toClient' = toClient \/ (toClient # << >> /\ toClient' = Tail(toClient))
    PROVE  ServerInv' /\ WireInv' /\ IsQueue(toClient')
<1>1. UNCHANGED <<s, peers, mech>>
  BY DEF ClientOnly
<1>2. ServerInv'
  BY <1>1 DEF IInv, ServerInv, Established
<1>3. CASE toClient' = toClient
  BY <1>1, <1>2, <1>3 DEF IInv, WireInv, Fields
<1>4. CASE toClient # << >> /\ toClient' = Tail(toClient)
  <2>1. /\ IsQueue(toClient') /\ Len(toClient') = Len(toClient) - 1
        /\ Len(toClient) \in Nat \ {0}
        /\ \A k \in 1 .. Len(toClient) - 1 : toClient'[k] = toClient[k + 1]
    BY <1>4, Taken DEF IInv, Fields
  <2>2. \A k \in Completes(toClient') :
           k \in Int /\ k + 1 \in Completes(toClient) /\ toClient'[k] = toClient[k + 1]
    BY <2>1 DEF Completes
  <2>3. ASSUME peers = "both ours" PROVE \A j, k \in Completes(toClient') : j = k
    <3>1. \A j, k \in Completes(toClient) : j = k
      BY <2>3 DEF IInv, WireInv
    <3> QED BY <2>2, <3>1
  <2>4. ASSUME peers = "both ours", NEW k \in Completes(toClient')
        PROVE  s.pc = "keys" /\ c.completes = 0 /\ toClient'[k].mic = s.hash
    BY <2>2, <2>4, Zenon DEF IInv, WireInv
  <2>5. WireInv'
    BY <1>1, <2>3, <2>4 DEF IInv, WireInv
  <2> QED BY <1>2, <2>1, <2>5
<1> QED BY <1>3, <1>4

\* The client gives up.
LEMMA ClientDeath ==
    ASSUME IInv, ClientOnly, ClientDies
    PROVE  /\ DOMAIN c' = ClientFields /\ ClientInv' /\ c'.kept = c.kept /\ c'.pc # "keys"
           /\ c'.completes = c.completes /\ c'.mic = c.mic
<1>1. c' = [c EXCEPT !.pc = "dead"] /\ DOMAIN c = ClientFields /\ UNCHANGED mech
  BY DEF IInv, Fields, ClientDies, ClientTo, ClientOnly, Dead
<1>2. /\ DOMAIN c' = ClientFields /\ c'.pc = "dead" /\ c'.kept = c.kept /\ c'.maj = c.maj
      /\ c'.completes = c.completes /\ c'.step = c.step /\ c'.type = c.type /\ c'.mic = c.mic
  BY <1>1 DEF ClientFields
<1>3. ClientInv'
  BY <1>1, <1>2 DEF IInv, ClientInv, Established
<1> QED BY <1>2, <1>3

\* What a step of the client leaves, given what it leaves of the client.
LEMMA ClientKeepsInv ==
    ASSUME IInv, ClientOnly, DOMAIN c' = ClientFields, ClientInv',
           c'.completes = c.completes, c'.mic = c.mic,
           toClient' = toClient \/ (toClient # << >> /\ toClient' = Tail(toClient))
    PROVE  IInv'
<1>1. ServerInv' /\ WireInv' /\ IsQueue(toClient')
  BY ClientKeepsWire
<1>2. DOMAIN s' = ServerFields
  BY SMTT(60) DEF IInv, Fields, ClientOnly
<1> QED BY <1>1, <1>2 DEF IInv, Fields

\* Starting an exchange, with or without the request for a group.
LEMMA StepClientStart ==
    ASSUME IInv, ClientStart
    PROVE  IInv' /\ c'.kept = c.kept /\ c'.pc # "keys"
<1>1. /\ c.pc = "start" /\ ClientOnly /\ UNCHANGED toClient /\ DOMAIN c = ClientFields
      /\ UNCHANGED <<mech, kex>>
  BY Zenon DEF ClientStart, ClientOnly, IInv, Fields
<1>2. CASE ClientDies
  BY <1>1, <1>2, ClientDeath, ClientKeepsInv
<1>3. ASSUME c' = [c EXCEPT !.pc = "init"]
      PROVE  IInv' /\ c'.kept = c.kept /\ c'.pc # "keys"
  <2>1. /\ DOMAIN c' = ClientFields /\ c'.pc = "init" /\ c'.kept = c.kept /\ c'.maj = c.maj
        /\ c'.completes = c.completes /\ c'.step = c.step /\ c'.type = c.type
        /\ c'.mic = c.mic
    BY <1>1, <1>3 DEF ClientFields
  <2>2. ClientInv'
    BY <1>1, <2>1 DEF IInv, ClientInv, Established
  <2> QED BY <1>1, <2>1, <2>2, ClientKeepsInv
<1>4. ASSUME NEW p, c' = [c EXCEPT !.pc = "group", !.gex.ask = p]
      PROVE  IInv' /\ c'.kept = c.kept /\ c'.pc # "keys"
  <2>1. c' = [[c EXCEPT !.pc = "group"] EXCEPT !.gex = [[c EXCEPT !.pc = "group"].gex EXCEPT !.ask = p]]
    BY <1>4
  <2>2. /\ DOMAIN c' = ClientFields /\ c'.pc = "group" /\ c'.kept = c.kept /\ c'.maj = c.maj
        /\ c'.completes = c.completes /\ c'.step = c.step /\ c'.type = c.type
        /\ c'.mic = c.mic
    BY <1>1, <2>1 DEF ClientFields
  <2>3. ClientInv'
    BY <1>1, <2>2, SMTT(60) DEF IInv, ClientInv, Established
  <2> QED BY <1>1, <2>2, <2>3, ClientKeepsInv
<1> QED BY <1>2, <1>3, <1>4, Zenon DEF ClientStart, ClientTo, ClientSends

\* The group that the server has chosen.
LEMMA StepClientGroup ==
    ASSUME IInv, ClientGroup
    PROVE  IInv' /\ c'.kept = c.kept /\ c'.pc # "keys"
<1>1. /\ c.pc = "group" /\ ClientOnly /\ DOMAIN c = ClientFields /\ UNCHANGED <<mech, kex>>
      /\ toClient' = toClient \/ (toClient # << >> /\ toClient' = Tail(toClient))
  BY DEF ClientGroup, ClientOnly, ClientFindsClosed, ClientReads, IInv, Fields
<1>2. CASE ClientDies
  BY <1>1, <1>2, ClientDeath, ClientKeepsInv
<1>3. ASSUME NEW b, c' = [c EXCEPT !.pc = "init", !.gex.bits = b]
      PROVE  IInv' /\ c'.kept = c.kept /\ c'.pc # "keys"
  <2>1. c' = [[c EXCEPT !.pc = "init"] EXCEPT !.gex = [[c EXCEPT !.pc = "init"].gex EXCEPT !.bits = b]]
    BY <1>3
  <2>2. /\ DOMAIN c' = ClientFields /\ c'.pc = "init" /\ c'.kept = c.kept /\ c'.maj = c.maj
        /\ c'.completes = c.completes /\ c'.step = c.step /\ c'.type = c.type
        /\ c'.mic = c.mic
    BY <1>1, <2>1 DEF ClientFields
  <2>3. ClientInv'
    BY <1>1, <2>2, SMTT(60) DEF IInv, ClientInv, Established
  <2> QED BY <1>1, <2>2, <2>3, ClientKeepsInv
<1> QED BY <1>2, <1>3, Zenon DEF ClientGroup, ClientTo, ClientFindsClosed

\* The call of ssh_gssapi_init_ctx.
LEMMA StepClientInit ==
    ASSUME IInv, ClientInit
    PROVE  IInv' /\ c'.kept = c.kept /\ c'.pc # "keys"
<1>1. /\ c.pc = "init" /\ ClientOnly /\ UNCHANGED toClient /\ DOMAIN c = ClientFields
      /\ UNCHANGED <<mech, kex>>
  BY DEF ClientInit, ClientOnly, IInv, Fields
<1>2. CASE ClientDies
  BY <1>1, <1>2, ClientDeath, ClientKeepsInv
<1>3. ASSUME NEW o \in SecContext(c.step, c.tok), o.status # "ERROR",
             ~(o.status = "COMPLETE" /\ mech.flags # BothFlags),
             ~(o.status # "COMPLETE" /\ o.tok = None),
             c' = [c EXCEPT !.maj = o.status, !.step = o.step, !.first = FALSE,
                            !.pc = IF o.tok = None THEN "check" ELSE "read"]
      PROVE  IInv' /\ c'.kept = c.kept /\ c'.pc # "keys"
  <2> DEFINE at == IF o.tok = None THEN "check" ELSE "read"
             c1 == [c EXCEPT !.maj = o.status]
             c2 == [c1 EXCEPT !.step = o.step]
             c3 == [c2 EXCEPT !.first = FALSE]
  <2>1. c' = [c3 EXCEPT !.pc = at]
    BY <1>3
  <2>2. o.status \in {"CONTINUE", "COMPLETE"}
    BY <1>3 DEF SecContext
  <2>3. /\ at = "read" \/ (at = "check" /\ o.status = "COMPLETE")
        /\ o.status = "COMPLETE" => o.step = mech.n /\ mech.flags = BothFlags
    BY <1>3, ContextDone
  <2> HIDE DEF at
  <2>4. /\ DOMAIN c1 = ClientFields /\ c1.maj = o.status /\ c1.kept = c.kept
        /\ c1.completes = c.completes /\ c1.type = c.type /\ c1.mic = c.mic
    BY <1>1 DEF ClientFields
  <2> HIDE DEF c1
  <2>5. /\ DOMAIN c2 = ClientFields /\ c2.maj = o.status /\ c2.kept = c.kept
        /\ c2.completes = c.completes /\ c2.type = c.type /\ c2.mic = c.mic
        /\ c2.step = o.step
    BY <2>4 DEF ClientFields
  <2> HIDE DEF c2
  <2>6. /\ DOMAIN c3 = ClientFields /\ c3.maj = o.status /\ c3.kept = c.kept
        /\ c3.completes = c.completes /\ c3.type = c.type /\ c3.mic = c.mic
        /\ c3.step = o.step
    BY <2>5 DEF ClientFields
  <2> HIDE DEF c3
  <2>7. /\ DOMAIN c' = ClientFields /\ c'.maj = o.status /\ c'.kept = c.kept
        /\ c'.completes = c.completes /\ c'.type = c.type /\ c'.mic = c.mic
        /\ c'.step = o.step /\ c'.pc = at
    BY <2>1, <2>6 DEF ClientFields
  <2>8. ClientInv'
    BY <1>1, <2>2, <2>3, <2>7 DEF IInv, ClientInv, Established
  <2>9. c'.pc # "keys"
    BY <2>3, <2>7
  <2> QED BY <1>1, <2>7, <2>8, <2>9, ClientKeepsInv
<1> QED BY <1>2, <1>3, Zenon DEF ClientInit, ClientTo, ClientSends

\* After the loop: what the keys are derived from has been proven.
LEMMA StepClientCheck ==
    ASSUME IInv, ClientCheck
    PROVE  IInv' /\ ClientKeeps
<1>1. /\ c.pc = "check" /\ ClientOnly /\ UNCHANGED toClient /\ DOMAIN c = ClientFields
      /\ UNCHANGED <<mech, kex>>
  BY DEF ClientCheck, ClientOnly, IInv, Fields
<1>2. CASE ClientDies
  <2>1. /\ DOMAIN c' = ClientFields /\ ClientInv' /\ c'.kept = c.kept /\ c'.pc # "keys"
        /\ c'.completes = c.completes /\ c'.mic = c.mic
    BY <1>1, <1>2, ClientDeath, Zenon
  <2>2. IInv'
    BY <1>1, <2>1, ClientKeepsInv, Zenon
  <2> QED BY <2>1, <2>2, Zenon DEF ClientKeeps
<1>3. ASSUME c.type = "COMPLETE", c.mic = ClientHash,
             c' = [c EXCEPT !.pc = "keys", !.kept = Keep(@)]
      PROVE  IInv' /\ ClientKeeps
  <2> DEFINE c1 == [c EXCEPT !.pc = "keys"]
  <2>1. c' = [c1 EXCEPT !.kept = Keep(c1.kept)]
    BY <1>3
  <2>2. /\ DOMAIN c1 = ClientFields /\ c1.maj = c.maj /\ c1.kept = c.kept /\ c1.pc = "keys"
        /\ c1.completes = c.completes /\ c1.type = c.type /\ c1.mic = c.mic
        /\ c1.step = c.step /\ c1.hostkey = c.hostkey /\ c1.blob = c.blob /\ c1.gex = c.gex
    BY <1>1 DEF ClientFields
  <2> HIDE DEF c1
  <2>3. /\ DOMAIN c' = ClientFields /\ c'.maj = c.maj /\ c'.kept = Keep(c.kept)
        /\ c'.completes = c.completes /\ c'.type = c.type /\ c'.mic = c.mic
        /\ c'.step = c.step /\ c'.hostkey = c.hostkey /\ c'.blob = c.blob /\ c'.gex = c.gex
        /\ c'.pc = "keys"
    BY <2>1, <2>2 DEF ClientFields
  <2>4. ClientHash' = ClientHash
    BY <1>1, <2>3 DEF ClientHash
  <2>5. ClientInv'
    BY <1>1, <1>3, <2>3, <2>4 DEF IInv, ClientInv, Established
  <2> QED BY <1>1, <2>3, <2>5, ClientKeepsInv DEF ClientKeeps
<1> QED BY <1>2, <1>3 DEF ClientCheck, ClientTo

\* The client after the packet of a token.
LEMMA AfterLoop ==
    ASSUME IInv, NEW type, NEW tok
    PROVE  LET l == Looped(type, tok)
           IN  /\ DOMAIN l = ClientFields /\ l.type = type /\ l.maj = c.maj
               /\ l.kept = c.kept /\ l.completes = c.completes /\ l.mic = c.mic
               /\ l.step = c.step
               /\ l.pc = "init" \/ (l.pc = "check" /\ c.maj = "COMPLETE")
<1> DEFINE at == IF c.maj = "CONTINUE" THEN "init" ELSE "check"
           c1 == [c EXCEPT !.type = type]
           c2 == [c1 EXCEPT !.tok = tok]
<1>1. DOMAIN c = ClientFields /\ (at = "init" \/ (at = "check" /\ c.maj = "COMPLETE"))
  BY DEF IInv, Fields, ClientInv
<1>2. Looped(type, tok) = [c2 EXCEPT !.pc = at]
  BY DEF Looped
<1> HIDE DEF at
<1>3. /\ DOMAIN c1 = ClientFields /\ c1.type = type /\ c1.maj = c.maj /\ c1.kept = c.kept
      /\ c1.completes = c.completes /\ c1.mic = c.mic /\ c1.step = c.step
  BY <1>1 DEF ClientFields
<1> HIDE DEF c1
<1>4. /\ DOMAIN c2 = ClientFields /\ c2.type = type /\ c2.maj = c.maj /\ c2.kept = c.kept
      /\ c2.completes = c.completes /\ c2.mic = c.mic /\ c2.step = c.step
  BY <1>3 DEF ClientFields
<1> HIDE DEF c2
<1> QED BY <1>1, <1>2, <1>4 DEF ClientFields

\* The COMPLETE of the server is read: no other one is on its way.
LEMMA ReadsComplete ==
    ASSUME IInv, ClientOnly, ClientReads, Head(toClient).type = "COMPLETE",
           c'.completes = 1, c'.mic = Head(toClient).mic
    PROVE  ServerInv' /\ WireInv' /\ IsQueue(toClient')
<1>1. UNCHANGED <<s, peers, mech>>
  BY DEF ClientOnly
<1>2. ServerInv'
  BY <1>1 DEF IInv, ServerInv, Established
<1>3. /\ IsQueue(toClient') /\ Len(toClient') = Len(toClient) - 1
      /\ Len(toClient) \in Nat \ {0} /\ Head(toClient) = toClient[1]
      /\ \A k \in 1 .. Len(toClient) - 1 : toClient'[k] = toClient[k + 1]
  BY Taken DEF IInv, Fields, ClientReads
<1>4. 1 \in Completes(toClient)
  BY <1>3 DEF Completes
<1>5. \A k \in Completes(toClient') : k \in 1 .. Len(toClient) /\ k + 1 \in Completes(toClient)
  BY <1>3 DEF Completes
<1>6. ASSUME peers = "both ours"
      PROVE  Completes(toClient') = {} /\ s.pc = "keys" /\ Head(toClient).mic = s.hash
  <2>1. \A j, k \in Completes(toClient) : j = k
    BY <1>6 DEF IInv, WireInv
  <2>2. s.pc = "keys" /\ toClient[1].mic = s.hash
    BY <1>4, <1>6 DEF IInv, WireInv
  <2>3. \A k \in Completes(toClient') : FALSE
    BY <1>4, <1>5, <2>1
  <2> QED BY <1>3, <2>2, <2>3
<1>7. WireInv'
  BY <1>1, <1>6 DEF WireInv
<1> QED BY <1>2, <1>3, <1>7

\* A packet is read in the loop.
LEMMA StepClientRead ==
    ASSUME IInv, ClientRead
    PROVE  IInv' /\ c'.kept = c.kept /\ c'.pc # "keys"
<1> DEFINE m == Head(toClient)
<1>1. /\ c.pc = "read" /\ ClientOnly /\ DOMAIN c = ClientFields /\ UNCHANGED <<mech, kex>>
      /\ DOMAIN s' = ServerFields
      /\ toClient' = toClient \/ (toClient # << >> /\ toClient' = Tail(toClient))
  BY DEF ClientRead, ClientOnly, ClientFindsClosed, ClientReads, IInv, Fields
<1>2. CASE ClientDies
  BY <1>1, <1>2, ClientDeath, ClientKeepsInv
<1>3. ASSUME c' = [c EXCEPT !.hostkey = 1, !.type = "HOSTKEY"]
      PROVE  IInv' /\ c'.kept = c.kept /\ c'.pc # "keys"
  <2> DEFINE c1 == [c EXCEPT !.hostkey = 1]
  <2>1. c' = [c1 EXCEPT !.type = "HOSTKEY"]
    BY <1>3
  <2>2. /\ DOMAIN c1 = ClientFields /\ c1.pc = "read" /\ c1.kept = c.kept /\ c1.maj = c.maj
        /\ c1.completes = c.completes /\ c1.step = c.step /\ c1.mic = c.mic
    BY <1>1 DEF ClientFields
  <2> HIDE DEF c1
  <2>3. /\ DOMAIN c' = ClientFields /\ c'.pc = "read" /\ c'.kept = c.kept /\ c'.maj = c.maj
        /\ c'.completes = c.completes /\ c'.step = c.step /\ c'.mic = c.mic
        /\ c'.type = "HOSTKEY"
    BY <2>1, <2>2 DEF ClientFields
  <2>4. ClientInv'
    BY <1>1, <2>3 DEF IInv, ClientInv, Established
  <2> QED BY <1>1, <2>3, <2>4, ClientKeepsInv
<1>4. ASSUME NEW tok, c' = Looped("CONTINUE", tok)
      PROVE  IInv' /\ c'.kept = c.kept /\ c'.pc # "keys"
  <2>1. /\ DOMAIN c' = ClientFields /\ c'.type = "CONTINUE" /\ c'.maj = c.maj
        /\ c'.kept = c.kept /\ c'.completes = c.completes /\ c'.mic = c.mic
        /\ c'.step = c.step /\ (c'.pc = "init" \/ (c'.pc = "check" /\ c.maj = "COMPLETE"))
    BY <1>4, AfterLoop
  <2>2. ClientInv'
    BY <1>1, <2>1 DEF IInv, ClientInv, Established
  <2> QED BY <1>1, <2>1, <2>2, ClientKeepsInv
<1>5. ASSUME ClientReads, m.type = "COMPLETE",
             c' = [Looped("COMPLETE", m.tok) EXCEPT !.completes = 1, !.blob = m.blob,
                                                    !.mic = m.mic]
      PROVE  IInv' /\ c'.kept = c.kept /\ c'.pc # "keys"
  <2> DEFINE l == Looped("COMPLETE", m.tok)
             c1 == [l EXCEPT !.completes = 1]
             c2 == [c1 EXCEPT !.blob = m.blob]
  <2>1. c' = [c2 EXCEPT !.mic = m.mic]
    BY <1>5
  <2>2. /\ DOMAIN l = ClientFields /\ l.type = "COMPLETE" /\ l.maj = c.maj
        /\ l.kept = c.kept /\ l.step = c.step
        /\ l.pc = "init" \/ (l.pc = "check" /\ c.maj = "COMPLETE")
    BY AfterLoop
  <2> HIDE DEF l
  <2>3. /\ DOMAIN c1 = ClientFields /\ c1.type = "COMPLETE" /\ c1.maj = c.maj
        /\ c1.kept = c.kept /\ c1.step = c.step /\ c1.completes = 1
        /\ c1.pc = "init" \/ (c1.pc = "check" /\ c.maj = "COMPLETE")
    BY <2>2 DEF ClientFields
  <2> HIDE DEF c1
  <2>4. /\ DOMAIN c2 = ClientFields /\ c2.type = "COMPLETE" /\ c2.maj = c.maj
        /\ c2.kept = c.kept /\ c2.step = c.step /\ c2.completes = 1
        /\ c2.pc = "init" \/ (c2.pc = "check" /\ c.maj = "COMPLETE")
    BY <2>3 DEF ClientFields
  <2> HIDE DEF c2
  <2>5. /\ DOMAIN c' = ClientFields /\ c'.type = "COMPLETE" /\ c'.maj = c.maj
        /\ c'.kept = c.kept /\ c'.step = c.step /\ c'.completes = 1 /\ c'.mic = m.mic
        /\ c'.pc = "init" \/ (c'.pc = "check" /\ c.maj = "COMPLETE")
    BY <2>1, <2>4 DEF ClientFields
  <2>6. ClientInv'
    BY <1>1, <2>5 DEF IInv, ClientInv, Established
  <2>7. ServerInv' /\ WireInv' /\ IsQueue(toClient')
    BY <1>1, <1>5, <2>5, ReadsComplete
  <2> QED BY <1>1, <2>5, <2>6, <2>7 DEF IInv, Fields
<1> QED BY <1>2, <1>3, <1>4, <1>5
        DEF ClientRead, ClientTo, ClientHostkey, ClientFindsClosed

-------------------------------------------------------------------------------
\* A step of the server that derives no keys, with or without a packet that it
\* sends.
LEMMA ServerKeepsInv ==
    ASSUME IInv, ServerOnly, s.pc # "keys", s'.pc # "keys", DOMAIN s' = ServerFields,
           toClient' = toClient
             \/ \E p : p.type # "COMPLETE" /\ toClient' = Append(toClient, p)
    PROVE  IInv'
<1>1. UNCHANGED <<c, peers, mech, kex>>
  BY DEF ServerOnly
<1>2. ClientInv' /\ ServerInv'
  BY <1>1 DEF IInv, ClientInv, ServerInv, Established, ClientHash
<1>3. IsQueue(toClient') /\ (peers = "both ours" => Completes(toClient') = {})
  <2>1. peers = "both ours" => Completes(toClient) = {}
    BY DEF IInv, WireInv
  <2>2. CASE toClient' = toClient
    BY <2>1, <2>2 DEF IInv, Fields
  <2>3. ASSUME NEW p, p.type # "COMPLETE", toClient' = Append(toClient, p)
        PROVE  IsQueue(toClient') /\ (peers = "both ours" => Completes(toClient') = {})
    <3>1. /\ IsQueue(toClient') /\ Len(toClient') = Len(toClient) + 1
          /\ \A k \in 1 .. Len(toClient) : toClient'[k] = toClient[k]
          /\ toClient'[Len(toClient) + 1] = p /\ Len(toClient) \in Nat
      BY <2>3, Sent DEF IInv, Fields
    <3>2. \A k \in 1 .. Len(toClient') : k \in 1 .. Len(toClient) \/ k = Len(toClient) + 1
      BY <3>1
    <3>3. \A k \in Completes(toClient') : k \in Completes(toClient)
      BY <2>3, <3>1, <3>2 DEF Completes
    <3> QED BY <2>1, <3>1, <3>3
  <2> QED BY <2>2, <2>3
<1>4. WireInv'
  BY <1>1, <1>3 DEF IInv, WireInv
<1> QED BY <1>1, <1>2, <1>3, <1>4 DEF IInv, Fields

\* The server gives up.
LEMMA ServerDeath ==
    ASSUME IInv, ServerOnly, s.pc # "keys", s' = [s EXCEPT !.pc = Dead],
           toClient' = toClient
             \/ \E p : p.type # "COMPLETE" /\ toClient' = Append(toClient, p)
    PROVE  IInv' /\ s'.kept = s.kept /\ s'.pc # "keys"
<1>1. DOMAIN s' = ServerFields /\ s'.pc = "dead" /\ s'.kept = s.kept
  BY DEF IInv, Fields, ServerFields, Dead
<1> QED BY <1>1, ServerKeepsInv

\* Starting an exchange.
LEMMA StepServerStart ==
    ASSUME IInv, ServerStart
    PROVE  IInv' /\ s'.kept = s.kept /\ s'.pc # "keys"
<1> DEFINE at == IF mech.gex THEN "group" ELSE "read"
<1>1. /\ s.pc = "start" /\ ServerOnly /\ UNCHANGED toClient /\ s' = [s EXCEPT !.pc = at]
      /\ DOMAIN s = ServerFields
  BY DEF ServerStart, ServerTo, IInv, Fields
<1>2. at \in {"group", "read"}
  OBVIOUS
<1> HIDE DEF at
<1>3. DOMAIN s' = ServerFields /\ s'.pc = at /\ s'.kept = s.kept
  BY <1>1 DEF ServerFields
<1> QED BY <1>1, <1>2, <1>3, ServerKeepsInv

\* The request for a group.
LEMMA StepServerGroup ==
    ASSUME IInv, ServerGroup
    PROVE  IInv' /\ s'.kept = s.kept /\ s'.pc # "keys"
<1>1. s.pc = "group" /\ ServerOnly /\ DOMAIN s = ServerFields
  BY DEF ServerGroup, IInv, Fields
<1>2. CASE ServerDies
  BY <1>1, <1>2, ServerDeath DEF ServerDies, ServerTo
<1>3. ASSUME NEW ask, NEW nbits, NEW bits, s' = Grouped(ask, nbits, bits),
             toClient' = Append(toClient, Group(bits))
      PROVE  IInv' /\ s'.kept = s.kept /\ s'.pc # "keys"
  <2> DEFINE g == [ask |-> <<ask[1], nbits, ask[3]>>, bits |-> bits]
             s1 == [s EXCEPT !.pc = "read"]
  <2>1. s' = [s1 EXCEPT !.gex = g]
    BY <1>3 DEF Grouped
  <2> HIDE DEF g
  <2>2. DOMAIN s1 = ServerFields /\ s1.pc = "read" /\ s1.kept = s.kept
    BY <1>1 DEF ServerFields
  <2> HIDE DEF s1
  <2>3. DOMAIN s' = ServerFields /\ s'.pc = "read" /\ s'.kept = s.kept
    BY <2>1, <2>2 DEF ServerFields
  <2>4. Group(bits).type # "COMPLETE"
    BY DEF Group
  <2> QED BY <1>1, <1>3, <2>3, <2>4, ServerKeepsInv
<1> QED BY <1>2, <1>3 DEF ServerGroup, ServerFindsClosed, ServerSends

\* The COMPLETE of the server is sent, with the hash of its keys: it is the first
\* of the exchange.
LEMMA SendsComplete ==
    ASSUME IInv, ServerOnly, s.pc # "keys", DOMAIN s' = ServerFields, NEW p,
           Established(s'.step), s'.pub # 0, s'.pc = "keys",
           p.mic = s'.hash, toClient' = Append(toClient, p)
    PROVE  IInv'
<1>1. UNCHANGED <<c, peers, mech, kex>>
  BY DEF ServerOnly
<1>2. ClientInv' /\ ServerInv'
  BY <1>1 DEF IInv, ClientInv, ServerInv, Established, ClientHash
<1>3. /\ IsQueue(toClient') /\ Len(toClient') = Len(toClient) + 1
      /\ \A k \in 1 .. Len(toClient) : toClient'[k] = toClient[k]
      /\ toClient'[Len(toClient) + 1] = p /\ Len(toClient) \in Nat
  BY Sent DEF IInv, Fields
<1>4. \A k \in 1 .. Len(toClient') : k \in 1 .. Len(toClient) \/ k = Len(toClient) + 1
  BY <1>3
<1>5. \A k \in Completes(toClient') : k \in Completes(toClient) \/ k = Len(toClient) + 1
  BY <1>3, <1>4 DEF Completes
<1>6. ASSUME peers = "both ours"
      PROVE  /\ c.completes = 0 /\ c.completes # 1
             /\ \A k \in Completes(toClient') : k = Len(toClient) + 1
  BY <1>5, <1>6 DEF IInv, WireInv, ClientInv
<1>7. WireInv'
  <2> SUFFICES ASSUME peers = "both ours" PROVE WireInv'
    BY <1>1 DEF WireInv
  <2>1. c'.completes = 0 /\ c'.completes # 1
    BY <1>1, <1>6, Zenon
  <2>2. \A k \in Completes(toClient') : toClient'[k].mic = s'.hash
    BY <1>3, <1>6
  <2> QED BY <1>6, <2>1, <2>2 DEF WireInv
<1> QED BY <1>1, <1>2, <1>3, <1>7 DEF IInv, Fields

\* A token is handed to accept_ctx.
LEMMA StepServerAccept ==
    ASSUME IInv, ServerOnly, s.pc = "read", NEW tok, NEW pub, ServerAccept(tok, pub)
    PROVE  IInv' /\ ServerKeeps
<1>1. DOMAIN s = ServerFields /\ UNCHANGED mech
  BY DEF IInv, Fields, ServerOnly
<1>2. PICK o \in SecContext(s.step, tok) :
        LET now == [s EXCEPT !.step = o.step, !.pub = pub]
            hash == Hash(0, pub, kex, s.gex)
        IN  IF ServerFails(o) \/ pub = 0 THEN ServerDies
            ELSE IF o.status = "CONTINUE" THEN ServerSends(now, Continue(o.tok))
            ELSE IF o.status = "ERROR"
            THEN ServerSends([s EXCEPT !.pc = Dead], Continue(o.tok))
            ELSE IF mech.flags # BothFlags \/ mech.fault = "server" THEN ServerDies
            ELSE ServerSends([now EXCEPT !.pc = "keys", !.hash = hash, !.kept = Keep(@)],
                             Complete(kex, hash, FinalToken(o.tok)))
  BY Zenon DEF ServerAccept
<1> DEFINE s1 == [s EXCEPT !.step = o.step]
           now == [s1 EXCEPT !.pub = pub]
           hash == Hash(0, pub, kex, s.gex)
           s2 == [now EXCEPT !.pc = "keys"]
           s3 == [s2 EXCEPT !.hash = hash]
<1>3. /\ DOMAIN s1 = ServerFields /\ s1.kept = s.kept /\ s1.pc = "read" /\ s1.step = o.step
  BY <1>1 DEF ServerFields
<1>4. /\ DOMAIN now = ServerFields /\ now.kept = s.kept /\ now.pc = "read"
      /\ now.step = o.step /\ now.pub = pub
  <2> HIDE DEF s1
  <2> QED BY <1>3 DEF ServerFields
<1>5. [s EXCEPT !.step = o.step, !.pub = pub] = now
  OBVIOUS
<1>6. CASE ServerDies
  BY <1>6, ServerDeath DEF ServerKeeps, ServerDies, ServerTo
<1>7. Continue(o.tok).type # "COMPLETE"
  BY DEF Continue
<1>8. CASE ServerSends([s EXCEPT !.pc = Dead], Continue(o.tok))
  BY <1>7, <1>8, ServerDeath DEF ServerKeeps, ServerSends
<1>9. CASE ServerSends(now, Continue(o.tok))
  <2>1. s' = now /\ toClient' = Append(toClient, Continue(o.tok))
    BY <1>9 DEF ServerSends
  <2> HIDE DEF now
  <2> QED BY <1>4, <1>7, <2>1, ServerKeepsInv DEF ServerKeeps
<1>10. ASSUME pub # 0, o.status = "COMPLETE", mech.flags = BothFlags,
              ServerSends([now EXCEPT !.pc = "keys", !.hash = hash, !.kept = Keep(@)],
                          Complete(kex, hash, FinalToken(o.tok)))
       PROVE  IInv' /\ ServerKeeps
  <2> HIDE DEF now, hash
  <2>1. /\ s' = [s3 EXCEPT !.kept = Keep(s3.kept)]
        /\ toClient' = Append(toClient, Complete(kex, hash, FinalToken(o.tok)))
    BY <1>10 DEF ServerSends
  <2>2. /\ DOMAIN s2 = ServerFields /\ s2.kept = s.kept /\ s2.pc = "keys"
        /\ s2.step = o.step /\ s2.pub = pub
    BY <1>4 DEF ServerFields
  <2> HIDE DEF s2
  <2>3. /\ DOMAIN s3 = ServerFields /\ s3.kept = s.kept /\ s3.pc = "keys"
        /\ s3.step = o.step /\ s3.pub = pub /\ s3.hash = hash
    BY <2>2 DEF ServerFields
  <2> HIDE DEF s3
  <2>4. /\ DOMAIN s' = ServerFields /\ s'.kept = Keep(s.kept) /\ s'.pc = "keys"
        /\ s'.step = o.step /\ s'.pub = pub /\ s'.hash = hash
    BY <2>1, <2>3 DEF ServerFields
  <2>5. Established(s'.step)
    BY <1>10, <2>4, ContextDone DEF Established
  <2>6. Complete(kex, hash, FinalToken(o.tok)).mic = hash
    BY DEF Complete
  <2> QED BY <1>10, <2>1, <2>4, <2>5, <2>6, SendsComplete DEF ServerKeeps
<1>11. o.status \in {"CONTINUE", "COMPLETE", "ERROR"}
  BY DEF SecContext
<1> HIDE DEF now
<1>12. IF ServerFails(o) \/ pub = 0 THEN ServerDies
       ELSE IF o.status = "CONTINUE" THEN ServerSends(now, Continue(o.tok))
       ELSE IF o.status = "ERROR" THEN ServerSends([s EXCEPT !.pc = Dead], Continue(o.tok))
       ELSE IF mech.flags # BothFlags \/ mech.fault = "server" THEN ServerDies
       ELSE ServerSends([now EXCEPT !.pc = "keys", !.hash = hash, !.kept = Keep(@)],
                        Complete(kex, hash, FinalToken(o.tok)))
  BY <1>2, <1>5, Zenon
<1> HIDE DEF hash
<1> QED BY <1>6, <1>8, <1>9, <1>10, <1>11, <1>12, Zenon

\* A packet is read.
LEMMA StepServerRead ==
    ASSUME IInv, ServerRead
    PROVE  IInv' /\ ServerKeeps
<1>1. s.pc = "read" /\ ServerOnly
  BY DEF ServerRead
<1>2. CASE ServerDies
  <2>1. IInv' /\ s'.kept = s.kept /\ s'.pc # "keys"
    BY <1>1, <1>2, ServerDeath DEF ServerDies, ServerTo
  <2> QED BY <2>1, Zenon DEF ServerKeeps
<1>3. ASSUME NEW tok, NEW pub, ServerAccept(tok, pub)
      PROVE  IInv' /\ ServerKeeps
  BY <1>1, <1>3, StepServerAccept
<1> QED BY <1>2, <1>3 DEF ServerRead, ServerFindsClosed

-------------------------------------------------------------------------------
\* A peer of another make sends a packet or hangs up.
LEMMA StepOther ==
    ASSUME IInv, OtherServer \/ OtherClient \/ OtherHangsUp
    PROVE  IInv' /\ c'.kept = c.kept /\ s'.kept = s.kept
<1>1. peers # "both ours" /\ UNCHANGED <<peers, mech, kex>>
  BY DEF OtherServer, OtherClient, OtherHangsUp
<1>2. WireInv'
  BY <1>1 DEF WireInv
<1>3. IsQueue(toClient')
  <2>1. CASE OtherServer
    <3>1. PICK m : toClient' = <<m>>
      BY <2>1 DEF OtherServer
    <3>2. <<m>> \in Seq({m})
      OBVIOUS
    <3> QED BY <3>1, <3>2, Zenon DEF IsQueue
  <2>2. CASE OtherClient
    <3>1. << >> \in Seq({})
      OBVIOUS
    <3> QED BY <2>2, <3>1 DEF OtherClient, IsQueue
  <2>3. CASE OtherHangsUp
    BY <2>3 DEF OtherHangsUp, IInv, Fields
  <2> QED BY <2>1, <2>2, <2>3
<1>4. CASE UNCHANGED <<c, s>>
  BY <1>1, <1>2, <1>3, <1>4
     DEF IInv, Fields, ClientInv, ServerInv, Established, ClientHash
<1>5. CASE s' = [s EXCEPT !.pc = "dead"] /\ UNCHANGED c
  <2>1. DOMAIN s' = ServerFields /\ s'.pc = "dead" /\ s'.kept = s.kept
    BY <1>5 DEF IInv, Fields, ServerFields
  <2> QED BY <1>1, <1>2, <1>3, <1>5, <2>1
          DEF IInv, Fields, ClientInv, ServerInv, Established, ClientHash
<1>6. CASE c' = [c EXCEPT !.pc = "dead"] /\ UNCHANGED s
  <2>1. /\ DOMAIN c' = ClientFields /\ c'.pc = "dead" /\ c'.kept = c.kept /\ c'.maj = c.maj
        /\ c'.completes = c.completes /\ c'.step = c.step /\ c'.type = c.type
    BY <1>6 DEF IInv, Fields, ClientFields
  <2> QED BY <1>1, <1>2, <1>3, <1>6, <2>1
          DEF IInv, Fields, ClientInv, ServerInv, Established
<1> QED BY <1>4, <1>5, <1>6 DEF OtherServer, OtherClient, OtherHangsUp, Dead

\* Another exchange begins: the COMPLETE of the last one has been read.
LEMMA StepRekey ==
    ASSUME IInv, Rekey
    PROVE  IInv' /\ c'.kept = c.kept /\ s'.kept = s.kept
<1>1. /\ c.pc = "keys" /\ c' = NewClient(c.kept) /\ s' = NewServer(s.kept)
      /\ UNCHANGED <<toClient, peers>>
  BY DEF Rekey
<1>2. c.completes = 1
  BY <1>1 DEF IInv, ClientInv
<1>3. peers = "both ours" => Completes(toClient') = {}
  <2>1. c.completes # 0
    BY <1>2
  <2>2. peers = "both ours" => \A k \in Completes(toClient) : FALSE
    BY <2>1, Zenon DEF IInv, WireInv
  <2>3. peers = "both ours" => Completes(toClient) = {}
    BY <2>2
  <2> QED BY <1>1, <2>3, Zenon
<1>4. /\ DOMAIN c' = ClientFields /\ c'.pc = "start" /\ c'.maj = "CONTINUE"
      /\ c'.type = "none" /\ c'.completes = 0 /\ c'.kept = c.kept
  BY <1>1, SMTT(60) DEF NewClient, ClientFields
<1>5. DOMAIN s' = ServerFields /\ s'.pc = "start" /\ s'.kept = s.kept
  BY <1>1 DEF NewServer, ServerFields
<1>6. ClientInv' /\ ServerInv'
  BY <1>4, <1>5 DEF ClientInv, ServerInv
<1>7. WireInv'
  <2>1. c'.completes # 1
    BY <1>4
  <2> QED BY <1>1, <1>3, <2>1, Zenon DEF WireInv
<1> QED BY <1>1, <1>4, <1>5, <1>6, <1>7 DEF IInv, Fields

\* Every step keeps the invariant.
LEMMA StepInv ==
    ASSUME IInv, Next
    PROVE  IInv'
<1>1. CASE ClientStart \/ ClientGroup \/ ClientInit \/ ClientRead \/ ClientCheck
  BY <1>1, StepClientStart, StepClientGroup, StepClientInit, StepClientRead, StepClientCheck
<1>2. CASE ServerStart \/ ServerGroup \/ ServerRead
  BY <1>2, StepServerStart, StepServerGroup, StepServerRead
<1>3. CASE OtherServer \/ OtherClient \/ OtherHangsUp
  BY <1>3, StepOther
<1>4. CASE Rekey
  BY <1>4, StepRekey
<1> QED BY <1>1, <1>2, <1>3, <1>4 DEF Next, Client, Server

\* Nothing changes in a step that is not one of this connection.
LEMMA StutterInv == IInv /\ UNCHANGED vars => IInv'
  BY Zenon DEF IInv, Fields, ClientInv, ServerInv, WireInv, Established, ClientHash, Completes,
         vars

\* The client and the server derive keys only from proven exchanges, for any
\* mechanism and whatever a peer of another make sends.
THEOREM KeysProven == Spec => []KeysAreProven
<1>1. IInv /\ [Next]_vars => IInv'
  BY StepInv, StutterInv
<1> QED BY <1>1, InitInv, InvProves, PTL DEF Spec

-------------------------------------------------------------------------------
\* Between the two ends of this code: a client without a context is in the first
\* exchange, and a server that is ahead of it has kept that of this exchange.
KeptInv ==
    /\ kex \in Nat \ {0}
    /\ peers = "both ours" =>
         /\ c.pc = "keys" => c.kept # 0
         /\ c.kept # 0 => s.kept = c.kept
         /\ c.kept = 0 => s.kept \in {0, kex}
         /\ c.kept = 0 /\ s.pc = "keys" => s.kept = kex

LEMMA InitKept == Init => KeptInv
<1> SUFFICES ASSUME Init PROVE KeptInv
  OBVIOUS
<1>1. c = NewClient(0) /\ s = NewServer(0) /\ kex = 1
  BY Zenon DEF Init
<1>2. c.kept = 0 /\ c.pc # "keys"
  BY <1>1, Zenon DEF NewClient
<1>3. s.kept = 0 /\ s.pc # "keys"
  BY <1>1, Zenon DEF NewServer
<1>4. kex \in Nat \ {0}
  BY <1>1
<1> QED BY <1>2, <1>3, <1>4, Zenon DEF KeptInv

\* The client keeps the context when the server has keys, and so the same.
LEMMA ClientKept ==
    ASSUME KeptInv, UNCHANGED <<s, peers, kex>>, ClientKeeps,
           peers = "both ours" /\ c'.pc = "keys" => s.pc = "keys"
    PROVE  KeptInv'
<1>1. kex' \in Nat \ {0} /\ kex # 0
  BY DEF KeptInv
<1>2. CASE c'.kept = c.kept /\ c'.pc # "keys"
  BY <1>1, <1>2, Zenon DEF KeptInv
<1>3. CASE c'.kept = Keep(c.kept) /\ c'.pc = "keys"
  <2> SUFFICES ASSUME peers = "both ours" PROVE KeptInv'
    BY <1>1, Zenon DEF KeptInv
  <2>1. c'.kept # 0 /\ s.kept = c'.kept
    BY <1>1, <1>3 DEF KeptInv, Keep
  <2>2. s'.kept = c'.kept
    BY <2>1, Zenon
  <2> QED BY <1>1, <2>1, <2>2, Zenon DEF KeptInv
<1> QED BY <1>2, <1>3 DEF ClientKeeps

\* The server keeps the one of the exchange when the client has none.
LEMMA ServerKept ==
    ASSUME KeptInv, UNCHANGED <<c, peers, kex>>, ServerKeeps
    PROVE  KeptInv'
<1>1. kex' \in Nat \ {0} /\ kex # 0
  BY DEF KeptInv
<1>2. CASE s'.kept = s.kept /\ s'.pc # "keys"
  BY <1>1, <1>2, Zenon DEF KeptInv
<1>3. CASE s'.kept = Keep(s.kept)
  <2> SUFFICES ASSUME peers = "both ours" PROVE KeptInv'
    BY <1>1, Zenon DEF KeptInv
  <2>1. CASE c.kept = 0
    <3>1. s'.kept = kex
      BY <1>3, <2>1 DEF KeptInv, Keep
    <3> QED BY <1>1, <2>1, <3>1, Zenon DEF KeptInv
  <2>2. CASE c.kept # 0
    <3>1. s'.kept = c.kept
      BY <1>3, <2>2 DEF KeptInv, Keep
    <3> QED BY <1>1, <2>2, <3>1, Zenon DEF KeptInv
  <2> QED BY <2>1, <2>2
<1> QED BY <1>2, <1>3 DEF ServerKeeps

LEMMA StepKept ==
    ASSUME IInv, KeptInv, Next
    PROVE  KeptInv'
<1>1. CASE ClientStart \/ ClientGroup \/ ClientInit \/ ClientRead \/ ClientCheck
  <2>1. IInv' /\ ClientKeeps
    BY <1>1, StepClientStart, StepClientGroup, StepClientInit, StepClientRead,
       StepClientCheck DEF ClientKeeps
  <2>2. UNCHANGED <<s, peers, kex>>
    BY <1>1, Zenon
       DEF ClientStart, ClientGroup, ClientInit, ClientRead, ClientCheck, ClientOnly
  <2>3. KeysAreProven'
    BY <2>1, InvProves, PTL
  <2>4. peers = "both ours" /\ c'.pc = "keys" => s.pc = "keys"
    BY <2>2, <2>3, Zenon DEF KeysAreProven
  <2> QED BY <2>1, <2>2, <2>4, ClientKept
<1>2. CASE ServerStart \/ ServerGroup \/ ServerRead
  <2>1. ServerKeeps
    BY <1>2, StepServerStart, StepServerGroup, StepServerRead DEF ServerKeeps
  <2>2. UNCHANGED <<c, peers, kex>>
    BY <1>2, Zenon DEF ServerStart, ServerGroup, ServerRead, ServerOnly
  <2> QED BY <2>1, <2>2, ServerKept
<1>3. CASE OtherServer \/ OtherClient \/ OtherHangsUp
  <2>1. peers' # "both ours" /\ UNCHANGED kex
    BY <1>3 DEF OtherServer, OtherClient, OtherHangsUp
  <2> QED BY <2>1, Zenon DEF KeptInv
<1>4. CASE Rekey
  <2>1. c'.kept = c.kept /\ s'.kept = s.kept
    BY <1>4, StepRekey
  <2>2. c.pc = "keys" /\ UNCHANGED peers /\ kex' = kex + 1
    BY <1>4 DEF Rekey
  <2>3. kex \in Nat \ {0} /\ kex' \in Nat \ {0}
    <3>1. kex \in Nat \ {0}
      BY Zenon DEF KeptInv
    <3> QED BY <2>2, <3>1
  <2>4. peers = "both ours" => c'.kept # 0 /\ s'.kept = c'.kept
    BY <2>1, <2>2, Zenon DEF KeptInv
  <2> QED BY <2>2, <2>3, <2>4, Zenon DEF KeptInv
<1> QED BY <1>1, <1>2, <1>3, <1>4 DEF Next, Client, Server

\* For any number of exchanges and any mechanisms, the contexts that the two ends
\* keep for user authentication are those of one and the same exchange.
THEOREM ContextsCorrect == Spec => []ContextsAgree
<1>1. IInv /\ [Next]_vars => IInv'
  BY StepInv, StutterInv
<1>2. IInv /\ KeptInv /\ [Next]_vars => KeptInv'
  <2>1. KeptInv /\ UNCHANGED vars => KeptInv'
    BY Zenon DEF KeptInv, vars
  <2> QED BY <2>1, StepKept
<1>3. KeptInv => ContextsAgree
  BY DEF KeptInv, ContextsAgree
<1> QED BY <1>1, <1>2, <1>3, InitInv, InitKept, PTL DEF Spec
===============================================================================
