--------------------------------- MODULE KexGss ---------------------------------
(***************************************************************************)
(* GSSAPI key exchange of OpenSSH as shipped here: kexgss_client and       *)
(* kexgssgex_client in openssh/sources/kexgssc.c, kexgss_server and        *)
(* kexgssgex_server in kexgsss.c, with rekeying, over a reliable ordered   *)
(* connection.  The two variants share their loop; the gex one asks the    *)
(* server for a group first.                                               *)
(*                                                                         *)
(* Each end runs against the other one, or against a peer of another make  *)
(* that sends anything.  fatal and ssh_packet_disconnect end a side; a     *)
(* failing crypto or packet call does the same, at the step that needs it. *)
(***************************************************************************)
EXTENDS Integers, Sequences, FiniteSets

CONSTANTS DH_GRP_MIN, DH_GRP_MAX,  \* 2048 and 8192 in dh.h
          Proposals,   \* group requests <<min, nbits, max>> a client can make
          MaxTokens,   \* bound: tokens of a mechanism
          MaxKex,      \* bound: key exchanges of a connection
          MaxStray     \* bound: messages of a peer of another make

VARIABLES c, s,                \* the two ends
          toServer, toClient,  \* packets on their way
          peers,               \* who is talking
          mech,                \* what was negotiated, and what will go wrong
          kex,                 \* number of the exchange
          strays               \* messages the peer of another make has sent

vars == <<c, s, toServer, toClient, peers, mech, kex, strays>>

None == 0
BothFlags == {"MUTUAL", "INTEG"}

\* External: a mechanism needs n tokens, the odd ones from the client, and each
\* side is done when it has sent or received the last.  gex: the variant.  A
\* fault "call" strikes the call that is handed token at (0: the first one);
\* "client" and "server" are failures of something else at that end.
Mechs == {m \in [n : 1 .. MaxTokens, flags : {BothFlags, {"MUTUAL"}, {"INTEG"}},
                 gex : BOOLEAN, fault : {"none", "client", "server", "call"},
                 at : 0 .. MaxTokens] : m.fault = "call" \/ m.at = 0}

\* External: the outcomes of handing token t (None at the client's first call)
\* to a context that has seen step tokens.  A token -1 reports an error.
SecContext(step, t) ==
    LET next == IF t = None THEN 1 ELSE step + 2
        Out(status, tok, now) == [status |-> status, tok |-> tok, step |-> now]
        Errors == {Out("ERROR", None, step), Out("ERROR", -1, step)}
    IN  IF mech.fault = "call" /\ mech.at = t
        THEN Errors \cup {Out("CONTINUE", None, step)}
        ELSE IF t # None /\ t # step + 1 THEN Errors
        ELSE IF t = mech.n THEN {Out("COMPLETE", None, t)}
        ELSE {Out(IF next = mech.n THEN "COMPLETE" ELSE "CONTINUE", next, next)}

\* The values an exchange hash covers.
Hash(hostkey, cpub, spub, gex) ==
    [hostkey |-> hostkey, cpub |-> cpub, spub |-> spub, gex |-> gex]
NoGex == [ask |-> <<0, 0, 0>>, bits |-> 0]
NoHash == Hash(0, 0, 0, NoGex)

NewClient(kept) ==
    [pc |-> "start", step |-> 0, maj |-> "CONTINUE", first |-> TRUE, tok |-> None,
     type |-> "none", hostkey |-> 0, completes |-> 0, blob |-> 0, mic |-> NoHash,
     gex |-> NoGex, kept |-> kept]
NewServer(kept) ==
    [pc |-> "start", step |-> 0, pub |-> 0, gex |-> NoGex, hash |-> NoHash,
     kept |-> kept]

Init ==
    /\ c = NewClient(0) /\ s = NewServer(0)
    /\ toServer = <<>> /\ toClient = <<>>
    /\ peers \in {"both ours", "other server", "other client"}
    /\ mech \in Mechs
    /\ kex = 1 /\ strays = 0

Dead == "dead"
GroupReq(p) == [type |-> "GROUPREQ", ask |-> p]
Group(bits) == [type |-> "GROUP", bits |-> bits]
InitMsg(tok, pub) == [type |-> "INIT", tok |-> tok, pub |-> pub]
Continue(tok) == [type |-> "CONTINUE", tok |-> tok]
Complete(blob, mic, tok) ==
    [type |-> "COMPLETE", blob |-> blob, mic |-> mic, tok |-> tok]
Plain(type) == [type |-> type]

\* Planted bug: the context of a later exchange replaces the first.
Bug_Keep(kept) == kex
\* gss_kex_context: the first context is kept, others are deleted.
Keep(kept) == IF kept = 0 THEN kex ELSE kept

--------------------------------------------------------------------------------
\* kexgssc.c

ClientOnly == UNCHANGED <<s, peers, mech, kex, strays>>
ClientTo(next) == c' = next /\ UNCHANGED toServer
ClientSends(next, m) == c' = next /\ toServer' = Append(toServer, m)
ClientDies == ClientTo([c EXCEPT !.pc = Dead])

\* Setup, and in the gex variant the request for a group.
ClientStart ==
    /\ c.pc = "start" /\ peers # "other client"
    /\ UNCHANGED toClient /\ ClientOnly
    /\ \/ mech.fault = "client" /\ ClientDies
       \/ ~mech.gex /\ ClientTo([c EXCEPT !.pc = "init"])
       \/ /\ mech.gex
          /\ \E p \in Proposals :
               ClientSends([c EXCEPT !.pc = "group", !.gex.ask = p], GroupReq(p))

\* A packet is read, or the connection is found closed.
ClientReads == toClient # <<>> /\ toClient' = Tail(toClient)
ClientFindsClosed ==
    toClient = <<>> /\ s.pc = Dead /\ UNCHANGED toClient /\ ClientDies

ClientGroup ==
    /\ c.pc = "group" /\ ClientOnly
    /\ \/ ClientFindsClosed
       \/ /\ ClientReads
          /\ LET m == Head(toClient)
             IN  IF m.type = "GROUP" /\ m.bits \in c.gex.ask[1] .. c.gex.ask[3]
                 THEN ClientTo([c EXCEPT !.pc = "init", !.gex.bits = m.bits])
                 ELSE ClientDies

\* The head of the loop: the call of ssh_gssapi_init_ctx and what is sent.
ClientInit ==
    /\ c.pc = "init" /\ UNCHANGED toClient /\ ClientOnly
    /\ \E o \in SecContext(c.step, c.tok) :
         LET now == [c EXCEPT !.maj = o.status, !.step = o.step, !.first = FALSE,
                              !.pc = IF o.tok = None THEN "check" ELSE "read"]
         IN  IF \/ o.status = "ERROR"
                \/ o.status = "COMPLETE" /\ mech.flags # BothFlags
                \/ o.status # "COMPLETE" /\ o.tok = None
             THEN ClientDies
             ELSE IF o.tok = None THEN ClientTo(now)
             ELSE ClientSends(now, IF c.first THEN InitMsg(o.tok, kex)
                                              ELSE Continue(o.tok))

\* The end of the loop, once a token or nothing has come with the packet.
Looped(type, tok) ==
    [c EXCEPT !.type = type, !.tok = tok,
              !.pc = IF c.maj = "CONTINUE" THEN "init" ELSE "check"]

ClientHostkey ==
    IF c.hostkey > 0 THEN ClientDies
    ELSE ClientTo([c EXCEPT !.hostkey = 1, !.type = "HOSTKEY"])

ClientRead ==
    /\ c.pc = "read" /\ ClientOnly
    /\ \/ ClientFindsClosed
       \/ /\ ClientReads
          /\ LET m == Head(toClient)
             IN  CASE m.type = "HOSTKEY" -> ClientHostkey
                   [] m.type = "CONTINUE" /\ c.maj # "COMPLETE" ->
                        ClientTo(Looped("CONTINUE", m.tok))
                   [] /\ m.type = "COMPLETE" /\ c.completes = 0
                      /\ (m.tok = None) <=> (c.maj = "COMPLETE") ->
                        ClientTo([Looped("COMPLETE", m.tok) EXCEPT
                                    !.completes = 1, !.blob = m.blob, !.mic = m.mic])
                   [] OTHER -> ClientDies

ClientHash == Hash(c.hostkey, kex, c.blob, c.gex)

\* Planted bug: the MIC is not verified.
Bug_ClientCheck ==
    /\ c.pc = "check" /\ UNCHANGED toClient /\ ClientOnly
    /\ IF c.type # "COMPLETE" \/ mech.fault = "client"
       THEN ClientDies
       ELSE ClientTo([c EXCEPT !.pc = "keys", !.kept = Keep(@)])

\* After the loop: shared secret, exchange hash, MIC, keys.
ClientCheck ==
    /\ c.pc = "check" /\ UNCHANGED toClient /\ ClientOnly
    /\ IF \/ c.type # "COMPLETE" \/ mech.fault = "client"
          \/ c.mic # ClientHash
       THEN ClientDies
       ELSE ClientTo([c EXCEPT !.pc = "keys", !.kept = Keep(@)])

--------------------------------------------------------------------------------
\* kexgsss.c

ServerOnly == UNCHANGED <<c, peers, mech, kex, strays>>
ServerTo(next) == s' = next /\ UNCHANGED toClient
ServerSends(next, m) == s' = next /\ toClient' = Append(toClient, m)
ServerDies == ServerTo([s EXCEPT !.pc = Dead])

ServerStart ==
    /\ s.pc = "start" /\ peers # "other server"
    /\ ServerTo([s EXCEPT !.pc = IF mech.gex THEN "group" ELSE "read"])
    /\ UNCHANGED toServer /\ ServerOnly

ServerReads == toServer # <<>> /\ toServer' = Tail(toServer)
ServerFindsClosed ==
    toServer = <<>> /\ c.pc = Dead /\ UNCHANGED toServer /\ ServerDies

Larger(x, y) == IF x > y THEN x ELSE y
Smaller(x, y) == IF x < y THEN x ELSE y

\* The server when it has chosen a group: what the hash will take of it and of
\* the request.
Grouped(ask, nbits, bits) ==
    [s EXCEPT !.pc = "read",
              !.gex = [ask |-> <<ask[1], nbits, ask[3]>>, bits |-> bits]]

\* The group request: the limits are narrowed, nbits is brought between
\* DH_GRP_MIN and DH_GRP_MAX, and the hash takes that nbits.
ServerGroup ==
    /\ s.pc = "group" /\ ServerOnly
    /\ \/ ServerFindsClosed
       \/ /\ ServerReads
          /\ LET m == Head(toServer)
                 min == Larger(DH_GRP_MIN, m.ask[1])
                 max == Smaller(DH_GRP_MAX, m.ask[3])
                 nbits == Smaller(DH_GRP_MAX, Larger(DH_GRP_MIN, m.ask[2]))
             IN  IF \/ m.type # "GROUPREQ"
                    \/ max < min \/ nbits < min \/ max < nbits
                    \/ mech.fault = "server"
                 THEN ServerDies
                 ELSE \E bits \in min .. max :
                        ServerSends(Grouped(m.ask, nbits, bits), Group(bits))

\* Planted bug: without a token to send the server goes on to read.
Bug_ServerFails(o) == o.status = "ERROR" /\ o.tok = None

\* accept_ctx ends the exchange.
ServerFails(o) == o.status # "COMPLETE" /\ o.tok = None

\* Planted bug: the flag that says whether a token follows is always set.
Bug_FinalToken(tok) == IF tok = None THEN -1 ELSE tok
FinalToken(tok) == tok

\* accept_ctx and what is sent for it, with the client's public key pub.
ServerAccept(tok, pub) ==
    \E o \in SecContext(s.step, tok) :
        LET now == [s EXCEPT !.step = o.step, !.pub = pub]
            hash == Hash(0, pub, kex, s.gex)
        IN  IF ServerFails(o) \/ pub = 0 THEN ServerDies
            ELSE IF o.status = "CONTINUE" THEN ServerSends(now, Continue(o.tok))
            ELSE IF o.status = "ERROR"
            THEN ServerSends([s EXCEPT !.pc = Dead], Continue(o.tok))
            ELSE IF mech.flags # BothFlags \/ mech.fault = "server" THEN ServerDies
            ELSE ServerSends([now EXCEPT !.pc = "keys", !.hash = hash, !.kept = Keep(@)],
                             Complete(kex, hash, FinalToken(o.tok)))

ServerRead ==
    /\ s.pc = "read" /\ ServerOnly
    /\ \/ ServerFindsClosed
       \/ /\ ServerReads
          /\ LET m == Head(toServer)
             IN  CASE m.type = "INIT" /\ s.pub = 0 ->
                          \/ ServerAccept(m.tok, m.pub)
                          \/ mech.fault = "server" /\ ServerDies
                   [] m.type = "CONTINUE" -> ServerAccept(m.tok, s.pub)
                   [] OTHER -> ServerDies

--------------------------------------------------------------------------------
\* External: peers of another make send packets of every kind, or hang up.
Tokens == {-1} \cup 1 .. MaxTokens
StrayToClient ==
    {Plain("HOSTKEY"), Plain("ERROR"), Group(DH_GRP_MIN), Group(DH_GRP_MAX + 1)}
      \cup {Continue(t) : t \in Tokens}
      \cup {Complete(kex, Hash(h, kex, kex, c.gex), t) : h \in 0 .. 2,
                                                             t \in Tokens \cup {None}}
StrayToServer ==
    {Plain("ERROR")} \cup {GroupReq(p) : p \in Proposals}
      \cup {Continue(t) : t \in Tokens} \cup {InitMsg(t, kex) : t \in Tokens}

OtherServer ==
    /\ peers = "other server" /\ s.pc # Dead
    /\ c.pc \in {"group", "read"} /\ toClient = <<>> /\ strays < MaxStray
    /\ \E m \in StrayToClient : toClient' = <<m>>
    /\ toServer' = <<>>
    /\ strays' = strays + 1
    /\ UNCHANGED <<c, s, peers, mech, kex>>

OtherClient ==
    /\ peers = "other client" /\ c.pc # Dead
    /\ s.pc \in {"group", "read"} /\ toServer = <<>> /\ strays < MaxStray
    /\ \E m \in StrayToServer : toServer' = <<m>>
    /\ toClient' = <<>>
    /\ strays' = strays + 1
    /\ UNCHANGED <<c, s, peers, mech, kex>>

OtherHangsUp ==
    /\ \/ peers = "other server" /\ s.pc # Dead /\ s' = [s EXCEPT !.pc = Dead]
          /\ UNCHANGED c
       \/ peers = "other client" /\ c.pc # Dead /\ c' = [c EXCEPT !.pc = Dead]
          /\ UNCHANGED s
    /\ UNCHANGED <<toServer, toClient, peers, mech, kex, strays>>

\* External: both ends have new keys, and the transport starts another exchange.
Rekey ==
    /\ c.pc = "keys" /\ s.pc = "keys" /\ kex < MaxKex
    /\ kex' = kex + 1
    /\ c' = NewClient(c.kept) /\ s' = NewServer(s.kept)
    /\ mech' \in Mechs
    /\ UNCHANGED <<toServer, toClient, peers, strays>>

Client == ClientStart \/ ClientGroup \/ ClientInit \/ ClientRead \/ ClientCheck
Server == ServerStart \/ ServerGroup \/ ServerRead

Next == Client \/ Server \/ OtherServer \/ OtherClient \/ OtherHangsUp \/ Rekey

\* Both processes run, and TCP delivers what was sent.
Spec == Init /\ [][Next]_vars /\ WF_vars(Client) /\ WF_vars(Server)
--------------------------------------------------------------------------------
Hashes == [hostkey : 0 .. 2, cpub : 0 .. MaxKex, spub : 0 .. MaxKex,
           gex : [ask : {NoGex.ask} \cup (Int \X Int \X Int), bits : Int]]

TypeOK ==
    /\ c.pc \in {"start", "group", "init", "read", "check", "keys", Dead}
    /\ c.step \in 0 .. MaxTokens /\ c.maj \in {"COMPLETE", "CONTINUE"}
    /\ c.type \in {"none", "HOSTKEY", "CONTINUE", "COMPLETE"}
    /\ c.hostkey \in 0 .. 1 /\ c.completes \in 0 .. 1
    /\ c.mic \in Hashes /\ s.hash \in Hashes
    /\ s.pc \in {"start", "group", "read", "keys", Dead}
    /\ s.step \in 0 .. MaxTokens /\ s.pub \in 0 .. MaxKex
    /\ {c.kept, s.kept} \subseteq 0 .. kex

Established(step) == step = mech.n /\ mech.flags = BothFlags

\* kexgss_client derives keys only from an exchange that was proven to it,
\* whatever its server sends: the context is established with both flags, one
\* COMPLETE arrived, and its MIC covers the host key, public keys and group this
\* side has seen.  Between the two ends of this code the server then has keys
\* for the same values.  The server derives keys only with an established
\* context and a public key of the client.
KeysAreProven ==
    /\ c.pc = "keys" =>
         /\ Established(c.step) /\ c.completes = 1 /\ c.mic = ClientHash
         /\ peers = "both ours" => s.pc = "keys" /\ s.hash = ClientHash
    /\ s.pc = "keys" => Established(s.step) /\ s.pub # 0

\* gss_kex_context, by which user authentication signs what it sends and checks
\* what it gets, belongs to the same exchange at both ends: a client that has one
\* has the other half of the server's, also while one end has finished rekeying
\* and the other has not.
ContextsAgree == peers = "both ours" /\ c.kept # 0 => s.kept = c.kept

Ended == {c.pc, s.pc} \subseteq {"keys", Dead}

\* "If we've sent them data, they should reply": an exchange between the two
\* ends comes to an end at both, whatever the mechanism does and wherever
\* either side gives up; they never wait for each other.
ExchangeEnds == peers = "both ours" ~> (peers = "both ours" /\ Ended)

\* A mechanism with any number of tokens, the last one from either side, that
\* does not fail and grants both flags gives both sides keys, also on rekeying.
ExchangeSucceeds ==
    (peers = "both ours" /\ c.pc = "start" /\ mech.flags = BothFlags /\ mech.fault = "none")
        ~> (c.pc = "keys" /\ s.pc = "keys")

\* "store client proposal to provide valid signature" (kexgssgex_server): the
\* hash the server signs covers the group request as the client made it.
ProposalIsSigned ==
    s.pc = "keys" /\ mech.gex /\ peers = "both ours" => s.hash.gex.ask = c.gex.ask
================================================================================
