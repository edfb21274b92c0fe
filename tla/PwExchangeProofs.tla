-------------------------- MODULE PwExchangeProofs --------------------------
(***************************************************************************)
(* The password exchange, for every number of daemons, queries and ports:  *)
(* which passwords survive the datagram (PwWire), that requests go to the  *)
(* listener whose keys they carry, that the guest never takes a foreign    *)
(* password, and that the exchange implements Delivery.                    *)
(*                                                                         *)
(* The argument for the exchange: what the guest was told is the reply of  *)
(* one daemon and is not changed any more (ToldInv); every request, reply  *)
(* and waiting datagram carries the key the guest was told (NetInv); the   *)
(* guest waits for an answer only while it has no password (GuestInv).     *)
(* That the reply agrees with the listener is proved in PwDaemonProofs and *)
(* used here through an instance of it.                                    *)
(***************************************************************************)
EXTENDS PwExchange, TLAPS

DP == INSTANCE PwDaemonProofs WITH Clients <- Others \cup {Query}, Own <- Others \cup {Query}

-----------------------------------------------------------------------------
(* The datagram *)

\* The high byte that xorString writes is zero whatever the length, because the
\* cast to uint8_t is applied before the shift.
LEMMA PrefixHighIsZero ==
    ASSUME NEW len \in Nat
    PROVE  PrefixHigh(len) = 0
<1> DEFINE x == (len % 65536) - (len % 256)
<1>1. x \in Int
    OBVIOUS
<1>2. x % 256 \in 0 .. 255
    BY <1>1
<1>3. (x % 256) \div 256 = 0
    BY <1>2
<1> QED
    BY <1>3 DEF PrefixHigh, Byte

\* The low byte is the length modulo 256.
LEMMA PrefixLowIsMod ==
    ASSUME NEW len \in Nat
    PROVE  PrefixLow(len) \in 0 .. 255 /\ (len <= 255 => PrefixLow(len) = len)
<1>1. len % 256 \in 0 .. 255 /\ (len <= 255 => len % 256 = len)
    OBVIOUS
<1>2. (len % 256) % 256 = len % 256
    BY <1>1
<1> QED
    BY <1>1, <1>2 DEF PrefixLow, Byte

\* A datagram that pw_daemon.c makes (xorString, passwordLen) is taken by
\* udpReceived of winres.c exactly when the password has at most 198 bytes: the
\* prefix and the size agree up to 255 bytes, and the receive buffer ends first.
THEOREM AcceptedLengths ==
    ASSUME NEW len \in Nat, NEW k
    PROVE  Accepted(Encrypted(len, k)) <=> len <= MaxPassword
<1> DEFINE dg == Encrypted(len, k)
<1>1. dg.size = len + 2 /\ dg.high = 0 /\ dg.low = PrefixLow(len)
    BY PrefixHighIsZero DEF Encrypted
<1>2. ASSUME len <= MaxPassword
      PROVE  Accepted(dg)
    <2>1. len <= 198
        BY <1>2 DEF MaxPassword, RecvBuf
    <2>2. PrefixLow(len) = len
        BY <2>1, PrefixLowIsMod
    <2> HIDE DEF dg
    <2> QED
        BY <1>1, <2>1, <2>2 DEF Accepted, RecvBuf
<1>3. ASSUME Accepted(dg)
      PROVE  len <= MaxPassword
    <2> HIDE DEF dg
    <2> QED
        BY <1>1, <1>3 DEF Accepted, MaxPassword, RecvBuf
<1> QED
    BY <1>2, <1>3

\* A larger receive buffer alone would not help beyond 255 bytes: the length
\* prefix of a longer password never agrees with the size of its datagram.
THEOREM PrefixLimit ==
    ASSUME NEW len \in Nat, NEW k, len > 255
    PROVE  Encrypted(len, k).size - 2 # Encrypted(len, k).high * 256 + Encrypted(len, k).low
<1>1. PrefixHigh(len) = 0 /\ PrefixLow(len) \in 0 .. 255
    BY PrefixHighIsZero, PrefixLowIsMod
<1> QED
    BY <1>1 DEF Encrypted

-----------------------------------------------------------------------------
(* The host side: PwDaemon's invariants in the composition *)

\* The daemons of the exchange meet the assumptions of PwDaemon.
LEMMA DaemonAssumption == DP!PwAssumption
BY ExchangeAssumption DEF DP!PwAssumption

\* The two instances of PwDaemon have the same initial states and steps.
LEMMA SameInit == D!Init => DP!Init
BY DEF D!Init, DP!Init, D!NoPort, DP!NoPort, D!NoReply, DP!NoReply, D!Conns, DP!Conns

\* The steps of the two instances of PwDaemon, of the model and of its proofs,
\* are the same.
LEMMA SameNext == D!Next => DP!Next
BY DEF D!Next, DP!Next, D!DaemonStep, DP!DaemonStep, D!ClientStep, DP!ClientStep,
    D!ProbeFinds, DP!ProbeFinds, D!ProbeMisses, DP!ProbeMisses, D!StartFails, DP!StartFails,
    D!Remove, DP!Remove, D!Bind, DP!Bind, D!Listen, DP!Listen, D!Accept, DP!Accept,
    D!InitUdpFails, DP!InitUdpFails, D!InitUdpForks, DP!InitUdpForks, D!StorePid, DP!StorePid,
    D!Dispatch, DP!Dispatch, D!DispatchFails, DP!DispatchFails, D!Dies, DP!Dies,
    D!SigHandler, DP!SigHandler, D!UdpArm, DP!UdpArm, D!UdpDies, DP!UdpDies,
    D!HandlerRuns, DP!HandlerRuns, D!Connect, DP!Connect, D!Request, DP!Request,
    D!Timeout, DP!Timeout, D!Answer, DP!Answer, D!NoReply, DP!NoReply, D!NoPort, DP!NoPort,
    D!udpVars, DP!udpVars, D!Loop, DP!Loop, D!Conns, DP!Conns, D!UdpAlive, DP!UdpAlive,
    D!Reachable, DP!Reachable, D!Listening, DP!Listening

\* A step of the host is a step of PwDaemon; every other step leaves it alone.
LEMMA HostOrNot ==
    ASSUME [Next]_vars
    PROVE  [DP!Next]_(DP!vars)
<1>1. CASE Host
    <2>1. D!Next
        BY <1>1 DEF Host, D!Next, D!ClientStep
    <2> QED
        BY <2>1, SameNext
<1>2. ASSUME UNCHANGED dvars
      PROVE  UNCHANGED DP!vars
    BY <1>2 DEF dvars, DP!vars
<1>3. CASE ~Host
    <2>1. UNCHANGED dvars
        BY <1>3 DEF Next, Boot, GuestAsks, Guest, ListenerAnswers, Deliver, vars
    <2> QED
        BY <1>2, <2>1
<1> QED
    BY <1>1, <1>3

\* The invariant of the daemons holds initially ...
LEMMA HostInit == Init => DP!PortInv
<1> SUFFICES ASSUME DP!Init
             PROVE  DP!PortInv
    BY SameInit DEF Init
<1>1. DP!TypeOK
    BY DEF DP!Init, DP!TypeOK, DP!Loop, DP!NoReply, DP!Replies
<1>2. DP!ParentAgrees /\ DP!HandlersAgree /\ DP!RepliesAgree
    BY DEF DP!Init, DP!ParentAgrees, DP!HandlersAgree, DP!RepliesAgree, DP!NoReply, DP!Conns
<1> QED
    BY <1>1, <1>2 DEF DP!PortInv

\* ... and the network and the guest do not disturb it.
LEMMA HostStep ==
    ASSUME DP!PortInv, [Next]_vars
    PROVE  DP!PortInv'
<1>1. [DP!Next]_(DP!vars)
    BY HostOrNot
<1>2. DP!TypeOK /\ DP!ParentAgrees /\ DP!HandlersAgree /\ DP!RepliesAgree
    BY DEF DP!PortInv
<1>3. DP!TypeOK' /\ DP!ParentAgrees' /\ DP!HandlersAgree' /\ DP!RepliesAgree'
    BY <1>1, <1>2, DaemonAssumption, DP!TypeStep, DP!ParentStep, DP!HandlersStep, DP!RepliesStep
<1> QED
    BY <1>3 DEF DP!PortInv

-----------------------------------------------------------------------------
(* The inductive invariant *)

\* The guest's shares.dat repeats what the query was told, and the query is over.
ToldInv ==
    /\ booted \in BOOLEAN
    /\ booted => /\ cs[Query] \in {"ok", "failed"}
                 /\ ini.share = "ok" => /\ reply[Query].kind = "keys"
                                        /\ reply[Query].key = ini.key
                                        /\ reply[Query].port # D!NoPort

\* Whatever is on its way between guest and listener carries the guest's key, and
\* there are replies only of the daemon that has it.
NetInv ==
    /\ \A r \in reqs : /\ r = [port |-> reply[Query].port, key |-> ini.key]
                       /\ booted /\ ini.share = "ok"
    /\ \A dg \in reps : dg = Encrypted(PwLen, ini.key) /\ ini.share = "ok" /\ ini.key \in released
    /\ inbox \subseteq reps
    /\ released \subseteq Daemons

\* The guest asks only while it has no password; a password it has, it was given.
GuestInv ==
    /\ ini.share \in {"bad", "demo", "ok"}
    /\ ini.share = "demo" => spass # "null"
    /\ sock = "open" => ini.share = "ok" /\ spass = "null"
    /\ spass # "null" /\ ini.share # "demo" => ini.share = "ok" /\ ini.key \in released
    /\ spass # "junk"

Inv == DP!PortInv /\ ToldInv /\ NetInv /\ GuestInv

\* The invariant of the exchange holds initially.
LEMMA InvInit == Init => Inv
<1> SUFFICES ASSUME Init
             PROVE  Inv
    OBVIOUS
<1>1. ini \in G!Settings
    BY ExchangeAssumption DEF Init, G!Init
<1>2. GuestInv
    BY <1>1 DEF GuestInv, Init, G!Init, G!Settings
<1>3. ToldInv /\ NetInv
    BY DEF ToldInv, NetInv, Init, G!Init
<1> QED
    BY <1>2, <1>3, HostInit DEF Inv

-----------------------------------------------------------------------------
(* Steps *)

\* readShareFile does not take the -1 of a failed init_udp.
LEMMA PortsTaken == D!NoPort \notin MinPort .. MaxPort
<1>1. MinPort \in Int /\ MaxPort \in Int /\ D!NoPort \in Int /\ D!NoPort < MinPort
    BY DEF MinPort, MaxPort, D!NoPort
<1> QED
    BY <1>1

\* Once the query is over nothing rewrites what it was told.
LEMMA ToldKept ==
    ASSUME DP!TypeOK, cs[Query] \in {"ok", "failed"}, [DP!Next]_(DP!vars)
    PROVE  cs'[Query] \in {"ok", "failed"} /\ reply'[Query] = reply[Query]
<1> DEFINE C == Others \cup {Query}
<1>0. /\ Query \in C
      /\ cs \in [C -> {"idle", "connected", "GET", "PW", "lost", "ok", "failed"}]
      /\ reply \in [C -> DP!Replies]
    BY DEF DP!TypeOK
<1>1. ASSUME NEW c \in DP!Conns, DP!HandlerRuns(c)
      PROVE  cs'[Query] \in {"ok", "failed"} /\ reply'[Query] = reply[Query]
    <2>1. CASE c = Query
        BY <1>0, <1>1, <2>1 DEF DP!HandlerRuns
    <2>2. CASE c # Query
        BY <1>0, <1>1, <2>2 DEF DP!HandlerRuns
    <2> QED
        BY <2>1, <2>2
<1>2. ASSUME NEW d \in Daemons, DP!DispatchFails(d)
      PROVE  cs'[Query] \in {"ok", "failed"} /\ reply'[Query] = reply[Query]
    BY <1>0, <1>2 DEF DP!DispatchFails
<1>3. ASSUME NEW c \in C, DP!ClientStep(c)
      PROVE  cs'[Query] \in {"ok", "failed"} /\ reply'[Query] = reply[Query]
    BY <1>0, <1>3 DEF DP!ClientStep, DP!Connect, DP!Request, DP!Timeout
<1>4. ASSUME NEW d \in Daemons, DP!DaemonStep(d), ~DP!DispatchFails(d)
      PROVE  UNCHANGED <<cs, reply>>
    BY <1>4 DEF DP!DaemonStep, DP!ProbeFinds, DP!ProbeMisses, DP!StartFails, DP!Remove,
        DP!Bind, DP!Listen, DP!Accept, DP!InitUdpFails, DP!InitUdpForks, DP!StorePid,
        DP!Dispatch, DP!Dies, DP!SigHandler, DP!UdpArm, DP!UdpDies
<1>5. CASE UNCHANGED DP!vars
    BY <1>5 DEF DP!vars
<1> QED
    BY <1>1, <1>2, <1>3, <1>4, <1>5 DEF DP!Next

\* Every step keeps what clients were told.
LEMMA ToldStep ==
    ASSUME Inv, [Next]_vars
    PROVE  ToldInv'
<1>0. DP!TypeOK /\ [DP!Next]_(DP!vars)
    BY HostOrNot DEF Inv, DP!PortInv
<1>1. ini' = ini
    BY DEF Next, vars, gvars, Host, Boot, GuestAsks, Guest, ListenerAnswers, Deliver,
        G!TickAsk, G!TickNoShares, G!TickMount, G!Script, G!ScriptFails, G!ScriptRuns, G!CloseBox,
        G!OtherMessage, G!Deadline, G!UdpReceived, G!TakeReply, G!DropReply, G!Arrive
<1>2. CASE booted
    <2>1. cs'[Query] \in {"ok", "failed"} /\ reply'[Query] = reply[Query]
        BY <1>0, <1>2, ToldKept DEF Inv, ToldInv
    <2>2. booted' = TRUE
        BY <1>2 DEF Inv, ToldInv, Next, vars, Host, Boot, GuestAsks, Guest, ListenerAnswers, Deliver
    <2> QED
        BY <1>1, <1>2, <2>1, <2>2 DEF Inv, ToldInv
<1>3. CASE Boot
    <2>1. UNCHANGED <<cs, reply>> /\ booted' = TRUE
        BY <1>3 DEF Boot, dvars
    <2>2. cs[Query] \in {"ok", "failed"}
        BY <1>3 DEF Boot
    <2>3. ini.share = "ok" => /\ reply[Query].kind = "keys"
                              /\ reply[Query].key = ini.key
                              /\ reply[Query].port # D!NoPort
        BY <1>3, PortsTaken DEF Boot, ShareFile
    <2> QED
        BY <1>1, <2>1, <2>2, <2>3 DEF ToldInv
<1>4. CASE ~booted /\ ~Boot
    <2>1. booted' = FALSE
        BY <1>4 DEF Inv, ToldInv, Next, vars, Host, GuestAsks, Guest, ListenerAnswers, Deliver
    <2> QED
        BY <1>4, <2>1 DEF ToldInv
<1> QED
    BY <1>2, <1>3, <1>4

\* What the message pump leaves in spass.
LEMMA PumpResult ==
    ASSUME NEW sp, G!Pump(sp)
    PROVE  spass' = sp \/ (spass' = "wiped" /\ sp # "null")
BY DEF G!Pump

\* Every step but the receipt of an acceptable reply keeps the password or erases
\* it, and the socket, or opens the socket to ask for the password.
KeepsOrErases ==
    /\ spass' = spass \/ (spass' = "wiped" /\ spass # "null")
    /\ \/ sock' = sock
       \/ sock' = "open" /\ spass = "null" /\ ini.share # "bad"
    /\ inbox' \subseteq reps
    /\ UNCHANGED <<ini, reps, released>>

\* Every step is of one of these kinds.
LEMMA GuestSteps ==
    ASSUME Inv, [Next]_vars
    PROVE  \/ KeepsOrErases
           \/ /\ \E d \in Daemons, r \in reqs : ListenerAnswers(d, r)
              /\ UNCHANGED gvars
           \/ /\ UNCHANGED <<ini, net>>
              /\ \E dg \in inbox : sock = "open" /\ G!TakeReply(dg, "closed")
<1>0. inbox \subseteq reps
    BY DEF Inv, NetInv
<1>1. ASSUME UNCHANGED <<gvars, net>>
      PROVE  KeepsOrErases
    BY <1>0, <1>1 DEF KeepsOrErases, gvars, net
<1>2. CASE Host \/ Boot \/ UNCHANGED vars
    BY <1>1, <1>2 DEF Host, Boot, vars
<1>3. ASSUME NEW sent \in BOOLEAN, G!TickAsk(sent), UNCHANGED <<reps, released>>
      PROVE  KeepsOrErases
    <2>1. G!Pump(spass) /\ UNCHANGED <<ini, inbox>> /\ spass = "null" /\ ini.share # "bad"
        BY <1>3 DEF G!TickAsk
    <2>2. sock' \in {sock, "open"}
        BY <1>3 DEF G!TickAsk, G!QueryPasswordDaemon
    <2> QED
        BY <1>0, <1>3, <2>1, <2>2, PumpResult DEF KeepsOrErases
<1>4. ASSUME G!Pump(spass), UNCHANGED <<ini, sock, net>>, inbox' \subseteq inbox
      PROVE  KeepsOrErases
    BY <1>0, <1>4, PumpResult DEF KeepsOrErases, net
<1>5. ASSUME UNCHANGED net,
             G!TickNoShares \/ G!TickMount \/ G!Script \/ G!CloseBox \/ G!OtherMessage
      PROVE  KeepsOrErases
    <2>1. G!Pump(spass) /\ UNCHANGED <<ini, sock, inbox>>
        BY <1>5 DEF G!TickNoShares, G!TickMount, G!Script, G!ScriptFails, G!ScriptRuns,
            G!CloseBox, G!OtherMessage
    <2> QED
        BY <1>4, <1>5, <2>1
<1>6. ASSUME UNCHANGED net, G!Deadline
      PROVE  KeepsOrErases
    BY <1>0, <1>6 DEF G!Deadline, KeepsOrErases, net
<1>7. ASSUME UNCHANGED net, NEW dg \in Datagrams, G!UdpReceived(dg)
      PROVE  \/ KeepsOrErases
             \/ dg \in inbox /\ sock = "open" /\ G!TakeReply(dg, "closed") /\ UNCHANGED ini
    <2>1. CASE G!DropReply(dg, sock)
        <3>1. G!Pump(spass) /\ UNCHANGED <<ini, sock>> /\ inbox' \subseteq inbox
            BY <2>1 DEF G!DropReply
        <3> QED
            BY <1>4, <1>7, <3>1
    <2>2. CASE G!TakeReply(dg, "closed")
        BY <1>7, <2>2 DEF G!UdpReceived, G!TakeReply
    <2> QED
        BY <1>7, <2>1, <2>2 DEF G!UdpReceived
<1>8. ASSUME UNCHANGED net, NEW dg \in reps, G!Arrive(dg)
      PROVE  KeepsOrErases
    BY <1>0, <1>8 DEF G!Arrive, KeepsOrErases, net
<1>9. CASE GuestAsks
    BY <1>3, <1>9 DEF GuestAsks
<1>10. CASE Guest
    BY <1>5, <1>6, <1>7, <1>10 DEF Guest
<1>11. CASE \E dg \in Datagrams : Deliver(dg)
    BY <1>8, <1>11 DEF Deliver
<1>12. CASE \E d \in Daemons, r \in reqs : ListenerAnswers(d, r)
    BY <1>12 DEF ListenerAnswers
<1> QED
    BY <1>2, <1>9, <1>10, <1>11, <1>12 DEF Next

\* A reply that is taken was sent by the daemon whose keys the guest has.
LEMMA TakenReply ==
    ASSUME Inv, NEW dg \in inbox, sock = "open", G!TakeReply(dg, "closed")
    PROVE  /\ spass = "null" /\ ini.share = "ok" /\ ini.key \in released
           /\ spass' \in {"empty", "pw", "wiped"} /\ sock' = "closed" /\ inbox' = {}
<1>1. dg = Encrypted(PwLen, ini.key) /\ ini.key \in released
    BY DEF Inv, NetInv
<1>2. dg.key = ini.key
    BY <1>1 DEF Encrypted
<1>3. G!Decrypted(dg) \in {"empty", "pw"}
    BY <1>2 DEF G!Decrypted
<1>4. G!Pump(G!Decrypted(dg)) /\ sock' = "closed" /\ inbox' = {}
    BY DEF G!TakeReply
<1>5. spass' \in {"empty", "pw", "wiped"}
    BY <1>3, <1>4, PumpResult
<1>6. spass = "null" /\ ini.share = "ok"
    BY DEF Inv, GuestInv
<1> QED
    BY <1>1, <1>4, <1>5, <1>6

\* A listener answers only to its own key: that of the guest.
LEMMA AnsweredReply ==
    ASSUME Inv, NEW d \in Daemons, NEW r \in reqs, ListenerAnswers(d, r)
    PROVE  /\ d = ini.key /\ ini.share = "ok"
           /\ reps' = reps \cup {Encrypted(PwLen, ini.key)} /\ released' = released \cup {d}
<1>1. r.key = ini.key /\ ini.share = "ok"
    BY DEF Inv, NetInv
<1> QED
    BY <1>1 DEF ListenerAnswers

\* Every step keeps what the guest knows and holds.
LEMMA GuestStep ==
    ASSUME Inv, [Next]_vars
    PROVE  GuestInv'
<1>1. CASE KeepsOrErases
    BY <1>1 DEF KeepsOrErases, Inv, GuestInv
<1>2. ASSUME NEW d \in Daemons, NEW r \in reqs, ListenerAnswers(d, r), UNCHANGED gvars
      PROVE  GuestInv'
    <2>1. released \subseteq released'
        BY <1>2, AnsweredReply
    <2> QED
        BY <1>2, <2>1 DEF gvars, Inv, GuestInv
<1>3. ASSUME UNCHANGED <<ini, net>>, NEW dg \in inbox, sock = "open", G!TakeReply(dg, "closed")
      PROVE  GuestInv'
    BY <1>3, TakenReply DEF net, Inv, GuestInv
<1> QED
    BY <1>1, <1>2, <1>3, GuestSteps

\* Every step keeps what is under way.
LEMMA NetStep ==
    ASSUME Inv, [Next]_vars
    PROVE  NetInv'
<1> DEFINE req == [port |-> reply[Query].port, key |-> ini.key]
<1>1. ini' = ini
    BY DEF Next, vars, gvars, Host, Boot, GuestAsks, Guest, ListenerAnswers, Deliver,
        G!TickAsk, G!TickNoShares, G!TickMount, G!Script, G!ScriptFails, G!ScriptRuns, G!CloseBox,
        G!OtherMessage, G!Deadline, G!UdpReceived, G!TakeReply, G!DropReply, G!Arrive
<1>2. /\ \A dg \in reps' : dg = Encrypted(PwLen, ini.key) /\ ini.share = "ok" /\ ini.key \in released'
      /\ inbox' \subseteq reps'
      /\ released' \subseteq Daemons
    <2>1. CASE KeepsOrErases
        BY <2>1 DEF KeepsOrErases, Inv, NetInv
    <2>2. ASSUME NEW d \in Daemons, NEW r \in reqs, ListenerAnswers(d, r), UNCHANGED gvars
          PROVE  /\ \A g \in reps' : g = Encrypted(PwLen, ini.key) /\ ini.share = "ok" /\ ini.key \in released'
                 /\ inbox' \subseteq reps'
                 /\ released' \subseteq Daemons
        BY <2>2, AnsweredReply DEF gvars, Inv, NetInv
    <2>3. ASSUME UNCHANGED <<ini, net>>, NEW dg \in inbox, sock = "open", G!TakeReply(dg, "closed")
          PROVE  /\ \A g \in reps' : g = Encrypted(PwLen, ini.key) /\ ini.share = "ok" /\ ini.key \in released'
                 /\ inbox' \subseteq reps'
                 /\ released' \subseteq Daemons
        BY <2>3, TakenReply DEF net, Inv, NetInv
    <2> QED
        BY <2>1, <2>2, <2>3, GuestSteps
<1>3. booted => booted' /\ reply'[Query] = reply[Query]
    <2>1. booted => booted'
        BY DEF Next, vars, Host, Boot, GuestAsks, Guest, ListenerAnswers, Deliver
    <2>2. booted => reply'[Query] = reply[Query]
        BY HostOrNot, ToldKept DEF Inv, ToldInv, DP!PortInv
    <2> QED
        BY <2>1, <2>2
<1>4. \A r \in reqs' : r = req /\ booted' /\ ini.share = "ok" /\ reply'[Query] = reply[Query]
    <2>1. CASE UNCHANGED reqs
        BY <1>3, <2>1 DEF Inv, NetInv
    <2>2. CASE GuestAsks
        <3>1. booted /\ spass = "null" /\ ini.share # "bad" /\ reqs' \subseteq reqs \cup {req}
            BY <2>2 DEF GuestAsks, G!TickAsk
        <3>2. ini.share = "ok"
            BY <3>1 DEF Inv, GuestInv
        <3> QED
            BY <1>3, <3>1, <3>2 DEF Inv, NetInv
    <2> QED
        BY <2>1, <2>2 DEF Next, vars, net, Host, Boot, Guest, ListenerAnswers, Deliver
<1> QED
    BY <1>1, <1>2, <1>4 DEF NetInv

\* The invariant of the exchange is kept by every step.
LEMMA InvStep ==
    ASSUME Inv, [Next]_vars
    PROVE  Inv'
BY HostStep, ToldStep, NetStep, GuestStep DEF Inv

-----------------------------------------------------------------------------
(* Theorems *)

\* The guest never takes a foreign daemon's password for the user's, however
\* many daemons come and go and whoever owns the port: udpReceived decrypts only
\* replies of the daemon whose keys are in shares.dat.
THEOREM OwnPassword == Spec => []OnlyOwnPassword
<1>1. Inv => OnlyOwnPassword
    BY DEF Inv, GuestInv, OnlyOwnPassword
<1> QED
    BY <1>1, InvInit, InvStep, PTL DEF Spec

\* Every request of queryPasswordDaemon goes to the port that the listener with
\* that key is bound to, or was until it died; never to the -1 of a failed init_udp.
THEOREM RequestsAddressed == Spec => []RequestsAddressListener
<1>1. Inv => RequestsAddressListener
    <2> SUFFICES ASSUME Inv, NEW r \in reqs
                 PROVE  r.port \in Ports /\ bound[r.key] = r.port
        BY DEF RequestsAddressListener
    <2>1. /\ r.port = reply[Query].port /\ r.key = reply[Query].key
          /\ reply[Query].kind = "keys" /\ reply[Query].port # D!NoPort
        BY DEF Inv, NetInv, ToldInv
    <2>2. D!NoPort = DP!NoPort
        BY DEF D!NoPort, DP!NoPort
    <2>3. r.key \in Daemons /\ udpPort[r.key] = r.port
        BY <2>1, <2>2 DEF Inv, DP!PortInv, DP!RepliesAgree
    <2>4. udpPort[r.key] = bound[r.key]
        BY <2>1, <2>2, <2>3 DEF Inv, DP!PortInv, DP!ParentAgrees
    <2>5. r.port \in Ports
        BY <2>1, <2>2, <2>3 DEF Inv, DP!PortInv, DP!TypeOK
    <2> QED
        BY <2>3, <2>4, <2>5
<1> QED
    BY <1>1, InvInit, InvStep, PTL DEF Spec

\* A step of the exchange is a step of Delivery, or does not show there.
LEMMA RefinementStep ==
    ASSUME Inv, [Next]_vars
    PROVE  [Abstract!Next]_(Abstract!vars)
<1> USE DEF PeerOf, HeldOf
<1>1. CASE KeepsOrErases
    <2>1. UNCHANGED <<ini, released>>
        BY <1>1 DEF KeepsOrErases
    <2>2. CASE spass' = spass
        BY <2>1, <2>2 DEF Abstract!vars
    <2>3. CASE spass' = "wiped" /\ spass \notin {"null", "wiped"} /\ ini.share # "demo"
        <3>1. ini.key \in Daemons
            BY <2>3 DEF Inv, GuestInv, NetInv
        <3>2. HeldOf = ini.key /\ HeldOf' = "erased"
            BY <2>1, <2>3
        <3>3. PeerOf' = PeerOf
            BY <2>1
        <3> HIDE DEF PeerOf, HeldOf
        <3> QED
            BY <2>1, <3>1, <3>2, <3>3 DEF Abstract!Next, Abstract!Erase
    <2>4. CASE spass' = "wiped" /\ spass # "null" /\ (spass = "wiped" \/ ini.share = "demo")
        BY <2>1, <2>4 DEF Abstract!vars
    <2> QED
        BY <1>1, <2>2, <2>3, <2>4 DEF KeepsOrErases
<1>2. ASSUME NEW d \in Daemons, NEW r \in reqs, ListenerAnswers(d, r), UNCHANGED gvars
      PROVE  Abstract!Next
    <2>1. released' = released \cup {d} /\ UNCHANGED <<ini, spass>>
        BY <1>2, AnsweredReply DEF gvars
    <2>2. PeerOf' = PeerOf /\ HeldOf' = HeldOf
        BY <2>1
    <2> HIDE DEF PeerOf, HeldOf
    <2> QED
        BY <2>1, <2>2 DEF Abstract!Next, Abstract!Release
<1>3. ASSUME UNCHANGED <<ini, net>>, NEW dg \in inbox, sock = "open", G!TakeReply(dg, "closed")
      PROVE  Abstract!Next
    <2>1. /\ spass = "null" /\ ini.share = "ok" /\ ini.key \in released
          /\ spass' \in {"empty", "pw", "wiped"} /\ UNCHANGED <<ini, released>>
        BY <1>3, TakenReply DEF net
    <2>2. HeldOf = "none" /\ PeerOf = ini.key /\ PeerOf' = PeerOf /\ HeldOf' \in {PeerOf, "erased"}
        BY <2>1
    <2> HIDE DEF PeerOf, HeldOf
    <2> QED
        BY <2>1, <2>2 DEF Abstract!Next, Abstract!Obtain
<1> QED
    BY <1>1, <1>2, <1>3, GuestSteps

\* The exchange implements Delivery: with lost, late, duplicated and reordered
\* datagrams, retries and the message pump, the guest obtains at most one password,
\* that of the daemon it was introduced to and only after its listener sent it, and
\* an erased password never comes back.
THEOREM Refinement == Spec => ImplementsDelivery
<1>1. Init => Abstract!Init
    <2> SUFFICES ASSUME Init
                 PROVE  Abstract!Init
        OBVIOUS
    <2>1. ini \in G!Settings
        BY ExchangeAssumption DEF Init, G!Init
    <2>2. PeerOf \in Daemons \cup {NoOne}
        BY <2>1 DEF PeerOf, G!Settings
    <2>3. HeldOf = "none"
        BY DEF HeldOf, Init, G!Init
    <2> QED
        BY <2>2, <2>3 DEF Init, Abstract!Init
<1> QED
    BY <1>1, InvInit, InvStep, RefinementStep, PTL DEF Spec, ImplementsDelivery, Abstract!Spec
=============================================================================
