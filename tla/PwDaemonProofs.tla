--------------------------- MODULE PwDaemonProofs ---------------------------
(***************************************************************************)
(* What holds of PwDaemon for every number of daemons, clients and ports.  *)
(***************************************************************************)
EXTENDS PwDaemon, TLAPS

-----------------------------------------------------------------------------
(* Type correctness *)

\* Appending, taking and dropping a connection leaves a queue of connections.
LEMMA QueueType ==
    ASSUME NEW q \in Seq(Conns), NEW c \in Conns
    PROVE  /\ Append(q, c) \in Seq(Conns)
           /\ q # <<>> => Head(q) \in Conns /\ Tail(q) \in Seq(Conns)
OBVIOUS

\* Every step of a daemon, its listener, a handler or a client keeps the types.
LEMMA TypeStep ==
    ASSUME TypeOK, [Next]_vars
    PROVE  TypeOK'
<1> USE DEF Loop
<1>1. ASSUME NEW d \in Daemons, ProbeFinds(d)
      PROVE  TypeOK'
    <2>1. path \in Daemons /\ d \in Conns
        BY <1>1 DEF ProbeFinds, Reachable, TypeOK, Conns
    <2>2. Append(backlog[path], d) \in Seq(Conns)
        BY <2>1, QueueType DEF TypeOK
    <2> QED
        BY <1>1, <2>1, <2>2 DEF ProbeFinds, TypeOK, udpVars
<1>2. ASSUME NEW d \in Daemons, ProbeMisses(d)
      PROVE  TypeOK'
    BY <1>2 DEF ProbeMisses, TypeOK, udpVars
<1>3. ASSUME NEW d \in Daemons, StartFails(d)
      PROVE  TypeOK'
    BY <1>3 DEF StartFails, TypeOK, udpVars
<1>4. ASSUME NEW d \in Daemons, Remove(d)
      PROVE  TypeOK'
    BY <1>4 DEF Remove, TypeOK, udpVars
<1>5. ASSUME NEW d \in Daemons, Bind(d)
      PROVE  TypeOK'
    BY <1>5 DEF Bind, TypeOK, udpVars
<1>6. ASSUME NEW d \in Daemons, Listen(d)
      PROVE  TypeOK'
    BY <1>6 DEF Listen, TypeOK, udpVars
<1>7. ASSUME NEW d \in Daemons, Accept(d)
      PROVE  TypeOK'
    <2>1. Head(backlog[d]) \in Conns /\ Tail(backlog[d]) \in Seq(Conns)
        BY <1>7, QueueType DEF Accept, TypeOK
    <2> QED
        BY <1>7, <2>1 DEF Accept, TypeOK, udpVars
<1>8. ASSUME NEW d \in Daemons, InitUdpFails(d)
      PROVE  TypeOK'
    BY <1>8 DEF InitUdpFails, TypeOK, udpVars
<1>9. ASSUME NEW d \in Daemons, NEW p \in Ports, InitUdpForks(d, p)
      PROVE  TypeOK'
    BY <1>9 DEF InitUdpForks, TypeOK
<1>10. ASSUME NEW d \in Daemons, StorePid(d)
       PROVE  TypeOK'
    BY <1>10 DEF StorePid, TypeOK
<1>11. ASSUME NEW d \in Daemons, Dispatch(d)
       PROVE  TypeOK'
    BY <1>11 DEF Dispatch, TypeOK, udpVars
<1>12. ASSUME NEW d \in Daemons, DispatchFails(d)
       PROVE  TypeOK'
    BY <1>12 DEF DispatchFails, TypeOK, udpVars
<1>13. ASSUME NEW d \in Daemons, Dies(d)
       PROVE  TypeOK'
    BY <1>13 DEF Dies, TypeOK, udpVars
<1>14. ASSUME NEW d \in Daemons, SigHandler(d)
       PROVE  TypeOK'
    BY <1>14 DEF SigHandler, TypeOK
<1>15. ASSUME NEW d \in Daemons, UdpArm(d)
       PROVE  TypeOK'
    BY <1>15 DEF UdpArm, TypeOK
<1>16. ASSUME NEW d \in Daemons, UdpDies(d)
       PROVE  TypeOK'
    BY <1>16 DEF UdpDies, TypeOK
<1>17. ASSUME NEW c \in Conns, HandlerRuns(c)
       PROVE  TypeOK'
    <2>1. c \in Clients => Answer(c) \in Replies
        BY <1>17 DEF HandlerRuns, Answer, Replies, NoReply, TypeOK, Conns
    <2>2. /\ handler' \in [Conns -> Daemons \cup {NoOne}]
          /\ hport' \in [Conns -> Ports \cup {NoPort}]
        BY <1>17 DEF HandlerRuns, TypeOK
    <2>3. reply' \in [Clients -> Replies]
        BY <1>17, <2>1 DEF HandlerRuns, TypeOK
    <2>4. cs' \in [Clients -> {"idle", "connected", "GET", "PW", "lost", "ok", "failed"}]
        BY <1>17 DEF HandlerRuns, TypeOK
    <2> QED
        BY <1>17, <2>2, <2>3, <2>4 DEF HandlerRuns, TypeOK, udpVars
<1>18. ASSUME NEW c \in Clients, Connect(c)
       PROVE  TypeOK'
    <2>1. CASE Reachable
        <3>1. path \in Daemons /\ c \in Conns
            BY <2>1 DEF Reachable, TypeOK, Conns
        <3>2. Append(backlog[path], c) \in Seq(Conns)
            BY <3>1, QueueType DEF TypeOK
        <3> QED
            BY <1>18, <2>1, <3>1, <3>2 DEF Connect, TypeOK, udpVars
    <2>2. CASE ~Reachable
        BY <1>18, <2>2 DEF Connect, TypeOK, udpVars
    <2> QED
        BY <2>1, <2>2
<1>19. ASSUME NEW c \in Clients, NEW req \in {"GET", "PW"}, Request(c, req)
       PROVE  TypeOK'
    BY <1>19 DEF Request, TypeOK, udpVars
<1>20. ASSUME NEW c \in Clients, Timeout(c)
       PROVE  TypeOK'
    BY <1>20 DEF Timeout, TypeOK, udpVars
<1>21. CASE UNCHANGED vars
    BY <1>21 DEF TypeOK, vars
<1> QED
    BY <1>1, <1>2, <1>3, <1>4, <1>5, <1>6, <1>7, <1>8, <1>9, <1>10, <1>11, <1>12, <1>13,
       <1>14, <1>15, <1>16, <1>17, <1>18, <1>19, <1>20, <1>21
    DEF Next, DaemonStep, ClientStep

\* The types of PwDaemon's variables: queues, ports, keys and process states of
\* mode_daemon, init_udp, the handlers and the clients.
THEOREM TypeCorrect == Spec => []TypeOK
<1>1. Init => TypeOK
    BY DEF Init, TypeOK, Loop, NoReply, Replies
<1> QED
    BY <1>1, TypeStep, PTL DEF Spec

-----------------------------------------------------------------------------
(* The port a client is told *)

\* The chain that leads from the listener's socket to a client's reply.
ParentAgrees ==
    /\ \A d \in Daemons : pc[d] \in {"gotfd", "forked"} => udpPort[d] = NoPort
    /\ \A d \in Daemons : udpPort[d] # NoPort => udpPort[d] = bound[d]

HandlersAgree ==
    \A c \in Conns : handler[c] # NoOne /\ hport[c] # NoPort => hport[c] = udpPort[handler[c]]

RepliesAgree ==
    \A c \in Clients : reply[c].kind = "keys" /\ reply[c].port # NoPort
        => reply[c].key \in Daemons /\ udpPort[reply[c].key] = reply[c].port

PortInv == TypeOK /\ ParentAgrees /\ HandlersAgree /\ RepliesAgree

\* udpPort is written once: whoever copied a port copied the final one.
LEMMA PortKept ==
    ASSUME TypeOK, ParentAgrees, [Next]_vars
    PROVE  \A d \in Daemons : udpPort[d] # NoPort => udpPort'[d] = udpPort[d]
<1>1. ASSUME NEW d \in Daemons, StorePid(d)
      PROVE  \A e \in Daemons : udpPort[e] # NoPort => udpPort'[e] = udpPort[e]
    <2>1. udpPort[d] = NoPort
        BY <1>1 DEF StorePid, ParentAgrees
    <2> QED
        BY <1>1, <2>1 DEF StorePid, TypeOK
<1>2. CASE ~\E d \in Daemons : StorePid(d)
    <2>1. UNCHANGED udpPort
        BY <1>2 DEF Next, DaemonStep, ClientStep, vars, udpVars, ProbeFinds, ProbeMisses,
            StartFails, Remove, Bind, Listen, Accept, InitUdpFails, InitUdpForks, Dispatch,
            DispatchFails, Dies, SigHandler, UdpArm, UdpDies, HandlerRuns, Connect, Request, Timeout
    <2> QED
        BY <2>1
<1> QED
    BY <1>1, <1>2

\* The parent's variable and the listener's socket stay together: init_udp is
\* not entered again once it has worked.
LEMMA ParentStep ==
    ASSUME TypeOK, ParentAgrees, [Next]_vars
    PROVE  ParentAgrees'
<1> USE DEF ParentAgrees, TypeOK, Loop
<1>1. ASSUME NEW d \in Daemons, Accept(d)
      PROVE  ParentAgrees'
    BY <1>1 DEF Accept, udpVars
<1>2. ASSUME NEW d \in Daemons, NEW p \in Ports, InitUdpForks(d, p)
      PROVE  ParentAgrees'
    BY <1>2 DEF InitUdpForks
<1>3. ASSUME NEW d \in Daemons, StorePid(d)
      PROVE  ParentAgrees'
    BY <1>3 DEF StorePid
<1>4. ASSUME NEW d \in Daemons,
             \/ ProbeFinds(d) \/ ProbeMisses(d) \/ StartFails(d) \/ Remove(d)
             \/ Bind(d) \/ Listen(d)
      PROVE  ParentAgrees'
    BY <1>4 DEF ProbeFinds, ProbeMisses, StartFails, Remove, Bind, Listen, udpVars
<1>5. ASSUME NEW d \in Daemons,
             InitUdpFails(d) \/ Dispatch(d) \/ DispatchFails(d) \/ Dies(d) \/ SigHandler(d)
      PROVE  ParentAgrees'
    BY <1>5 DEF InitUdpFails, Dispatch, DispatchFails, Dies, SigHandler, udpVars
<1>6. ASSUME UNCHANGED <<pc, udpPort, bound>>
      PROVE  ParentAgrees'
    BY <1>6
<1>7. ASSUME NEW d \in Daemons, UdpArm(d) \/ UdpDies(d)
      PROVE  UNCHANGED <<pc, udpPort, bound>>
    BY <1>7 DEF UdpArm, UdpDies
<1>8. ASSUME NEW c \in Conns, HandlerRuns(c)
      PROVE  UNCHANGED <<pc, udpPort, bound>>
    BY <1>8 DEF HandlerRuns, udpVars
<1>9. ASSUME NEW c \in Clients, ClientStep(c)
      PROVE  UNCHANGED <<pc, udpPort, bound>>
    BY <1>9 DEF ClientStep, Connect, Request, Timeout, udpVars
<1>10. CASE UNCHANGED vars
    BY <1>10, <1>6 DEF vars
<1> QED
    BY <1>1, <1>2, <1>3, <1>4, <1>5, <1>6, <1>7, <1>8, <1>9, <1>10 DEF Next, DaemonStep

\* A handler's copy of udpPort is the port of its parent.
LEMMA HandlersStep ==
    ASSUME TypeOK, ParentAgrees, HandlersAgree, [Next]_vars
    PROVE  HandlersAgree'
<1> USE DEF TypeOK, Loop
<1>1. ASSUME NEW d \in Daemons, Dispatch(d)
      PROVE  HandlersAgree'
    BY <1>1 DEF Dispatch, HandlersAgree, udpVars
<1>2. ASSUME NEW c \in Conns, HandlerRuns(c)
      PROVE  HandlersAgree'
    BY <1>2 DEF HandlerRuns, HandlersAgree, udpVars
<1>3. ASSUME UNCHANGED <<handler, hport>>
      PROVE  HandlersAgree'
    BY <1>3, PortKept DEF HandlersAgree
<1>4. ASSUME ~(\E d \in Daemons : Dispatch(d)), ~(\E c \in Conns : HandlerRuns(c))
      PROVE  UNCHANGED <<handler, hport>>
    BY <1>4 DEF Next, DaemonStep, ClientStep, vars, udpVars, ProbeFinds, ProbeMisses,
        StartFails, Remove, Bind, Listen, Accept, InitUdpFails, InitUdpForks, StorePid,
        DispatchFails, Dies, SigHandler, UdpArm, UdpDies, Connect, Request, Timeout
<1> QED
    BY <1>1, <1>2, <1>3, <1>4

\* So is the port in a reply, whenever the handler gets to write it.
LEMMA RepliesStep ==
    ASSUME TypeOK, ParentAgrees, HandlersAgree, RepliesAgree, [Next]_vars
    PROVE  RepliesAgree'
<1>1. ASSUME NEW c \in Conns, HandlerRuns(c)
      PROVE  RepliesAgree'
    <2>1. UNCHANGED udpPort
        BY <1>1 DEF HandlerRuns, udpVars
    <2>2. CASE UNCHANGED reply
        BY <2>1, <2>2 DEF RepliesAgree
    <2>3. CASE c \in Clients /\ reply' = [reply EXCEPT ![c] = Answer(c)]
        <3>1. handler[c] \in Daemons /\ handler[c] # NoOne
            BY <1>1 DEF HandlerRuns, TypeOK
        <3>2. hport[c] # NoPort => udpPort[handler[c]] = hport[c]
            BY <3>1 DEF HandlersAgree
        <3>3. \/ Answer(c).kind # "keys"
              \/ Answer(c).port = hport[c] /\ Answer(c).key = handler[c]
            BY DEF Answer, NoReply
        <3> HIDE DEF Answer
        <3> QED
            BY <2>1, <2>3, <3>1, <3>2, <3>3 DEF RepliesAgree, TypeOK
    <2> QED
        BY <1>1, <2>2, <2>3 DEF HandlerRuns
<1>2. ASSUME ~(\E c \in Conns : HandlerRuns(c))
      PROVE  UNCHANGED reply
    BY <1>2 DEF Next, DaemonStep, ClientStep, vars, udpVars, ProbeFinds, ProbeMisses,
        StartFails, Remove, Bind, Listen, Accept, InitUdpFails, InitUdpForks, StorePid,
        Dispatch, DispatchFails, Dies, SigHandler, UdpArm, UdpDies, Connect, Request, Timeout
<1>3. ASSUME UNCHANGED reply
      PROVE  RepliesAgree'
    <2>1. ASSUME NEW c \in Clients, reply[c].kind = "keys", reply[c].port # NoPort
          PROVE  udpPort'[reply[c].key] = reply[c].port
        BY <2>1, PortKept DEF RepliesAgree, TypeOK
    <2> QED
        BY <1>3, <2>1 DEF RepliesAgree
<1> QED
    BY <1>1, <1>2, <1>3

\* Whatever the daemons and clients do, a client that was told a port was told
\* the one the listener with those keys is bound to (init_udp, the handlers'
\* copies of udpPort and mode_query's output agree).
THEOREM ReplyCorrect == Spec => []ReplyMatchesListener
<1>1. Init => PortInv
    <2>1. Init => TypeOK
        BY DEF Init, TypeOK, Loop, NoReply, Replies
    <2>2. Init => ParentAgrees /\ HandlersAgree /\ RepliesAgree
        BY DEF Init, ParentAgrees, HandlersAgree, RepliesAgree, NoReply, Conns
    <2> QED
        BY <2>1, <2>2 DEF PortInv
<1>2. PortInv /\ [Next]_vars => PortInv'
    BY TypeStep, ParentStep, HandlersStep, RepliesStep DEF PortInv
<1>3. PortInv => ReplyMatchesListener
    BY DEF PortInv, ReplyMatchesListener, RepliesAgree, ParentAgrees, TypeOK, Replies
<1> QED
    BY <1>1, <1>2, <1>3, PTL DEF Spec

-----------------------------------------------------------------------------
(* Ports are not shared *)

\* bind() fails for a port that a live listener has, and no other step creates a
\* listener or moves one to another port.
LEMMA ListenersStep ==
    ASSUME TypeOK, OneListenerPerPort, [Next]_vars
    PROVE  OneListenerPerPort'
<1>1. ASSUME NEW d \in Daemons, NEW p \in Ports, InitUdpForks(d, p)
      PROVE  OneListenerPerPort'
    BY <1>1 DEF InitUdpForks, OneListenerPerPort, UdpAlive, TypeOK
<1>2. ASSUME NEW d \in Daemons, UdpArm(d) \/ UdpDies(d)
      PROVE  OneListenerPerPort'
    BY <1>2 DEF UdpArm, UdpDies, OneListenerPerPort, UdpAlive, TypeOK
<1>3. ASSUME UNCHANGED <<udp, bound>>
      PROVE  OneListenerPerPort'
    BY <1>3 DEF OneListenerPerPort, UdpAlive
<1>4. ASSUME ~(\E d \in Daemons, p \in Ports : InitUdpForks(d, p)),
             ~(\E d \in Daemons : UdpArm(d) \/ UdpDies(d))
      PROVE  UNCHANGED <<udp, bound>>
    BY <1>4 DEF Next, DaemonStep, ClientStep, vars, udpVars, ProbeFinds, ProbeMisses,
        StartFails, Remove, Bind, Listen, Accept, InitUdpFails, StorePid, Dispatch,
        DispatchFails, Dies, SigHandler, HandlerRuns, Connect, Request, Timeout
<1> QED
    BY <1>1, <1>2, <1>3, <1>4

\* A request sent to a port reaches at most one daemon's listener, however many
\* daemons were started and whichever of them died.
THEOREM PortsExclusive == Spec => []OneListenerPerPort
<1>1. Init => OneListenerPerPort
    BY DEF Init, OneListenerPerPort, UdpAlive
<1> QED
    BY <1>1, TypeCorrect, ListenersStep, PTL DEF Spec
=============================================================================
