------------------------------ MODULE PwDaemon ------------------------------
(***************************************************************************)
(* The password daemon of run-virt (core/modules/run-virt/pw_daemon.c).    *)
(* PAM starts one per login (mode_daemon); it listens on the unix socket   *)
(* PWSOCKET, forks a handler per connection, and on its first connection   *)
(* forks a UDP listener that hands the encrypted password to the guest.    *)
(* `pwdaemon --query' (mode_query) is the client.                          *)
(*                                                                         *)
(* Processes interleave at system calls.  A daemon is identified with the  *)
(* keys it generates, so "key |-> d" stands for its key1/key2 pair.        *)
(***************************************************************************)
EXTENDS Integers, Sequences, FiniteSets

CONSTANTS
    Daemons,   \* the pwdaemon --daemon processes PAM starts
    Clients,   \* the processes that connect and send GET or PW
    Own,       \* the clients that run under the daemon's uid
    Ports,     \* the UDP ports init_udp draws from (40000..59999)
    Backlog,   \* listen(listenFd, 10)
    NoOne      \* no process, no socket file

ASSUME PwAssumption ==
    /\ Own \subseteq Clients
    /\ Daemons \cap Clients = {}
    /\ Ports \subseteq Nat
    /\ Backlog \in Nat
    /\ NoOne \notin Daemons \cup Clients

NoPort == -1

\* A connection is named after the process that opened it: a starting daemon's
\* "already running" probe is one too.
Conns == Daemons \cup Clients

VARIABLES
    pc,        \* pc[d]: where the parent process of d is in mode_daemon
    path,      \* whose socket the file PWSOCKET is bound to
    backlog,   \* backlog[d]: connections waiting in d's listening socket
    fd,        \* fd[d]: the accepted connection, until a handler is forked
    udpPort,   \* udpPort[d]: the parent's variable, NoPort until init_udp worked
    udpPid,    \* udpPid[d]: the parent has stored the listener's pid
    udp,       \* udp[d]: the UDP listener process
    bound,     \* bound[d]: the port the listener's socket is bound to
    zombie,    \* zombie[d]: the listener died and waitpid has not seen it
    handler,   \* handler[c]: the daemon whose forked handler serves c
    hport,     \* hport[c]: that handler's copy of udpPort
    cs,        \* cs[c]: the client's state
    reply      \* reply[c]: what the client read

vars == <<pc, path, backlog, fd, udpPort, udpPid, udp, bound, zombie,
          handler, hport, cs, reply>>

\* The parent's states from listen() on: the accept loop.
Loop == {"accept", "gotfd", "forked", "dispatch"}

UdpAlive(d) == udp[d] \in {"forked", "armed", "orphan"}

NoReply == [kind |-> "none", port |-> NoPort, key |-> NoOne]

Replies == [kind : {"none", "keys", "pw", "mismatch"},
            port : Ports \cup {NoPort},
            key  : Daemons \cup {NoOne}]

TypeOK ==
    /\ pc \in [Daemons -> Loop \cup {"start", "probed", "removed", "bound", "gone"}]
    /\ path \in Daemons \cup {NoOne}
    /\ backlog \in [Daemons -> Seq(Conns)]
    /\ fd \in [Daemons -> Conns \cup {NoOne}]
    /\ udpPort \in [Daemons -> Ports \cup {NoPort}]
    /\ udpPid \in [Daemons -> BOOLEAN]
    /\ udp \in [Daemons -> {"none", "forked", "armed", "orphan", "dead"}]
    /\ bound \in [Daemons -> Ports \cup {NoPort}]
    /\ zombie \in [Daemons -> BOOLEAN]
    /\ handler \in [Conns -> Daemons \cup {NoOne}]
    /\ hport \in [Conns -> Ports \cup {NoPort}]
    /\ cs \in [Clients -> {"idle", "connected", "GET", "PW", "lost", "ok", "failed"}]
    /\ reply \in [Clients -> Replies]

Init ==
    /\ pc = [d \in Daemons |-> "start"]
    /\ path = NoOne
    /\ backlog = [d \in Daemons |-> <<>>]
    /\ fd = [d \in Daemons |-> NoOne]
    /\ udpPort = [d \in Daemons |-> NoPort]
    /\ udpPid = [d \in Daemons |-> FALSE]
    /\ udp = [d \in Daemons |-> "none"]
    /\ bound = [d \in Daemons |-> NoPort]
    /\ zombie = [d \in Daemons |-> FALSE]
    /\ handler = [c \in Conns |-> NoOne]
    /\ hport = [c \in Conns |-> NoPort]
    /\ cs = [c \in Clients |-> "idle"]
    /\ reply = [c \in Clients |-> NoReply]

-----------------------------------------------------------------------------
(* connect_local *)

\* listenFd is inherited over fork by the UDP listener and by every handler,
\* none of which closes it: the socket listens as long as one of them lives.
Listening(d) ==
    \/ pc[d] \in Loop
    \/ UdpAlive(d)
    \/ \E c \in Conns : handler[c] = d

\* connect() succeeds when the path names a listening socket with room in its
\* queue; a full queue makes it fail after the 2 s SO_SNDTIMEO.
Reachable ==
    /\ path # NoOne
    /\ Listening(path)
    /\ Len(backlog[path]) <= Backlog

-----------------------------------------------------------------------------
(* mode_daemon: start-up *)

udpVars == <<udpPort, udpPid, udp, bound, zombie>>

\* Already running: connect, close, return 0.  The closed connection stays in
\* the queue of the daemon that was found.
ProbeFinds(d) ==
    /\ pc[d] = "start"
    /\ Reachable
    /\ backlog' = [backlog EXCEPT ![path] = Append(@, d)]
    /\ pc' = [pc EXCEPT ![d] = "gone"]
    /\ UNCHANGED <<path, fd, udpVars, handler, hport, cs, reply>>

\* Not running: setup_vars generates the keys and encrypts the password.
ProbeMisses(d) ==
    /\ pc[d] = "start"
    /\ ~Reachable
    /\ pc' = [pc EXCEPT ![d] = "probed"]
    /\ UNCHANGED <<path, backlog, fd, udpVars, handler, hport, cs, reply>>

\* setup_vars, the privilege checks, socket, fchmod or listen failed: return 1.
StartFails(d) ==
    /\ pc[d] \in {"probed", "bound"}
    /\ pc' = [pc EXCEPT ![d] = "gone"]
    /\ UNCHANGED <<path, backlog, fd, udpVars, handler, hport, cs, reply>>

Remove(d) ==
    /\ pc[d] = "probed"
    /\ path' = NoOne
    /\ pc' = [pc EXCEPT ![d] = "removed"]
    /\ UNCHANGED <<backlog, fd, udpVars, handler, hport, cs, reply>>

\* bind() fails with EADDRINUSE when the file exists again.
Bind(d) ==
    /\ pc[d] = "removed"
    /\ \/ /\ path = NoOne
          /\ path' = d
          /\ pc' = [pc EXCEPT ![d] = "bound"]
       \/ /\ path # NoOne
          /\ pc' = [pc EXCEPT ![d] = "gone"]
          /\ UNCHANGED path
    /\ UNCHANGED <<backlog, fd, udpVars, handler, hport, cs, reply>>

\* listen(), daemon(), sigaction(SIGCHLD).
Listen(d) ==
    /\ pc[d] = "bound"
    /\ pc' = [pc EXCEPT ![d] = "accept"]
    /\ UNCHANGED <<path, backlog, fd, udpVars, handler, hport, cs, reply>>

-----------------------------------------------------------------------------
(* mode_daemon: the accept loop *)

\* The first connection, and every one until init_udp has worked, goes through
\* init_udp before its handler is forked.
Accept(d) ==
    /\ pc[d] = "accept"
    /\ backlog[d] # <<>>
    /\ fd' = [fd EXCEPT ![d] = Head(backlog[d])]
    /\ backlog' = [backlog EXCEPT ![d] = Tail(@)]
    /\ pc' = [pc EXCEPT ![d] = IF udpPort[d] = NoPort THEN "gotfd" ELSE "dispatch"]
    /\ UNCHANGED <<path, udpVars, handler, hport, cs, reply>>

\* Plausible bug: init_udp returns 0 when it fails.
InitUdpFailsWithZero(d) ==
    /\ pc[d] = "gotfd"
    /\ udpPort' = [udpPort EXCEPT ![d] = 0]
    /\ pc' = [pc EXCEPT ![d] = "dispatch"]
    /\ UNCHANGED <<path, backlog, fd, udpPid, udp, bound, zombie, handler, hport, cs, reply>>

\* Plausible bug: init_udp returns the port although fork() failed.
InitUdpFailsWithPort(d) ==
    /\ pc[d] = "gotfd"
    /\ \E p \in Ports : udpPort' = [udpPort EXCEPT ![d] = p]
    /\ pc' = [pc EXCEPT ![d] = "dispatch"]
    /\ UNCHANGED <<path, backlog, fd, udpPid, udp, bound, zombie, handler, hport, cs, reply>>

\* socket(), 101 bind attempts or fork() failed: udpPort stays -1.
InitUdpFails(d) ==
    /\ pc[d] = "gotfd"
    /\ pc' = [pc EXCEPT ![d] = "dispatch"]
    /\ UNCHANGED <<path, backlog, fd, udpVars, handler, hport, cs, reply>>

\* Plausible bug: the port is shared (SO_REUSEPORT).
InitUdpShares(d, p) ==
    /\ pc[d] = "gotfd"
    /\ udp' = [udp EXCEPT ![d] = "forked"]
    /\ bound' = [bound EXCEPT ![d] = p]
    /\ pc' = [pc EXCEPT ![d] = "forked"]
    /\ UNCHANGED <<path, backlog, fd, udpPort, udpPid, zombie, handler, hport, cs, reply>>

\* The listener is forked with a socket bound to a port no one else has.
InitUdpForks(d, p) ==
    /\ pc[d] = "gotfd"
    /\ \A e \in Daemons : UdpAlive(e) => bound[e] # p
    /\ udp' = [udp EXCEPT ![d] = "forked"]
    /\ bound' = [bound EXCEPT ![d] = p]
    /\ pc' = [pc EXCEPT ![d] = "forked"]
    /\ UNCHANGED <<path, backlog, fd, udpPort, udpPid, zombie, handler, hport, cs, reply>>

\* udpPid = the result of fork(); udpPort = the result of init_udp().
StorePid(d) ==
    /\ pc[d] = "forked"
    /\ udpPid' = [udpPid EXCEPT ![d] = TRUE]
    /\ udpPort' = [udpPort EXCEPT ![d] = bound[d]]
    /\ pc' = [pc EXCEPT ![d] = "dispatch"]
    /\ UNCHANGED <<path, backlog, fd, udp, bound, zombie, handler, hport, cs, reply>>

\* Plausible bug: the parent serves the client itself and waits for its request.
DispatchInline(d) ==
    /\ pc[d] = "dispatch"
    /\ fd[d] \in Clients => cs[fd[d]] # "connected"
    /\ handler' = [handler EXCEPT ![fd[d]] = d]
    /\ hport' = [hport EXCEPT ![fd[d]] = udpPort[d]]
    /\ fd' = [fd EXCEPT ![d] = NoOne]
    /\ pc' = [pc EXCEPT ![d] = "accept"]
    /\ UNCHANGED <<path, backlog, udpVars, cs, reply>>

\* fork() a handler; the parent closes its copy of the connection.
Dispatch(d) ==
    /\ pc[d] = "dispatch"
    /\ handler' = [handler EXCEPT ![fd[d]] = d]
    /\ hport' = [hport EXCEPT ![fd[d]] = udpPort[d]]
    /\ fd' = [fd EXCEPT ![d] = NoOne]
    /\ pc' = [pc EXCEPT ![d] = "accept"]
    /\ UNCHANGED <<path, backlog, udpVars, cs, reply>>

\* fork() returned -1: the connection is closed unanswered.
DispatchFails(d) ==
    /\ pc[d] = "dispatch"
    /\ cs' = [c \in Clients |->
                IF c = fd[d] /\ cs[c] \in {"connected", "GET", "PW"} THEN "lost" ELSE cs[c]]
    /\ fd' = [fd EXCEPT ![d] = NoOne]
    /\ pc' = [pc EXCEPT ![d] = "accept"]
    /\ UNCHANGED <<path, backlog, udpVars, handler, hport, reply>>

\* A fatal accept error, or the parent is killed.
Dies(d) ==
    /\ pc[d] \in Loop
    /\ pc' = [pc EXCEPT ![d] = "gone"]
    /\ UNCHANGED <<path, backlog, fd, udpVars, handler, hport, cs, reply>>

\* Plausible bug: sig_handler reaps the listener and carries on.
SigHandlerIgnores(d) ==
    /\ pc[d] \in Loop
    /\ zombie[d]
    /\ zombie' = [zombie EXCEPT ![d] = FALSE]
    /\ UNCHANGED <<pc, path, backlog, fd, udpPort, udpPid, udp, bound, handler, hport, cs, reply>>

\* SIGCHLD can interrupt the parent anywhere in its loop.  A listener whose pid
\* has not been stored yet is reaped like any other child.
SigHandler(d) ==
    /\ pc[d] \in Loop
    /\ zombie[d]
    /\ zombie' = [zombie EXCEPT ![d] = FALSE]
    /\ pc' = [pc EXCEPT ![d] = IF udpPid[d] THEN "gone" ELSE @]
    /\ UNCHANGED <<path, backlog, fd, udpPort, udpPid, udp, bound, handler, hport, cs, reply>>

-----------------------------------------------------------------------------
(* The UDP listener process *)

\* prctl(PR_SET_PDEATHSIG): too late when the parent is already gone.
UdpArm(d) ==
    /\ udp[d] = "forked"
    /\ udp' = [udp EXCEPT ![d] = IF pc[d] = "gone" THEN "orphan" ELSE "armed"]
    /\ UNCHANGED <<pc, path, backlog, fd, udpPort, udpPid, bound, zombie, handler, hport, cs, reply>>

\* Killed from outside, or by the parent-death signal.
UdpDies(d) ==
    /\ UdpAlive(d)
    /\ udp' = [udp EXCEPT ![d] = "dead"]
    /\ zombie' = [zombie EXCEPT ![d] = pc[d] \in Loop]
    /\ UNCHANGED <<pc, path, backlog, fd, udpPort, udpPid, bound, handler, hport, cs, reply>>

-----------------------------------------------------------------------------
(* The handler process of a connection *)

\* The reply of the handler to a request, from its own copies of the variables.
Answer(c) ==
    IF c \notin Own THEN [NoReply EXCEPT !.kind = "mismatch"]
    ELSE IF cs[c] = "GET" THEN [kind |-> "keys", port |-> hport[c], key |-> handler[c]]
    ELSE [kind |-> "pw", port |-> NoPort, key |-> handler[c]]

\* A foreign uid is refused before anything is read; otherwise the handler
\* blocks in read() until the peer has written or closed its end.  A client
\* whose peer is closed before it wrote dies of the failed write, unless the UDP
\* listener inherited that connection (the one init_udp was called for): then
\* the write succeeds and the refusal is read.
HandlerRuns(c) ==
    /\ handler[c] # NoOne
    /\ c \in Own => cs[c] # "connected"
    /\ handler' = [handler EXCEPT ![c] = NoOne]
    /\ hport' = [hport EXCEPT ![c] = NoPort]
    /\ \/ /\ c \in Clients
          /\ \/ cs[c] \in {"GET", "PW"}
             \/ cs[c] = "connected" /\ UdpAlive(handler[c])
          /\ reply' = [reply EXCEPT ![c] = Answer(c)]
          /\ cs' = [cs EXCEPT ![c] = "ok"]
       \/ /\ c \in Clients => cs[c] \notin {"GET", "PW"}
          /\ cs' = [e \in Clients |-> IF e = c THEN "failed" ELSE cs[e]]
          /\ UNCHANGED reply
    /\ UNCHANGED <<pc, path, backlog, fd, udpVars>>

-----------------------------------------------------------------------------
(* mode_query and mode_pw *)

Connect(c) ==
    /\ cs[c] = "idle"
    /\ \/ /\ Reachable
          /\ backlog' = [backlog EXCEPT ![path] = Append(@, c)]
          /\ cs' = [cs EXCEPT ![c] = "connected"]
       \/ /\ ~Reachable
          /\ cs' = [cs EXCEPT ![c] = "failed"]
          /\ UNCHANGED backlog
    /\ UNCHANGED <<pc, path, fd, udpVars, handler, hport, reply>>

Request(c, req) ==
    /\ cs[c] = "connected"
    /\ cs' = [cs EXCEPT ![c] = req]
    /\ UNCHANGED <<pc, path, backlog, fd, udpVars, handler, hport, reply>>

\* read() gave nothing within SO_RCVTIMEO (2 s), or the connection was closed.
Timeout(c) ==
    /\ cs[c] \in {"connected", "GET", "PW", "lost"}
    /\ cs' = [cs EXCEPT ![c] = "failed"]
    /\ UNCHANGED <<pc, path, backlog, fd, udpVars, handler, hport, reply>>

-----------------------------------------------------------------------------
DaemonStep(d) ==
    \/ ProbeFinds(d) \/ ProbeMisses(d) \/ StartFails(d)
    \/ Remove(d) \/ Bind(d) \/ Listen(d)
    \/ Accept(d) \/ InitUdpFails(d) \/ (\E p \in Ports : InitUdpForks(d, p))
    \/ StorePid(d) \/ Dispatch(d) \/ DispatchFails(d)
    \/ Dies(d) \/ SigHandler(d)
    \/ UdpArm(d) \/ UdpDies(d)

ClientStep(c) ==
    \/ Connect(c)
    \/ \E req \in {"GET", "PW"} : Request(c, req)
    \/ Timeout(c)

Next ==
    \/ \E d \in Daemons : DaemonStep(d)
    \/ \E c \in Conns : HandlerRuns(c)
    \/ \E c \in Clients : ClientStep(c)

\* The parent's loop and the handlers keep running when they can (a fork() that
\* fails also ends Dispatch), and a pending SIGCHLD is delivered; clients, deaths
\* and failures are not promised anything.
Fairness ==
    /\ \A d \in Daemons :
        /\ WF_vars(Accept(d))
        /\ WF_vars(InitUdpFails(d) \/ \E p \in Ports : InitUdpForks(d, p))
        /\ WF_vars(StorePid(d))
        /\ WF_vars(Dispatch(d))
        /\ WF_vars(SigHandler(d))
    /\ \A c \in Conns : WF_vars(HandlerRuns(c))

Spec == Init /\ [][Next]_vars /\ Fairness

-----------------------------------------------------------------------------
(* Properties *)

\* A client that was told a port was told the port the listener of the daemon
\* with those keys is bound to: the handlers' copies of udpPort, the parent's
\* own and the listener's socket never come apart, although init_udp is retried
\* and handlers run on after later connections were accepted.
ReplyMatchesListener ==
    \A c \in Clients :
        reply[c].kind = "keys" /\ reply[c].port # NoPort
            => bound[reply[c].key] = reply[c].port

\* No two listeners that are alive share a port, so a request sent to the port a
\* client was told reaches at most one daemon.
OneListenerPerPort ==
    \A d, e \in Daemons : UdpAlive(d) /\ UdpAlive(e) /\ bound[d] = bound[e] => d = e

\* Where a connection of c to d is held on d's side.
HeldBy(c, d) ==
    \/ \E i \in DOMAIN backlog[d] : backlog[d][i] = c
    \/ fd[d] = c
    \/ handler[c] = d

\* A query sent to a daemon that keeps running is answered without help of the
\* client's timeout, whatever other clients do (connect and never write, say):
\* connections are served by forked handlers, not by the accept loop.
QueryAnswered ==
    \A c \in Clients, d \in Daemons :
        (cs[c] = "GET" /\ HeldBy(c, d)) ~> (cs[c] \in {"ok", "failed", "lost"} \/ pc[d] = "gone")

\* A daemon does not outlive a UDP listener that dies after its pid was stored:
\* sig_handler makes the daemon exit, so that the next login starts a new one.
DaemonFollowsListener ==
    \A d \in Daemons : (udpPid[d] /\ zombie[d]) ~> pc[d] = "gone"

\* "See if already running ... Already running: return 0" (mode_daemon): a
\* daemon in its accept loop is the one PWSOCKET leads to, so that nobody can
\* start a second one beside it.  (Two daemons that start at the same time both
\* find nothing; the second removes the first one's socket.)
RunningDaemonReachable ==
    \A d \in Daemons : pc[d] \in Loop => path = d
=============================================================================
