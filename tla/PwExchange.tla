----------------------------- MODULE PwExchange -----------------------------
(***************************************************************************)
(* The password exchange between host and guest: password daemons          *)
(* (PwDaemon), the query that setup_virtual_floppy.inc runs to write       *)
(* shares.dat, the guest agent (GuestAgent) and the UDP datagrams between  *)
(* them.  A datagram once sent can be delivered any number of times (lost, *)
(* delayed, reordered, duplicated).  Daemons and their listeners die and   *)
(* new daemons may get the port of an old one.                             *)
(***************************************************************************)
EXTENDS PwWire, Sequences, FiniteSets

CONSTANTS
    Daemons, Ports, Backlog, NoOne,                     \* see PwDaemon
    Query,     \* the query of the virtual machine that is started
    Others,    \* the user's other queries, for further virtual machines
    Drives, Printers, Homes, Configs,                   \* see GuestAgent
    QueryTries, MountTries, PrinterDelay, ScriptTries,
    PwLen      \* the length of the password

VARIABLES
    pc, path, backlog, fd, udpPort, udpPid, udp, bound, zombie,
    handler, hport, cs, reply,
    ini, spass, sock, inbox, attempts, mnt, late, mountDone, fails,
    scriptDone, scriptArg, box, deleted,
    booted,    \* the virtual machine runs
    reqs,      \* requests sent: key1 of a daemon, to a port
    reps,      \* replies sent
    released   \* the daemons whose listener sent its password (history)

Datagrams == {Encrypted(PwLen, d) : d \in Daemons}

D == INSTANCE PwDaemon WITH Clients <- Others \cup {Query}, Own <- Others \cup {Query}

G == INSTANCE GuestAgent WITH Keys <- Daemons, NoKey <- NoOne

\* What PwDaemon and GuestAgent assume, of the composition's constants.
ASSUME ExchangeAssumption ==
    /\ Daemons \cap (Others \cup {Query}) = {}
    /\ NoOne \notin Daemons \cup Others \cup {Query}
    /\ Ports \subseteq Nat /\ Backlog \in Nat
    /\ IsFiniteSet(Drives) /\ Printers \subseteq Drives /\ Homes \subseteq Drives
    /\ Configs \subseteq G!Settings
    /\ QueryTries \in Nat \ {0} /\ MountTries \in Nat /\ PrinterDelay \in Nat
    /\ ScriptTries \in Nat /\ PwLen \in Nat

dvars == <<pc, path, backlog, fd, udpPort, udpPid, udp, bound, zombie,
           handler, hport, cs, reply>>
gvars == <<ini, spass, sock, inbox, attempts, mnt, late, mountDone, fails,
           scriptDone, scriptArg, box, deleted>>
net == <<reqs, reps, released>>

vars == <<dvars, gvars, booted, net>>

\* What the guest reads is fixed by the host before it boots: ini is chosen
\* freely here, and Boot waits for the query that agrees with it.
Init ==
    /\ D!Init
    /\ G!Init
    /\ booted = FALSE
    /\ reqs = {}
    /\ reps = {}
    /\ released = {}

-----------------------------------------------------------------------------
\* The ports readShareFile takes.
MinPort == 1000
MaxPort == 65535

\* Plausible bug: readShareFile does not check the port.
ShareFileUnchecked(r, failed) ==
    IF failed THEN [share |-> "demo", key |-> NoOne]
    ELSE IF r.kind = "keys" THEN [share |-> "ok", key |-> r.key]
    ELSE [share |-> "bad", key |-> NoOne]

\* shares.dat as setup_virtual_floppy.inc writes it, read by readShareFile: "-"
\* everywhere when the query failed; otherwise its output, whatever it is.  A
\* port outside 1000..65535 (-1 when init_udp failed) makes the file unusable.
ShareFile(r, failed) ==
    IF failed THEN [share |-> "demo", key |-> NoOne]
    ELSE IF r.kind = "keys" /\ r.port \in MinPort .. MaxPort THEN [share |-> "ok", key |-> r.key]
    ELSE [share |-> "bad", key |-> NoOne]

Boot ==
    /\ ~booted
    /\ cs[Query] \in {"ok", "failed"}
    /\ LET file == ShareFile(reply[Query], cs[Query] = "failed")
       IN ini.share = file.share /\ ini.key = file.key
    /\ booted' = TRUE
    /\ UNCHANGED <<dvars, gvars, net>>

\* The host side takes a step.
Host ==
    /\ \/ \E d \in Daemons : D!DaemonStep(d)
       \/ \E c \in D!Conns : D!HandlerRuns(c)
       \/ \E c \in Others \cup {Query} : D!Connect(c) \/ D!Request(c, "GET") \/ D!Timeout(c)
    /\ UNCHANGED <<gvars, booted, net>>

\* The guest asks: sendto() puts key1 on its way to the port of shares.dat.
GuestAsks ==
    /\ booted
    /\ \E sent \in BOOLEAN :
        /\ G!TickAsk(sent)
        /\ reqs' = IF sent THEN reqs \cup {[port |-> reply[Query].port, key |-> ini.key]}
                   ELSE reqs
    /\ UNCHANGED <<dvars, booted, reps, released>>

\* Every other step of the guest.
Guest ==
    /\ booted
    /\ \/ G!TickNoShares \/ G!TickMount \/ G!Script \/ G!CloseBox \/ G!OtherMessage \/ G!Deadline
       \/ \E dg \in Datagrams : G!UdpReceived(dg)
    /\ UNCHANGED <<dvars, booted, net>>

\* Plausible bug: the listener answers whatever it receives.
ListenerAnswersAll(d, r) ==
    /\ D!UdpAlive(d)
    /\ r \in reqs
    /\ r.port = bound[d]
    /\ reps' = reps \cup {Encrypted(PwLen, d)}
    /\ released' = released \cup {d}
    /\ UNCHANGED <<dvars, gvars, booted, reqs>>

\* init_udp's loop: a datagram that is key1 is answered with the password,
\* anything else is dropped.
ListenerAnswers(d, r) ==
    /\ D!UdpAlive(d)
    /\ r \in reqs
    /\ r.port = bound[d]
    /\ r.key = d
    /\ reps' = reps \cup {Encrypted(PwLen, d)}
    /\ released' = released \cup {d}
    /\ UNCHANGED <<dvars, gvars, booted, reqs>>

\* A reply reaches the guest's socket.
Deliver(dg) ==
    /\ booted
    /\ dg \in reps
    /\ G!Arrive(dg)
    /\ UNCHANGED <<dvars, booted, net>>

Next ==
    \/ Host
    \/ Boot
    \/ GuestAsks
    \/ Guest
    \/ \E d \in Daemons, r \in reqs : ListenerAnswers(d, r)
    \/ \E dg \in Datagrams : Deliver(dg)

Spec == Init /\ [][Next]_vars

-----------------------------------------------------------------------------
(* Properties *)

\* The guest never takes a foreign daemon's password for the user's: whoever
\* owns the port by now, only the daemon that wrote the keys into shares.dat
\* answers to them.
OnlyOwnPassword == spass # "junk"

\* Every request is addressed to the port that the listener of the
\* daemon with that key is bound to (or was until it died); in particular the
\* -1 of a failed init_udp never leaves the host.
RequestsAddressListener == \A r \in reqs : r.port \in Ports /\ bound[r.key] = r.port

\* The refinement mapping: what the exchange is about.
PeerOf == IF ini.share = "ok" THEN ini.key ELSE NoOne

HeldOf ==
    IF ini.share = "demo" \/ spass = "null" THEN "none"
    ELSE IF spass = "wiped" THEN "erased" ELSE ini.key

Abstract == INSTANCE Delivery WITH NoDaemon <- NoOne, peer <- PeerOf, held <- HeldOf

\* The exchange implements Delivery: retries, duplicates, late replies and the
\* message box never make the guest obtain a password twice, one that was not
\* released, or one after it was erased.
ImplementsDelivery == Abstract!Spec
=============================================================================
