----------------------------- MODULE GuestAgent -----------------------------
(***************************************************************************)
(* openslx.exe, the agent that run-virt starts in Windows guests           *)
(* (core/modules/run-virt/winres/src/winres.c): asking the host for the    *)
(* user's password, mounting network shares and printers, remapping the    *)
(* user's folders, launching the run scripts and erasing the password.     *)
(*                                                                         *)
(* The agent is one thread: an action is one message taken from the queue  *)
(* (a timer or the socket) and handled to the end, followed by the check   *)
(* at the bottom of WinMain's message pump.  Only MessageBoxA returns to a *)
(* message loop inside a handler; while it is open (box), messages are     *)
(* handled but the check is not reached.                                   *)
(***************************************************************************)
EXTENDS PwWire, FiniteSets

CONSTANTS
    Drives,        \* the lines of shares.dat
    Printers,      \* the ones with letter PRINTER
    Homes,         \* the ones whose shortcut begins with "Home-"
    Configs,       \* the settings to consider, a subset of Settings
    Keys,          \* the key pairs daemons generate
    NoKey,         \* no keys in shares.dat
    Datagrams,     \* what may arrive on the socket
    QueryTries,    \* 10: attempts to get an answer from the password daemon
    MountTries,    \* 15: attempts including those to mount
    PrinterDelay,  \* 4: mount attempts before printers are tried
    ScriptTries    \* 12: tolerated failures to launch the run scripts

\* _remapMode
RM_NONE == 0
RM_NATIVE == 1
RM_NATIVE_FALLBACK == 2
RM_VMWARE == 3

\* OPENSLX.INI and what readShareFile made of shares.dat: "bad" (missing or
\* incomplete), "demo" (host and port are "-") or "ok".
Settings == [share : {"bad", "demo", "ok"}, key : Keys \cup {NoKey},
             remap : RM_NONE .. RM_VMWARE, persistent : BOOLEAN, noHomeWarn : BOOLEAN]

ASSUME GuestAssumption ==
    /\ IsFiniteSet(Drives)
    /\ Printers \subseteq Drives
    /\ Homes \subseteq Drives
    /\ Configs \subseteq Settings
    /\ QueryTries \in Nat \ {0}
    /\ MountTries \in Nat
    /\ PrinterDelay \in Nat
    /\ ScriptTries \in Nat
    /\ \A dg \in Datagrams : dg.size \in Nat /\ dg.high \in 0..255 /\ dg.low \in 0..255

VARIABLES
    ini,         \* the settings
    spass,       \* spass: "null", "empty" (demo), "pw", "junk" or "wiped"
    sock,        \* the UDP socket of queryPasswordDaemon
    inbox,       \* datagrams waiting in that socket
    attempts,    \* setupNetworkDrives: static attempts
    mnt,         \* the mount path's static and global state, see MountState
    late,        \* GetTickCount() - _startTime >= 30000
    mountDone,   \* _mountDone; FALSE as long as the timer runs
    fails,       \* launchRunscript: static fails
    scriptDone,  \* _scriptDone
    scriptArg,   \* the password given to the run scripts, "none" before
    box,         \* setupNetworkDrives is in MessageBoxA
    deleted      \* _deletedCredentials

vars == <<ini, spass, sock, inbox, attempts, mnt, late, mountDone, fails,
          scriptDone, scriptArg, box, deleted>>

Secrets == {"empty", "pw", "junk", "wiped"}

MountState == [attemptNo : Nat,                            \* mountNetworkShares: static attemptNo
               done      : SUBSET Drives,                  \* drives[i].success
               cache     : {"none"} \cup Secrets,          \* mount: static npass
               folder    : {"unknown", "error", "ok"},     \* _folderStatus
               patches   : Nat,                            \* runs of patchUserPaths so far
               once      : BOOLEAN]                        \* remapViaSharedFolder: static once

TypeOK ==
    /\ ini \in Settings
    /\ spass \in {"null"} \cup Secrets
    /\ sock \in {"none", "open", "closed"}
    /\ inbox \in SUBSET Datagrams
    /\ attempts \in Nat
    /\ mnt \in MountState
    /\ late \in BOOLEAN
    /\ mountDone \in BOOLEAN
    /\ fails \in Nat
    /\ scriptDone \in BOOLEAN
    /\ scriptArg \in {"none"} \cup Secrets
    /\ box \in BOOLEAN
    /\ deleted \in BOOLEAN

\* loadPaths, readShareFile and WinMain up to the message pump.  The done flags
\* become FALSE when the timer was created.
Init ==
    /\ ini \in Configs
    /\ spass = IF ini.share = "demo" THEN "empty" ELSE "null"
    /\ sock = "none"
    /\ inbox = {}
    /\ attempts = 0
    /\ mnt = [attemptNo |-> 0, done |-> {}, cache |-> "none",
              folder |-> IF ini.remap = RM_NONE THEN "ok" ELSE "unknown", patches |-> 0,
              once |-> FALSE]
    /\ late = FALSE
    /\ mountDone \in IF ini.share # "bad" \/ ini.remap # RM_NONE THEN BOOLEAN ELSE {TRUE}
    /\ fails = 0
    /\ scriptDone \in BOOLEAN
    /\ scriptArg = "none"
    /\ box = FALSE
    /\ deleted = FALSE

-----------------------------------------------------------------------------
(* The message pump *)

\* Plausible bug: the check forgets the run scripts.
PumpForgetsScripts(sp) ==
    IF ~box' /\ ~deleted /\ mountDone' /\ sp # "null"
    THEN spass' = "wiped" /\ deleted' = TRUE
    ELSE spass' = sp /\ UNCHANGED deleted

\* Plausible bug: a password that comes after the run scripts were given up is
\* forgotten.
PumpForgetsUnused(sp) ==
    IF ~box' /\ ~deleted /\ mountDone' /\ scriptArg' # "none" /\ sp # "null"
    THEN spass' = "wiped" /\ deleted' = TRUE
    ELSE spass' = sp /\ UNCHANGED deleted

\* After a message was dispatched, with sp the value the handler left in spass:
\* erase the password once nothing waits for it any more.
Pump(sp) ==
    IF ~box' /\ ~deleted /\ mountDone' /\ scriptDone' /\ sp # "null"
    THEN spass' = "wiped" /\ deleted' = TRUE
    ELSE spass' = sp /\ UNCHANGED deleted

-----------------------------------------------------------------------------
(* Mounting: operators from a mount state to the set of possible results *)

\* Plausible bug: spass is converted without looking whether there is one.
CacheUnchecked(cache, sp) == IF cache # "none" THEN cache ELSE sp

\* mount: the user's credentials are converted once, from whatever spass is then.
CacheAfter(cache, sp) ==
    IF cache # "none" THEN cache ELSE IF sp = "null" THEN "empty" ELSE sp

\* patchUserPaths, run for n homes one after the other until it succeeds: any
\* registry or process call can fail.
PatchUserPaths(m, n) ==
    IF ini.persistent THEN {m}
    ELSE {[m EXCEPT !.folder = f, !.patches = @ + n] : f \in {"error", "ok"}}

\* postSuccessfulMount of at most k home directories.
HomesMounted(m, k, isVmware) ==
    IF /\ m.folder # "ok"
       /\ \/ ini.remap = RM_NATIVE_FALLBACK
          \/ isVmware /\ ini.remap = RM_VMWARE
          \/ ~isVmware /\ ini.remap = RM_NATIVE
    THEN UNION {PatchUserPaths(m, n) : n \in 1..k} ELSE {m}

\* The drives mountNetworkShares tries: printers only after some attempts.
Tried(m) == {d \in Drives \ m.done : d \in Printers => m.attemptNo > PrinterDelay}

\* A drive that is tried need not get as far as the user's credentials: it may have
\* its own, or a line that cannot be converted.
Caches(m, sp) == {m.cache} \cup IF Tried(m) = {} THEN {} ELSE {CacheAfter(m.cache, sp)}

\* The home directories among the drives S.
HomeShares(S) == (S \ Printers) \cap Homes

\* The folders after the drives S were settled, mounted or not; the path of a home
\* directory may be the shared folder's.
FoldersAfter(m, S) ==
    LET k == Cardinality(HomeShares(S))
    IN {m} \cup HomesMounted(m, k, FALSE) \cup HomesMounted(m, k, TRUE)

\* Plausible bug: a drive counts as mounted only once the folders are patched.
MountedIfPatched(m, S, c, h) ==
    LET d == m.done \cup IF h.folder = "error" THEN S \ Homes ELSE S
    IN [m |-> [h EXCEPT !.done = d, !.cache = c], ok |-> d = Drives]

\* mountNetworkShares returns whether every drive is settled (a drive can be
\* settled, never to be retried, without having been mounted).
Mounted(m, S, c, h) ==
    [m |-> [h EXCEPT !.done = m.done \cup S, !.cache = c], ok |-> m.done \cup S = Drives]

NextAttempt(m) == [m EXCEPT !.attemptNo = @ + 1]

MountDrives(m, sp) ==
    UNION {{Mounted(m, S, c, h) : c \in Caches(m, sp), h \in FoldersAfter(m, S)} : S \in SUBSET Tried(m)}

MountNetworkShares(m, sp) ==
    IF ini.share = "bad" THEN {[m |-> m, ok |-> TRUE]}
    ELSE IF sp = "null" THEN {[m |-> m, ok |-> FALSE]}
    ELSE MountDrives(NextAttempt(m), sp)

\* The user's credentials may be tried, and the user's folders be patched.
SharedCaches(m, sp) == {m.cache, CacheAfter(m.cache, sp)}
SharedFolders(m) == {m} \cup HomesMounted(m, 1, TRUE)

\* Plausible bug: the static flag is never set.
RemapAgain(m, sp) ==
    {[h EXCEPT !.cache = c] : c \in SharedCaches(m, sp), h \in SharedFolders(m)}

Remapped(c, h) == [h EXCEPT !.once = TRUE, !.cache = c]

\* remapViaSharedFolder: only once; the share is found mapped already, or it is
\* mounted with the user's credentials, or mounting it fails.
RemapViaSharedFolder(m, sp) ==
    IF m.once THEN {m}
    ELSE {Remapped(c, h) : c \in SharedCaches(m, sp), h \in SharedFolders(m)}

\* setupNetworkDrives, from "Finished successfully or failed completely" on.
FinishMount(m) ==
    /\ mnt' \in IF m.folder # "ok" /\ ini.remap \in {RM_NATIVE_FALLBACK, RM_VMWARE}
                THEN RemapViaSharedFolder(m, spass) ELSE {m}
    /\ mountDone' = TRUE
    /\ box' = (~ini.noHomeWarn /\ mnt'.folder # "ok")

-----------------------------------------------------------------------------
(* The handlers *)

\* setupNetworkDrives without a usable shares.dat.
TickNoShares ==
    /\ ~mountDone
    /\ ini.share = "bad"
    /\ FinishMount(mnt)
    /\ UNCHANGED <<ini, sock, inbox, attempts, late, fails, scriptDone, scriptArg>>
    /\ Pump(spass)

\* queryPasswordDaemon without a password: it makes the window, the socket and the
\* request, or fails on the way.
QueryPasswordDaemon(sent) == sock' \in IF sent THEN {"open"} ELSE {sock, "open"}

\* Plausible bug: unanswered requests are not counted.
TickAskForever(sent) ==
    /\ ~mountDone
    /\ ini.share # "bad"
    /\ spass = "null"
    /\ QueryPasswordDaemon(sent)
    /\ UNCHANGED <<ini, inbox, attempts, mnt, late, mountDone, fails, scriptDone, scriptArg, box>>
    /\ Pump(spass)

\* setupNetworkDrives without a password: ask the host for it, and keep the timer
\* until the attempts are used up.
TickAsk(sent) ==
    /\ ~mountDone
    /\ ini.share # "bad"
    /\ spass = "null"
    /\ QueryPasswordDaemon(sent)
    /\ attempts' = attempts + 1
    /\ IF attempts + 1 < QueryTries
       THEN UNCHANGED <<mnt, mountDone, box>>
       ELSE FinishMount(mnt)
    /\ UNCHANGED <<ini, inbox, late, fails, scriptDone, scriptArg>>
    /\ Pump(spass)

\* Plausible bug: once the password is there, every failed attempt is final.
TickMountOnce ==
    /\ ~mountDone
    /\ ini.share # "bad"
    /\ spass # "null"
    /\ \E o \in MountNetworkShares(mnt, spass) : FinishMount(o.m)
    /\ UNCHANGED <<ini, sock, inbox, attempts, late, fails, scriptDone, scriptArg>>
    /\ Pump(spass)

\* setupNetworkDrives with a password: mount, and try again for thirty seconds.
TickMount ==
    /\ ~mountDone
    /\ ini.share # "bad"
    /\ spass # "null"
    /\ \E o \in MountNetworkShares(mnt, spass) :
        LET retry == ~o.ok /\ ~late
        IN /\ attempts' = IF retry THEN attempts + 1 ELSE attempts
           /\ IF retry /\ attempts + 1 < MountTries
              THEN mnt' = o.m /\ UNCHANGED <<mountDone, box>>
              ELSE FinishMount(o.m)
    /\ UNCHANGED <<ini, sock, inbox, late, fails, scriptDone, scriptArg>>
    /\ Pump(spass)

\* launchRunscript without a password, or with one that cannot be converted.
ScriptFails ==
    /\ ~scriptDone
    /\ fails' = fails + 1
    /\ scriptDone' = (fails + 1 > ScriptTries)
    /\ UNCHANGED <<ini, sock, inbox, attempts, mnt, late, mountDone, scriptArg, box>>
    /\ Pump(spass)

\* launchRunscript: the adminrun scripts and the run script are started.
ScriptRuns ==
    /\ ~scriptDone
    /\ spass # "null"
    /\ scriptArg' = spass
    /\ scriptDone' = TRUE
    /\ UNCHANGED <<ini, sock, inbox, attempts, mnt, late, mountDone, fails, box>>
    /\ Pump(spass)

\* xorString with the key of shares.dat.
Decrypted(dg) == IF dg.key # ini.key THEN "junk" ELSE IF dg.size = 2 THEN "empty" ELSE "pw"

\* The reply is the password, and what the socket becomes; try to mount.
TakeReply(dg, s) ==
    /\ sock' = s
    /\ inbox' = {}
    /\ \E o \in MountNetworkShares(mnt, Decrypted(dg)) : mnt' = o.m
    /\ UNCHANGED <<ini, attempts, late, mountDone, fails, scriptDone, scriptArg, box>>
    /\ Pump(Decrypted(dg))

DropReply(dg, s) ==
    /\ sock' = s
    /\ inbox' = inbox \ {dg}
    /\ UNCHANGED <<ini, attempts, mnt, late, mountDone, fails, scriptDone, scriptArg, box>>
    /\ Pump(spass)

\* Plausible bug: the socket stays open after the password was received.
UdpReceivedKeepsOpen(dg) ==
    /\ sock = "open"
    /\ dg \in inbox
    /\ IF Accepted(dg) THEN TakeReply(dg, "open") ELSE DropReply(dg, sock)

\* udpReceived: the first acceptable reply closes the socket.
UdpReceived(dg) ==
    /\ sock = "open"
    /\ dg \in inbox
    /\ IF Accepted(dg) THEN TakeReply(dg, "closed") ELSE DropReply(dg, sock)

\* The user closes the warning; setupNetworkDrives returns to the pump.
CloseBox ==
    /\ box
    /\ box' = FALSE
    /\ UNCHANGED <<ini, sock, inbox, attempts, mnt, late, mountDone, fails, scriptDone, scriptArg>>
    /\ Pump(spass)

\* Any other message (the resolution timer, say) passes through the pump.
OtherMessage ==
    /\ UNCHANGED <<ini, sock, inbox, attempts, mnt, late, mountDone, fails, scriptDone, scriptArg, box>>
    /\ Pump(spass)

-----------------------------------------------------------------------------
(* The environment *)

\* Thirty seconds have passed since the start.
Deadline ==
    /\ ~late
    /\ late' = TRUE
    /\ UNCHANGED <<ini, spass, sock, inbox, attempts, mnt, mountDone, fails, scriptDone, scriptArg, box, deleted>>

Arrive(dg) ==
    /\ sock = "open"
    /\ inbox' = inbox \cup {dg}
    /\ UNCHANGED <<ini, spass, sock, attempts, mnt, late, mountDone, fails, scriptDone, scriptArg, box, deleted>>

-----------------------------------------------------------------------------
Tick == TickNoShares \/ (\E sent \in BOOLEAN : TickAsk(sent)) \/ TickMount

Script == ScriptFails \/ ScriptRuns

Next ==
    \/ Tick
    \/ Script
    \/ \E dg \in Datagrams : UdpReceived(dg) \/ Arrive(dg)
    \/ CloseBox
    \/ OtherMessage
    \/ Deadline

\* Timers keep firing and the pump keeps running; the network, the user and the
\* clock promise nothing.
Fairness == WF_vars(Tick) /\ WF_vars(Script) /\ WF_vars(OtherMessage)

Spec == Init /\ [][Next]_vars /\ Fairness

-----------------------------------------------------------------------------
(* Properties *)

\* The password is not used after it was erased from memory: neither the run
\* scripts nor a mount ever get the wiped string, although replies arrive late,
\* the warning's message loop delays the erasure and timers run in any order.
NoUseAfterErase == scriptArg # "wiped" /\ mnt.cache # "wiped"

\* A mount uses the password that was received, unless remapViaSharedFolder ran
\* before the reply came: mount() converts the credentials once and keeps them.
CacheIsCurrent ==
    mnt.cache = "empty" /\ spass \in {"pw", "junk"} => mnt.once

\* The socket is closed for good once a reply was taken, and nobody asks again:
\* queryPasswordDaemon keeps the closed handle but is not reached.
ClosedMeansAnswered == sock = "closed" => spass # "null"

\* When the password was there in time, setupNetworkDrives does not give up
\* before printers were tried (they wait for four attempts), because attempts
\* used for asking leave enough of the fifteen.
PrintersGetTheirTry ==
    [][ (mountDone' /\ ~mountDone /\ ini.share # "bad" /\ spass # "null" /\ ~late)
        => (mnt'.attemptNo > PrinterDelay \/ mnt'.done = Drives) ]_vars

\* patchUserPaths, which kills explorer, runs at most once for each home directory
\* and once more for the shared folder, although it may fail every time, fifteen
\* ticks and a reply (even one that comes during the warning) mount what is left,
\* and the fallback follows.
ExplorerKilledRarely == mnt.patches <= Cardinality(HomeShares(Drives)) + 1

\* The agent settles whatever the network does: asking, mounting and launching
\* scripts all stop.
Settles == <>(mountDone /\ scriptDone)

\* spass is overwritten in the end once a password was received, also one that comes
\* after asking was given up, provided no warning stays open for ever.  This is all
\* that WinMain erases: mount()'s static npass keeps a converted copy for as long as
\* the agent runs (mnt.cache).
ErasedInTheEnd == []<>(~box) => [](spass # "null" => <>deleted)
=============================================================================
