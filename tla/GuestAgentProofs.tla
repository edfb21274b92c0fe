-------------------------- MODULE GuestAgentProofs --------------------------
(***************************************************************************)
(* What holds of GuestAgent for every share file, setting and datagram.    *)
(***************************************************************************)
EXTENDS GuestAgent, FiniteSetTheorems, TLAPS

Folders == {"unknown", "error", "ok"}

\* The mount states m and h differ only in what patchUserPaths changes, and it ran
\* at most k times.
PatchedUpTo(m, h, k) ==
    /\ h \in MountState
    /\ h.attemptNo = m.attemptNo /\ h.done = m.done /\ h.cache = m.cache /\ h.once = m.once
    /\ h.patches <= m.patches + k

-----------------------------------------------------------------------------
(* The operators of the mount path *)

\* Credentials once converted are kept; otherwise they are those of spass.
LEMMA CacheResult ==
    ASSUME NEW cache \in {"none"} \cup Secrets, NEW sp \in {"null"} \cup Secrets
    PROVE  /\ CacheAfter(cache, sp) \in Secrets
           /\ cache # "none" => CacheAfter(cache, sp) = cache
           /\ cache = "none" /\ sp # "null" => CacheAfter(cache, sp) = sp
           /\ cache = "none" /\ sp = "null" => CacheAfter(cache, sp) = "empty"
BY DEF CacheAfter, Secrets

\* Patching changes the folder status and counts.
LEMMA PatchResult ==
    ASSUME NEW m \in MountState, NEW k \in Nat, NEW v \in BOOLEAN, NEW h \in HomesMounted(m, k, v)
    PROVE  PatchedUpTo(m, h, k)
<1>1. m.patches \in Nat
    BY DEF MountState
<1>2. CASE h = m
    BY <1>1, <1>2 DEF PatchedUpTo
<1>3. CASE h # m
    <2>1. PICK n \in 1..k : h \in PatchUserPaths(m, n)
        BY <1>3 DEF HomesMounted
    <2>2. PICK f \in {"error", "ok"} : h = [m EXCEPT !.folder = f, !.patches = @ + n]
        BY <1>3, <2>1 DEF PatchUserPaths
    <2>3. n \in Nat /\ n <= k
        BY <2>1
    <2>4. /\ h.folder = f /\ h.patches = m.patches + n
          /\ h.attemptNo = m.attemptNo /\ h.done = m.done /\ h.cache = m.cache /\ h.once = m.once
        BY <2>2 DEF MountState
    <2>5. h \in MountState
        <3> DEFINE count == m.patches + n
        <3>1. count \in Nat
            BY <1>1, <2>3
        <3>2. h = [m EXCEPT !.folder = f, !.patches = count]
            BY <2>2
        <3> HIDE DEF count
        <3>3. f \in {"unknown", "error", "ok"}
            OBVIOUS
        <3> QED
            BY <3>1, <3>2, <3>3 DEF MountState
    <2> QED
        BY <1>1, <2>3, <2>4, <2>5 DEF PatchedUpTo
<1> QED
    BY <1>2, <1>3

\* The home directories among some drives are finitely many.
LEMMA HomeSharesFinite ==
    ASSUME NEW S \in SUBSET Drives
    PROVE  IsFiniteSet(HomeShares(S)) /\ Cardinality(HomeShares(S)) \in Nat
<1>1. HomeShares(S) \subseteq Drives /\ IsFiniteSet(Drives)
    BY GuestAssumption DEF HomeShares
<1> QED
    BY <1>1, FS_Subset, FS_CardinalityType

\* The user's credentials after some drives were tried.
LEMMA CachesResult ==
    ASSUME NEW m \in MountState, NEW sp \in {"null"} \cup Secrets, NEW c \in Caches(m, sp)
    PROVE  /\ c \in {"none"} \cup Secrets
           /\ c = m.cache \/ c = CacheAfter(m.cache, sp)
<1>1. c = m.cache \/ c = CacheAfter(m.cache, sp)
    BY DEF Caches
<1>2. m.cache \in {"none"} \cup Secrets
    BY DEF MountState
<1>3. CacheAfter(m.cache, sp) \in Secrets
    BY <1>2, CacheResult
<1> QED
    BY <1>1, <1>2, <1>3

\* The folders after some drives were settled.
LEMMA FoldersResult ==
    ASSUME NEW m \in MountState, NEW S \in SUBSET Drives, NEW h \in FoldersAfter(m, S)
    PROVE  PatchedUpTo(m, h, Cardinality(HomeShares(S)))
<1> DEFINE k == Cardinality(HomeShares(S))
<1>1. k \in Nat
    BY HomeSharesFinite
<1>2. h = m \/ \E v \in BOOLEAN : h \in HomesMounted(m, k, v)
    BY DEF FoldersAfter
<1> HIDE DEF k
<1>3. m.patches \in Nat
    BY DEF MountState
<1>4. PatchedUpTo(m, m, k)
    BY <1>1, <1>3 DEF PatchedUpTo
<1>5. PatchedUpTo(m, h, k)
    BY <1>1, <1>2, <1>4, PatchResult
<1> QED
    BY <1>5 DEF k

\* The mount state counts no more runs of patchUserPaths than home directories
\* were settled, and one for the shared folder.
PatchesCounted(m) ==
    m.patches <= Cardinality(HomeShares(m.done)) + IF m.once THEN 1 ELSE 0

\* Settling other drives adds at most as many home directories to the count.
LEMMA HomesAdd ==
    ASSUME NEW A \in SUBSET Drives, NEW B \in SUBSET Drives, A \cap B = {}
    PROVE  Cardinality(HomeShares(A \cup B))
             = Cardinality(HomeShares(A)) + Cardinality(HomeShares(B))
<1>1. HomeShares(A \cup B) = HomeShares(A) \cup HomeShares(B)
    BY DEF HomeShares
<1>2. HomeShares(A) \cap HomeShares(B) = {}
    BY DEF HomeShares
<1>3. /\ IsFiniteSet(HomeShares(A)) /\ Cardinality(HomeShares(A)) \in Nat
      /\ IsFiniteSet(HomeShares(B)) /\ Cardinality(HomeShares(B)) \in Nat
    BY HomeSharesFinite
<1>4. Cardinality({}) = 0
    BY FS_EmptySet
<1>5. Cardinality(HomeShares(A) \cup HomeShares(B))
        = Cardinality(HomeShares(A)) + Cardinality(HomeShares(B))
          - Cardinality(HomeShares(A) \cap HomeShares(B))
    BY <1>3, FS_Union
<1>6. Cardinality(HomeShares(A \cup B)) = Cardinality(HomeShares(A) \cup HomeShares(B))
    BY <1>1
<1>7. Cardinality(HomeShares(A) \cap HomeShares(B)) = 0
    BY <1>2, <1>4
<1> QED
    BY <1>3, <1>5, <1>6, <1>7

\* One pass over the drives.
LEMMA DrivesResult ==
    ASSUME NEW m \in MountState, NEW sp \in {"null"} \cup Secrets, NEW o \in MountDrives(m, sp)
    PROVE  /\ o.m \in MountState
           /\ o.m.once = m.once
           /\ o.m.cache = m.cache \/ o.m.cache = CacheAfter(m.cache, sp)
           /\ PatchesCounted(m) => PatchesCounted(o.m)
           /\ o.m.attemptNo = m.attemptNo
           /\ o.ok => o.m.done = Drives
<1>1. PICK S \in SUBSET Tried(m) :
          o \in {Mounted(m, S, c, h) : c \in Caches(m, sp), h \in FoldersAfter(m, S)}
    BY DEF MountDrives
<1>2. PICK c \in Caches(m, sp), h \in FoldersAfter(m, S) : o = Mounted(m, S, c, h)
    BY <1>1
<1>3. S \subseteq Drives /\ m.done \subseteq Drives /\ m.done \cap S = {}
    BY DEF Tried, MountState
<1>4. /\ c \in {"none"} \cup Secrets
      /\ c = m.cache \/ c = CacheAfter(m.cache, sp)
    BY CachesResult
<1>5. PatchedUpTo(m, h, Cardinality(HomeShares(S)))
    BY <1>3, FoldersResult
<1>6. /\ o.m = [h EXCEPT !.done = m.done \cup S, !.cache = c]
      /\ o.ok = (m.done \cup S = Drives)
    BY <1>2 DEF Mounted
<1>7. /\ o.m \in MountState
      /\ o.m.once = m.once /\ o.m.attemptNo = m.attemptNo
      /\ o.m.cache = c /\ o.m.patches = h.patches /\ o.m.done = m.done \cup S
    BY <1>3, <1>4, <1>5, <1>6 DEF PatchedUpTo, MountState
<1>8. ASSUME PatchesCounted(m)
      PROVE  PatchesCounted(o.m)
    <2>1. Cardinality(HomeShares(m.done \cup S))
            = Cardinality(HomeShares(m.done)) + Cardinality(HomeShares(S))
        BY <1>3, HomesAdd
    <2>2. /\ Cardinality(HomeShares(m.done)) \in Nat /\ Cardinality(HomeShares(S)) \in Nat
          /\ m.patches \in Nat /\ h.patches \in Nat
        BY <1>3, <1>5, HomeSharesFinite DEF PatchedUpTo, MountState
    <2>3. h.patches <= m.patches + Cardinality(HomeShares(S))
        BY <1>5 DEF PatchedUpTo
    <2> QED
        BY <1>7, <1>8, <2>1, <2>2, <2>3 DEF PatchesCounted
<1> QED
    BY <1>4, <1>6, <1>7, <1>8

\* What a call of mountNetworkShares can do to the mount state.
LEMMA MountResult ==
    ASSUME NEW m \in MountState, NEW sp \in {"null"} \cup Secrets,
           NEW o \in MountNetworkShares(m, sp)
    PROVE  /\ o.m \in MountState
           /\ o.m.once = m.once
           /\ \/ o.m.cache = m.cache
              \/ sp # "null" /\ o.m.cache = CacheAfter(m.cache, sp)
           /\ PatchesCounted(m) => PatchesCounted(o.m)
           /\ ini.share # "bad" /\ sp # "null" => o.m.attemptNo = m.attemptNo + 1
           /\ ini.share # "bad" /\ o.ok => o.m.done = Drives
<1>1. CASE ini.share = "bad" \/ sp = "null"
    BY <1>1 DEF MountNetworkShares
<1>2. CASE ini.share # "bad" /\ sp # "null"
    <2>1. o \in MountDrives(NextAttempt(m), sp)
        BY <1>2 DEF MountNetworkShares
    <2>2. /\ NextAttempt(m) \in MountState
          /\ NextAttempt(m).cache = m.cache /\ NextAttempt(m).once = m.once
          /\ NextAttempt(m).attemptNo = m.attemptNo + 1
        BY DEF NextAttempt, MountState
    <2>3. PatchesCounted(NextAttempt(m)) <=> PatchesCounted(m)
        BY DEF NextAttempt, PatchesCounted, MountState
    <2> QED
        BY <1>2, <2>1, <2>2, <2>3, DrivesResult
<1> QED
    BY <1>1, <1>2

\* What remapViaSharedFolder can do to the mount state.
LEMMA RemapResult ==
    ASSUME NEW m \in MountState, NEW sp \in {"null"} \cup Secrets,
           NEW r \in RemapViaSharedFolder(m, sp)
    PROVE  /\ r \in MountState
           /\ r.once
           /\ r.cache = m.cache \/ r.cache = CacheAfter(m.cache, sp)
           /\ PatchesCounted(m) => PatchesCounted(r)
           /\ r.attemptNo = m.attemptNo
           /\ r.done = m.done
<1>1. CASE m.once
    BY <1>1 DEF RemapViaSharedFolder
<1>2. CASE ~m.once
    <2>0. PICK c \in SharedCaches(m, sp), h \in SharedFolders(m) : r = Remapped(c, h)
        BY <1>2 DEF RemapViaSharedFolder
    <2>1. c \in {m.cache, CacheAfter(m.cache, sp)} /\ (h = m \/ h \in HomesMounted(m, 1, TRUE))
        BY DEF SharedCaches, SharedFolders
    <2>2. m.patches \in Nat /\ m.cache \in {"none"} \cup Secrets
        BY DEF MountState
    <2>3. CacheAfter(m.cache, sp) \in Secrets
        BY <2>2, CacheResult
    <2>4. c \in {"none"} \cup Secrets
        BY <2>1, <2>2, <2>3
    <2>5. PatchedUpTo(m, m, 1)
        BY <2>2 DEF PatchedUpTo
    <2>6. PatchedUpTo(m, h, 1)
        BY <2>1, <2>5, PatchResult
    <2>7. /\ r \in MountState /\ r.once /\ r.cache = c /\ r.patches = h.patches
          /\ r.attemptNo = m.attemptNo /\ r.done = m.done
        BY <2>0, <2>4, <2>6 DEF Remapped, PatchedUpTo, MountState
    <2>8. ASSUME PatchesCounted(m)
          PROVE  PatchesCounted(r)
        <3>1. Cardinality(HomeShares(m.done)) \in Nat
            BY HomeSharesFinite DEF MountState
        <3>2. h.patches \in Nat /\ h.patches <= m.patches + 1
            BY <2>6 DEF PatchedUpTo, MountState
        <3> QED
            BY <1>2, <2>2, <2>7, <2>8, <3>1, <3>2 DEF PatchesCounted
    <2> QED
        BY <2>1, <2>7, <2>8
<1> QED
    BY <1>1, <1>2

\* What the end of setupNetworkDrives does.
LEMMA FinishResult ==
    ASSUME TypeOK, NEW m \in MountState, FinishMount(m)
    PROVE  /\ mnt' \in MountState
           /\ mountDone' = TRUE
           /\ box' \in BOOLEAN
           /\ \/ mnt' = m
              \/ /\ mnt'.once
                 /\ mnt'.cache = m.cache \/ mnt'.cache = CacheAfter(m.cache, spass)
           /\ PatchesCounted(m) => PatchesCounted(mnt')
           /\ mnt'.attemptNo = m.attemptNo
           /\ mnt'.done = m.done
<1>1. spass \in {"null"} \cup Secrets /\ ini.noHomeWarn \in BOOLEAN
    BY DEF TypeOK, Settings
<1>2. mnt' \in RemapViaSharedFolder(m, spass) \/ mnt' = m
    BY DEF FinishMount
<1>3. mountDone' = TRUE /\ box' \in BOOLEAN
    BY DEF FinishMount
<1> QED
    BY <1>1, <1>2, <1>3, RemapResult

\* The check at the bottom of the message pump.
LEMMA PumpResult ==
    ASSUME NEW sp \in {"null"} \cup Secrets, Pump(sp)
    PROVE  \/ /\ spass' = "wiped" /\ deleted' = TRUE
              /\ mountDone' /\ scriptDone' /\ sp # "null" /\ ~deleted
           \/ spass' = sp /\ deleted' = deleted
BY DEF Pump

-----------------------------------------------------------------------------
(* Type correctness *)

\* The variables the message pump may write.
LEMMA PumpType ==
    ASSUME TypeOK, NEW sp \in {"null"} \cup Secrets, Pump(sp)
    PROVE  spass' \in {"null"} \cup Secrets /\ deleted' \in BOOLEAN
<1>1. deleted \in BOOLEAN
    BY DEF TypeOK
<1> QED
    BY <1>1, PumpResult DEF Secrets

\* What a datagram decrypts to is a password, never NULL or the erased one.
LEMMA DecryptedType ==
    ASSUME NEW dg
    PROVE  Decrypted(dg) \in Secrets /\ Decrypted(dg) # "wiped"
BY DEF Decrypted, Secrets

\* Every message handler and every step of the environment keeps the types.
LEMMA TypeStep ==
    ASSUME TypeOK, [Next]_vars
    PROVE  TypeOK'
<1>0. spass \in {"null"} \cup Secrets /\ mnt \in MountState
    BY DEF TypeOK
<1>1. CASE TickNoShares
    <2>1. spass' \in {"null"} \cup Secrets /\ deleted' \in BOOLEAN
        BY <1>0, <1>1, PumpType DEF TickNoShares
    <2>2. mnt' \in MountState /\ mountDone' \in BOOLEAN /\ box' \in BOOLEAN
        BY <1>0, <1>1, FinishResult DEF TickNoShares
    <2> QED
        BY <1>1, <2>1, <2>2 DEF TickNoShares, TypeOK
<1>2. ASSUME NEW sent \in BOOLEAN, TickAsk(sent)
      PROVE  TypeOK'
    <2>1. spass' \in {"null"} \cup Secrets /\ deleted' \in BOOLEAN
        BY <1>0, <1>2, PumpType DEF TickAsk
    <2>2. mnt' \in MountState /\ mountDone' \in BOOLEAN /\ box' \in BOOLEAN
        <3>1. CASE FinishMount(mnt)
            BY <1>0, <3>1, FinishResult
        <3>2. CASE UNCHANGED <<mnt, mountDone, box>>
            BY <3>2 DEF TypeOK
        <3> QED
            BY <1>2, <3>1, <3>2 DEF TickAsk
    <2>3. sock' \in {"none", "open", "closed"} /\ attempts' \in Nat
        BY <1>2 DEF TickAsk, QueryPasswordDaemon, TypeOK
    <2> QED
        BY <1>2, <2>1, <2>2, <2>3 DEF TickAsk, TypeOK
<1>3. CASE TickMount
    <2>1. spass' \in {"null"} \cup Secrets /\ deleted' \in BOOLEAN
        BY <1>0, <1>3, PumpType DEF TickMount
    <2>2. PICK o \in MountNetworkShares(mnt, spass) :
              \/ FinishMount(o.m)
              \/ mnt' = o.m /\ UNCHANGED <<mountDone, box>>
        BY <1>3 DEF TickMount
    <2>3. o.m \in MountState
        BY <1>0, MountResult
    <2>4. mnt' \in MountState /\ mountDone' \in BOOLEAN /\ box' \in BOOLEAN
        <3>1. CASE FinishMount(o.m)
            BY <2>3, <3>1, FinishResult
        <3>2. CASE mnt' = o.m /\ UNCHANGED <<mountDone, box>>
            BY <2>3, <3>2 DEF TypeOK
        <3> QED
            BY <2>2, <3>1, <3>2
    <2>5. attempts' \in Nat
        BY <1>3 DEF TickMount, TypeOK
    <2> QED
        BY <1>3, <2>1, <2>4, <2>5 DEF TickMount, TypeOK
<1>4. CASE ScriptFails
    <2>1. spass' \in {"null"} \cup Secrets /\ deleted' \in BOOLEAN
        BY <1>0, <1>4, PumpType DEF ScriptFails
    <2> QED
        BY <1>4, <2>1 DEF ScriptFails, TypeOK
<1>5. CASE ScriptRuns
    <2>1. spass' \in {"null"} \cup Secrets /\ deleted' \in BOOLEAN
        BY <1>0, <1>5, PumpType DEF ScriptRuns
    <2>2. scriptArg' \in Secrets
        BY <1>0, <1>5 DEF ScriptRuns
    <2> QED
        BY <1>5, <2>1, <2>2 DEF ScriptRuns, TypeOK
<1>6. ASSUME NEW dg \in Datagrams, TakeReply(dg, "closed")
      PROVE  TypeOK'
    <2>1. spass' \in {"null"} \cup Secrets /\ deleted' \in BOOLEAN
        BY <1>6, DecryptedType, PumpType DEF TakeReply
    <2>2. PICK o \in MountNetworkShares(mnt, Decrypted(dg)) : mnt' = o.m
        BY <1>6 DEF TakeReply
    <2>3. mnt' \in MountState
        BY <1>0, <2>2, DecryptedType, MountResult
    <2> QED
        BY <1>6, <2>1, <2>3 DEF TakeReply, TypeOK
<1>7. ASSUME NEW dg \in Datagrams, DropReply(dg, sock)
      PROVE  TypeOK'
    <2>1. spass' \in {"null"} \cup Secrets /\ deleted' \in BOOLEAN
        BY <1>0, <1>7, PumpType DEF DropReply
    <2> QED
        BY <1>7, <2>1 DEF DropReply, TypeOK
<1>8. CASE CloseBox
    <2>1. spass' \in {"null"} \cup Secrets /\ deleted' \in BOOLEAN
        BY <1>0, <1>8, PumpType DEF CloseBox
    <2> QED
        BY <1>8, <2>1 DEF CloseBox, TypeOK
<1>9. CASE OtherMessage
    <2>1. spass' \in {"null"} \cup Secrets /\ deleted' \in BOOLEAN
        BY <1>0, <1>9, PumpType DEF OtherMessage
    <2> QED
        BY <1>9, <2>1 DEF OtherMessage, TypeOK
<1>10. CASE Deadline
    BY <1>10 DEF Deadline, TypeOK
<1>11. ASSUME NEW dg \in Datagrams, Arrive(dg)
       PROVE  TypeOK'
    BY <1>11 DEF Arrive, TypeOK
<1>12. CASE UNCHANGED vars
    BY <1>12 DEF vars, TypeOK
<1> QED
    BY <1>1, <1>2, <1>3, <1>4, <1>5, <1>6, <1>7, <1>8, <1>9, <1>10, <1>11, <1>12
    DEF Next, Tick, Script, UdpReceived

\* WinMain up to the pump leaves well-typed variables.
LEMMA TypeInit == Init => TypeOK
<1> SUFFICES ASSUME Init
             PROVE  TypeOK
    OBVIOUS
<1>1. ini \in Settings
    BY GuestAssumption DEF Init
<1>2. mnt \in MountState
    BY DEF Init, MountState
<1>3. mountDone \in BOOLEAN
    BY DEF Init
<1> QED
    BY <1>1, <1>2, <1>3 DEF Init, TypeOK, Secrets

\* The types of the agent's variables, in particular of the records that the
\* mount path (mountNetworkShares, mount, remapViaSharedFolder) keeps updating.
THEOREM TypeCorrect == Spec => []TypeOK
BY TypeInit, TypeStep, PTL DEF Spec

-----------------------------------------------------------------------------
(* The life of the password *)

\* The password is erased exactly once, when nothing waits for it any more.
ErasedLast ==
    /\ deleted <=> spass = "wiped"
    /\ deleted => mountDone /\ scriptDone

\* The socket is open only while the agent waits for an answer.
SocketInv ==
    /\ spass # "null" => sock # "open"
    /\ sock = "closed" => spass # "null"

\* What the cached credentials come from.
CacheInv ==
    /\ spass = "null" /\ mnt.cache # "none" => mnt.once
    /\ mnt.cache = "empty" => mnt.once \/ spass \in {"empty", "wiped"}

SecretInv == ErasedLast /\ SocketInv /\ CacheInv /\ NoUseAfterErase

\* A handler that leaves spass, the socket and the scripts' password alone, and
\* the mount state or its credentials, keeps the invariant through the pump.
LEMMA QuietStep ==
    ASSUME TypeOK, SecretInv, Pump(spass),
           UNCHANGED <<scriptArg, mnt>>,
           sock' = sock \/ (spass = "null" /\ sock' = "open"),
           mountDone => mountDone', scriptDone => scriptDone'
    PROVE  SecretInv'
<1>1. spass \in {"null"} \cup Secrets /\ deleted \in BOOLEAN
    BY DEF TypeOK
<1>2. CASE spass' = "wiped" /\ deleted' = TRUE /\ mountDone' /\ scriptDone' /\ spass # "null"
    BY <1>2 DEF SecretInv, ErasedLast, SocketInv, CacheInv, NoUseAfterErase
<1>3. CASE spass' = spass /\ deleted' = deleted
    BY <1>3 DEF SecretInv, ErasedLast, SocketInv, CacheInv, NoUseAfterErase
<1> QED
    BY <1>1, <1>2, <1>3, PumpResult

\* The same for a tick of setupNetworkDrives: it mounts with spass, which is not
\* erased as long as the timer runs, and if there is none, via the shared folder.
LEMMA MountStep ==
    ASSUME TypeOK, SecretInv, Pump(spass), ~mountDone,
           UNCHANGED <<scriptArg, scriptDone>>,
           sock' = sock \/ (spass = "null" /\ sock' = "open"),
           mountDone' \in BOOLEAN,
           mnt' \in MountState,
           mnt.once => mnt'.once,
           \/ mnt'.cache = mnt.cache
           \/ mnt'.cache = CacheAfter(mnt.cache, spass) /\ (spass = "null" => mnt'.once)
    PROVE  SecretInv'
<1>1. /\ spass \in {"null"} \cup Secrets /\ deleted \in BOOLEAN
      /\ mnt.cache \in {"none"} \cup Secrets
    BY DEF TypeOK, MountState
<1>2. ~deleted /\ spass # "wiped" /\ mnt.cache # "wiped"
    BY DEF SecretInv, ErasedLast, NoUseAfterErase
<1>3. /\ mnt'.cache # "wiped"
      /\ spass = "null" /\ mnt'.cache # "none" => mnt'.once
      /\ mnt'.cache = "empty" => mnt'.once \/ spass = "empty"
    <2>1. CASE mnt'.cache = mnt.cache
        BY <1>1, <1>2, <2>1 DEF SecretInv, CacheInv
    <2>2. CASE mnt'.cache = CacheAfter(mnt.cache, spass) /\ (spass = "null" => mnt'.once)
        BY <1>1, <1>2, <2>2 DEF SecretInv, CacheInv, CacheAfter
    <2> QED
        BY <2>1, <2>2
<1>4. CASE spass' = "wiped" /\ deleted' = TRUE /\ mountDone' /\ scriptDone' /\ spass # "null"
    BY <1>3, <1>4 DEF SecretInv, ErasedLast, SocketInv, CacheInv, NoUseAfterErase
<1>5. CASE spass' = spass /\ deleted' = deleted
    BY <1>2, <1>3, <1>5 DEF SecretInv, ErasedLast, SocketInv, CacheInv, NoUseAfterErase
<1> QED
    BY <1>1, <1>4, <1>5, PumpResult

\* Every message handler keeps the invariant, whatever order timers, replies and
\* the message box give them.
LEMMA SecretStep ==
    ASSUME TypeOK, SecretInv, [Next]_vars
    PROVE  SecretInv'
<1>0. /\ spass \in {"null"} \cup Secrets /\ mnt \in MountState
      /\ mountDone \in BOOLEAN /\ scriptDone \in BOOLEAN
      /\ mountDone' \in BOOLEAN /\ mnt' \in MountState
    BY TypeStep DEF TypeOK
<1>1. CASE TickNoShares
    <2>1. FinishMount(mnt)
        BY <1>1 DEF TickNoShares
    <2>2. /\ mnt.once => mnt'.once
          /\ \/ mnt'.cache = mnt.cache
             \/ mnt'.cache = CacheAfter(mnt.cache, spass) /\ mnt'.once
        BY <1>0, <2>1, FinishResult
    <2> QED
        BY <1>0, <1>1, <2>2, MountStep DEF TickNoShares
<1>2. ASSUME NEW sent \in BOOLEAN, TickAsk(sent)
      PROVE  SecretInv'
    <2>1. /\ mnt.once => mnt'.once
          /\ \/ mnt'.cache = mnt.cache
             \/ mnt'.cache = CacheAfter(mnt.cache, spass) /\ mnt'.once
        <3>1. CASE FinishMount(mnt)
            BY <1>0, <3>1, FinishResult
        <3>2. CASE UNCHANGED mnt
            BY <3>2
        <3> QED
            BY <1>2, <3>1, <3>2 DEF TickAsk
    <2> QED
        BY <1>0, <1>2, <2>1, MountStep DEF TickAsk, QueryPasswordDaemon
<1>3. CASE TickMount
    <2>1. PICK o \in MountNetworkShares(mnt, spass) : FinishMount(o.m) \/ mnt' = o.m
        BY <1>3 DEF TickMount
    <2>2. /\ o.m \in MountState /\ o.m.once = mnt.once
          /\ o.m.cache = mnt.cache \/ o.m.cache = CacheAfter(mnt.cache, spass)
        BY <1>0, MountResult
    <2>3. /\ mnt.cache \in {"none"} \cup Secrets
          /\ CacheAfter(o.m.cache, spass) = CacheAfter(mnt.cache, spass) \/ o.m.cache = mnt.cache
        BY <1>0, <2>2, CacheResult DEF MountState, Secrets
    <2>4. /\ mnt.once => mnt'.once
          /\ mnt'.cache = mnt.cache \/ mnt'.cache = CacheAfter(mnt.cache, spass)
        <3>1. CASE mnt' = o.m
            BY <2>2, <3>1
        <3>2. CASE FinishMount(o.m)
            BY <2>2, <2>3, <3>2, FinishResult
        <3> QED
            BY <2>1, <3>1, <3>2
    <2> QED
        BY <1>0, <1>3, <2>4, MountStep DEF TickMount
<1>4. CASE ScriptFails
    BY <1>0, <1>4, QuietStep DEF ScriptFails
<1>5. CASE ScriptRuns
    <2>1. spass # "wiped" /\ spass # "null"
        BY <1>0, <1>5 DEF ScriptRuns, SecretInv, ErasedLast
    <2>2. CASE spass' = "wiped" /\ deleted' = TRUE /\ mountDone' /\ scriptDone'
        BY <1>5, <2>1, <2>2 DEF ScriptRuns, SecretInv, ErasedLast, SocketInv, CacheInv, NoUseAfterErase
    <2>3. CASE spass' = spass /\ deleted' = deleted
        BY <1>5, <2>1, <2>3 DEF ScriptRuns, SecretInv, ErasedLast, SocketInv, CacheInv, NoUseAfterErase
    <2> QED
        BY <1>0, <1>5, <2>2, <2>3, PumpResult DEF ScriptRuns
<1>6. ASSUME NEW dg \in Datagrams, sock = "open", TakeReply(dg, "closed")
      PROVE  SecretInv'
    <2> DEFINE sp == Decrypted(dg)
    <2>1. spass = "null" /\ ~deleted
        BY <1>6 DEF SecretInv, SocketInv, ErasedLast
    <2>2. sp \in Secrets /\ sp # "wiped" /\ sp # "null"
        BY DecryptedType DEF Secrets
    <2>3. PICK o \in MountNetworkShares(mnt, sp) : mnt' = o.m
        BY <1>6 DEF TakeReply
    <2> HIDE DEF sp
    <2>4. /\ mnt'.once = mnt.once
          /\ mnt'.cache = mnt.cache \/ mnt'.cache = CacheAfter(mnt.cache, sp)
        BY <1>0, <2>2, <2>3, MountResult
    <2>5. mnt'.cache # "wiped" /\ (mnt'.cache = "empty" => mnt'.once \/ sp = "empty")
        BY <2>1, <2>2, <2>4 DEF SecretInv, CacheInv, NoUseAfterErase, CacheAfter
    <2>6. sock' = "closed" /\ UNCHANGED scriptArg /\ Pump(sp)
        BY <1>6 DEF TakeReply, sp
    <2>7. CASE spass' = "wiped" /\ deleted' = TRUE /\ mountDone' /\ scriptDone'
        BY <2>5, <2>6, <2>7 DEF SecretInv, ErasedLast, SocketInv, CacheInv, NoUseAfterErase
    <2>8. CASE spass' = sp /\ deleted' = deleted
        BY <2>1, <2>2, <2>5, <2>6, <2>8
        DEF SecretInv, ErasedLast, SocketInv, CacheInv, NoUseAfterErase
    <2> QED
        BY <2>2, <2>6, <2>7, <2>8, PumpResult
<1>7. ASSUME NEW dg \in Datagrams, DropReply(dg, sock)
      PROVE  SecretInv'
    BY <1>0, <1>7, QuietStep DEF DropReply
<1>8. CASE CloseBox
    BY <1>0, <1>8, QuietStep DEF CloseBox
<1>9. CASE OtherMessage
    BY <1>0, <1>9, QuietStep DEF OtherMessage
<1>10. ASSUME UNCHANGED <<spass, sock, mnt, mountDone, scriptDone, scriptArg, deleted>>
       PROVE  SecretInv'
    BY <1>10 DEF SecretInv, ErasedLast, SocketInv, CacheInv, NoUseAfterErase
<1>11. CASE Deadline
    BY <1>10, <1>11 DEF Deadline
<1>12. ASSUME NEW dg \in Datagrams, Arrive(dg)
       PROVE  SecretInv'
    BY <1>10, <1>12 DEF Arrive
<1>13. CASE UNCHANGED vars
    BY <1>10, <1>13 DEF vars
<1> QED
    BY <1>1, <1>2, <1>3, <1>4, <1>5, <1>6, <1>7, <1>8, <1>9, <1>11, <1>12, <1>13
    DEF Next, Tick, Script, UdpReceived

\* The invariant holds when the pump starts.
LEMMA SecretInit == Init => SecretInv
<1> SUFFICES ASSUME Init
             PROVE  SecretInv
    OBVIOUS
<1>1. spass \in {"null", "empty"} /\ sock = "none" /\ deleted = FALSE /\ scriptArg = "none"
    BY DEF Init
<1>2. mnt.cache = "none"
    BY DEF Init
<1> QED
    BY <1>1, <1>2 DEF SecretInv, ErasedLast, SocketInv, CacheInv, NoUseAfterErase

\* The password is never used after SecureZeroMemory: neither a mount nor a run
\* script gets the erased string.
THEOREM NeverUsedAfterErase == Spec => []NoUseAfterErase
<1>1. SecretInv => NoUseAfterErase
    BY DEF SecretInv
<1> QED
    BY <1>1, TypeCorrect, SecretInit, SecretStep, PTL DEF Spec

\* Mounts use the password that was received, unless remapViaSharedFolder made
\* mount() convert the credentials before there was one.
THEOREM CacheCorrect == Spec => []CacheIsCurrent
<1>1. SecretInv => CacheIsCurrent
    BY DEF SecretInv, CacheInv, CacheIsCurrent
<1> QED
    BY <1>1, TypeCorrect, SecretInit, SecretStep, PTL DEF Spec

\* udpReceived closes the socket only after it has set the password.
THEOREM ClosedCorrect == Spec => []ClosedMeansAnswered
<1>1. SecretInv => ClosedMeansAnswered
    BY DEF SecretInv, SocketInv, ClosedMeansAnswered
<1> QED
    BY <1>1, TypeCorrect, SecretInit, SecretStep, PTL DEF Spec

-----------------------------------------------------------------------------
(* The user's folders *)

\* No step runs patchUserPaths for a home directory that was settled before, or a
\* second time for the shared folder.
LEMMA PatchesStep ==
    ASSUME TypeOK, PatchesCounted(mnt), [Next]_vars
    PROVE  PatchesCounted(mnt')
<1>0. spass \in {"null"} \cup Secrets /\ mnt \in MountState
    BY DEF TypeOK
<1>1. CASE FinishMount(mnt)
    BY <1>0, <1>1, FinishResult
<1>2. CASE UNCHANGED mnt
    BY <1>2
<1>3. CASE TickMount
    <2>1. PICK o \in MountNetworkShares(mnt, spass) : FinishMount(o.m) \/ mnt' = o.m
        BY <1>3 DEF TickMount
    <2>2. o.m \in MountState /\ PatchesCounted(o.m)
        BY <1>0, MountResult
    <2> QED
        BY <2>1, <2>2, FinishResult
<1>4. ASSUME NEW dg \in Datagrams, TakeReply(dg, "closed")
      PROVE  PatchesCounted(mnt')
    <2>1. PICK o \in MountNetworkShares(mnt, Decrypted(dg)) : mnt' = o.m
        BY <1>4 DEF TakeReply
    <2> QED
        BY <1>0, <2>1, DecryptedType, MountResult
<1> QED
    BY <1>1, <1>2, <1>3, <1>4
    DEF Next, Tick, Script, TickNoShares, TickAsk, ScriptFails, ScriptRuns, UdpReceived,
        DropReply, CloseBox, OtherMessage, Deadline, Arrive, vars

\* Nothing is counted when the pump starts.
LEMMA PatchesInit == Init => PatchesCounted(mnt)
<1> SUFFICES ASSUME Init
             PROVE  PatchesCounted(mnt)
    OBVIOUS
<1>1. mnt.patches = 0 /\ mnt.done = {} /\ ~mnt.once
    BY DEF Init
<1>2. Cardinality(HomeShares({})) \in Nat
    BY HomeSharesFinite
<1> QED
    BY <1>1, <1>2 DEF PatchesCounted

\* A mount state has settled no more home directories than there are.
LEMMA PatchesBounded ==
    ASSUME NEW m \in MountState, PatchesCounted(m)
    PROVE  m.patches <= Cardinality(HomeShares(Drives)) + 1
<1>1. m.done \in SUBSET Drives /\ m.patches \in Nat
    BY DEF MountState
<1>2. HomeShares(m.done) \subseteq HomeShares(Drives)
    BY <1>1 DEF HomeShares
<1>3. /\ IsFiniteSet(HomeShares(Drives)) /\ Cardinality(HomeShares(Drives)) \in Nat
      /\ Cardinality(HomeShares(m.done)) \in Nat
    BY <1>1, HomeSharesFinite
<1>4. Cardinality(HomeShares(m.done)) <= Cardinality(HomeShares(Drives))
    BY <1>2, <1>3, FS_Subset
<1> QED
    BY <1>1, <1>3, <1>4 DEF PatchesCounted

\* patchUserPaths runs, and kills explorer, at most once for each home directory in
\* shares.dat and once for the shared folder, however the retries of
\* setupNetworkDrives, a late reply and the fallback follow each other.
THEOREM ExplorerSpared == Spec => []ExplorerKilledRarely
<1>1. Init => PatchesCounted(mnt)
    BY PatchesInit
<1>2. TypeOK /\ PatchesCounted(mnt) /\ [Next]_vars => PatchesCounted(mnt)'
    BY PatchesStep DEF PatchesCounted
<1>3. TypeOK /\ PatchesCounted(mnt) => ExplorerKilledRarely
    BY PatchesBounded DEF TypeOK, ExplorerKilledRarely
<1> QED
    BY <1>1, <1>2, <1>3, TypeCorrect, PTL DEF Spec

-----------------------------------------------------------------------------
(* The attempts that asking leaves for mounting *)

\* As long as the timer of setupNetworkDrives runs, asking has used less than its
\* share of the attempts, and every later one went to mountNetworkShares.
AttemptsInv ==
    ~mountDone /\ ini.share # "bad" =>
        /\ spass = "null" => attempts < QueryTries
        /\ spass # "null" => attempts - (QueryTries - 1) <= mnt.attemptNo

\* Messages that have nothing to do with mounting.
LEMMA OtherAttempts ==
    ASSUME AttemptsInv, UNCHANGED <<ini, attempts, mnt, mountDone>>, spass' = spass \/ mountDone'
    PROVE  AttemptsInv'
BY DEF AttemptsInv

\* Every step keeps the count.
LEMMA AttemptsStep ==
    ASSUME TypeOK, SecretInv, AttemptsInv, [Next]_vars
    PROVE  AttemptsInv'
<1>0. /\ spass \in {"null"} \cup Secrets /\ mnt \in MountState /\ mnt.attemptNo \in Nat
      /\ attempts \in Nat /\ QueryTries \in Nat \ {0}
    BY GuestAssumption DEF TypeOK, MountState
<1>1. CASE TickNoShares
    <2>1. mountDone' = TRUE
        BY <1>1 DEF TickNoShares, FinishMount
    <2> QED
        BY <2>1 DEF AttemptsInv
<1>2. ASSUME NEW sent \in BOOLEAN, TickAsk(sent)
      PROVE  AttemptsInv'
    <2>1. CASE mountDone'
        BY <2>1 DEF AttemptsInv
    <2>2. CASE ~mountDone'
        <3>1. attempts' < QueryTries /\ UNCHANGED ini
            BY <1>2, <2>2 DEF TickAsk, FinishMount
        <3>2. spass' = "null"
            BY <1>0, <1>2, <2>2, PumpResult DEF TickAsk
        <3> QED
            BY <3>1, <3>2 DEF AttemptsInv
    <2> QED
        BY <2>1, <2>2
<1>3. CASE TickMount
    <2>1. CASE mountDone'
        BY <2>1 DEF AttemptsInv
    <2>2. CASE ~mountDone'
        <3>1. PICK o \in MountNetworkShares(mnt, spass) :
                  mnt' = o.m /\ attempts' = attempts + 1
            BY <1>3, <2>2 DEF TickMount, FinishMount
        <3>2. /\ ini.share # "bad" /\ spass # "null" /\ UNCHANGED ini /\ ~mountDone
              /\ Pump(spass)
            BY <1>3 DEF TickMount
        <3>3. mnt'.attemptNo = mnt.attemptNo + 1
            BY <1>0, <3>1, <3>2, MountResult
        <3>4. spass' = spass
            BY <1>0, <2>2, <3>2, PumpResult
        <3> QED
            BY <1>0, <3>1, <3>2, <3>3, <3>4 DEF AttemptsInv
    <2> QED
        BY <2>1, <2>2
<1>4. ASSUME NEW dg \in Datagrams, sock = "open", TakeReply(dg, "closed")
      PROVE  AttemptsInv'
    <2>1. CASE mountDone' \/ ini.share = "bad"
        BY <1>4, <2>1 DEF AttemptsInv, TakeReply
    <2>2. CASE ~mountDone' /\ ini.share # "bad"
        <3>1. spass = "null" /\ ~mountDone /\ attempts' = attempts /\ UNCHANGED ini
            BY <1>4, <2>2 DEF TakeReply, SecretInv, SocketInv
        <3>2. attempts < QueryTries
            BY <2>2, <3>1 DEF AttemptsInv
        <3>3. PICK o \in MountNetworkShares(mnt, Decrypted(dg)) : mnt' = o.m
            BY <1>4 DEF TakeReply
        <3>4. Decrypted(dg) \in Secrets /\ Decrypted(dg) # "null"
            BY DecryptedType DEF Secrets
        <3>5. mnt'.attemptNo = mnt.attemptNo + 1
            BY <1>0, <2>2, <3>3, <3>4, MountResult
        <3>6. spass' # "null"
            BY <1>4, <3>4, PumpResult DEF TakeReply
        <3> QED
            BY <1>0, <3>1, <3>2, <3>5, <3>6 DEF AttemptsInv
    <2> QED
        BY <2>1, <2>2
<1>5. ASSUME Pump(spass), UNCHANGED <<ini, attempts, mnt, mountDone>>
      PROVE  AttemptsInv'
    BY <1>0, <1>5, PumpResult, OtherAttempts
<1>6. CASE Script \/ CloseBox \/ OtherMessage
    BY <1>5, <1>6 DEF Script, ScriptFails, ScriptRuns, CloseBox, OtherMessage
<1>7. ASSUME NEW dg \in Datagrams, DropReply(dg, sock)
      PROVE  AttemptsInv'
    BY <1>5, <1>7 DEF DropReply
<1>8. ASSUME NEW dg \in Datagrams, Arrive(dg)
      PROVE  AttemptsInv'
    BY <1>8, OtherAttempts DEF Arrive
<1>9. CASE Deadline \/ UNCHANGED vars
    BY <1>9, OtherAttempts DEF Deadline, vars
<1> QED
    BY <1>1, <1>2, <1>3, <1>4, <1>6, <1>7, <1>8, <1>9 DEF Next, Tick, UdpReceived

\* The step in which setupNetworkDrives gives up although there was a password.
LEMMA GivesUp ==
    ASSUME TypeOK, AttemptsInv, [Next]_vars, MountTries - QueryTries >= PrinterDelay,
           mountDone', ~mountDone, ini.share # "bad", spass # "null", ~late
    PROVE  mnt'.attemptNo > PrinterDelay \/ mnt'.done = Drives
<1>0. /\ spass \in {"null"} \cup Secrets /\ mnt \in MountState /\ mnt.attemptNo \in Nat
      /\ attempts \in Nat /\ QueryTries \in Nat \ {0} /\ MountTries \in Nat /\ PrinterDelay \in Nat
    BY GuestAssumption DEF TypeOK, MountState
<1>1. TickMount
    BY DEF Next, Tick, Script, TickNoShares, TickAsk, ScriptFails, ScriptRuns, UdpReceived,
        TakeReply, DropReply, CloseBox, OtherMessage, Deadline, Arrive, vars
<1>outcome. PICK o \in MountNetworkShares(mnt, spass) :
          IF ~o.ok /\ attempts + 1 < MountTries
          THEN mountDone' = mountDone
          ELSE FinishMount(o.m)
    BY <1>1 DEF TickMount
<1>final. FinishMount(o.m) /\ ~(~o.ok /\ attempts + 1 < MountTries)
    BY <1>outcome, Zenon
<1>2. FinishMount(o.m) /\ (o.ok \/ attempts + 1 >= MountTries)
    BY <1>0, <1>final
<1>3. /\ o.m \in MountState
      /\ o.m.attemptNo = mnt.attemptNo + 1
      /\ o.ok => o.m.done = Drives
    BY <1>0, MountResult
<1>4. mnt'.attemptNo = o.m.attemptNo /\ mnt'.done = o.m.done
    BY <1>2, <1>3, FinishResult
<1>5. attempts - (QueryTries - 1) <= mnt.attemptNo
    BY DEF AttemptsInv
<1>6. CASE o.ok
    BY <1>3, <1>4, <1>6
<1>7. CASE attempts + 1 >= MountTries
    BY <1>0, <1>3, <1>4, <1>5, <1>7
<1> QED
    BY <1>2, <1>6, <1>7

\* With the code's limits (15 - 10 >= 4) printers are tried before the agent gives
\* up, however many of the attempts were spent on asking for the password.
THEOREM PrintersTried ==
    ASSUME MountTries - QueryTries >= PrinterDelay
    PROVE  Spec => PrintersGetTheirTry
<1>1. Init => AttemptsInv
    BY GuestAssumption DEF Init, AttemptsInv
<1>2. TypeOK /\ SecretInv /\ AttemptsInv /\ [Next]_vars => AttemptsInv'
    BY AttemptsStep
<1>3. TypeOK /\ SecretInv /\ [Next]_vars => SecretInv'
    BY SecretStep
<1>4. TypeOK /\ AttemptsInv /\ [Next]_vars
      => [(mountDone' /\ ~mountDone /\ ini.share # "bad" /\ spass # "null" /\ ~late)
            => (mnt'.attemptNo > PrinterDelay \/ mnt'.done = Drives)]_vars
    BY GivesUp
<1> QED
    BY <1>1, <1>2, <1>3, <1>4, TypeCorrect, SecretInit, PTL DEF Spec, PrintersGetTheirTry
=============================================================================
