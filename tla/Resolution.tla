----------------------------- MODULE Resolution -----------------------------
(***************************************************************************)
(* Setting the screen resolution in the guest (winres.c: setResolution and *)
(* what it calls, tmrResolution, and the WM_DEVICECHANGE branch of         *)
(* slxWindowProc): a timer calls setResolution until it returns 0, and     *)
(* every screen that is plugged in or out starts another timer.            *)
(***************************************************************************)
EXTENDS Integers, FiniteSets

CONSTANTS
    TimerIds,   \* what SetTimer returns
    NoTimer,    \* tmrRes = 0
    CallLimit,  \* 10: setResolution does nothing after that many calls
    MaxPlug     \* bound on hotplug events

ASSUME ResAssumption == NoTimer \notin TimerIds /\ CallLimit \in Nat /\ MaxPlug \in Nat

\* What the guest and its configuration are like: how many resolutions the ini
\* file has; _preferPhysicalScreen; whether the current layout can be queried;
\* and for each way of changing it (modern: the display configuration API)
\* whether it is missing ("no"), does not help, or works.  Only an old Windows
\* without EnumDisplayDevicesW lacks the multi-screen API or fails the query, and
\* it has no display configuration API.
Ways == {"no", "broken", "works"}
Worlds == {w \in [configured : 0..2, prefer : BOOLEAN, queryable : BOOLEAN,
                  modern : Ways, multi : Ways, vmware : Ways, legacy : {"broken", "works"}] :
             /\ w.queryable \/ w.multi = "no"
             /\ w.multi = "no" => w.modern = "no"}

VARIABLES
    world,
    timers,     \* the timers that are running
    tmrRes,     \* the timer the program remembers
    callCount,  \* setResolution: static callCount
    nres,       \* setResolution: static nres
    fine,       \* the layout is the configured one
    real,       \* a screen is connected to a physical GPU
    phys,       \* the physical screens are the ones in use
    plugs       \* hotplug events so far

vars == <<world, timers, tmrRes, callCount, nres, fine, real, phys, plugs>>

TypeOK ==
    /\ world \in Worlds
    /\ timers \subseteq TimerIds
    /\ tmrRes \in TimerIds \cup {NoTimer}
    /\ callCount \in Int
    /\ nres \in -1..2
    /\ fine \in BOOLEAN
    /\ real \in BOOLEAN
    /\ phys \in BOOLEAN
    /\ plugs \in 0..MaxPlug

\* WinMain: tmrRes = SetTimer(...), which can fail.
Init ==
    /\ world \in Worlds
    /\ tmrRes \in TimerIds \cup {NoTimer}
    /\ timers = {tmrRes} \ {NoTimer}
    /\ callCount = -1
    /\ nres = 0
    /\ fine \in BOOLEAN
    /\ real \in BOOLEAN
    /\ phys = FALSE
    /\ plugs = 0

-----------------------------------------------------------------------------
(* setResolution: each operator gives the set of possible results *)

\* A way of changing the layout: ENOTSUP when it is missing, otherwise it may
\* claim success or not, and the layout is right afterwards if it works.
Way(w) ==
    IF w = "no" THEN {[ret |-> "ENOTSUP", fine |-> fine]}
    ELSE IF w = "works" THEN {[ret |-> "0", fine |-> TRUE]}
    ELSE {[ret |-> r, fine |-> fine] : r \in {"0", "EAGAIN"}}

\* An old Windows (see Worlds) is only asked for its first screen.
SeveralScreens == world.configured > 1 /\ world.multi # "no"

\* setResWinLegacy can only do a single screen.  With more than one, success is
\* taken for failure at first, so that the other ways get another chance.
SetResLegacy(count) ==
    {[o EXCEPT !.ret = IF @ = "0" /\ world.configured > 1 /\ count <= 2 THEN "EAGAIN" ELSE @] :
        o \in Way(IF SeveralScreens THEN "broken" ELSE world.legacy)}

OrElse(first, second) == {o \in first : o.ret # "ENOTSUP"} \cup
                         IF \E o \in first : o.ret = "ENOTSUP" THEN second ELSE {}

\* Plausible bug: the multi-screen API is always asked first and never skipped.
SetResMultiOnly(count) == OrElse(Way(world.multi), SetResLegacy(count))

\* The switch over callCount % 3 with its fall-throughs.
SetResSwitch(count) ==
    LET legacy == SetResLegacy(count)
        vmware == OrElse(Way(world.vmware), legacy)
        multi  == OrElse(Way(world.multi), vmware)
    IN IF count % 3 = 0 THEN multi ELSE IF count % 3 = 1 THEN vmware ELSE legacy

\* setResModern finds a physical screen it can switch to.
ModernApplies == world.prefer /\ world.modern # "no" /\ real

\* isResolutionFine
Check == IF ~world.queryable THEN "ENOTSUP" ELSE IF fine THEN "0" ELSE "EAGAIN"

Result(done, count, n, f, p) == [done |-> done, callCount |-> count, nres |-> n, fine |-> f, phys |-> p]

\* setResModern returns 0 whether or not SetDisplayConfig worked.
SetResModern ==
    IF world.modern = "works" THEN {Result(TRUE, -1, nres, f, TRUE) : f \in BOOLEAN}
    ELSE {Result(TRUE, -1, nres, fine, phys)}

\* Plausible bug: a resolution is counted before it is validated.
ResolutionsOffByOne == world.configured + 1

\* The resolutions in the ini file; without one, the configuration is invalid.
Resolutions == IF world.configured = 0 THEN -1 ELSE world.configured

\* setResVMware starts a program and waits for it.
RunsVMware ==
    LET count == callCount + 1
    IN /\ nres # -1 /\ count <= CallLimit /\ ~ModernApplies
       /\ world.configured # 0 /\ Check # "0"
       /\ world.vmware # "no"
       /\ count % 3 = 1 \/ (count % 3 = 0 /\ world.multi = "no")

\* setResolution; done: it returned 0.
SetResolution ==
    LET count == callCount + 1
        n == IF nres # 0 THEN nres ELSE Resolutions
    IN IF nres = -1 \/ count > CallLimit THEN {Result(TRUE, count, nres, fine, phys)}
       ELSE IF ModernApplies THEN SetResModern
       ELSE IF n = -1 \/ Check = "0" THEN {Result(TRUE, count, n, fine, phys)}
       ELSE {Result(o.ret = "0" /\ Check = "ENOTSUP", count, n, o.fine, phys) : o \in SetResSwitch(count)}

-----------------------------------------------------------------------------
(* The handlers *)

\* Plausible bug: only the timer that is remembered is killed.
TickKillsOne(t) ==
    /\ t \in timers
    /\ \E r \in SetResolution :
        /\ callCount' = r.callCount
        /\ nres' = r.nres
        /\ fine' = r.fine
        /\ phys' = r.phys
        /\ timers' = IF r.done THEN timers \ {tmrRes} ELSE timers
        /\ tmrRes' = IF r.done THEN NoTimer ELSE tmrRes
    /\ UNCHANGED <<world, real, plugs>>

\* tmrResolution: once setResolution returns 0, kill the timer that is
\* remembered and the one that fired.
Tick(t) ==
    /\ t \in timers
    /\ \E r \in SetResolution :
        /\ callCount' = r.callCount
        /\ nres' = r.nres
        /\ fine' = r.fine
        /\ phys' = r.phys
        /\ timers' = IF r.done THEN timers \ {tmrRes, t} ELSE timers
        /\ tmrRes' = IF r.done THEN NoTimer ELSE tmrRes
    /\ UNCHANGED <<world, real, plugs>>

\* Plausible bug: the old timer's id stays remembered while a timer runs.
HotplugKeepsId(t) ==
    /\ plugs < MaxPlug
    /\ plugs' = plugs + 1
    /\ t \notin timers
    /\ timers' = (timers \ {tmrRes}) \cup ({t} \ {NoTimer})
    /\ tmrRes' = IF tmrRes = NoTimer THEN t ELSE tmrRes
    /\ real' \in BOOLEAN
    /\ fine' \in BOOLEAN
    /\ phys' \in {FALSE, phys /\ real'}
    /\ UNCHANGED <<world, callCount, nres>>

\* WM_DEVICECHANGE, a screen comes or goes.  KillTimer(hwnd, tmrRes) names the
\* wrong window (the timer belongs to none), so the old timer keeps running.
\* SetTimer can fail.
Hotplug(t) ==
    /\ plugs < MaxPlug
    /\ plugs' = plugs + 1
    /\ t \notin timers
    /\ timers' = timers \cup ({t} \ {NoTimer})
    /\ tmrRes' = t
    /\ real' \in BOOLEAN
    /\ fine' \in BOOLEAN
    /\ phys' \in {FALSE, phys /\ real'}
    /\ UNCHANGED <<world, callCount, nres>>

\* While setResVMware waits, execute dispatches sent messages, WM_DEVICECHANGE among
\* them: the timer n that it starts is the one that is remembered when
\* setResolution returns, and killed if it returns 0.
TickInterrupted(t, n) ==
    /\ t \in timers
    /\ RunsVMware
    /\ plugs < MaxPlug
    /\ plugs' = plugs + 1
    /\ n \notin timers
    /\ \E r \in SetResolution :
        /\ callCount' = r.callCount
        /\ nres' = r.nres
        /\ timers' = IF r.done THEN timers \ {t} ELSE timers \cup ({n} \ {NoTimer})
        /\ tmrRes' = IF r.done THEN NoTimer ELSE n
    /\ real' \in BOOLEAN
    /\ fine' \in BOOLEAN
    /\ phys' \in {FALSE, phys /\ real'}
    /\ UNCHANGED world

Next ==
    \/ \E t \in TimerIds : Tick(t)
    \/ \E t \in TimerIds \cup {NoTimer} : Hotplug(t)
    \/ \E t \in TimerIds, n \in TimerIds \cup {NoTimer} : TickInterrupted(t, n)

\* Running timers fire; screens come and go as they like.
Fairness == \A t \in TimerIds : WF_vars(Tick(t))

Spec == Init /\ [][Next]_vars /\ Fairness

-----------------------------------------------------------------------------
(* Properties *)

\* The timer the program remembers is running, although timers that were started
\* by hotplug events outlive it or kill it: the program never waits for a timer
\* that is gone.
CurrentTimerLives == tmrRes # NoTimer => tmrRes \in timers

\* All timers stop, also those a hotplug event left behind.
AllTimersStop == <>[](timers = {})

\* If one of the ways to change the resolution works and the layout can be
\* queried, the configured layout is reached (when no screen comes or goes):
\* the rotation tries every way, with its fall-throughs, before the call limit.
WorkingWayFound ==
    (/\ [](plugs = 0) /\ timers # {}
     /\ world.queryable /\ world.configured > 0 /\ ~ModernApplies
     /\ \/ world.multi = "works" \/ world.vmware = "works"
        \/ world.legacy = "works" /\ ~SeveralScreens) => <>fine

\* "All good, reset counter for next hotplug event": with preferPhysicalScreen,
\* a physical screen that is plugged in is switched to by the timer it starts.
PhysicalScreenUsed ==
    (world.prefer /\ world.modern = "works" /\ real /\ plugs > 0 /\ timers # {})
        ~> (phys \/ ~real)
=============================================================================
