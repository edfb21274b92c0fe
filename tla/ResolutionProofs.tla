-------------------------- MODULE ResolutionProofs --------------------------
(***************************************************************************)
(* What holds of Resolution for every number of timers and hotplug events. *)
(***************************************************************************)
EXTENDS Resolution, TLAPS

Outcomes == [ret : {"0", "EAGAIN", "ENOTSUP"}, fine : BOOLEAN]

Results == [done : BOOLEAN, callCount : Int, nres : -1..2, fine : BOOLEAN, phys : BOOLEAN]

-----------------------------------------------------------------------------
(* The operators of setResolution *)

\* Each way of changing the layout returns an error code and leaves a layout.
LEMMA WayResult ==
    ASSUME fine \in BOOLEAN, NEW w
    PROVE  Way(w) \subseteq Outcomes
<1> SUFFICES ASSUME NEW o \in Way(w)
             PROVE  o \in Outcomes
    OBVIOUS
<1>1. CASE w = "no"
    BY <1>1 DEF Way, Outcomes
<1>2. CASE w = "works"
    <2>1. o = [ret |-> "0", fine |-> TRUE]
        BY <1>2 DEF Way
    <2> QED
        BY <2>1, Zenon DEF Outcomes
<1>3. CASE w \notin {"no", "works"}
    <2>1. PICK r \in {"0", "EAGAIN"} : o = [ret |-> r, fine |-> fine]
        BY <1>3 DEF Way
    <2> QED
        BY <2>1 DEF Outcomes
<1> QED
    BY <1>1, <1>2, <1>3

\* The legacy call returns one too, with success turned into failure at first.
LEMMA LegacyResult ==
    ASSUME fine \in BOOLEAN, NEW count
    PROVE  SetResLegacy(count) \subseteq Outcomes
<1> DEFINE W == Way(IF SeveralScreens THEN "broken" ELSE world.legacy)
<1>1. W \subseteq Outcomes
    BY WayResult
<1> HIDE DEF W
<1>2. ASSUME NEW o \in W
      PROVE  [o EXCEPT !.ret = IF @ = "0" /\ world.configured > 1 /\ count <= 2 THEN "EAGAIN" ELSE @]
                \in Outcomes
    BY <1>1, <1>2 DEF Outcomes
<1> QED
    BY <1>2 DEF SetResLegacy, W

\* So does the switch with its fall-throughs.
LEMMA SwitchResult ==
    ASSUME fine \in BOOLEAN, NEW count
    PROVE  SetResSwitch(count) \subseteq Outcomes
<1>1. /\ SetResLegacy(count) \subseteq Outcomes
      /\ Way(world.vmware) \subseteq Outcomes
      /\ Way(world.multi) \subseteq Outcomes
    BY WayResult, LegacyResult
<1>2. ASSUME NEW A, NEW B, A \subseteq Outcomes, B \subseteq Outcomes
      PROVE  OrElse(A, B) \subseteq Outcomes
    BY <1>2 DEF OrElse
<1>3. OrElse(Way(world.vmware), SetResLegacy(count)) \subseteq Outcomes
    BY <1>1, <1>2
<1>4. OrElse(Way(world.multi), OrElse(Way(world.vmware), SetResLegacy(count))) \subseteq Outcomes
    BY <1>1, <1>2, <1>3
<1> QED
    BY <1>1, <1>3, <1>4 DEF SetResSwitch

\* setResolution returns values of the static variables' types.
LEMMA SetResolutionResult ==
    ASSUME TypeOK, NEW r \in SetResolution
    PROVE  r \in Results
<1> DEFINE count == callCount + 1
           n == IF nres # 0 THEN nres ELSE Resolutions
<1>0. /\ count \in Int /\ fine \in BOOLEAN /\ phys \in BOOLEAN /\ nres \in -1..2
      /\ world.configured \in 0..2
    BY DEF TypeOK, Worlds
<1>1. n \in -1..2
    BY <1>0 DEF Resolutions
<1> HIDE DEF count, n
<1>2. ASSUME NEW b \in BOOLEAN, NEW k \in Int, NEW i \in -1..2, NEW f \in BOOLEAN, NEW p \in BOOLEAN
      PROVE  Result(b, k, i, f, p) \in Results
    BY DEF Result, Results
<1>3. ASSUME NEW m \in SetResModern
      PROVE  m \in Results
    <2>1. \/ \E f \in BOOLEAN : m = Result(TRUE, -1, nres, f, TRUE)
          \/ m = Result(TRUE, -1, nres, fine, phys)
        BY <1>3 DEF SetResModern
    <2>2. ASSUME NEW f \in BOOLEAN
          PROVE  Result(TRUE, -1, nres, f, TRUE) \in Results
        <3>1. TRUE \in BOOLEAN /\ -1 \in Int
            OBVIOUS
        <3> QED
            BY <1>0, <3>1, Zenon DEF Result, Results
    <2>3. Result(TRUE, -1, nres, fine, phys) \in Results
        <3>1. TRUE \in BOOLEAN /\ -1 \in Int
            OBVIOUS
        <3> QED
            BY <1>0, <3>1, Zenon DEF Result, Results
    <2> QED
        BY <2>1, <2>2, <2>3
<1>4. ASSUME NEW o \in SetResSwitch(count)
      PROVE  Result(o.ret = "0" /\ Check = "ENOTSUP", count, n, o.fine, phys) \in Results
    <2>1. o.fine \in BOOLEAN
        BY <1>0, SwitchResult DEF Outcomes
    <2> QED
        BY <1>0, <1>1, <1>2, <2>1
<1>5. \/ r = Result(TRUE, count, nres, fine, phys)
      \/ r \in SetResModern
      \/ r = Result(TRUE, count, n, fine, phys)
      \/ \E o \in SetResSwitch(count) :
            r = Result(o.ret = "0" /\ Check = "ENOTSUP", count, n, o.fine, phys)
    BY DEF SetResolution, count, n
<1> QED
    BY <1>0, <1>1, <1>2, <1>3, <1>4, <1>5

-----------------------------------------------------------------------------
\* Timers, counters and flags keep their types through ticks and hotplug events.
THEOREM TypeCorrect == Spec => []TypeOK
<1>1. ASSUME Init
      PROVE  TypeOK
    <2>1. /\ timers \subseteq TimerIds /\ plugs \in 0..MaxPlug
          /\ callCount \in Int /\ nres \in -1..2
        BY <1>1, ResAssumption DEF Init
    <2> QED
        BY <1>1, <2>1, Zenon DEF Init, TypeOK
<1>2. ASSUME TypeOK, NEW t \in TimerIds, Tick(t)
      PROVE  TypeOK'
    <2>1. PICK r \in SetResolution :
              /\ callCount' = r.callCount /\ nres' = r.nres
              /\ fine' = r.fine /\ phys' = r.phys
              /\ timers' = IF r.done THEN timers \ {tmrRes, t} ELSE timers
              /\ tmrRes' = IF r.done THEN NoTimer ELSE tmrRes
        BY <1>2 DEF Tick
    <2>2. r \in Results
        BY <1>2, SetResolutionResult
    <2> QED
        BY <1>2, <2>1, <2>2 DEF Tick, TypeOK, Results
<1>3. ASSUME TypeOK, NEW t \in TimerIds \cup {NoTimer}, Hotplug(t)
      PROVE  TypeOK'
    <2>1. timers' \subseteq TimerIds
        BY <1>3 DEF Hotplug, TypeOK
    <2>2. plugs' \in 0..MaxPlug
        BY <1>3, ResAssumption DEF Hotplug, TypeOK
    <2>3. phys' \in BOOLEAN
        BY <1>3 DEF Hotplug, TypeOK
    <2> QED
        BY <1>3, <2>1, <2>2, <2>3 DEF Hotplug, TypeOK
<1>4. ASSUME TypeOK, NEW t \in TimerIds, NEW n \in TimerIds \cup {NoTimer}, TickInterrupted(t, n)
      PROVE  TypeOK'
    <2>1. PICK r \in SetResolution :
              /\ callCount' = r.callCount /\ nres' = r.nres
              /\ timers' = IF r.done THEN timers \ {t} ELSE timers \cup ({n} \ {NoTimer})
              /\ tmrRes' = IF r.done THEN NoTimer ELSE n
        BY <1>4 DEF TickInterrupted
    <2>2. callCount' \in Int /\ nres' \in -1..2
        BY <1>4, <2>1, SetResolutionResult DEF Results
    <2>3. timers' \subseteq TimerIds /\ tmrRes' \in TimerIds \cup {NoTimer}
        BY <1>4, <2>1 DEF TypeOK
    <2>4. plugs' \in 0..MaxPlug
        BY <1>4, ResAssumption DEF TickInterrupted, TypeOK
    <2>5. phys' \in BOOLEAN
        BY <1>4 DEF TickInterrupted, TypeOK
    <2> QED
        BY <1>4, <2>2, <2>3, <2>4, <2>5 DEF TickInterrupted, TypeOK
<1>5. ASSUME TypeOK, UNCHANGED vars
      PROVE  TypeOK'
    BY <1>5 DEF TypeOK, vars
<1>6. TypeOK /\ [Next]_vars => TypeOK'
    BY <1>2, <1>3, <1>4, <1>5 DEF Next
<1> QED
    BY <1>1, <1>6, PTL DEF Spec

\* The timer id that the program remembers is never stale: a timer that ends
\* setResolution's retries also makes tmrResolution forget it, although hotplug
\* events leave older timers running.
THEOREM TimerCorrect == Spec => []CurrentTimerLives
<1>1. Init => CurrentTimerLives
    BY DEF Init, CurrentTimerLives
<1>2. ASSUME CurrentTimerLives, NEW t \in TimerIds, Tick(t)
      PROVE  CurrentTimerLives'
    BY <1>2 DEF Tick, CurrentTimerLives
<1>3. ASSUME CurrentTimerLives, NEW t \in TimerIds \cup {NoTimer}, Hotplug(t)
      PROVE  CurrentTimerLives'
    BY <1>3 DEF Hotplug, CurrentTimerLives
<1>4. ASSUME CurrentTimerLives, NEW t \in TimerIds, NEW n \in TimerIds \cup {NoTimer},
             TickInterrupted(t, n)
      PROVE  CurrentTimerLives'
    BY <1>4 DEF TickInterrupted, CurrentTimerLives
<1>5. CurrentTimerLives /\ [Next]_vars => CurrentTimerLives'
    BY <1>2, <1>3, <1>4 DEF Next, CurrentTimerLives, vars
<1> QED
    BY <1>1, <1>5, PTL DEF Spec
=============================================================================
