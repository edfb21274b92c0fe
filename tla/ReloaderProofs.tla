---------------------------- MODULE ReloaderProofs ----------------------------
(***************************************************************************)
(* iptables-reloader-worker, for any number of rule files, reload           *)
(* processes, edits, crashes and reloads that outlast the wait of the next. *)
(*                                                                         *)
(* Until one does, reloads exclude each other (ReloadsExclusive): while a   *)
(* reload works on the chains the WAIT directory exists, and no second      *)
(* reload works beside it (WaitInv); a crash ends all of them and leaves    *)
(* WAIT behind, which only delays the next.                                 *)
(*                                                                         *)
(* Every change is read (ChangesRead), whatever overlaps: LOCK says that a  *)
(* reload is about to start that has read nothing yet (LockInv), so that    *)
(* the event of a change may be dropped when LOCK is there (ReadInv).       *)
(*                                                                         *)
(* No change is lost but in the ways lapse names (ChangesKept).  As long as *)
(* it names none, at most one reload works (OverlapInv), and at each point  *)
(* of each loop it is known what the chains, the collected rules and the    *)
(* cache hold of the files passed so far (DataInv), in particular that the  *)
(* cache, where it exists, describes the chains, so that a reload that      *)
(* finds no change is right to leave them alone.  A flush with no other     *)
(* reload at work establishes all this anew.                                *)
(***************************************************************************)
EXTENDS Reloader, FiniteSetTheorems, WellFoundedInduction, TLAPS

Places == {"none", "sleep", "wait"} \cup Running

\* The empty sequence is a sequence over any set.
LEMMA EmptyType ==
    ASSUME NEW S
    PROVE  <<>> \in Seq(S)
OBVIOUS

\* Concatenation with nothing.
LEMMA ConcatEmpty ==
    ASSUME NEW S, NEW s \in Seq(S)
    PROVE  s \o <<>> = s
OBVIOUS

\* Concatenation keeps the type.
LEMMA ConcatType ==
    ASSUME NEW S, NEW s \in Seq(S), NEW t \in Seq(S)
    PROVE  s \o t \in Seq(S)
OBVIOUS

\* A file that can be read contributes its content to the cache.
LEMMA ContentType ==
    ASSUME TypeOK, NEW f \in Files
    PROVE  Content(f) \in Seq(Contents)
<1>1. rules[f] \in Contents \cup {Absent}
    BY DEF TypeOK
<1>2. CASE rules[f] = Absent
    BY <1>2 DEF Content
<1>3. CASE rules[f] # Absent
    <2>1. rules[f] \in Contents
        BY <1>1, <1>3
    <2>2. Content(f) = <<rules[f]>>
        BY <1>3 DEF Content
    <2> QED
        BY <2>1, <2>2
<1> QED
    BY <1>2, <1>3

\* A jump of a reload keeps the types of its place and of its names.
LEMMA GotoType ==
    ASSUME TypeOK, NEW r \in Reloads, NEW l \in Places, NEW names \in SUBSET Files, Goto(r, l, names)
    PROVE  pc' \in [Reloads -> Places] /\ todo' \in [Reloads -> SUBSET Files]
BY DEF TypeOK, Goto, Places

\* The names in rules.d are files.
LEMMA GlobType == Glob \in SUBSET Files
BY DEF Glob

\* An event keeps the number of events within its bound.
LEMMA RaiseType ==
    ASSUME TypeOK, Raise
    PROVE  events' \in 0 .. MaxEvents /\ unread' \in BOOLEAN
BY ReloaderAssumption DEF TypeOK, Raise

\* Every step keeps the types.
LEMMA TypeStep ==
    ASSUME TypeOK, [Next]_vars
    PROVE  TypeOK'
<1>0. /\ pc \in [Reloads -> Places] /\ todo \in [Reloads -> SUBSET Files]
      /\ rules \in [Files -> Contents \cup {Absent}]
      /\ chains \in Seq(Contents) /\ cache \in Seq(Contents) /\ new \in Seq(Contents)
    BY DEF TypeOK, Places
<1>1. CASE Worker
    <2>1. events' \in 0 .. MaxEvents
        BY <1>1, ReloaderAssumption DEF Worker, TypeOK
    <2>2. pc' \in [Reloads -> Places] /\ lock' \in BOOLEAN
        BY <1>0, <1>1 DEF Worker, Spawn, TypeOK, Places
    <2> QED
        BY <1>1, <2>1, <2>2 DEF Worker, TypeOK, Places
<1>2. CASE Start
    <2>1. pc' \in [Reloads -> Places] /\ lock' \in BOOLEAN
        BY <1>0, <1>2 DEF Start, Spawn, Places
    <2>2. cache' \in Seq(Contents) /\ up' \in BOOLEAN
        BY <1>2 DEF Start
    <2> QED
        BY <1>2, <2>1, <2>2 DEF Start, TypeOK, Places
<1>3. CASE Crash
    <2>1. 0 \in 0 .. MaxEvents /\ acts' \in 0 .. MaxActs
        BY <1>3, ReloaderAssumption DEF Crash, TypeOK
    <2>2. pc' \in [Reloads -> Places] /\ todo' \in [Reloads -> SUBSET Files]
        BY <1>3 DEF Crash, Places
    <2> QED
        BY <1>3, <2>1, <2>2 DEF Crash, TypeOK, Places
<1>4. ASSUME NEW f \in Files, Edit(f)
      PROVE  TypeOK'
    <2>1. acts' \in 0 .. MaxActs
        BY <1>4, ReloaderAssumption DEF Edit, TypeOK
    <2>2. rules' \in [Files -> Contents \cup {Absent}]
        BY <1>0, <1>4 DEF Edit
    <2>3. events' \in 0 .. MaxEvents /\ unread' \in BOOLEAN
        BY <1>4, RaiseType DEF Edit
    <2>4. lapse' \in {"none", "late", "overlap", "emptied"}
        BY <1>4 DEF Edit, TypeOK
    <2> QED
        BY <1>4, <2>1, <2>2, <2>3, <2>4 DEF Edit, TypeOK
<1>5. ASSUME NEW r \in Reloads, Reload(r)
      PROVE  TypeOK'
    <2>0. /\ "collect" \in Places /\ "apply" \in Places /\ "run" \in Places /\ "rebuild" \in Places
          /\ "none" \in Places /\ "wait" \in Places /\ {} \in SUBSET Files
          /\ todo[r] \in SUBSET Files /\ \A f : todo[r] \ {f} \in SUBSET Files
        BY <1>0 DEF Places, Running
    <2>1. CASE WakeUp(r)
        <3>1. pc' \in [Reloads -> Places] /\ todo' \in [Reloads -> SUBSET Files]
            BY <2>0, <2>1, GotoType DEF WakeUp
        <3> QED
            BY <2>1, <3>1 DEF WakeUp, TypeOK, Places
    <2>2. CASE TakeWait(r) \/ GiveUpWaiting(r)
        <3>1. Begin(r)
            BY <2>2 DEF TakeWait, GiveUpWaiting
        <3>2. Goto(r, "collect", Glob)
            BY <3>1 DEF Begin
        <3>3. pc' \in [Reloads -> Places] /\ todo' \in [Reloads -> SUBSET Files]
            BY <2>0, <3>2, GotoType, GlobType
        <3>4. new' \in Seq(Contents) /\ wait' \in BOOLEAN /\ lock' \in BOOLEAN /\ unread' \in BOOLEAN
            <4>1. new' = <<>> /\ wait' = TRUE /\ lock' = FALSE /\ unread' = FALSE
                BY <3>1 DEF Begin
            <4> QED
                BY <4>1, EmptyType
        <3>5. acts' \in 0 .. MaxActs
            BY <2>2, ReloaderAssumption DEF TakeWait, GiveUpWaiting, TypeOK
        <3>6. overrun' \in BOOLEAN
            BY <2>2 DEF TakeWait, GiveUpWaiting, TypeOK
        <3>7. lapse' \in {"none", "late", "overlap", "emptied"}
            BY <3>1 DEF Begin, TypeOK
        <3> QED
            BY <3>1, <3>3, <3>4, <3>5, <3>6, <3>7 DEF Begin, TypeOK, Places
    <2>3. CASE Collect(r)
        <3>1. PICK f \in todo[r] : new' = new \o Content(f) /\ todo' = [todo EXCEPT ![r] = @ \ {f}]
            BY <2>3 DEF Collect
        <3>2. Content(f) \in Seq(Contents)
            BY <2>0, <3>1, ContentType
        <3>3. new' \in Seq(Contents)
            BY <1>0, <3>1, <3>2, ConcatType
        <3>4. todo' \in [Reloads -> SUBSET Files]
            BY <1>0, <2>0, <3>1
        <3> QED
            BY <2>3, <3>3, <3>4 DEF Collect, TypeOK
    <2>4. CASE NoChange(r)
        <3>1. pc' \in [Reloads -> Places] /\ todo' \in [Reloads -> SUBSET Files]
            BY <2>0, <2>4, GotoType DEF NoChange
        <3>2. new' \in Seq(Contents) /\ wait' \in BOOLEAN
            <4>1. new' = <<>> /\ wait' = FALSE
                BY <2>4 DEF NoChange
            <4> QED
                BY <4>1, EmptyType
        <3> QED
            BY <2>4, <3>1, <3>2 DEF NoChange, TypeOK, Places
    <2>5. CASE Flush(r)
        <3>1. pc' \in [Reloads -> Places] /\ todo' \in [Reloads -> SUBSET Files]
            BY <2>0, <2>5, GotoType, GlobType DEF Flush
        <3>2. chains' \in Seq(Contents)
            BY <2>5 DEF Flush
        <3>3. lapse' \in {"none", "late", "overlap", "emptied"}
            BY <2>5 DEF Flush, TypeOK
        <3> QED
            BY <2>5, <3>1, <3>2, <3>3 DEF Flush, TypeOK, Places
    <2>6. CASE Sed(r)
        <3>1. PICK f \in todo[r] :
                  \/ rules[f] = Absent /\ Goto(r, "apply", todo[r] \ {f}) /\ UNCHANGED <<rules, events, unread>>
                  \/ rules[f] \in Bad /\ Disable(f) /\ Goto(r, "apply", todo[r] \ {f})
                  \/ /\ rules[f] \in Contents /\ rules' = [rules EXCEPT ![f] = Patch[rules[f]]]
                     /\ Raise /\ Goto(r, "run", todo[r])
            BY <2>6 DEF Sed
        <3>2. pc' \in [Reloads -> Places] /\ todo' \in [Reloads -> SUBSET Files]
            BY <2>0, <3>1, GotoType
        <3>3. rules' \in [Files -> Contents \cup {Absent}]
            BY <1>0, <3>1, ReloaderAssumption DEF Disable
        <3>4. events' \in 0 .. MaxEvents /\ unread' \in BOOLEAN
            BY <3>1, RaiseType DEF Disable, TypeOK
        <3> QED
            BY <2>6, <3>2, <3>3, <3>4 DEF Sed, TypeOK, Places
    <2>7. CASE Run(r)
        <3>1. PICK f \in todo[r] :
                  /\ Goto(r, "apply", todo[r] \ {f})
                  /\ \/ rules[f] = Absent /\ UNCHANGED <<rules, chains, events, unread>>
                     \/ rules[f] \in Bad /\ chains' \in {chains, Append(chains, rules[f])} /\ Disable(f)
                     \/ /\ rules[f] \in Contents \ Bad /\ chains' = Append(chains, rules[f])
                        /\ UNCHANGED <<rules, events, unread>>
            BY <2>7 DEF Run
        <3>2. pc' \in [Reloads -> Places] /\ todo' \in [Reloads -> SUBSET Files]
            BY <2>0, <3>1, GotoType
        <3>3. rules' \in [Files -> Contents \cup {Absent}]
            BY <1>0, <3>1 DEF Disable
        <3>4. chains' \in Seq(Contents)
            <4>1. chains' = chains \/ (rules[f] \in Contents /\ chains' = Append(chains, rules[f]))
                BY <3>1, ReloaderAssumption
            <4>2. rules[f] \in Contents => Append(chains, rules[f]) \in Seq(Contents)
                BY <1>0
            <4> QED
                BY <1>0, <4>1, <4>2
        <3>5. events' \in 0 .. MaxEvents /\ unread' \in BOOLEAN
            BY <3>1, RaiseType DEF Disable, TypeOK
        <3> QED
            BY <2>7, <3>2, <3>3, <3>4, <3>5 DEF Run, TypeOK, Places
    <2>8. CASE Rebuild(r)
        <3>1. pc' \in [Reloads -> Places] /\ todo' \in [Reloads -> SUBSET Files]
            BY <2>0, <2>8, GotoType, GlobType DEF Rebuild
        <3>2. new' \in Seq(Contents)
            BY <2>8 DEF Rebuild
        <3> QED
            BY <2>8, <3>1, <3>2 DEF Rebuild, TypeOK, Places
    <2>9. CASE Publish(r)
        <3>1. pc' \in [Reloads -> Places] /\ todo' \in [Reloads -> SUBSET Files]
            BY <2>0, <2>9, GotoType DEF Publish
        <3>2. cache' \in Seq(Contents) /\ new' \in Seq(Contents) /\ wait' \in BOOLEAN
            <4>1. new' = <<>> /\ wait' = FALSE /\ cache' \in {cache, new}
                BY <2>9 DEF Publish
            <4>2. cache' \in Seq(Contents)
                BY <1>0, <4>1
            <4> QED
                BY <4>1, <4>2, EmptyType
        <3>3. lapse' \in {"none", "late", "overlap", "emptied"}
            BY <2>9 DEF Publish, TypeOK
        <3> QED
            BY <2>9, <3>1, <3>2, <3>3 DEF Publish, TypeOK, Places
    <2> QED
        BY <1>5, <2>1, <2>2, <2>3, <2>4, <2>5, <2>6, <2>7, <2>8, <2>9 DEF Reload
<1>6. CASE UNCHANGED vars
    BY <1>6 DEF vars, TypeOK
<1> QED
    BY <1>1, <1>2, <1>3, <1>4, <1>5, <1>6 DEF Next

\* Every variable of the reloader keeps its type: what the chains and the cache
\* hold was read from a rule file or made of one by sed.
THEOREM TypeCorrect == Spec => []TypeOK
<1>1. Init => TypeOK
    <2> SUFFICES ASSUME Init PROVE TypeOK
        OBVIOUS
    <2>1. 0 \in 0 .. MaxEvents /\ 0 \in 0 .. MaxActs
        BY ReloaderAssumption
    <2>2. pc \in [Reloads -> Places] /\ todo \in [Reloads -> SUBSET Files]
        BY DEF Init, Places
    <2>3. chains \in Seq(Contents) /\ cache \in Seq(Contents) /\ new \in Seq(Contents)
        BY DEF Init
    <2>4. rules \in [Files -> Contents \cup {Absent}]
        BY ReloaderAssumption DEF Init, Files
    <2> QED
        BY <2>1, <2>2, <2>3, <2>4 DEF Init, TypeOK, Places
<1> QED
    BY <1>1, TypeStep, PTL DEF Spec

-----------------------------------------------------------------------------
(* Mutual exclusion.                                                       *)

\* The reloads that work, written without Cardinality, and WAIT, until a reload
\* has given up waiting for one at work.
WaitInv ==
  overrun = FALSE =>
    /\ \A r \in Reloads : pc[r] \in Running => wait = TRUE
    /\ \A q, r \in Reloads : pc[q] \in Running /\ pc[r] \in Running => q = r

\* Steps that neither start a reload's work nor touch WAIT.
LEMMA WaitKept ==
    ASSUME WaitInv, wait' = wait, overrun' = overrun,
           \A r \in Reloads : pc'[r] \in Running => pc[r] \in Running
    PROVE  WaitInv'
BY DEF WaitInv

\* A reload that begins while none works is the only one.
LEMMA WaitTaken ==
    ASSUME TypeOK, NEW r \in Reloads, Begin(r), \A q \in Reloads : pc[q] \notin Running
    PROVE  WaitInv'
<1>1. wait' = TRUE /\ pc' = [pc EXCEPT ![r] = "collect"]
    BY DEF Begin, Goto
<1>2. \A q \in Reloads : pc'[q] \in Running => q = r
    BY <1>1 DEF TypeOK
<1> QED
    BY <1>1, <1>2 DEF WaitInv

\* A reload that ends was the only one.
LEMMA WaitGiven ==
    ASSUME TypeOK, WaitInv, NEW r \in Reloads, pc[r] \in Running, Goto(r, "none", {}),
           overrun' = overrun
    PROVE  WaitInv'
<1> SUFFICES ASSUME overrun = FALSE
             PROVE  \A q \in Reloads : pc'[q] \notin Running
    BY DEF WaitInv
<1>1. pc' = [pc EXCEPT ![r] = "none"] /\ pc \in [Reloads -> Places]
    BY DEF Goto, TypeOK, Places
<1>2. ASSUME NEW q \in Reloads
      PROVE  pc'[q] \notin Running
    <2>1. CASE q = r
        BY <1>1, <2>1 DEF Running
    <2>2. CASE q # r
        <3>1. pc'[q] = pc[q]
            BY <1>1, <2>2
        <3>2. pc[q] \notin Running
            BY <2>2 DEF WaitInv
        <3> QED
            BY <3>1, <3>2
    <2> QED
        BY <2>1, <2>2
<1> QED
    BY <1>2

\* Reloads at work go on.
LEMMA StillRunning ==
    ASSUME TypeOK, NEW r \in Reloads, Flush(r) \/ Sed(r) \/ Run(r) \/ Rebuild(r) \/ Collect(r)
    PROVE  /\ pc[r] \in Running /\ pc'[r] \in Running
           /\ \A q \in Reloads : q # r => pc'[q] = pc[q] /\ todo'[q] = todo[q]
           /\ \A q \in Reloads : pc'[q] \in Running <=> pc[q] \in Running
           /\ wait' = wait /\ overrun' = overrun /\ lock' = lock /\ up' = up /\ cache' = cache
<1>0. pc \in [Reloads -> Places] /\ todo \in [Reloads -> SUBSET Files]
    BY DEF TypeOK, Places
<1>1. /\ pc[r] \in Running
      /\ wait' = wait /\ overrun' = overrun /\ lock' = lock /\ up' = up /\ cache' = cache
    BY DEF Flush, Sed, Run, Rebuild, Collect, Running
<1>2. pc' = pc \/ \E l \in Running : pc' = [pc EXCEPT ![r] = l]
    BY DEF Flush, Sed, Run, Rebuild, Collect, Goto, Running
<1>3. \E t : todo' = [todo EXCEPT ![r] = t]
    <2>1. CASE Collect(r)
        <3>1. PICK f \in todo[r] : todo' = [todo EXCEPT ![r] = @ \ {f}]
            BY <2>1 DEF Collect
        <3>2. todo' = [todo EXCEPT ![r] = todo[r] \ {f}]
            BY <1>0, <3>1
        <3> QED
            BY <3>2
    <2>2. CASE Flush(r) \/ Sed(r) \/ Run(r) \/ Rebuild(r)
        BY <2>2 DEF Flush, Sed, Run, Rebuild, Goto
    <2> QED
        BY <2>1, <2>2
<1> QED
    BY <1>0, <1>1, <1>2, <1>3

\* Every step keeps WaitInv.
LEMMA WaitStep ==
    ASSUME TypeOK, WaitInv, [Next]_vars
    PROVE  WaitInv'
<1>0. pc \in [Reloads -> Places]
    BY DEF TypeOK, Places
<1>1. CASE Worker
    <2>1. /\ wait' = wait /\ overrun' = overrun
          /\ \A r \in Reloads : pc'[r] \in Running => pc[r] \in Running
        BY <1>0, <1>1 DEF Worker, Spawn, Running
    <2> QED
        BY <2>1, WaitKept
<1>2. CASE Start
    <2>1. /\ wait' = wait /\ overrun' = overrun
          /\ \A r \in Reloads : pc'[r] \in Running => pc[r] \in Running
        BY <1>0, <1>2 DEF Start, Spawn, Running
    <2> QED
        BY <2>1, WaitKept
<1>3. CASE Crash
    <2>1. \A r \in Reloads : pc'[r] \notin Running
        BY <1>3 DEF Crash, Running
    <2> QED
        BY <2>1 DEF WaitInv
<1>4. ASSUME NEW f \in Files, Edit(f)
      PROVE  WaitInv'
    BY <1>4, WaitKept DEF Edit
<1>5. ASSUME NEW r \in Reloads, Reload(r)
      PROVE  WaitInv'
    <2>1. CASE WakeUp(r)
        <3>1. /\ wait' = wait /\ overrun' = overrun
              /\ \A q \in Reloads : pc'[q] \in Running => pc[q] \in Running
            BY <1>0, <2>1 DEF WakeUp, Goto, Running
        <3> QED
            BY <3>1, WaitKept
    <2>2. CASE TakeWait(r)
        <3> SUFFICES ASSUME overrun' = FALSE
                     PROVE  WaitInv'
            BY DEF WaitInv
        <3>1. \A q \in Reloads : pc[q] \notin Running
            BY <2>2 DEF TakeWait, WaitInv
        <3> QED
            BY <2>2, <3>1, WaitTaken DEF TakeWait
    <2>3. CASE GiveUpWaiting(r)
        <3> SUFFICES ASSUME overrun' = FALSE
                     PROVE  WaitInv'
            BY DEF WaitInv
        <3>1. ~OtherAtWork(r) /\ pc[r] = "wait" /\ Begin(r)
            BY <2>3 DEF GiveUpWaiting
        <3>2. \A q \in Reloads : pc[q] \notin Running
            BY <3>1 DEF OtherAtWork, Running
        <3> QED
            BY <3>1, <3>2, WaitTaken
    <2>4. CASE NoChange(r)
        BY <2>4, WaitGiven DEF NoChange, Running
    <2>5. CASE Publish(r)
        BY <2>5, WaitGiven DEF Publish, Running
    <2>6. CASE Flush(r) \/ Sed(r) \/ Run(r) \/ Rebuild(r) \/ Collect(r)
        BY <2>6, StillRunning, WaitKept
    <2> QED
        BY <1>5, <2>1, <2>2, <2>3, <2>4, <2>5, <2>6 DEF Reload
<1>6. CASE UNCHANGED vars
    BY <1>6, WaitKept DEF vars
<1> QED
    BY <1>1, <1>2, <1>3, <1>4, <1>5, <1>6 DEF Next

\* A set whose elements are all equal has at most one.
LEMMA AtMostOne ==
    ASSUME NEW S, \A x, y \in S : x = y
    PROVE  Cardinality(S) =< 1
<1>1. CASE S = {}
    BY <1>1, FS_EmptySet
<1>2. CASE S # {}
    <2>1. PICK x \in S : TRUE
        BY <1>2
    <2>2. S = {x}
        BY <2>1
    <2> QED
        BY <2>2, FS_Singleton
<1> QED
    BY <1>1, <1>2

\* Two reloads of iptables-reloader-worker never flush and fill the chains at the
\* same time, however many are started and whenever the service is killed, until
\* one has given up waiting for another at work: the end of the five attempts of
\* lines 17-21 is the only way to lose the exclusion.
THEOREM ReloadsExclusive == Spec => []OneReloadAtATime
<1>1. Init => WaitInv
    BY DEF Init, WaitInv, Running
<1>2. TypeOK /\ WaitInv => OneReloadAtATime
    <2> SUFFICES ASSUME TypeOK, WaitInv, overrun = FALSE
                 PROVE  Cardinality(Active) =< 1
        BY DEF OneReloadAtATime, TypeOK
    <2>1. \A x, y \in Active : x = y
        BY DEF WaitInv, Active
    <2> QED
        BY <2>1, AtMostOne
<1> QED
    BY <1>1, <1>2, TypeCorrect, WaitStep, PTL DEF Spec

-----------------------------------------------------------------------------
(* Every change is read.                                                   *)

Asleep == {"sleep", "wait"}

\* A reload that will read all the files is sure to come.
Pending == events > 0 \/ lock = TRUE

\* LOCK says that one reload is about to start, while the service runs.
LockInv ==
  /\ up = FALSE => events = 0 /\ \A r \in Reloads : pc[r] = "none"
  /\ up = TRUE /\ lock = TRUE => \E r \in Reloads : pc[r] \in Asleep
  /\ \A r \in Reloads : pc[r] \in Asleep => lock = TRUE
  /\ \A q, r \in Reloads : pc[q] \in Asleep /\ pc[r] \in Asleep => q = r

\* Every step keeps LockInv.
LEMMA LockStep ==
    ASSUME TypeOK, LockInv, [Next]_vars
    PROVE  LockInv'
<1>0. /\ pc \in [Reloads -> Places] /\ events \in Nat
      /\ up \in BOOLEAN /\ lock \in BOOLEAN
    BY ReloaderAssumption DEF TypeOK, Places
<1>1. CASE Worker
    BY <1>0, <1>1 DEF Worker, Spawn, LockInv, Asleep
<1>2. CASE Start
    BY <1>0, <1>2 DEF Start, Spawn, LockInv, Asleep
<1>3. CASE Crash
    BY <1>0, <1>3 DEF Crash, LockInv, Asleep
<1>4. ASSUME NEW f \in Files, Edit(f)
      PROVE  LockInv'
    BY <1>0, <1>4 DEF Edit, Raise, LockInv
<1>5. ASSUME NEW r \in Reloads, Reload(r)
      PROVE  LockInv'
    <2>0. pc[r] # "none" /\ up' = up
        BY <1>5 DEF Reload, WakeUp, TakeWait, GiveUpWaiting, Begin, Collect, NoChange, Flush, Sed,
                    Run, Rebuild, Publish, Running
    <2>1. up = TRUE
        BY <1>0, <2>0 DEF LockInv
    <2>2. CASE WakeUp(r)
        BY <1>0, <2>0, <2>1, <2>2 DEF WakeUp, Goto, LockInv, Asleep
    <2>3. CASE TakeWait(r) \/ GiveUpWaiting(r)
        <3>1. pc[r] = "wait" /\ lock' = FALSE /\ pc' = [pc EXCEPT ![r] = "collect"]
            BY <2>3 DEF TakeWait, GiveUpWaiting, Begin, Goto
        <3>2. \A q \in Reloads : pc'[q] \notin Asleep
            BY <1>0, <3>1 DEF LockInv, Asleep
        <3> QED
            BY <2>0, <2>1, <3>1, <3>2 DEF LockInv
    <2>4. CASE \/ Collect(r) \/ NoChange(r) \/ Flush(r) \/ Sed(r) \/ Run(r) \/ Rebuild(r)
               \/ Publish(r)
        <3>1. /\ pc[r] \in Running /\ lock' = lock
              /\ pc' = pc \/ \E l \in Running \cup {"none"} : pc' = [pc EXCEPT ![r] = l]
            BY <2>4 DEF Collect, NoChange, Flush, Sed, Run, Rebuild, Publish, Goto, Running
        <3>2. \A q \in Reloads : pc'[q] \in Asleep <=> pc[q] \in Asleep
            BY <1>0, <3>1 DEF Asleep, Running
        <3> QED
            BY <2>0, <2>1, <3>1, <3>2 DEF LockInv
    <2> QED
        BY <1>5, <2>2, <2>3, <2>4 DEF Reload
<1>6. CASE UNCHANGED vars
    BY <1>6 DEF vars, LockInv
<1> QED
    BY <1>1, <1>2, <1>3, <1>4, <1>5, <1>6 DEF Next

\* A change nobody has begun to read since has left its event or found LOCK.
ReadInv == up = TRUE /\ unread = TRUE => Pending

\* While the service runs an event is not forgotten.
LEMMA RaisePends ==
    ASSUME TypeOK, Raise, up = TRUE
    PROVE  events' > 0
<1>1. events \in Nat /\ MaxEvents \in Nat \ {0}
    BY ReloaderAssumption DEF TypeOK
<1> QED
    BY <1>1 DEF Raise

\* Every step keeps ReadInv.
LEMMA ReadStep ==
    ASSUME TypeOK, LockInv, ReadInv, [Next]_vars
    PROVE  ReadInv'
<1>0. /\ pc \in [Reloads -> Places] /\ events \in Nat
      /\ up \in BOOLEAN /\ lock \in BOOLEAN
    BY ReloaderAssumption DEF TypeOK, Places
<1>1. CASE Worker
    <2>1. lock' = TRUE
        BY <1>0, <1>1 DEF Worker, Spawn
    <2> QED
        BY <2>1 DEF ReadInv, Pending
<1>2. CASE Start
    BY <1>2 DEF Start, Spawn, ReadInv, Pending
<1>3. CASE Crash
    BY <1>3 DEF Crash, ReadInv
<1>4. ASSUME NEW f \in Files, Edit(f)
      PROVE  ReadInv'
    <2>1. Raise /\ up' = up
        BY <1>4 DEF Edit
    <2> QED
        BY <2>1, RaisePends DEF ReadInv, Pending
<1>5. ASSUME NEW r \in Reloads, Reload(r)
      PROVE  ReadInv'
    <2>1. CASE WakeUp(r) \/ Collect(r) \/ NoChange(r) \/ Flush(r) \/ Rebuild(r) \/ Publish(r)
        <3>1. UNCHANGED <<up, unread, events, lock>>
            BY <2>1 DEF WakeUp, Collect, NoChange, Flush, Rebuild, Publish
        <3> QED
            BY <3>1 DEF ReadInv, Pending
    <2>2. CASE TakeWait(r) \/ GiveUpWaiting(r)
        <3>1. unread' = FALSE
            BY <2>2 DEF TakeWait, GiveUpWaiting, Begin
        <3> QED
            BY <3>1 DEF ReadInv
    <2>3. CASE Sed(r) \/ Run(r)
        <3>1. /\ up' = up /\ lock' = lock
              /\ Raise \/ UNCHANGED <<events, unread>>
            BY <2>3 DEF Sed, Run, Disable
        <3> QED
            BY <3>1, RaisePends DEF ReadInv, Pending
    <2> QED
        BY <1>5, <2>1, <2>2, <2>3 DEF Reload
<1>6. CASE UNCHANGED vars
    BY <1>6 DEF vars, ReadInv, Pending
<1> QED
    BY <1>1, <1>2, <1>3, <1>4, <1>5, <1>6 DEF Next

\* Every change of rules.d is read by a reload that begins after it, for any number
\* of files, reloads, edits and crashes and however long the reloads take.
THEOREM ChangesRead == Spec => []EveryChangeRead
<1>1. Init => LockInv /\ ReadInv
    BY DEF Init, LockInv, ReadInv, Asleep
<1>2. TypeOK /\ LockInv /\ ReadInv => EveryChangeRead
    <2> SUFFICES ASSUME TypeOK, LockInv, ReadInv, up = TRUE, unread = TRUE
                 PROVE  events > 0 \/ \E r \in Reloads : pc[r] \in {"sleep", "wait"}
        BY DEF EveryChangeRead, TypeOK
    <2>1. events > 0 \/ lock = TRUE
        BY DEF ReadInv, Pending
    <2>2. lock = TRUE => \E r \in Reloads : pc[r] \in {"sleep", "wait"}
        BY DEF LockInv, Asleep
    <2> QED
        BY <2>1, <2>2
<1>3. TypeOK /\ LockInv /\ ReadInv /\ [Next]_vars => (LockInv /\ ReadInv)'
    BY LockStep, ReadStep
<1> QED
    BY <1>1, <1>2, <1>3, TypeCorrect, PTL DEF Spec

-----------------------------------------------------------------------------
(* Induction over the natural numbers, with a set for the hypothesis.      *)

\* A non-empty set of natural numbers has a least element.
LEMMA SmallestNat ==
    ASSUME NEW T, T \subseteq Nat, T # {}
    PROVE  \E x \in T : \A y \in T : x =< y
<1> DEFINE R == {ss \in Nat \X Nat : ss[1] < ss[2]}
<1>1. IsWellFoundedOn(OpToRel(<, Nat), Nat)
    BY NatLessThanWellFounded
<1>2. OpToRel(<, Nat) = R
    BY Zenon DEF OpToRel
<1>3. PICK x \in T : \A y \in T : ~(<<y, x>> \in R)
    BY <1>1, <1>2, WFMin, ZenonT(40)
<1>4. ASSUME NEW y \in T
      PROVE  x =< y
    <2>1. x \in Nat /\ y \in Nat /\ <<y, x>> \notin R
        BY <1>3
    <2> QED
        BY <2>1
<1> QED
    BY <1>4

\* Induction, with the set of the numbers that have the property.
LEMMA Induction ==
    ASSUME NEW S, 0 \in S, \A n \in Nat : n \in S => n + 1 \in S
    PROVE  Nat \subseteq S
<1> SUFFICES ASSUME Nat \ S # {}
             PROVE  FALSE
    OBVIOUS
<1>1. PICK x \in Nat \ S : \A y \in Nat \ S : x =< y
    BY SmallestNat
<1>2. x # 0 /\ x - 1 \in Nat
    BY <1>1
<1>3. x - 1 \in S
    BY <1>1, <1>2
<1> QED
    BY <1>1, <1>2, <1>3

-----------------------------------------------------------------------------
(* What Joined computes.                                                   *)

Entry(c) == IF c = Absent THEN <<>> ELSE <<c>>

IsJoin(w, g, n) == w = [i \in 0 .. n |-> IF i = 0 THEN <<>> ELSE w[i - 1] \o Entry(g[i])]

\* A function that satisfies the definition, for a longer prefix of g.
LEMMA JoinLonger ==
    ASSUME NEW g, NEW n \in Nat, NEW w, IsJoin(w, g, n)
    PROVE  \E v : IsJoin(v, g, n + 1)
<1> DEFINE v == [i \in 0 .. n + 1 |-> IF i = n + 1 THEN w[n] \o Entry(g[n + 1]) ELSE w[i]]
<1>1. ASSUME NEW i \in 0 .. n + 1
      PROVE  v[i] = IF i = 0 THEN <<>> ELSE v[i - 1] \o Entry(g[i])
    <2>1. CASE i = n + 1
        <3>1. v[i - 1] = w[n] /\ i # 0 /\ v[i] = w[n] \o Entry(g[n + 1])
            BY <2>1
        <3> QED
            BY <2>1, <3>1
    <2>2. CASE i # n + 1 /\ i # 0
        <3>1. i \in 0 .. n /\ v[i - 1] = w[i - 1] /\ v[i] = w[i]
            BY <2>2
        <3>2. w[i] = w[i - 1] \o Entry(g[i])
            BY <2>2, <3>1 DEF IsJoin
        <3> QED
            BY <2>2, <3>1, <3>2
    <2>3. CASE i # n + 1 /\ i = 0
        <3>1. i \in 0 .. n /\ v[i] = w[i]
            BY <2>3
        <3>2. w[i] = <<>>
            BY <2>3, <3>1 DEF IsJoin
        <3> QED
            BY <2>3, <3>1, <3>2
    <2> QED
        BY <2>1, <2>2, <2>3
<1>2. v = [i \in 0 .. n + 1 |-> v[i]]
    OBVIOUS
<1> HIDE DEF v
<1>3. IsJoin(v, g, n + 1)
    BY <1>1, <1>2 DEF IsJoin
<1> QED
    BY <1>3

\* The function that collects the first n files exists ...
LEMMA JoinExists ==
    ASSUME NEW g, NEW n \in Nat
    PROVE  \E w : IsJoin(w, g, n)
<1> DEFINE S == {m \in Nat : \E w : IsJoin(w, g, m)}
<1>1. 0 \in S
    <2>1. IsJoin([i \in 0 .. 0 |-> <<>>], g, 0)
        BY DEF IsJoin
    <2> QED
        BY <2>1
<1>2. ASSUME NEW m \in Nat, m \in S
      PROVE  m + 1 \in S
    <2>1. PICK w : IsJoin(w, g, m)
        BY <1>2
    <2>2. \E v : IsJoin(v, g, m + 1)
        BY <2>1, JoinLonger
    <2>3. m + 1 \in Nat
        OBVIOUS
    <2> QED
        BY <2>2, <2>3
<1> HIDE DEF S
<1>3. n \in S
    BY <1>1, <1>2, Induction
<1> QED
    BY <1>3 DEF S

\* Joins of two functions that agree agree.
LEMMA JoinsAgree ==
    ASSUME NEW g, NEW h, NEW m \in Nat, NEW n \in Nat, NEW v, NEW w,
           IsJoin(v, g, m), IsJoin(w, h, n),
           NEW k \in Nat, k =< m, k =< n, \A i \in 1 .. k : g[i] = h[i]
    PROVE  v[k] = w[k]
<1> DEFINE S == {i \in Nat : i =< k => v[i] = w[i]}
<1>1. 0 \in S
    <2>1. 0 \in 0 .. m /\ 0 \in 0 .. n
        OBVIOUS
    <2>2. v[0] = <<>> /\ w[0] = <<>>
        BY <2>1 DEF IsJoin
    <2> QED
        BY <2>2
<1>2. ASSUME NEW i \in Nat, i \in S
      PROVE  i + 1 \in S
    <2> SUFFICES ASSUME i + 1 =< k
                 PROVE  v[i + 1] = w[i + 1]
        OBVIOUS
    <2>1. v[i] = w[i] /\ g[i + 1] = h[i + 1]
        BY <1>2
    <2>2. i + 1 \in 0 .. m /\ i + 1 \in 0 .. n /\ i + 1 # 0 /\ (i + 1) - 1 = i
        OBVIOUS
    <2>3. v[i + 1] = v[i] \o Entry(g[i + 1])
        BY <2>2 DEF IsJoin
    <2>4. w[i + 1] = w[i] \o Entry(h[i + 1])
        BY <2>2 DEF IsJoin
    <2> QED
        BY <2>1, <2>3, <2>4
<1> HIDE DEF S
<1>3. k \in S
    BY <1>1, <1>2, Induction
<1> QED
    BY <1>3 DEF S

\* ... Joined is its last value ...
LEMMA JoinedIs ==
    ASSUME NEW g, NEW n \in Nat
    PROVE  \E w : IsJoin(w, g, n) /\ Joined(g, n) = w[n]
<1> DEFINE w == CHOOSE v : IsJoin(v, g, n)
<1>1. IsJoin(w, g, n)
    BY JoinExists
<1>2. Joined(g, n) = w[n]
    BY DEF Joined, IsJoin, Entry
<1> QED
    BY <1>1, <1>2

\* Joined takes the entries one after the other.
LEMMA JoinedZero ==
    ASSUME NEW g
    PROVE  Joined(g, 0) = <<>>
<1>1. PICK w : IsJoin(w, g, 0) /\ Joined(g, 0) = w[0]
    BY JoinedIs
<1>2. 0 \in 0 .. 0
    OBVIOUS
<1> QED
    BY <1>1, <1>2 DEF IsJoin

\* ... and file n + 1 is appended to what the first n gave.
LEMMA JoinedNext ==
    ASSUME NEW g, NEW n \in Nat
    PROVE  Joined(g, n + 1) = Joined(g, n) \o Entry(g[n + 1])
<1>1. PICK v : IsJoin(v, g, n) /\ Joined(g, n) = v[n]
    BY JoinedIs
<1>2. n + 1 \in Nat
    OBVIOUS
<1>3. PICK w : IsJoin(w, g, n + 1) /\ Joined(g, n + 1) = w[n + 1]
    BY <1>2, JoinedIs
<1>4. n =< n /\ n =< n + 1
    OBVIOUS
<1>5. v[n] = w[n]
    <2> DEFINE m == n + 1
    <2>1. m \in Nat /\ n =< m /\ IsJoin(w, g, m)
        BY <1>2, <1>3, <1>4
    <2>2. \A i \in 1 .. n : g[i] = g[i]
        OBVIOUS
    <2> HIDE DEF m
    <2> QED
        BY <1>1, <1>4, <2>1, <2>2, JoinsAgree
<1>6. n + 1 \in 0 .. n + 1 /\ n + 1 # 0 /\ (n + 1) - 1 = n
    OBVIOUS
<1>7. w[n + 1] = w[n] \o Entry(g[n + 1])
    BY <1>3, <1>6 DEF IsJoin
<1> QED
    BY <1>1, <1>3, <1>5, <1>7

\* Only the entries 1 .. n count.
LEMMA JoinedSame ==
    ASSUME NEW g, NEW h, NEW n \in Nat, \A i \in 1 .. n : g[i] = h[i]
    PROVE  Joined(g, n) = Joined(h, n)
<1>1. PICK v : IsJoin(v, g, n) /\ Joined(g, n) = v[n]
    BY JoinedIs
<1>2. PICK w : IsJoin(w, h, n) /\ Joined(h, n) = w[n]
    BY JoinedIs
<1>3. n =< n
    OBVIOUS
<1>4. v[n] = w[n]
    BY <1>1, <1>2, <1>3, JoinsAgree
<1> QED
    BY <1>1, <1>2, <1>4

\* What is collected from files are contents.
LEMMA JoinedType ==
    ASSUME NEW g, NEW n \in Nat, \A i \in 1 .. n : g[i] \in Contents \cup {Absent}
    PROVE  Joined(g, n) \in Seq(Contents)
<1> DEFINE S == {m \in Nat : m =< n => Joined(g, m) \in Seq(Contents)}
<1>1. 0 \in S
    BY JoinedZero, EmptyType
<1>2. ASSUME NEW m \in Nat, m \in S
      PROVE  m + 1 \in S
    <2> SUFFICES ASSUME m + 1 =< n
                 PROVE  Joined(g, m + 1) \in Seq(Contents)
        OBVIOUS
    <2>1. Joined(g, m) \in Seq(Contents) /\ g[m + 1] \in Contents \cup {Absent}
        BY <1>2
    <2>2. Entry(g[m + 1]) \in Seq(Contents)
        BY <2>1 DEF Entry
    <2>3. Joined(g, m + 1) = Joined(g, m) \o Entry(g[m + 1])
        BY JoinedNext
    <2> DEFINE a == Joined(g, m)
               b == Entry(g[m + 1])
    <2>4. a \in Seq(Contents) /\ b \in Seq(Contents) /\ Joined(g, m + 1) = a \o b
        BY <2>1, <2>2, <2>3
    <2> HIDE DEF a, b
    <2>5. a \o b \in Seq(Contents)
        BY <2>4, ConcatType
    <2> QED
        BY <2>4, <2>5
<1> HIDE DEF S
<1>3. n \in S
    BY <1>1, <1>2, Induction
<1>4. n =< n
    OBVIOUS
<1> QED
    BY <1>3, <1>4 DEF S

-----------------------------------------------------------------------------
(* What the chains hold.                                                   *)

\* The contents in s of files that did not fail; Absent for the others.
Kept(s) == [i \in 1 .. Len(s) |-> IF s[i] \in Bad THEN Absent ELSE s[i]]

WorkingOf(s) == Joined(Kept(s), Len(s))

\* Working is about the chains.
LEMMA WorkingIs == Working = WorkingOf(chains)
BY DEF Working, WorkingOf, Kept

\* No rules, no working rules.
LEMMA WorkingEmpty == WorkingOf(<<>>) = <<>>
<1>1. Len(<<>>) = 0
    OBVIOUS
<1> QED
    BY <1>1, JoinedZero DEF WorkingOf

\* Working rules are contents.
LEMMA WorkingType ==
    ASSUME NEW s \in Seq(Contents)
    PROVE  WorkingOf(s) \in Seq(Contents)
<1>1. Len(s) \in Nat /\ \A i \in 1 .. Len(s) : s[i] \in Contents
    OBVIOUS
<1>2. \A i \in 1 .. Len(s) : Kept(s)[i] \in Contents \cup {Absent}
    BY <1>1 DEF Kept
<1> QED
    BY <1>1, <1>2, JoinedType DEF WorkingOf

\* A file that fails adds no working rules; another adds its own, last.
LEMMA WorkingAppend ==
    ASSUME NEW s \in Seq(Contents), NEW c \in Contents
    PROVE  /\ c \in Bad => WorkingOf(Append(s, c)) = WorkingOf(s)
           /\ c \notin Bad => WorkingOf(Append(s, c)) = WorkingOf(s) \o <<c>>
<1> DEFINE t == Append(s, c)
           n == Len(s)
<1>1. n \in Nat /\ Len(t) = n + 1 /\ t[n + 1] = c /\ \A i \in 1 .. n : t[i] = s[i]
    OBVIOUS
<1>2. c # Absent
    BY ReloaderAssumption
<1> HIDE DEF t, n
<1>3. n = Len(s)
    BY DEF n
<1>4. \A i \in 1 .. n : Kept(t)[i] = Kept(s)[i]
    BY <1>1, <1>3 DEF Kept
<1>5. Kept(t)[n + 1] = IF c \in Bad THEN Absent ELSE c
    <2>1. n + 1 \in 1 .. Len(t)
        BY <1>1
    <2> QED
        BY <1>1, <2>1 DEF Kept
<1>6. WorkingOf(t) = Joined(Kept(t), n) \o Entry(Kept(t)[n + 1])
    BY <1>1, JoinedNext DEF WorkingOf
<1>7. Joined(Kept(t), n) = WorkingOf(s)
    BY <1>1, <1>3, <1>4, JoinedSame DEF WorkingOf
<1>8. CASE c \in Bad
    <2>1. Entry(Kept(t)[n + 1]) = <<>>
        BY <1>5, <1>8 DEF Entry
    <2>2. WorkingOf(s) \in Seq(Contents)
        BY WorkingType
    <2>3. WorkingOf(s) \o <<>> = WorkingOf(s)
        BY <2>2, ConcatEmpty
    <2> QED
        BY <1>6, <1>7, <1>8, <2>1, <2>3 DEF t
<1>9. CASE c \notin Bad
    <2>1. Entry(Kept(t)[n + 1]) = <<c>>
        BY <1>2, <1>5, <1>9 DEF Entry
    <2> QED
        BY <1>6, <1>7, <1>9, <2>1 DEF t
<1> QED
    BY <1>8, <1>9

-----------------------------------------------------------------------------
(* Loops over the names the shell found.                                   *)

\* Absent entries at the end add nothing.
LEMMA JoinedTail ==
    ASSUME NEW g, NEW n \in Nat, NEW m \in Nat, m =< n,
           \A i \in 1 .. n : g[i] \in Contents \cup {Absent},
           \A i \in m + 1 .. n : g[i] = Absent
    PROVE  Joined(g, n) = Joined(g, m)
<1> DEFINE S == {k \in Nat : m =< k /\ k =< n => Joined(g, k) = Joined(g, m)}
<1>1. 0 \in S
    OBVIOUS
<1>2. ASSUME NEW k \in Nat, k \in S
      PROVE  k + 1 \in S
    <2> SUFFICES ASSUME m =< k + 1, k + 1 =< n, k + 1 # m
                 PROVE  Joined(g, k + 1) = Joined(g, m)
        OBVIOUS
    <2>1. Joined(g, k) = Joined(g, m) /\ g[k + 1] = Absent
        BY <1>2
    <2>2. \A i \in 1 .. k : g[i] \in Contents \cup {Absent}
        OBVIOUS
    <2>3. Joined(g, k) \in Seq(Contents)
        BY <2>2, JoinedType
    <2>4. Joined(g, k + 1) = Joined(g, k) \o Entry(g[k + 1])
        BY JoinedNext
    <2>5. Entry(g[k + 1]) = <<>>
        BY <2>1 DEF Entry
    <2>6. Joined(g, k) \o <<>> = Joined(g, k)
        BY <2>3, ConcatEmpty
    <2> QED
        BY <2>1, <2>4, <2>5, <2>6
<1> HIDE DEF S
<1>3. n \in S
    BY <1>1, <1>2, Induction
<1> QED
    BY <1>3 DEF S

\* A file behind all the others adds its content at the end.
LEMMA JoinedLast ==
    ASSUME NEW g, NEW h, NEW n \in Nat, NEW f \in 1 .. n,
           \A i \in 1 .. n : g[i] \in Contents \cup {Absent},
           \A i \in 1 .. n : h[i] \in Contents \cup {Absent},
           g[f] = Absent,
           \A i \in 1 .. n : i # f => h[i] = g[i],
           \A i \in 1 .. n : f < i => g[i] = Absent
    PROVE  Joined(h, n) = Joined(g, n) \o Entry(h[f])
<1> DEFINE m == f - 1
<1>1. m \in Nat /\ m =< n /\ f = m + 1 /\ f \in Nat /\ f =< n
    OBVIOUS
<1>2. \A i \in f + 1 .. n : h[i] = Absent
    OBVIOUS
<1>3. Joined(h, n) = Joined(h, f)
    BY <1>1, <1>2, JoinedTail
<1>4. \A i \in m + 1 .. n : g[i] = Absent
    BY <1>1
<1>5. Joined(g, n) = Joined(g, m)
    BY <1>1, <1>4, JoinedTail
<1>6. \A i \in 1 .. m : h[i] = g[i]
    BY <1>1
<1> HIDE DEF m
<1>7. Joined(h, m) = Joined(g, m)
    BY <1>1, <1>6, JoinedSame
<1>8. Joined(h, m + 1) = Joined(h, m) \o Entry(h[m + 1])
    BY <1>1, JoinedNext
<1> QED
    BY <1>1, <1>3, <1>5, <1>7, <1>8

Listings == [Files -> Contents \cup {Absent}]

\* The files without those a loop has still to go through.
Masked(g, S) == [i \in Files |-> IF i \in S THEN Absent ELSE g[i]]

\* Behind the names a loop has still to go through there is no file that is not
\* among them.
Ordered(g, S) == \A i \in Files, s \in S : i \notin S /\ s < i => g[i] = Absent

\* A loop goes through one more name.
LEMMA MaskNext ==
    ASSUME NEW g \in Listings, NEW S \in SUBSET Files, NEW f \in S, \A s \in S : f =< s, Ordered(g, S)
    PROVE  /\ Joined(Masked(g, S \ {f}), NumFiles) = Joined(Masked(g, S), NumFiles) \o Entry(g[f])
           /\ Ordered(g, S \ {f})
<1> DEFINE a == Masked(g, S)
           b == Masked(g, S \ {f})
<1>1. NumFiles \in Nat /\ f \in 1 .. NumFiles
    BY ReloaderAssumption DEF Files
<1>2. \A i \in 1 .. NumFiles : a[i] \in Contents \cup {Absent} /\ b[i] \in Contents \cup {Absent}
    BY DEF Masked, Files, Listings
<1>3. a[f] = Absent /\ b[f] = g[f]
    BY <1>1 DEF Masked, Files
<1>4. \A i \in 1 .. NumFiles : i # f => b[i] = a[i]
    BY DEF Masked, Files
<1>5. \A i \in 1 .. NumFiles : f < i => a[i] = Absent
    BY DEF Masked, Ordered, Files
<1> HIDE DEF a, b
<1>6. Joined(b, NumFiles) = Joined(a, NumFiles) \o Entry(b[f])
    BY <1>1, <1>2, <1>3, <1>4, <1>5, JoinedLast
<1>7. Ordered(g, S \ {f})
    <2> SUFFICES ASSUME NEW i \in Files, NEW s \in S \ {f}, i \notin S \ {f}, s < i
                 PROVE  g[i] = Absent
        BY DEF Ordered
    <2>1. i # f
        BY <1>1, ReloaderAssumption DEF Files
    <2> QED
        BY <2>1 DEF Ordered
<1> QED
    BY <1>3, <1>6, <1>7 DEF a, b

\* A loop that has gone through all names has gone through all files.
LEMMA MaskNone ==
    ASSUME NEW g
    PROVE  Joined(Masked(g, {}), NumFiles) = Joined(g, NumFiles)
<1>1. NumFiles \in Nat /\ \A i \in 1 .. NumFiles : Masked(g, {})[i] = g[i]
    BY ReloaderAssumption DEF Masked, Files
<1> QED
    BY <1>1, JoinedSame

\* A loop that begins has gone through none.
LEMMA MaskAll ==
    ASSUME NEW g \in Listings, NEW S, S = {f \in Files : g[f] # Absent}
    PROVE  Joined(Masked(g, S), NumFiles) = <<>> /\ Ordered(g, S)
<1> DEFINE a == Masked(g, S)
<1>1. NumFiles \in Nat /\ \A i \in 1 .. NumFiles : a[i] = Absent
    BY ReloaderAssumption DEF Masked, Files
<1> HIDE DEF a
<1>2. 0 \in Nat /\ 0 =< NumFiles /\ \A i \in 0 + 1 .. NumFiles : a[i] = Absent
    BY <1>1
<1>3. Joined(a, NumFiles) = Joined(a, 0)
    BY <1>1, <1>2, JoinedTail
<1>4. Joined(a, 0) = <<>>
    BY JoinedZero
<1> QED
    BY <1>3, <1>4 DEF a, Ordered

\* Only the files a loop has gone through count.
LEMMA MaskSame ==
    ASSUME NEW g, NEW h, NEW S, \A i \in Files : i \notin S => h[i] = g[i]
    PROVE  Masked(h, S) = Masked(g, S) /\ (Ordered(g, S) => Ordered(h, S))
BY DEF Masked, Ordered

-----------------------------------------------------------------------------
(* No change is lost but in the ways lapse names.                          *)

\* While there is no overlap at most one reload works.
OverlapInv ==
  lapse # "overlap" => \A q, r \in Reloads : pc[q] \in Running /\ pc[r] \in Running => q = r

\* What a reload has read is what the files say, unless another one will read them.
CollectOK(r) ==
  pc[r] = "collect" /\ ~Pending =>
    new = Joined(Masked(rules, todo[r]), NumFiles) /\ Ordered(rules, todo[r])

\* The chains hold the files the reload has run.
ApplyOK(r) ==
  pc[r] \in {"apply", "run"} =>
    Working = Joined(Masked(rules, todo[r]), NumFiles) /\ Ordered(rules, todo[r])

\* The chains hold files g; those not yet read for the cache still say the same,
\* and so do the others unless another reload will read them.
Rebuilt(g, S) ==
  /\ Working = Joined(g, NumFiles) /\ new = Joined(Masked(g, S), NumFiles) /\ Ordered(g, S)
  /\ \A f \in S : rules[f] = g[f]
  /\ ~Pending => rules = g

RebuildOK(r) == pc[r] = "rebuild" => \E g \in Listings : Rebuilt(g, todo[r])

\* The cache says what the chains hold, but while a reload fills them.
CacheInv ==
  up = TRUE /\ (\A r \in Reloads : pc[r] \notin {"apply", "run", "rebuild"}) /\ cache # <<>>
    => cache = Working

IdleInv ==
  up = TRUE /\ ~Pending /\ (\A r \in Reloads : pc[r] = "none") => Applied

Data == CacheInv /\ IdleInv /\ \A r \in Reloads : CollectOK(r) /\ ApplyOK(r) /\ RebuildOK(r)

DataInv == lapse = "none" => Data

\* Every step keeps OverlapInv.
LEMMA OverlapStep ==
    ASSUME TypeOK, OverlapInv, [Next]_vars
    PROVE  OverlapInv'
<1>0. pc \in [Reloads -> Places]
    BY DEF TypeOK, Places
<1>a. ASSUME lapse' # "overlap" => lapse # "overlap",
             \A r \in Reloads : pc'[r] \in Running => pc[r] \in Running
      PROVE  OverlapInv'
    BY <1>a DEF OverlapInv
<1>1. CASE Worker
    <2>1. lapse' = lapse /\ \A r \in Reloads : pc'[r] \in Running => pc[r] \in Running
        BY <1>0, <1>1 DEF Worker, Spawn, Running
    <2> QED
        BY <2>1, <1>a
<1>2. CASE Start
    <2>1. lapse' = lapse /\ \A r \in Reloads : pc'[r] \in Running => pc[r] \in Running
        BY <1>0, <1>2 DEF Start, Spawn, Running
    <2> QED
        BY <2>1, <1>a
<1>3. CASE Crash
    <2>1. \A r \in Reloads : pc'[r] \notin Running
        BY <1>3 DEF Crash, Running
    <2> QED
        BY <2>1 DEF OverlapInv
<1>4. ASSUME NEW f \in Files, Edit(f)
      PROVE  OverlapInv'
    <2>1. pc' = pc /\ (lapse' # "overlap" => lapse # "overlap")
        BY <1>4 DEF Edit
    <2> QED
        BY <2>1, <1>a
<1>5. ASSUME NEW r \in Reloads, Reload(r)
      PROVE  OverlapInv'
    <2>1. CASE WakeUp(r) \/ NoChange(r) \/ Publish(r)
        <3>1. lapse' # "overlap" => lapse # "overlap"
            BY <2>1 DEF WakeUp, NoChange, Publish
        <3>2. \A q \in Reloads : pc'[q] \in Running => pc[q] \in Running
            BY <1>0, <2>1 DEF WakeUp, NoChange, Publish, Goto, Running
        <3> QED
            BY <3>1, <3>2, <1>a
    <2>2. CASE TakeWait(r) \/ GiveUpWaiting(r)
        <3> SUFFICES ASSUME lapse' # "overlap"
                     PROVE  \A q \in Reloads : pc'[q] \in Running => q = r
            BY DEF OverlapInv
        <3>1. Begin(r)
            BY <2>2 DEF TakeWait, GiveUpWaiting
        <3>2. ~OtherAtWork(r) /\ pc' = [pc EXCEPT ![r] = "collect"]
            BY <3>1 DEF Begin, Goto
        <3> QED
            BY <1>0, <3>2 DEF OtherAtWork
    <2>3. CASE Flush(r)
        <3>1. \A q \in Reloads : pc'[q] \in Running => pc[q] \in Running
            BY <2>3, StillRunning
        <3>2. CASE OtherAtWork(r)
            <4>1. lapse' = lapse
                BY <2>3, <3>2 DEF Flush
            <4> QED
                BY <4>1, <3>1, <1>a
        <3>3. CASE ~OtherAtWork(r)
            <4>1. \A q \in Reloads : pc'[q] \in Running => q = r
                BY <3>1, <3>3 DEF OtherAtWork
            <4> QED
                BY <4>1 DEF OverlapInv
        <3> QED
            BY <3>2, <3>3
    <2>4. CASE Sed(r) \/ Run(r) \/ Rebuild(r) \/ Collect(r)
        <3>1. lapse' = lapse
            BY <2>4 DEF Sed, Run, Rebuild, Collect
        <3>2. \A q \in Reloads : pc'[q] \in Running => pc[q] \in Running
            BY <2>4, StillRunning
        <3> QED
            BY <3>1, <3>2, <1>a
    <2> QED
        BY <1>5, <2>1, <2>2, <2>3, <2>4 DEF Reload
<1>6. CASE UNCHANGED vars
    BY <1>6, <1>a DEF vars
<1> QED
    BY <1>1, <1>2, <1>3, <1>4, <1>5, <1>6 DEF Next

\* A step of the reload that works, beside which none works.
LEMMA SoloStep ==
    ASSUME NEW r \in Reloads, \A q \in Reloads : q # r => pc'[q] \notin Running,
           CollectOK(r)', ApplyOK(r)', RebuildOK(r)', CacheInv', IdleInv'
    PROVE  DataInv'
<1>1. ASSUME NEW q \in Reloads, q # r
      PROVE  CollectOK(q)' /\ ApplyOK(q)' /\ RebuildOK(q)'
    <2>1. pc'[q] \notin {"collect", "apply", "run", "rebuild"}
        BY <1>1 DEF Running
    <2> QED
        BY <2>1 DEF CollectOK, ApplyOK, RebuildOK
<1> QED
    BY <1>1 DEF DataInv, Data

\* Steps that leave the files, the chains, the cache and the reloads at work alone.
LEMMA DataKept ==
    ASSUME DataInv, UNCHANGED <<rules, chains, cache, new, up, lapse>>, Pending => Pending',
           \A r \in Reloads : pc[r] \in Running \/ pc'[r] \in Running
                                 => pc'[r] = pc[r] /\ todo'[r] = todo[r],
           ~Pending' /\ (\A r \in Reloads : pc'[r] = "none") => \A r \in Reloads : pc[r] = "none"
    PROVE  DataInv'
<1> SUFFICES ASSUME lapse = "none"
             PROVE  Data'
    BY DEF DataInv
<1>0. Data
    BY DEF DataInv
<1>1. rules' = rules /\ chains' = chains /\ cache' = cache /\ new' = new /\ up' = up
    OBVIOUS
<1>2. Working' = Working
    BY <1>1 DEF Working
<1>3. Applied' = Applied
    BY <1>1, <1>2 DEF Applied, Wanted
<1>4. CacheInv'
    <2>1. \A r \in Reloads : pc[r] \in {"apply", "run", "rebuild"} => pc'[r] \in {"apply", "run", "rebuild"}
        BY DEF Running
    <2> QED
        BY <1>0, <1>1, <1>2, <2>1 DEF Data, CacheInv
<1>5. IdleInv'
    BY <1>0, <1>1, <1>3 DEF Data, IdleInv
<1>6. ASSUME NEW r \in Reloads
      PROVE  CollectOK(r)' /\ ApplyOK(r)' /\ RebuildOK(r)'
    <2>1. CASE pc'[r] \in Running
        <3>1. pc'[r] = pc[r] /\ todo'[r] = todo[r]
            BY <2>1
        <3>2. CollectOK(r) /\ ApplyOK(r) /\ RebuildOK(r)
            BY <1>0 DEF Data
        <3>3. CollectOK(r)'
            BY <1>1, <3>1, <3>2 DEF CollectOK
        <3>4. ApplyOK(r)'
            BY <1>1, <1>2, <3>1, <3>2 DEF ApplyOK
        <3>5. RebuildOK(r)'
            <4> SUFFICES ASSUME pc[r] = "rebuild"
                         PROVE  \E g \in Listings : Rebuilt(g, todo[r])'
                BY <3>1 DEF RebuildOK
            <4>1. PICK g \in Listings : Rebuilt(g, todo[r])
                BY <3>2 DEF RebuildOK
            <4>2. Rebuilt(g, todo[r])'
                BY <1>1, <1>2, <3>1, <4>1 DEF Rebuilt
            <4> QED
                BY <4>2
        <3> QED
            BY <3>3, <3>4, <3>5
    <2>2. CASE pc'[r] \notin Running
        BY <2>2 DEF CollectOK, ApplyOK, RebuildOK, Running
    <2> QED
        BY <2>1, <2>2
<1> QED
    BY <1>4, <1>5, <1>6 DEF Data

\* An edit that is not late keeps DataInv.
LEMMA EditStep ==
    ASSUME TypeOK, LockInv, DataInv, NEW f \in Files, Edit(f)
    PROVE  DataInv'
<1> SUFFICES ASSUME lapse' = "none"
             PROVE  Data'
    BY DEF DataInv
<1>1. lapse = "none" /\ ~RunNotCached(f)
    BY DEF Edit
<1>2. Data
    BY <1>1 DEF DataInv
<1>3. /\ chains' = chains /\ cache' = cache /\ new' = new /\ up' = up /\ pc' = pc /\ todo' = todo
      /\ lock' = lock /\ Raise /\ up \in BOOLEAN
    BY DEF Edit, TypeOK
<1>4. \A i \in Files : i # f => rules'[i] = rules[i]
    BY DEF Edit, TypeOK
<1>5. up = TRUE => Pending'
    BY <1>3, RaisePends DEF Pending
<1>6. Working' = Working
    BY <1>3 DEF Working
<1>7. CacheInv' /\ IdleInv'
    BY <1>2, <1>3, <1>5, <1>6 DEF Data, CacheInv, IdleInv
<1>8. ASSUME NEW r \in Reloads
      PROVE  CollectOK(r)' /\ ApplyOK(r)' /\ RebuildOK(r)'
    <2>1. CASE up = FALSE
        <3>1. pc'[r] = "none"
            BY <1>3, <2>1 DEF LockInv
        <3> QED
            BY <3>1 DEF CollectOK, ApplyOK, RebuildOK
    <2>2. CASE up = TRUE
        <3>1. CollectOK(r)'
            BY <1>5, <2>2 DEF CollectOK
        <3>2. ApplyOK(r)'
            <4> SUFFICES ASSUME pc[r] \in {"apply", "run"}
                         PROVE  /\ Working = Joined(Masked(rules', todo[r]), NumFiles)
                                /\ Ordered(rules', todo[r])
                BY <1>3, <1>6 DEF ApplyOK
            <4>1. f \in todo[r]
                BY <1>1 DEF RunNotCached
            <4>2. Working = Joined(Masked(rules, todo[r]), NumFiles) /\ Ordered(rules, todo[r])
                BY <1>2 DEF Data, ApplyOK
            <4>3. \A i \in Files : i \notin todo[r] => rules'[i] = rules[i]
                BY <1>4, <4>1
            <4> QED
                BY <4>2, <4>3, MaskSame
        <3>3. RebuildOK(r)'
            <4> SUFFICES ASSUME pc[r] = "rebuild"
                         PROVE  \E g \in Listings : Rebuilt(g, todo[r])'
                BY <1>3 DEF RebuildOK
            <4>1. PICK g \in Listings : Rebuilt(g, todo[r])
                BY <1>2 DEF Data, RebuildOK
            <4>2. f \notin todo[r] /\ todo[r] \subseteq Files
                BY <1>1 DEF RunNotCached, TypeOK
            <4>3. \A i \in todo[r] : rules'[i] = g[i]
                BY <1>4, <4>1, <4>2 DEF Rebuilt
            <4>4. Rebuilt(g, todo[r])'
                BY <1>3, <1>5, <1>6, <2>2, <4>1, <4>3 DEF Rebuilt
            <4> QED
                BY <4>4
        <3> QED
            BY <3>1, <3>2, <3>3
    <2> QED
        BY <1>3, <2>1, <2>2
<1> QED
    BY <1>7, <1>8 DEF Data

\* A reload that begins while no other works keeps DataInv.
LEMMA BeginStep ==
    ASSUME TypeOK, DataInv, NEW r \in Reloads, pc[r] = "wait", Begin(r)
    PROVE  DataInv'
<1> SUFFICES ASSUME lapse' = "none"
             PROVE  DataInv'
    BY DEF DataInv
<1>0. pc \in [Reloads -> Places] /\ todo \in [Reloads -> SUBSET Files] /\ rules \in Listings
    BY DEF TypeOK, Places, Listings
<1>1. /\ ~OtherAtWork(r) /\ lapse = "none" /\ rules' = rules /\ chains' = chains /\ cache' = cache
      /\ up' = up /\ new' = <<>> /\ pc' = [pc EXCEPT ![r] = "collect"] /\ todo' = [todo EXCEPT ![r] = Glob]
    BY DEF Begin, Goto
<1>2. \A q \in Reloads : q # r => pc'[q] = pc[q] /\ pc[q] \notin Running
    BY <1>0, <1>1 DEF OtherAtWork
<1>3. pc'[r] = "collect" /\ todo'[r] = Glob
    BY <1>0, <1>1
<1>4. Working' = Working
    BY <1>1 DEF Working
<1>5. CollectOK(r)'
    <2>1. Joined(Masked(rules, Glob), NumFiles) = <<>> /\ Ordered(rules, Glob)
        BY <1>0, MaskAll DEF Glob
    <2> QED
        BY <1>1, <1>3, <2>1 DEF CollectOK
<1>6. ApplyOK(r)' /\ RebuildOK(r)'
    BY <1>3 DEF ApplyOK, RebuildOK
<1>7. CacheInv'
    <2>1. \A q \in Reloads : pc[q] \notin {"apply", "run", "rebuild"}
        BY <1>2 DEF Running
    <2> QED
        BY <1>1, <1>4, <2>1 DEF DataInv, Data, CacheInv
<1>8. IdleInv'
    BY <1>3 DEF IdleInv
<1> QED
    BY <1>2, <1>5, <1>6, <1>7, <1>8, SoloStep

\* Beside a reload at work there is none.
LEMMA Alone ==
    ASSUME TypeOK, OverlapInv, lapse = "none", NEW r \in Reloads, pc[r] \in Running
    PROVE  \A q \in Reloads : q # r => pc[q] \notin Running
BY DEF OverlapInv

\* Reading a file for the cache keeps DataInv.
LEMMA CollectStep ==
    ASSUME TypeOK, OverlapInv, DataInv, NEW r \in Reloads, Collect(r)
    PROVE  DataInv'
<1> SUFFICES ASSUME lapse' = "none"
             PROVE  DataInv'
    BY DEF DataInv
<1>0. /\ pc \in [Reloads -> Places] /\ todo \in [Reloads -> SUBSET Files] /\ rules \in Listings
      /\ todo[r] \in SUBSET Files
    BY DEF TypeOK, Places, Listings
<1>1. /\ rules' = rules /\ chains' = chains /\ cache' = cache /\ up' = up /\ lapse = "none"
      /\ pc' = pc /\ events' = events /\ lock' = lock
    BY DEF Collect
<1>2. PICK f \in todo[r] : /\ First(r, f) /\ new' = new \o Content(f)
                           /\ todo' = [todo EXCEPT ![r] = @ \ {f}]
    BY DEF Collect
<1>3. todo'[r] = todo[r] \ {f} /\ \A s \in todo[r] : f =< s
    BY <1>0, <1>2 DEF First
<1>4. Content(f) = Entry(rules[f]) /\ pc[r] \in {"collect", "rebuild"} /\ pc[r] \in Running
    BY DEF Content, Entry, Collect, Running
<1>5. Data /\ \A q \in Reloads : q # r => pc[q] \notin Running
    BY <1>1, <1>4, Alone DEF DataInv
<1>6. Working' = Working /\ Pending' = Pending /\ Applied' = Applied
    BY <1>1 DEF Working, Pending, Applied, Wanted
<1>7. CollectOK(r)'
    <2> SUFFICES ASSUME pc[r] = "collect", ~Pending
                 PROVE  new' = Joined(Masked(rules, todo[r] \ {f}), NumFiles) /\ Ordered(rules, todo[r] \ {f})
        BY <1>1, <1>3, <1>6 DEF CollectOK
    <2>1. new = Joined(Masked(rules, todo[r]), NumFiles) /\ Ordered(rules, todo[r])
        BY <1>5 DEF Data, CollectOK
    <2>2. /\ Joined(Masked(rules, todo[r] \ {f}), NumFiles)
               = Joined(Masked(rules, todo[r]), NumFiles) \o Entry(rules[f])
          /\ Ordered(rules, todo[r] \ {f})
        BY <1>0, <1>3, <2>1, MaskNext
    <2> QED
        BY <1>2, <1>4, <2>1, <2>2
<1>8. RebuildOK(r)'
    <2> SUFFICES ASSUME pc[r] = "rebuild"
                 PROVE  \E g \in Listings : Rebuilt(g, todo[r])'
        BY <1>1 DEF RebuildOK
    <2>1. PICK g \in Listings : Rebuilt(g, todo[r])
        BY <1>5 DEF Data, RebuildOK
    <2>2. /\ Joined(Masked(g, todo[r] \ {f}), NumFiles)
               = Joined(Masked(g, todo[r]), NumFiles) \o Entry(g[f])
          /\ Ordered(g, todo[r] \ {f})
        BY <1>0, <1>3, <2>1, MaskNext DEF Rebuilt
    <2>3. rules[f] = g[f] /\ new = Joined(Masked(g, todo[r]), NumFiles)
        BY <2>1 DEF Rebuilt
    <2>4. new' = Joined(Masked(g, todo[r] \ {f}), NumFiles)
        BY <1>2, <1>4, <2>2, <2>3
    <2>5. Rebuilt(g, todo[r])'
        BY <1>1, <1>3, <1>6, <2>1, <2>2, <2>4 DEF Rebuilt
    <2> QED
        BY <2>5
<1>9. ApplyOK(r)'
    BY <1>1, <1>4 DEF ApplyOK
<1>10. CacheInv' /\ IdleInv'
    BY <1>1, <1>5, <1>6 DEF Data, CacheInv, IdleInv
<1> QED
    BY <1>1, <1>5, <1>7, <1>8, <1>9, <1>10, SoloStep

\* A reload ends, because nothing changed or with a new cache.
LEMMA EndStep ==
    ASSUME TypeOK, LockInv, OverlapInv, DataInv, NEW r \in Reloads, NoChange(r) \/ Publish(r)
    PROVE  DataInv'
<1> SUFFICES ASSUME lapse' = "none"
             PROVE  DataInv'
    BY DEF DataInv
<1>0. pc \in [Reloads -> Places] /\ up \in BOOLEAN
    BY DEF TypeOK, Places
<1>1. /\ rules' = rules /\ chains' = chains /\ up' = up /\ events' = events /\ lock' = lock
      /\ pc' = [pc EXCEPT ![r] = "none"] /\ pc[r] \in Running /\ todo[r] = {} /\ lapse = "none"
    BY DEF NoChange, Publish, Goto, Running
<1>2. Data /\ \A q \in Reloads : q # r => pc[q] \notin Running /\ pc'[q] = pc[q]
    BY <1>0, <1>1, Alone DEF DataInv
<1>3. Working' = Working /\ Pending' = Pending /\ Applied' = Applied
    BY <1>1 DEF Working, Pending, Applied, Wanted
<1>4. pc'[r] = "none" /\ pc[r] # "none"
    BY <1>0, <1>1 DEF Running
<1>5. up = TRUE
    BY <1>0, <1>4 DEF LockInv
<1>6. /\ ~Pending => new = Wanted
      /\ new = Working
      /\ cache' # <<>> => cache' = new
    <2>1. CASE NoChange(r)
        <3>1. \A q \in Reloads : pc[q] \notin {"apply", "run", "rebuild"}
            BY <1>2, <2>1 DEF NoChange, Running
        <3>2. cache = Working /\ new = cache /\ cache' = cache
            BY <1>2, <1>5, <2>1, <3>1 DEF NoChange, Data, CacheInv
        <3>3. ~Pending => new = Joined(Masked(rules, {}), NumFiles)
            BY <1>1, <1>2, <2>1 DEF NoChange, Data, CollectOK
        <3> QED
            BY <3>2, <3>3, MaskNone DEF Wanted
    <2>2. CASE Publish(r)
        <3>1. PICK g \in Listings : Rebuilt(g, {})
            BY <1>1, <1>2, <2>2 DEF Publish, Data, RebuildOK
        <3>2. new = Joined(g, NumFiles) /\ Working = Joined(g, NumFiles) /\ (~Pending => rules = g)
            BY <3>1, MaskNone DEF Rebuilt
        <3>3. cache' # <<>> => cache' = new
            BY <1>1, <2>2 DEF Publish
        <3> QED
            BY <3>2, <3>3 DEF Wanted
    <2> QED
        BY <2>1, <2>2
<1>7. CacheInv'
    BY <1>3, <1>6 DEF CacheInv
<1>8. IdleInv'
    BY <1>3, <1>6 DEF IdleInv, Applied
<1>9. CollectOK(r)' /\ ApplyOK(r)' /\ RebuildOK(r)'
    BY <1>4 DEF CollectOK, ApplyOK, RebuildOK
<1> QED
    BY <1>2, <1>7, <1>8, <1>9, SoloStep

\* Flushing the chains with no other reload at work makes everything right again.
LEMMA FlushStep ==
    ASSUME TypeOK, OverlapInv, DataInv, NEW r \in Reloads, Flush(r)
    PROVE  DataInv'
<1> SUFFICES ASSUME lapse' = "none"
             PROVE  DataInv'
    BY DEF DataInv
<1>0. pc \in [Reloads -> Places] /\ todo \in [Reloads -> SUBSET Files] /\ rules \in Listings
    BY DEF TypeOK, Places, Listings
<1>1. /\ rules' = rules /\ chains' = <<>> /\ pc'[r] = "apply" /\ todo'[r] = Glob /\ pc[r] \in Running
      /\ \A q \in Reloads : q # r => pc'[q] = pc[q]
    BY <1>0 DEF Flush, Goto, Running
<1>2. \A q \in Reloads : q # r => pc'[q] \notin Running
    <2>1. CASE OtherAtWork(r)
        <3>1. lapse = "none"
            BY <2>1 DEF Flush
        <3> QED
            BY <1>1, <3>1, Alone
    <2>2. CASE ~OtherAtWork(r)
        BY <1>1, <2>2 DEF OtherAtWork
    <2> QED
        BY <2>1, <2>2
<1>3. Working' = <<>>
    <2>1. Working' = WorkingOf(chains')
        BY DEF Working, WorkingOf, Kept
    <2> QED
        BY <1>1, <2>1, WorkingEmpty
<1>4. ApplyOK(r)'
    <2>1. Joined(Masked(rules, Glob), NumFiles) = <<>> /\ Ordered(rules, Glob)
        BY <1>0, MaskAll DEF Glob
    <2> QED
        BY <1>1, <1>3, <2>1 DEF ApplyOK
<1>5. CollectOK(r)' /\ RebuildOK(r)' /\ IdleInv' /\ CacheInv'
    BY <1>1 DEF CollectOK, RebuildOK, IdleInv, CacheInv
<1> QED
    BY <1>2, <1>4, <1>5, SoloStep

\* The beginning of the second collection keeps DataInv.
LEMMA RebuildStep ==
    ASSUME TypeOK, OverlapInv, DataInv, NEW r \in Reloads, Rebuild(r)
    PROVE  DataInv'
<1> SUFFICES ASSUME lapse' = "none"
             PROVE  DataInv'
    BY DEF DataInv
<1>0. pc \in [Reloads -> Places] /\ todo \in [Reloads -> SUBSET Files] /\ rules \in Listings
    BY DEF TypeOK, Places, Listings
<1>1. /\ rules' = rules /\ chains' = chains /\ new' = <<>> /\ pc'[r] = "rebuild" /\ todo'[r] = Glob
      /\ pc[r] = "apply" /\ todo[r] = {} /\ lapse = "none"
      /\ \A q \in Reloads : q # r => pc'[q] = pc[q]
    BY <1>0 DEF Rebuild, Goto
<1>2. Data /\ \A q \in Reloads : q # r => pc'[q] \notin Running
    BY <1>1, Alone DEF DataInv, Running
<1>3. Working' = Working
    BY <1>1 DEF Working
<1>4. Working = Joined(rules, NumFiles)
    <2>1. Working = Joined(Masked(rules, {}), NumFiles)
        BY <1>1, <1>2 DEF Data, ApplyOK
    <2> QED
        BY <2>1, MaskNone
<1>5. RebuildOK(r)'
    <2>1. Joined(Masked(rules, Glob), NumFiles) = <<>> /\ Ordered(rules, Glob)
        BY <1>0, MaskAll DEF Glob
    <2>2. \E g \in Listings : Rebuilt(g, todo[r])'
        <3>1. PICK g \in Listings : g = rules
            BY <1>0
        <3>2. Rebuilt(g, todo[r])'
            BY <1>1, <1>3, <1>4, <2>1, <3>1 DEF Rebuilt
        <3> QED
            BY <3>2
    <2> QED
        BY <2>2 DEF RebuildOK
<1>6. CollectOK(r)' /\ ApplyOK(r)' /\ IdleInv' /\ CacheInv'
    BY <1>1 DEF CollectOK, ApplyOK, IdleInv, CacheInv
<1> QED
    BY <1>2, <1>5, <1>6, SoloStep

\* The loop that runs the files drops a name whose file adds what the chains gain.
LEMMA NameDone ==
    ASSUME NEW g \in Listings, NEW h \in Listings, NEW S \in SUBSET Files, NEW f \in S,
           \A s \in S : f =< s, Ordered(g, S), \A i \in Files : i # f => h[i] = g[i]
    PROVE  /\ Joined(Masked(h, S \ {f}), NumFiles) = Joined(Masked(g, S), NumFiles) \o Entry(h[f])
           /\ Ordered(h, S \ {f})
<1>1. \A i \in Files : i \notin S => h[i] = g[i]
    OBVIOUS
<1>2. Masked(h, S) = Masked(g, S) /\ Ordered(h, S)
    BY <1>1, MaskSame
<1>3. /\ Joined(Masked(h, S \ {f}), NumFiles) = Joined(Masked(h, S), NumFiles) \o Entry(h[f])
      /\ Ordered(h, S \ {f})
    BY <1>2, MaskNext
<1> QED
    BY <1>2, <1>3

\* Patching, disabling or passing over a file keeps DataInv.
LEMMA SedStep ==
    ASSUME TypeOK, TypeOK', OverlapInv, DataInv, NEW r \in Reloads, Sed(r)
    PROVE  DataInv'
<1> SUFFICES ASSUME lapse' = "none"
             PROVE  DataInv'
    BY DEF DataInv
<1>0. /\ pc \in [Reloads -> Places] /\ todo \in [Reloads -> SUBSET Files]
      /\ rules \in Listings /\ rules' \in Listings /\ chains \in Seq(Contents) /\ todo[r] \in SUBSET Files
    BY DEF TypeOK, Places, Listings
<1>1. pc[r] = "apply" /\ lapse = "none" /\ chains' = chains
    BY DEF Sed
<1>2. Data /\ \A q \in Reloads : q # r => pc[q] \notin Running
    BY <1>1, Alone DEF DataInv, Running
<1>3. PICK f \in todo[r] :
          /\ First(r, f)
          /\ \/ rules[f] = Absent /\ Goto(r, "apply", todo[r] \ {f}) /\ rules' = rules
             \/ /\ rules[f] \in Bad /\ rules' = [rules EXCEPT ![f] = Absent]
                /\ Goto(r, "apply", todo[r] \ {f})
             \/ /\ rules[f] \in Contents /\ rules' = [rules EXCEPT ![f] = Patch[rules[f]]]
                /\ Goto(r, "run", todo[r])
    BY DEF Sed, Disable
<1>4. (\A s \in todo[r] : f =< s) /\ f \in Files /\ \A i \in Files : i # f => rules'[i] = rules[i]
    BY <1>0, <1>3 DEF First, Listings
<1>5. Working' = Working /\ Working \in Seq(Contents)
    <2>1. Working = WorkingOf(chains) /\ Working' = WorkingOf(chains')
        BY DEF Working, WorkingOf, Kept
    <2> QED
        BY <1>0, <1>1, <2>1, WorkingType
<1>6. Working = Joined(Masked(rules, todo[r]), NumFiles) /\ Ordered(rules, todo[r])
    BY <1>1, <1>2 DEF Data, ApplyOK
<1>7. /\ pc'[r] \in {"apply", "run"}
      /\ \A q \in Reloads : q # r => pc'[q] = pc[q]
    BY <1>0, <1>3 DEF Goto
<1>8. Working = Joined(Masked(rules', todo'[r]), NumFiles) /\ Ordered(rules', todo'[r])
    <2>1. CASE rules'[f] = Absent /\ Goto(r, "apply", todo[r] \ {f})
        <3>1. todo'[r] = todo[r] \ {f} /\ Entry(rules'[f]) = <<>>
            BY <1>0, <2>1 DEF Goto, Entry
        <3>2. /\ Joined(Masked(rules', todo[r] \ {f}), NumFiles)
                   = Joined(Masked(rules, todo[r]), NumFiles) \o Entry(rules'[f])
              /\ Ordered(rules', todo[r] \ {f})
            BY <1>0, <1>4, <1>6, NameDone
        <3>3. Working \o <<>> = Working
            BY <1>5, ConcatEmpty
        <3> QED
            BY <1>6, <3>1, <3>2, <3>3
    <2>2. CASE Goto(r, "run", todo[r])
        <3>1. todo'[r] = todo[r]
            BY <1>0, <2>2 DEF Goto
        <3>2. \A i \in Files : i \notin todo[r] => rules'[i] = rules[i]
            BY <1>4
        <3>3. Masked(rules', todo[r]) = Masked(rules, todo[r]) /\ Ordered(rules', todo[r])
            BY <1>6, <3>2, MaskSame
        <3> QED
            BY <1>6, <3>1, <3>3
    <2> QED
        BY <1>0, <1>3, <1>4, <2>1, <2>2 DEF Listings
<1>9. ApplyOK(r)'
    BY <1>5, <1>8 DEF ApplyOK
<1>10. CollectOK(r)' /\ RebuildOK(r)' /\ IdleInv' /\ CacheInv'
    BY <1>7 DEF CollectOK, RebuildOK, IdleInv, CacheInv
<1> QED
    BY <1>2, <1>7, <1>9, <1>10, SoloStep

\* A file is run: the chains gain what the file says, or nothing that counts.
LEMMA RunStep ==
    ASSUME TypeOK, TypeOK', OverlapInv, DataInv, NEW r \in Reloads, Run(r)
    PROVE  DataInv'
<1> SUFFICES ASSUME lapse' = "none"
             PROVE  DataInv'
    BY DEF DataInv
<1>0. /\ pc \in [Reloads -> Places] /\ todo \in [Reloads -> SUBSET Files]
      /\ rules \in Listings /\ rules' \in Listings /\ chains \in Seq(Contents) /\ todo[r] \in SUBSET Files
    BY DEF TypeOK, Places, Listings
<1>1. pc[r] = "run" /\ lapse = "none"
    BY DEF Run
<1>2. Data /\ \A q \in Reloads : q # r => pc[q] \notin Running
    BY <1>1, Alone DEF DataInv, Running
<1>3. PICK f \in todo[r] :
          /\ First(r, f) /\ Goto(r, "apply", todo[r] \ {f})
          /\ \/ rules[f] = Absent /\ rules' = rules /\ chains' = chains
             \/ /\ rules[f] \in Bad /\ chains' \in {chains, Append(chains, rules[f])}
                /\ rules' = [rules EXCEPT ![f] = Absent]
             \/ /\ rules[f] \in Contents \ Bad /\ chains' = Append(chains, rules[f])
                /\ rules' = rules
    BY DEF Run, Disable
<1>4. (\A s \in todo[r] : f =< s) /\ f \in Files /\ \A i \in Files : i # f => rules'[i] = rules[i]
    BY <1>0, <1>3 DEF First, Listings
<1>5. /\ Working = WorkingOf(chains) /\ Working' = WorkingOf(chains')
      /\ Working \in Seq(Contents)
    <2>1. Working = WorkingOf(chains) /\ Working' = WorkingOf(chains')
        BY DEF Working, WorkingOf, Kept
    <2> QED
        BY <1>0, <2>1, WorkingType
<1>6. Working = Joined(Masked(rules, todo[r]), NumFiles) /\ Ordered(rules, todo[r])
    BY <1>1, <1>2 DEF Data, ApplyOK
<1>7. /\ pc'[r] = "apply" /\ todo'[r] = todo[r] \ {f}
      /\ \A q \in Reloads : q # r => pc'[q] = pc[q]
    BY <1>0, <1>3 DEF Goto
<1>8. Working' = Working \o Entry(rules'[f])
    <2>0. Working \o <<>> = Working
        BY <1>5, ConcatEmpty
    <2>1. CASE rules[f] = Absent /\ rules' = rules /\ chains' = chains
        <3>1. Entry(rules'[f]) = <<>>
            BY <2>1 DEF Entry
        <3> QED
            BY <1>5, <2>0, <2>1, <3>1
    <2>2. CASE /\ rules[f] \in Bad /\ chains' \in {chains, Append(chains, rules[f])}
               /\ rules' = [rules EXCEPT ![f] = Absent]
        <3>1. rules'[f] = Absent
            BY <1>0, <1>4, <2>2 DEF Listings
        <3>2. Entry(rules'[f]) = <<>>
            BY <3>1 DEF Entry
        <3>3. rules[f] \in Contents
            BY <2>2, ReloaderAssumption
        <3>4. WorkingOf(Append(chains, rules[f])) = WorkingOf(chains)
            BY <1>0, <2>2, <3>3, WorkingAppend
        <3> QED
            BY <1>5, <2>0, <2>2, <3>2, <3>4
    <2>3. CASE /\ rules[f] \in Contents \ Bad /\ chains' = Append(chains, rules[f])
               /\ rules' = rules
        <3>1. rules[f] # Absent
            BY <2>3, ReloaderAssumption
        <3>2. Entry(rules'[f]) = <<rules[f]>>
            BY <2>3, <3>1 DEF Entry
        <3>3. WorkingOf(Append(chains, rules[f])) = WorkingOf(chains) \o <<rules[f]>>
            BY <1>0, <2>3, WorkingAppend
        <3> QED
            BY <1>5, <2>3, <3>2, <3>3
    <2> QED
        BY <1>3, <2>1, <2>2, <2>3
<1>9. ApplyOK(r)'
    <2>1. /\ Joined(Masked(rules', todo[r] \ {f}), NumFiles)
               = Joined(Masked(rules, todo[r]), NumFiles) \o Entry(rules'[f])
          /\ Ordered(rules', todo[r] \ {f})
        BY <1>0, <1>4, <1>6, NameDone
    <2> QED
        BY <1>6, <1>7, <1>8, <2>1 DEF ApplyOK
<1>10. CollectOK(r)' /\ RebuildOK(r)' /\ IdleInv' /\ CacheInv'
    BY <1>7 DEF CollectOK, RebuildOK, IdleInv, CacheInv
<1> QED
    BY <1>2, <1>7, <1>9, <1>10, SoloStep

\* Every step keeps DataInv.
LEMMA DataStep ==
    ASSUME TypeOK, LockInv, OverlapInv, DataInv, [Next]_vars
    PROVE  DataInv'
<1>0. /\ pc \in [Reloads -> Places] /\ todo \in [Reloads -> SUBSET Files]
      /\ up \in BOOLEAN /\ lock \in BOOLEAN /\ events \in Nat
    BY ReloaderAssumption DEF TypeOK, Places
<1>1. CASE Worker
    <2>1. CASE lock = TRUE
        <3>1. pc' = pc /\ todo' = todo /\ lock' = lock
            BY <1>1, <2>1 DEF Worker
        <3> QED
            BY <1>1, <2>1, <3>1, DataKept DEF Worker, Pending
    <2>2. CASE lock = FALSE
        <3>1. PICK q \in Reloads : pc[q] = "none" /\ pc' = [pc EXCEPT ![q] = "sleep"] /\ lock' = TRUE
            BY <1>1, <2>2 DEF Worker, Spawn
        <3>2. Pending' /\ todo' = todo
            BY <1>1, <3>1 DEF Pending, Worker
        <3>3. \A r \in Reloads : pc[r] \in Running \/ pc'[r] \in Running => pc'[r] = pc[r]
            BY <1>0, <3>1 DEF Running
        <3> QED
            BY <1>1, <3>2, <3>3, DataKept DEF Worker
    <2> QED
        BY <1>0, <2>1, <2>2
<1>2. CASE Start
    <2>1. \A r \in Reloads : pc[r] = "none"
        BY <1>0, <1>2 DEF Start, LockInv
    <2>2. /\ \A r \in Reloads : pc'[r] \in {"none", "sleep"}
          /\ Pending' /\ cache' = <<>>
        BY <1>0, <1>2, <2>1 DEF Start, Spawn, Pending
    <2>3. CacheInv' /\ IdleInv'
        BY <2>2 DEF CacheInv, IdleInv
    <2>4. \A r \in Reloads : CollectOK(r)' /\ ApplyOK(r)' /\ RebuildOK(r)'
        BY <2>2 DEF CollectOK, ApplyOK, RebuildOK
    <2> QED
        BY <2>3, <2>4 DEF DataInv, Data
<1>3. CASE Crash
    <2>1. (\A r \in Reloads : pc'[r] = "none") /\ up' = FALSE
        BY <1>3 DEF Crash
    <2>2. CacheInv' /\ IdleInv'
        BY <2>1 DEF CacheInv, IdleInv
    <2>3. \A r \in Reloads : CollectOK(r)' /\ ApplyOK(r)' /\ RebuildOK(r)'
        BY <2>1 DEF CollectOK, ApplyOK, RebuildOK
    <2> QED
        BY <2>2, <2>3 DEF DataInv, Data
<1>4. ASSUME NEW f \in Files, Edit(f)
      PROVE  DataInv'
    BY <1>4, EditStep
<1>5. ASSUME NEW r \in Reloads, Reload(r)
      PROVE  DataInv'
    <2>1. CASE WakeUp(r)
        <3>1. /\ pc' = [pc EXCEPT ![r] = "wait"] /\ pc[r] = "sleep" /\ todo' = [todo EXCEPT ![r] = {}]
              /\ events' = events /\ lock' = lock
            BY <2>1 DEF WakeUp, Goto
        <3>2. \A q \in Reloads : pc[q] \in Running \/ pc'[q] \in Running
                                   => pc'[q] = pc[q] /\ todo'[q] = todo[q]
            BY <1>0, <3>1 DEF Running
        <3>3. Pending' = Pending /\ pc'[r] # "none"
            BY <1>0, <3>1 DEF Pending
        <3> QED
            BY <2>1, <3>2, <3>3, DataKept DEF WakeUp
    <2>2. CASE TakeWait(r) \/ GiveUpWaiting(r)
        BY <2>2, BeginStep DEF TakeWait, GiveUpWaiting
    <2>3. TypeOK'
        BY TypeStep
    <2> QED
        BY <1>5, <2>1, <2>2, <2>3, CollectStep, EndStep, FlushStep, SedStep, RunStep, RebuildStep DEF Reload
<1>6. CASE UNCHANGED vars
    BY <1>6, DataKept DEF vars, Pending
<1> QED
    BY <1>1, <1>2, <1>3, <1>4, <1>5, <1>6 DEF Next

\* No change of rules.d is lost but in the three ways that lapse names: when
\* nothing is left to do and none of them has happened since the chains were last
\* flushed by a reload with no other at work, the chains hold what the files say;
\* for any number of files, reloads, edits, crashes, overruns and events and
\* whatever sed makes of a file.
THEOREM ChangesKept == Spec => []NoChangeLost
<1>1. Init => LockInv /\ OverlapInv /\ DataInv
    <2> SUFFICES ASSUME Init
                 PROVE  LockInv /\ OverlapInv /\ DataInv
        OBVIOUS
    <2>1. (\A r \in Reloads : pc[r] = "none") /\ up = FALSE /\ events = 0
        BY DEF Init
    <2>2. LockInv /\ OverlapInv
        BY <2>1 DEF LockInv, OverlapInv, Asleep, Running
    <2>3. CacheInv /\ IdleInv
        BY <2>1 DEF CacheInv, IdleInv
    <2>4. \A r \in Reloads : CollectOK(r) /\ ApplyOK(r) /\ RebuildOK(r)
        BY <2>1 DEF CollectOK, ApplyOK, RebuildOK
    <2> QED
        BY <2>2, <2>3, <2>4 DEF DataInv, Data
<1>2. TypeOK /\ LockInv /\ OverlapInv /\ DataInv /\ [Next]_vars => (LockInv /\ OverlapInv /\ DataInv)'
    BY LockStep, OverlapStep, DataStep
<1>3. TypeOK /\ LockInv /\ DataInv => NoChangeLost
    <2> SUFFICES ASSUME TypeOK, LockInv, DataInv, up = TRUE, Quiet, lapse = "none"
                 PROVE  Applied
        BY DEF NoChangeLost, TypeOK
    <2>1. ~Pending
        BY DEF Pending, LockInv, Asleep, Quiet
    <2> QED
        BY <2>1 DEF DataInv, Data, IdleInv, Quiet
<1> QED
    BY <1>1, <1>2, <1>3, TypeCorrect, PTL DEF Spec
=============================================================================
