---------------------------- MODULE FsPanelProofs ----------------------------
(***************************************************************************)
(* The task bar, for any number of windows, desktops and acts and every     *)
(* width of the bar.                                                       *)
(*                                                                         *)
(* The list itself (BaseInv, ViewInv).  No window has two tasks, num_tasks   *)
(* counts them and the pixmaps in the server are the tasks' own, also        *)
(* between the steps of a refresh, for which TodoInv says where the refresh   *)
(* stands: the windows still to be looked at have no task, and a task was   *)
(* added last whose window is still to be selected.  During a refresh only   *)
(* the window that had the focus when it began may be marked; layout and     *)
(* drawing are right whenever no refresh is under way, or an Expose event    *)
(* is still to come.                                                       *)
(*                                                                         *)
(* Names and marks (SelInv, MarksInv).  A task's name is its window's or an  *)
(* event that will correct it is in the queue; its iconified mark may also   *)
(* be what the panel asked the window manager for and it has still to do.    *)
(* A window is selected once its task is complete, so that later changes     *)
(* raise events; those before are in missed.                               *)
(*                                                                         *)
(* Which windows have tasks (FollowInv).  Unless an event that starts a      *)
(* refresh is in the queue, the desktop and the list are the ones the panel  *)
(* has read: tasks are of listed windows, and a listed window on the desktop  *)
(* has a task or is still to be looked at.                                 *)
(*                                                                         *)
(* What Only leaves of a list is defined by the increasing enumeration of   *)
(* its indices; that there is one is proved by induction over the number of  *)
(* indices, as a statement about a set of numbers (Induction, OrderExists).  *)
(***************************************************************************)
EXTENDS FsPanel, FiniteSetTheorems, WellFoundedInduction, TLAPS

-----------------------------------------------------------------------------
(* Induction over the natural numbers, with a set in place of a predicate.  *)

\* A non-empty set of natural numbers has a least element.
LEMMA SmallestNat ==
    ASSUME NEW T, T \subseteq Nat, T # {}
    PROVE  \E x \in T : \A y \in T : x =< y
<1> DEFINE R == {ss \in Nat \X Nat : ss[1] < ss[2]}
<1>1. IsWellFoundedOn(OpToRel(<, Nat), Nat)
    BY NatLessThanWellFounded
<1>2. OpToRel(<, Nat) = R
    BY Zenon DEF OpToRel
<1>3. PICK x \in T : \A y \in T : ~(<<y, x>> \in R)
    BY <1>1, <1>2, WFMin, ZenonT(40)
<1>4. ASSUME NEW y \in T
      PROVE  x =< y
    <2>1. x \in Nat /\ y \in Nat /\ <<y, x>> \notin R
        BY <1>3
    <2> QED
        BY <2>1
<1> QED
    BY <1>4

\* Induction, with the set of the numbers that have the property.
LEMMA Induction ==
    ASSUME NEW S, 0 \in S, \A n \in Nat : n \in S => n + 1 \in S
    PROVE  Nat \subseteq S
<1> SUFFICES ASSUME Nat \ S # {}
             PROVE  FALSE
    OBVIOUS
<1>1. PICK x \in Nat \ S : \A y \in Nat \ S : x =< y
    BY SmallestNat
<1>2. x # 0 /\ x - 1 \in Nat
    BY <1>1
<1>3. x - 1 \in S
    BY <1>1, <1>2
<1> QED
    BY <1>1, <1>2, <1>3

-----------------------------------------------------------------------------
(* What Only leaves of a list.                                             *)

Increasing(f, I) ==
  f \in [1 .. Cardinality(I) -> I] /\ \A j, k \in DOMAIN f : j < k => f[j] < f[k]

\* Sets of indices are finite.
LEMMA IndexSet ==
    ASSUME NEW n \in Nat, NEW I \in SUBSET (1 .. n)
    PROVE  IsFiniteSet(I) /\ Cardinality(I) \in Nat
<1>1. IsFiniteSet(1 .. n)
    BY FS_Interval
<1>2. IsFiniteSet(I)
    BY <1>1, FS_Subset
<1> QED
    BY <1>2, FS_CardinalityType

\* A set of indices can be put in order.
LEMMA OrderExists ==
    ASSUME NEW n \in Nat, NEW I \in SUBSET (1 .. n)
    PROVE  \E f : Increasing(f, I)
<1> DEFINE S == {m \in Nat : \A J \in SUBSET (1 .. m) : \E f : Increasing(f, J)}
<1>1. 0 \in S
    <2>1. ASSUME NEW J \in SUBSET (1 .. 0)
          PROVE  \E f : Increasing(f, J)
        <3>1. J = {} /\ Cardinality({}) = 0
            BY FS_EmptySet
        <3>2. Increasing([i \in 1 .. 0 |-> i], J)
            BY <3>1 DEF Increasing
        <3> QED
            BY <3>2
    <2> QED
        BY <2>1
<1>2. ASSUME NEW m \in Nat, m \in S
      PROVE  m + 1 \in S
    <2>1. ASSUME NEW J \in SUBSET (1 .. m + 1)
          PROVE  \E f : Increasing(f, J)
        <3> DEFINE K == J \ {m + 1}
        <3>1. K \in SUBSET (1 .. m)
            OBVIOUS
        <3>2. PICK f : Increasing(f, K)
            BY <1>2, <3>1
        <3>3. IsFiniteSet(K) /\ Cardinality(K) \in Nat
            BY <3>1, IndexSet
        <3>4. CASE m + 1 \notin J
            <4>1. J = K
                BY <3>4
            <4> QED
                BY <3>2, <4>1
        <3>5. CASE m + 1 \in J
            <4> DEFINE c == Cardinality(K)
            <4>1. J = K \cup {m + 1} /\ m + 1 \notin K
                BY <3>5
            <4>2. Cardinality(J) = c + 1
                BY <3>3, <4>1, FS_AddElement
            <4> HIDE DEF K
            <4>3. c \in Nat /\ f \in [1 .. c -> K] /\ (\A j, k \in 1 .. c : j < k => f[j] < f[k])
                BY <3>2, <3>3 DEF Increasing
            <4> HIDE DEF c
            <4> DEFINE g == [i \in 1 .. c + 1 |-> IF i = c + 1 THEN m + 1 ELSE f[i]]
            <4>4. g \in [1 .. c + 1 -> J]
                BY <4>1, <4>3
            <4>5. ASSUME NEW j \in 1 .. c + 1, NEW k \in 1 .. c + 1, j < k
                  PROVE  g[j] < g[k]
                <5>1. j \in 1 .. c /\ g[j] = f[j]
                    BY <4>3, <4>5
                <5>2. f[j] \in 1 .. m
                    BY <3>1, <4>3, <5>1
                <5>3. CASE k = c + 1
                    BY <5>1, <5>2, <5>3
                <5>4. CASE k # c + 1
                    BY <4>3, <4>5, <5>1, <5>4
                <5> QED
                    BY <5>3, <5>4
            <4>6. DOMAIN g = 1 .. c + 1
                OBVIOUS
            <4> HIDE DEF g
            <4>7. Increasing(g, J)
                BY <4>2, <4>4, <4>5, <4>6 DEF Increasing
            <4> QED
                BY <4>7
        <3> QED
            BY <3>4, <3>5
    <2>2. m + 1 \in Nat
        OBVIOUS
    <2> QED
        BY <2>1, <2>2
<1> HIDE DEF S
<1>3. n \in S
    BY <1>1, <1>2, Induction
<1> QED
    BY <1>3 DEF S

\* What is left are the entries at I, each once, in their order.
LEMMA OnlyIs ==
    ASSUME NEW S, NEW s \in Seq(S), NEW I \in SUBSET DOMAIN s
    PROVE  /\ IsFiniteSet(I) /\ Cardinality(I) \in Nat
           /\ \E f \in Bijection(1 .. Cardinality(I), I) : Only(s, I) = [k \in 1 .. Cardinality(I) |-> s[f[k]]]
<1> DEFINE f == CHOOSE g \in [1 .. Cardinality(I) -> I] : \A j, k \in DOMAIN g : j < k => g[j] < g[k]
           c == Cardinality(I)
<1>1. DOMAIN s = 1 .. Len(s) /\ Len(s) \in Nat
    OBVIOUS
<1>2. IsFiniteSet(I) /\ c \in Nat
    BY <1>1, IndexSet
<1>3. \E g : Increasing(g, I)
    BY <1>1, OrderExists
<1>4. f \in [1 .. c -> I] /\ \A j, k \in 1 .. c : j < k => f[j] < f[k]
    BY <1>3 DEF Increasing
<1>5. Only(s, I) = [k \in 1 .. c |-> s[f[k]]]
    BY DEF Only
<1> HIDE DEF f, c
<1>6. ASSUME NEW j \in 1 .. c, NEW k \in 1 .. c, f[j] = f[k]
      PROVE  j = k
    <2>1. f[j] \in Nat /\ f[k] \in Nat
        BY <1>1, <1>4
    <2> QED
        BY <1>2, <1>4, <1>6, <2>1
<1>7. f \in Injection(1 .. c, I)
    BY <1>4, <1>6 DEF Injection, IsInjective
<1>8. Cardinality(1 .. c) = c
    BY <1>2, FS_Interval
<1>9. f \in Surjection(1 .. c, I)
    BY <1>2, <1>7, <1>8, FS_Injection DEF c
<1> QED
    BY <1>2, <1>5, <1>7, <1>9 DEF Bijection, c

-----------------------------------------------------------------------------
(* Sequences.                                                              *)

\* What Append returns, entry by entry.
LEMMA AppendIs ==
    ASSUME NEW S, NEW s \in Seq(S), NEW e \in S
    PROVE  /\ Append(s, e) \in Seq(S)
           /\ Len(Append(s, e)) = Len(s) + 1
           /\ \A k \in 1 .. Len(s) : Append(s, e)[k] = s[k]
           /\ Append(s, e)[Len(s) + 1] = e
OBVIOUS

\* What Head and Tail return, entry by entry.
LEMMA TailIs ==
    ASSUME NEW S, NEW s \in Seq(S), s # <<>>
    PROVE  /\ Tail(s) \in Seq(S) /\ Head(s) \in S /\ Head(s) = s[1]
           /\ Len(s) \in Nat /\ Len(s) >= 1
           /\ Len(Tail(s)) = Len(s) - 1
           /\ \A k \in 1 .. Len(s) - 1 : Tail(s)[k] = s[k + 1]
OBVIOUS

\* A sequence as a function.
LEMMA DomainIs ==
    ASSUME NEW S, NEW s \in Seq(S)
    PROVE  /\ DOMAIN s = 1 .. Len(s) /\ Len(s) \in Nat
           /\ \A k \in 1 .. Len(s) : s[k] \in S
OBVIOUS

\* A function on 1 .. n as a sequence.
LEMMA SeqIs ==
    ASSUME NEW S, NEW n \in Nat, NEW f \in [1 .. n -> S]
    PROVE  f \in Seq(S) /\ Len(f) = n /\ DOMAIN f = 1 .. n
OBVIOUS

\* Concatenation with one entry is appending.
LEMMA ConcatIs ==
    ASSUME NEW S, NEW s \in Seq(S), NEW e \in S
    PROVE  s \o <<e>> = Append(s, e)
OBVIOUS

\* Concatenation with nothing.
LEMMA ConcatNothing ==
    ASSUME NEW S, NEW s \in Seq(S)
    PROVE  s \o << >> = s
OBVIOUS

-----------------------------------------------------------------------------
(* Events and requests.                                                    *)

Atoms == {"list", "desktop", "name", "state", "hints", "wmdesktop"}

\* The events that are queued are events.
LEMMA EventTypes ==
    /\ \A a \in Atoms : RootEvent(a) \in Event
    /\ \A w \in Windows, a \in Atoms : [kind |-> "prop", win |-> w, atom |-> a] \in Event
    /\ \A w \in Windows : [kind |-> "destroy", win |-> w] \in Event
    /\ \A w \in Windows : [kind |-> "focusin", win |-> w] \in Event
    /\ [kind |-> "expose"] \in Event
BY DEF Event, RootEvent, Atoms

\* The fields an event of each kind has.
LEMMA EventFields ==
    ASSUME NEW e \in Event
    PROVE  /\ e.kind \in {"destroy", "focusin"} => e.win \in Windows
           /\ e.kind = "prop" => e.win \in Windows \cup {None} /\ e.atom \in Atoms
           /\ e.kind = "press" => e.on \in {"tasks", "left", "right", "lgrill", "rgrill"}
           /\ e.kind = "press" /\ e.on = "tasks" => e.at \in PressAt
BY DEF Event, Atoms

\* The requests that are sent are requests.
LEMMA RequestTypes ==
    /\ \A d \in Desktops : [kind |-> "desktop", to |-> d] \in Request
    /\ \A w \in Windows : [kind |-> "map", win |-> w] \in Request
    /\ \A w \in Windows : [kind |-> "iconify", win |-> w] \in Request
BY DEF Request

\* The fields a request of each kind has.
LEMMA RequestFields ==
    ASSUME NEW r \in Request
    PROVE  /\ r.kind = "desktop" => r.to \in Desktops
           /\ r.kind # "desktop" => r.win \in Windows /\ r.kind \in {"map", "iconify"}
BY DEF Request

-----------------------------------------------------------------------------
(* Tasks and the bar.                                                      *)

\* Tasks that differ at most in their marks of focus, place and what is drawn.
Alike(t, u) ==
  /\ t.win = u.win /\ t.iconified = u.iconified /\ t.name = u.name
  /\ t.icon = u.icon /\ t.mask = u.mask /\ t.icon_copied = u.icon_copied

InPlace(t, u) == t.pos_x = u.pos_x /\ t.width = u.width

Visible(t) == t.name # None => t.drawn = LookOf(t)

\* What gui_draw_task shows is a look.
LEMMA LookType ==
    ASSUME NEW t \in Task
    PROVE  LookOf(t) \in Look
BY DEF Task, Look, LookOf

\* gui_draw_task changes nothing of a task but what is shown of it, which is then
\* right.
LEMMA DrawnIs ==
    ASSUME NEW t \in Task
    PROVE  /\ Drawn(t) \in Task /\ Alike(Drawn(t), t) /\ InPlace(Drawn(t), t)
           /\ Drawn(t).focused = t.focused /\ Visible(Drawn(t))
<1>1. CASE t.name = None
    BY <1>1 DEF Drawn, Alike, InPlace, Visible
<1>2. CASE t.name # None
    <2>1. Drawn(t) = [t EXCEPT !.drawn = LookOf(t)]
        BY <1>2 DEF Drawn
    <2>2. LookOf(t) \in Look
        BY LookType
    <2> DEFINE d == LookOf(t)
    <2>3. d \in Look \cup {None}
        BY <2>2
    <2> HIDE DEF d
    <2>4. [t EXCEPT !.drawn = d] \in Task
        BY <2>3 DEF Task
    <2>5. /\ Alike([t EXCEPT !.drawn = d], t) /\ InPlace([t EXCEPT !.drawn = d], t)
          /\ [t EXCEPT !.drawn = d].focused = t.focused
          /\ [t EXCEPT !.drawn = d].drawn = d
        BY DEF Task, Alike, InPlace
    <2>6. LookOf([t EXCEPT !.drawn = d]) = LookOf(t)
        BY DEF Task, LookOf
    <2> QED
        BY <2>1, <2>4, <2>5, <2>6 DEF d, Visible
<1> QED
    BY <1>1, <1>2

\* The width gui_draw_taskbar computes lets n tasks fit into the bar.
LEMMA WidthType ==
    ASSUME NEW n \in Nat, n # 0
    PROVE  /\ TaskWidth(n) \in Nat
           /\ n * TaskWidth(n) =< BarWidth
<1>1. BarWidth \in Nat /\ MaxTaskWidth \in Nat
    BY FsPanelAssumption
<1> DEFINE q == BarWidth \div n
<1>2. q \in Nat /\ n * q =< BarWidth
    BY <1>1
<1>3. CASE q > MaxTaskWidth
    <2>1. TaskWidth(n) = MaxTaskWidth
        BY <1>3 DEF TaskWidth
    <2> HIDE DEF q
    <2>2. n * MaxTaskWidth =< n * q
        BY <1>1, <1>2, <1>3
    <2>3. n * MaxTaskWidth \in Nat /\ n * q \in Nat
        BY <1>1, <1>2
    <2> QED
        BY <1>1, <1>2, <2>1, <2>2, <2>3
<1>4. CASE ~(q > MaxTaskWidth)
    BY <1>2, <1>4 DEF TaskWidth
<1> QED
    BY <1>3, <1>4

\* Where gui_draw_taskbar puts task i of n.
Laid(t, i, n) ==
  t.pos_x = BarStart + (i - 1) * TaskWidth(n) /\ t.width = TaskWidth(n) - 1

\* gui_draw_taskbar lays out and draws every task, and changes nothing else of
\* it.
LEMMA BarIs ==
    ASSUME NEW list \in Seq(Task), NEW n, n = Len(list)
    PROVE  /\ DrawBar(list, n) \in Seq(Task) /\ Len(DrawBar(list, n)) = n
           /\ \A i \in 1 .. n : LET t == DrawBar(list, n)[i] IN
                /\ Alike(t, list[i]) /\ t.focused = list[i].focused
                /\ Laid(t, i, n) /\ Visible(t)
<1>1. n \in Nat /\ DOMAIN list = 1 .. n /\ \A i \in 1 .. n : list[i] \in Task
    BY DomainIs
<1>2. CASE n = 0
    BY <1>1, <1>2 DEF DrawBar
<1>3. CASE n # 0
    <2> DEFINE put(i) == [list[i] EXCEPT !.pos_x = BarStart + (i - 1) * TaskWidth(n),
                                         !.width = TaskWidth(n) - 1]
               bar == [i \in 1 .. n |-> Drawn(put(i))]
    <2>1. DrawBar(list, n) = bar
        BY <1>1, <1>3 DEF DrawBar
    <2>2. TaskWidth(n) \in Nat /\ BarStart \in Nat
        BY <1>1, <1>3, WidthType, FsPanelAssumption
    <2>3. ASSUME NEW i \in 1 .. n
          PROVE  /\ put(i) \in Task /\ Alike(put(i), list[i]) /\ put(i).focused = list[i].focused
                 /\ Laid(put(i), i, n)
        <3> DEFINE x == BarStart + (i - 1) * TaskWidth(n)
                   w == TaskWidth(n) - 1
        <3>1. x \in Int /\ w \in Int
            BY <1>1, <2>2
        <3>2. put(i) = [list[i] EXCEPT !.pos_x = x, !.width = w]
            OBVIOUS
        <3>3. list[i] \in Task
            BY <1>1
        <3> HIDE DEF x, w, put
        <3>4. /\ put(i) \in Task /\ Alike(put(i), list[i]) /\ put(i).focused = list[i].focused
              /\ put(i).pos_x = x /\ put(i).width = w
            BY <3>1, <3>2, <3>3 DEF Task, Alike
        <3> QED
            BY <3>4 DEF Laid, x, w
    <2> HIDE DEF put
    <2>4. ASSUME NEW i \in 1 .. n
          PROVE  /\ Drawn(put(i)) \in Task /\ Alike(Drawn(put(i)), list[i])
                 /\ Drawn(put(i)).focused = list[i].focused
                 /\ Laid(Drawn(put(i)), i, n) /\ Visible(Drawn(put(i)))
        BY <2>3, DrawnIs DEF Alike, InPlace, Laid
    <2>5. bar \in [1 .. n -> Task]
        BY <2>4
    <2>6. bar \in Seq(Task) /\ Len(bar) = n
        BY <1>1, <2>5, SeqIs
    <2> QED
        BY <2>1, <2>4, <2>6
<1> QED
    BY <1>2, <1>3

-----------------------------------------------------------------------------
(* Steps of windows, window manager and user.                              *)

ServerType ==
  /\ alive \subseteq Windows \cup {Panel} /\ fresh \subseteq Windows \ alive
  /\ clientList \in Seq(Windows \cup {Panel}) \cup {<<None>>}
  /\ desktop \in Desktops
  /\ desk \in [Windows -> Desktops \cup {AllDesktops}]
  /\ iconic \in [Windows -> BOOLEAN]
  /\ title \in [Windows -> Titles]
  /\ hints \in [Windows -> {"none", "icon", "masked"}]
  /\ focus \in Windows \cup {None}
  /\ selected \subseteq Windows
  /\ events \in Seq(Event)
  /\ requests \in Seq(Request)
  /\ moved \subseteq Windows /\ missed \subseteq Windows
  /\ acts \in 0 .. MaxActs

PanelType ==
  /\ task_list \in Seq(Task)
  /\ my_desktop \in Desktops
  /\ pc \in {"idle", "list", "look", "select"}
  /\ new_desk \in BOOLEAN
  /\ focus_win \in Windows \cup {None}
  /\ todo \in Seq(Windows \cup {Panel})
  /\ skipped \in BOOLEAN

TypeInv == ServerType /\ PanelType

\* The count of acts stays within its bound.
LEMMA ActType ==
    ASSUME acts \in 0 .. MaxActs
    PROVE  (Act => acts' \in 0 .. MaxActs) /\ (Seldom => acts' \in 0 .. MaxActs)
BY FsPanelAssumption DEF Act, Seldom

\* What the events of a step are: those before and at most one more.
Grows ==
  /\ events' \in Seq(Event) /\ Len(events') >= Len(events)
  /\ \A k \in 1 .. Len(events) : events'[k] = events[k]

\* Leaving the queue alone or appending one event is growing.
LEMMA GrowsBy ==
    ASSUME events \in Seq(Event), NEW e \in Event
    PROVE  (events' = events => Grows) /\ (events' = Append(events, e) => Grows)
<1>1. CASE events' = events
    BY <1>1 DEF Grows
<1>2. CASE events' = Append(events, e)
    BY <1>2, AppendIs DEF Grows
<1> QED
    BY <1>1, <1>2

\* So is the notification about a window's property ...
LEMMA NotifyGrows ==
    ASSUME events \in Seq(Event), NEW w \in Windows, NEW a \in Atoms, Notify(w, a)
    PROVE  Grows
<1>1. [kind |-> "prop", win |-> w, atom |-> a] \in Event
    BY EventTypes
<1>2. CASE w \in selected
    BY <1>1, <1>2, GrowsBy DEF Notify
<1>3. CASE w \notin selected
    BY <1>1, <1>3, GrowsBy DEF Notify
<1> QED
    BY <1>2, <1>3

\* ... and about one of the root window.
LEMMA RootGrows ==
    ASSUME events \in Seq(Event), NEW a \in Atoms, events' = Append(events, RootEvent(a))
    PROVE  Grows
BY EventTypes, GrowsBy

\* What a change of a window's state changes besides.
LEMMA SetIconicIs ==
    ASSUME ServerType, NEW w \in Windows, NEW b \in BOOLEAN, SetIconic(w, b)
    PROVE  /\ Grows /\ iconic' \in [Windows -> BOOLEAN]
           /\ focus' \in Windows \cup {None} /\ missed' \subseteq Windows
           /\ missed \subseteq missed'
<1>1. events \in Seq(Event) /\ iconic \in [Windows -> BOOLEAN] /\ "state" \in Atoms
    BY DEF ServerType, Atoms
<1>2. /\ iconic' \in [Windows -> BOOLEAN]
      /\ focus' \in Windows \cup {None}
    BY DEF ServerType, SetIconic
<1>3. CASE iconic[w] = b
    <2>1. events' = events /\ missed' = missed
        BY <1>3 DEF SetIconic
    <2>2. Grows
        BY <1>1, <2>1 DEF Grows
    <2> QED
        BY <1>2, <2>1, <2>2 DEF ServerType
<1>4. CASE iconic[w] # b
    <2>1. Notify(w, "state") /\ missed' = missed \cup (IF Between(w) THEN {w} ELSE {})
        BY <1>4 DEF SetIconic
    <2>2. Grows
        BY <1>1, <2>1, NotifyGrows
    <2>3. missed' \subseteq Windows /\ missed \subseteq missed'
        BY <2>1 DEF ServerType
    <2> QED
        BY <1>2, <2>2, <2>3
<1> QED
    BY <1>3, <1>4

\* What a change of the desktop changes besides.
LEMMA SetDesktopIs ==
    ASSUME ServerType, NEW d \in Desktops, SetDesktop(d)
    PROVE  Grows /\ desktop' \in Desktops
<1>1. events \in Seq(Event) /\ "desktop" \in Atoms /\ desktop' = d
    BY DEF ServerType, Atoms, SetDesktop
<1>2. CASE d = desktop
    BY <1>1, <1>2 DEF SetDesktop, Grows
<1>3. CASE d # desktop
    BY <1>1, <1>3, RootGrows DEF SetDesktop
<1> QED
    BY <1>1, <1>2, <1>3

\* The panel's own variables, but for what is on the screen.
EnvFrame ==
  /\ pixmaps' = pixmaps /\ num_tasks' = num_tasks /\ my_desktop' = my_desktop
  /\ pc' = pc /\ new_desk' = new_desk /\ focus_win' = focus_win /\ todo' = todo
  /\ skipped' = skipped
  /\ Grows
  /\ task_list' \in Seq(Task) /\ Len(task_list') = Len(task_list)
  /\ \A i \in 1 .. Len(task_list) :
       /\ Alike(task_list'[i], task_list[i]) /\ InPlace(task_list'[i], task_list[i])
       /\ task_list'[i].focused = task_list[i].focused

\* The environment's sequence of windows is injective.
LEMMA SetToSeqIs ==
    ASSUME NEW S, IsFiniteSet(S)
    PROVE  /\ SetToSeq(S) \in Seq(S) /\ Len(SetToSeq(S)) = Cardinality(S)
           /\ IsInjective(SetToSeq(S)) /\ ToSet(SetToSeq(S)) = S
<1> DEFINE c == Cardinality(S)
<1>1. c \in Nat /\ ExistsBijection(1 .. c, S)
    BY FS_CardinalityType
<1>2. PICK g : g \in Bijection(1 .. c, S)
    BY <1>1 DEF ExistsBijection
<1>3. g \in [1 .. c -> S] /\ IsInjective(g)
    BY <1>2 DEF Bijection, Injection
<1> DEFINE f == SetToSeq(S)
<1>4. f \in [1 .. c -> S] /\ IsInjective(f)
    BY <1>3 DEF SetToSeq
<1> HIDE DEF f
<1>5. f \in Injection(1 .. c, S)
    BY <1>4 DEF Injection
<1> HIDE DEF c
<1>6. Cardinality(1 .. c) = c
    BY <1>1, FS_Interval
<1>7. f \in Surjection(1 .. c, S)
    BY <1>1, <1>5, <1>6, FS_Injection DEF c
<1>8. f \in Seq(S) /\ Len(f) = c /\ DOMAIN f = 1 .. c
    BY <1>1, <1>4, SeqIs
<1>9. ToSet(f) = S
    BY <1>4, <1>7, <1>8 DEF Surjection, ToSet
<1> QED
    BY <1>4, <1>8, <1>9 DEF f, c

\* A step that leaves the panel alone leaves its tasks as they are.
LEMMA FrameOf ==
    ASSUME PanelType, Grows, UNCHANGED <<panel, pixmaps, skipped>>
    PROVE  EnvFrame
<1>1. task_list' = task_list /\ task_list \in Seq(Task)
    BY DEF panel, PanelType
<1> QED
    BY <1>1 DEF EnvFrame, panel, Alike, InPlace

\* An exposure removes what was drawn of the tasks and queues an event.
LEMMA ExposeIs ==
    ASSUME TypeInv, Expose
    PROVE  EnvFrame /\ ServerType' /\ events' = Append(events, [kind |-> "expose"])
<1>1. events \in Seq(Event) /\ [kind |-> "expose"] \in Event /\ task_list \in Seq(Task)
    BY EventTypes DEF TypeInv, ServerType, PanelType
<1>2. Grows
    BY <1>1, GrowsBy DEF Expose
<1> DEFINE n == Len(task_list)
           list == [i \in 1 .. n |-> [task_list[i] EXCEPT !.drawn = None]]
<1>3. n \in Nat /\ DOMAIN task_list = 1 .. n /\ \A i \in 1 .. n : task_list[i] \in Task
    BY <1>1, DomainIs
<1>4. task_list' = list
    BY <1>3 DEF Expose
<1>5. ASSUME NEW i \in 1 .. n
      PROVE  /\ [task_list[i] EXCEPT !.drawn = None] \in Task
             /\ Alike([task_list[i] EXCEPT !.drawn = None], task_list[i])
             /\ InPlace([task_list[i] EXCEPT !.drawn = None], task_list[i])
             /\ [task_list[i] EXCEPT !.drawn = None].focused = task_list[i].focused
    <2>1. task_list[i] \in Task
        BY <1>3
    <2> QED
        BY <2>1 DEF Task, Alike, InPlace
<1>6. list \in [1 .. n -> Task]
    BY <1>5
<1>7. list \in Seq(Task) /\ Len(list) = n
    BY <1>3, <1>6, SeqIs
<1>8. EnvFrame
    BY <1>2, <1>4, <1>5, <1>7 DEF EnvFrame, Expose, ghosts
<1>9. ServerType'
    <2>1. acts' \in 0 .. MaxActs /\ events' \in Seq(Event)
        BY <1>2, ActType DEF Expose, TypeInv, ServerType, Grows
    <2> QED
        BY <2>1 DEF Expose, TypeInv, ServerType, server, ghosts
<1> QED
    BY <1>8, <1>9 DEF Expose

\* The type and the length of what Only leaves.
LEMMA OnlyType ==
    ASSUME NEW S, NEW s \in Seq(S), NEW I \in SUBSET DOMAIN s
    PROVE  Only(s, I) \in Seq(S) /\ Len(Only(s, I)) = Cardinality(I)
<1>1. PICK f \in Bijection(1 .. Cardinality(I), I) :
        Only(s, I) = [k \in 1 .. Cardinality(I) |-> s[f[k]]]
    BY OnlyIs
<1>2. f \in [1 .. Cardinality(I) -> I] /\ Cardinality(I) \in Nat
    BY <1>1, OnlyIs DEF Bijection, Injection
<1>3. DOMAIN s = 1 .. Len(s) /\ \A i \in DOMAIN s : s[i] \in S
    BY DomainIs
<1>4. [k \in 1 .. Cardinality(I) |-> s[f[k]]] \in [1 .. Cardinality(I) -> S]
    BY <1>2, <1>3
<1> QED
    BY <1>1, <1>2, <1>4, SeqIs

\* Every act of a window, of the user and of the window manager.
LEMMA EnvStep ==
    ASSUME TypeInv, IsFiniteSet(alive), WmStep \/ Environment
    PROVE  EnvFrame /\ ServerType'
<1> USE DEF TypeInv
<1>0. /\ events \in Seq(Event) /\ "list" \in Atoms
      /\ \A w \in Windows : [kind |-> "destroy", win |-> w] \in Event
                          /\ [kind |-> "focusin", win |-> w] \in Event
    BY EventTypes DEF ServerType, Atoms
<1>1. ASSUME NEW w \in Windows, Manage(w)
      PROVE  EnvFrame /\ ServerType'
    <2>1. Grows
        BY <1>0, <1>1, RootGrows DEF Manage
    <2>2. EnvFrame
        BY <1>1, <2>1, FrameOf DEF Manage, ghosts
    <2>3. clientList' \in Seq(Windows \cup {Panel})
        BY <1>1 DEF Manage, ServerType
    <2>4. desk' \in [Windows -> Desktops \cup {AllDesktops}]
        BY <1>1 DEF Manage, ServerType
    <2>5. acts' \in 0 .. MaxActs
        BY <1>1, ActType DEF Manage, ServerType
    <2>6. ServerType'
        BY <1>1, <2>1, <2>3, <2>4, <2>5 DEF Manage, ServerType, Grows, ghosts
    <2> QED
        BY <2>2, <2>6
<1>2. CASE ManagePanel
    <2>1. Grows
        BY <1>0, <1>2, RootGrows DEF ManagePanel
    <2>2. EnvFrame
        BY <1>2, <2>1, FrameOf DEF ManagePanel, ghosts
    <2>3. clientList' \in Seq(Windows \cup {Panel})
        BY <1>2 DEF ManagePanel, ServerType
    <2>4. ServerType'
        BY <1>2, <2>1, <2>3 DEF ManagePanel, ServerType, Grows, ghosts
    <2> QED
        BY <2>2, <2>4
<1>3. ASSUME NEW w \in Windows, Destroy(w)
      PROVE  EnvFrame /\ ServerType'
    <2>1. Grows
        <3>1. CASE w \in selected
            BY <1>0, <1>3, <3>1, GrowsBy DEF Destroy
        <3>2. CASE w \notin selected
            BY <1>0, <1>3, <3>2, GrowsBy DEF Destroy
        <3> QED
            BY <3>1, <3>2
    <2>2. EnvFrame
        BY <1>3, <2>1, FrameOf DEF Destroy
    <2>3. acts' \in 0 .. MaxActs
        BY <1>3, ActType DEF Destroy, ServerType
    <2>4. /\ desk' \in [Windows -> Desktops \cup {AllDesktops}]
          /\ iconic' \in [Windows -> BOOLEAN] /\ hints' \in [Windows -> {"none", "icon", "masked"}]
        BY <1>3, FsPanelAssumption DEF Destroy, ServerType
    <2>5. ServerType'
        BY <1>3, <2>1, <2>3, <2>4 DEF Destroy, ServerType, Grows
    <2> QED
        BY <2>2, <2>5
<1>4. ASSUME NEW w \in Windows, Unmanage(w)
      PROVE  EnvFrame /\ ServerType'
    <2>1. Grows
        BY <1>0, <1>4, RootGrows DEF Unmanage
    <2>2. EnvFrame
        BY <1>4, <2>1, FrameOf DEF Unmanage, ghosts
    <2> DEFINE I == {i \in DOMAIN clientList : clientList[i] # w}
    <2>3. clientList \in Seq(Windows \cup {Panel})
        <3>1. CASE clientList = <<None>>
            BY <1>4, <3>1, FsPanelAssumption DEF Unmanage, ToSet
        <3> QED
            BY <3>1 DEF ServerType
    <2>4. I \in SUBSET DOMAIN clientList
        OBVIOUS
    <2>5. clientList' = Only(clientList, I)
        BY <1>4 DEF Unmanage
    <2> HIDE DEF I
    <2>6. clientList' \in Seq(Windows \cup {Panel})
        BY <2>3, <2>4, <2>5, OnlyType
    <2>7. ServerType'
        BY <1>4, <2>1, <2>6 DEF Unmanage, ServerType, Grows, ghosts
    <2> QED
        BY <2>2, <2>7
<1>5. CASE WmExit
    <2>1. Grows
        BY <1>0, <1>5, RootGrows DEF WmExit
    <2>2. EnvFrame
        BY <1>5, <2>1, FrameOf DEF WmExit, ghosts
    <2>3. acts' \in 0 .. MaxActs
        BY <1>5, ActType DEF WmExit, ServerType
    <2>4. ServerType'
        BY <1>5, <2>1, <2>3 DEF WmExit, ServerType, Grows, ghosts
    <2> QED
        BY <2>2, <2>4
<1>6. CASE WmStart
    <2>1. Grows
        BY <1>0, <1>6, RootGrows DEF WmStart
    <2>2. EnvFrame
        BY <1>6, <2>1, FrameOf DEF WmStart, ghosts
    <2>3. SetToSeq(alive) \in Seq(alive) /\ alive \subseteq Windows \cup {Panel}
        BY SetToSeqIs DEF ServerType
    <2>4. SetToSeq(alive) \in Seq(Windows \cup {Panel})
        BY <2>3
    <2>5. ServerType'
        BY <1>6, <2>1, <2>4 DEF WmStart, ServerType, Grows, ghosts
    <2> QED
        BY <2>2, <2>5
<1>7. CASE SwitchDesktop
    <2>1. PICK d \in Desktops : SetDesktop(d)
        BY <1>7 DEF SwitchDesktop
    <2>2. Grows /\ desktop' \in Desktops
        BY <2>1, SetDesktopIs
    <2>3. EnvFrame
        BY <1>7, <2>2, FrameOf DEF SwitchDesktop, ghosts
    <2>4. acts' \in 0 .. MaxActs
        BY <1>7, ActType DEF SwitchDesktop, ServerType
    <2>5. ServerType'
        BY <1>7, <2>2, <2>4 DEF SwitchDesktop, ServerType, Grows, ghosts
    <2> QED
        BY <2>3, <2>5
<1>8. ASSUME NEW w \in Windows, MoveToDesktop(w)
      PROVE  EnvFrame /\ ServerType'
    <2>1. Grows
        BY <1>0, <1>8, NotifyGrows DEF MoveToDesktop, Atoms
    <2>2. EnvFrame
        BY <1>8, <2>1, FrameOf DEF MoveToDesktop
    <2>3. acts' \in 0 .. MaxActs
        BY <1>8, ActType DEF MoveToDesktop, ServerType
    <2>4. desk' \in [Windows -> Desktops \cup {AllDesktops}]
        BY <1>8 DEF MoveToDesktop, ServerType
    <2>5. ServerType'
        BY <1>8, <2>1, <2>3, <2>4 DEF MoveToDesktop, ServerType, Grows
    <2> QED
        BY <2>2, <2>5
<1>9. ASSUME NEW w \in Windows, ToggleIconic(w)
      PROVE  EnvFrame /\ ServerType'
    <2>1. /\ Grows /\ iconic' \in [Windows -> BOOLEAN]
          /\ focus' \in Windows \cup {None} /\ missed' \subseteq Windows
        BY <1>9, SetIconicIs DEF ToggleIconic
    <2>2. EnvFrame
        BY <1>9, <2>1, FrameOf DEF ToggleIconic
    <2>3. acts' \in 0 .. MaxActs
        BY <1>9, ActType DEF ToggleIconic, ServerType
    <2>4. ServerType'
        BY <1>9, <2>1, <2>3 DEF ToggleIconic, ServerType, Grows
    <2> QED
        BY <2>2, <2>4
<1>10. ASSUME NEW w \in Windows, Retitle(w)
       PROVE  EnvFrame /\ ServerType'
    <2>1. Grows
        BY <1>0, <1>10, NotifyGrows DEF Retitle, Atoms
    <2>2. EnvFrame
        BY <1>10, <2>1, FrameOf DEF Retitle
    <2>3. acts' \in 0 .. MaxActs
        BY <1>10, ActType DEF Retitle, ServerType
    <2>4. title' \in [Windows -> Titles] /\ missed' \subseteq Windows
        BY <1>10 DEF Retitle, ServerType
    <2>5. ServerType'
        BY <1>10, <2>1, <2>3, <2>4 DEF Retitle, ServerType, Grows
    <2> QED
        BY <2>2, <2>5
<1>11. ASSUME NEW w \in Windows, SetHints(w)
       PROVE  EnvFrame /\ ServerType'
    <2>1. Grows
        BY <1>0, <1>11, NotifyGrows DEF SetHints, Atoms
    <2>2. EnvFrame
        BY <1>11, <2>1, FrameOf DEF SetHints, ghosts
    <2>3. acts' \in 0 .. MaxActs
        BY <1>11, ActType DEF SetHints, ServerType
    <2>4. hints' \in [Windows -> {"none", "icon", "masked"}]
        BY <1>11 DEF SetHints, ServerType
    <2>5. ServerType'
        BY <1>11, <2>1, <2>3, <2>4 DEF SetHints, ServerType, Grows, ghosts
    <2> QED
        BY <2>2, <2>5
<1>12. ASSUME NEW w \in Windows, MoveFocus(w)
       PROVE  EnvFrame /\ ServerType'
    <2>1. Grows
        <3>1. events' = events \/ events' = Append(events, [kind |-> "focusin", win |-> w])
            BY <1>12 DEF MoveFocus, FocusEvents
        <3> QED
            BY <1>0, <3>1, GrowsBy
    <2>2. EnvFrame
        BY <1>12, <2>1, FrameOf DEF MoveFocus, ghosts
    <2>3. acts' \in 0 .. MaxActs
        BY <1>12, ActType DEF MoveFocus, ServerType
    <2>4. ServerType'
        BY <1>12, <2>1, <2>3 DEF MoveFocus, ServerType, Grows, ghosts
    <2> QED
        BY <2>2, <2>4
<1>13. CASE Expose
    BY <1>13, ExposeIs
<1>14. CASE Press
    <2>1. PICK e \in Event : (Act \/ Seldom) /\ events' = Append(events, e)
        BY <1>14 DEF Press
    <2>2. Grows
        BY <1>0, <2>1, GrowsBy
    <2>3. EnvFrame
        BY <1>14, <2>2, FrameOf DEF Press, ghosts
    <2>4. acts' \in 0 .. MaxActs
        BY <2>1, ActType DEF ServerType
    <2>5. ServerType'
        BY <1>14, <2>2, <2>4 DEF Press, ServerType, Grows, server, ghosts
    <2> QED
        BY <2>3, <2>5
<1>15. CASE WmHandle
    <2> DEFINE r == Head(requests)
    <2>1. /\ r \in Request /\ requests' \in Seq(Request)
        <3>1. requests \in Seq(Request) /\ requests # <<>> /\ requests' = Tail(requests)
            BY <1>15 DEF WmHandle, ServerType
        <3> QED
            BY <3>1, TailIs
    <2>2. r.kind = "desktop" => r.to \in Desktops
        BY <2>1, RequestFields
    <2>3. r.kind # "desktop" => r.win \in Windows
        BY <2>1, RequestFields
    <2>4. /\ Grows /\ desktop' \in Desktops /\ iconic' \in [Windows -> BOOLEAN]
          /\ focus' \in Windows \cup {None} /\ missed' \subseteq Windows
        <3>1. CASE r.kind = "desktop" /\ SetDesktop(r.to) /\ UNCHANGED <<iconic, focus, missed>>
            <4>1. Grows /\ desktop' \in Desktops
                BY <2>2, <3>1, SetDesktopIs
            <4> QED
                BY <3>1, <4>1 DEF ServerType
        <3>2. CASE /\ r.kind # "desktop" /\ r.win \in alive
                   /\ SetIconic(r.win, r.kind = "iconify") /\ UNCHANGED desktop
            <4>1. r.win \in Windows /\ (r.kind = "iconify") \in BOOLEAN
                BY <2>3, <3>2
            <4>2. /\ Grows /\ iconic' \in [Windows -> BOOLEAN]
                  /\ focus' \in Windows \cup {None} /\ missed' \subseteq Windows
                BY <3>2, <4>1, SetIconicIs
            <4> QED
                BY <3>2, <4>2 DEF ServerType
        <3>3. CASE r.kind # "desktop" /\ r.win \notin alive
                   /\ UNCHANGED <<desktop, iconic, focus, missed, events>>
            BY <3>3 DEF ServerType, Grows
        <3> QED
            BY <1>15, <3>1, <3>2, <3>3 DEF WmHandle
    <2>5. EnvFrame
        BY <1>15, <2>4, FrameOf DEF WmHandle
    <2>6. ServerType'
        BY <1>15, <2>1, <2>4 DEF WmHandle, ServerType, Grows
    <2> QED
        BY <2>5, <2>6
<1> QED
    BY <1>1, <1>2, <1>3, <1>4, <1>5, <1>6, <1>7, <1>8, <1>9, <1>10, <1>11, <1>12, <1>13, <1>14, <1>15
       DEF WmStep, Environment

-----------------------------------------------------------------------------
(* Pixmaps.                                                                *)

Icons(list, I) == {i \in I : list[i].icon_copied}
Masks(list, I) == {i \in I : list[i].icon_copied /\ list[i].mask # "none"}

SameIcons(list, new, I) ==
  \A i \in I : list[i].icon_copied = new[i].icon_copied /\ list[i].mask = new[i].mask

Owned(t) == t.icon_copied => t.icon = "copy" /\ t.mask \in {"none", "copy"}

\* The pixmaps of finitely many tasks are a natural number.
LEMMA HeldIs ==
    ASSUME NEW list, NEW I, IsFiniteSet(I)
    PROVE  /\ Held(list, I) = Cardinality(Icons(list, I)) + Cardinality(Masks(list, I))
           /\ IsFiniteSet(Icons(list, I)) /\ Cardinality(Icons(list, I)) \in Nat
           /\ IsFiniteSet(Masks(list, I)) /\ Cardinality(Masks(list, I)) \in Nat
           /\ Held(list, I) \in Nat
<1>1. Icons(list, I) \in SUBSET I /\ Masks(list, I) \in SUBSET I
    BY DEF Icons, Masks
<1>2. IsFiniteSet(Icons(list, I)) /\ IsFiniteSet(Masks(list, I))
    BY <1>1, FS_Subset
<1>3. Cardinality(Icons(list, I)) \in Nat /\ Cardinality(Masks(list, I)) \in Nat
    BY <1>2, FS_CardinalityType
<1>4. Held(list, I) = Cardinality(Icons(list, I)) + Cardinality(Masks(list, I))
    BY DEF Held, Icons, Masks
<1> QED
    BY <1>2, <1>3, <1>4

\* Cardinalities of disjoint sets add up.
LEMMA DisjointUnion ==
    ASSUME NEW A, NEW B, IsFiniteSet(A), IsFiniteSet(B), A \cap B = {}
    PROVE  Cardinality(A \cup B) = Cardinality(A) + Cardinality(B)
<1>1. Cardinality(A \cup B) = Cardinality(A) + Cardinality(B) - Cardinality(A \cap B)
    BY FS_Union
<1>2. Cardinality(A \cap B) = 0
    BY FS_EmptySet
<1>3. Cardinality(A) \in Nat /\ Cardinality(B) \in Nat
    BY FS_CardinalityType
<1> QED
    BY <1>1, <1>2, <1>3

\* The pixmaps of two groups of tasks add up, when the second group has changed.
LEMMA HeldAdds ==
    ASSUME NEW list, NEW new, NEW I, NEW J, IsFiniteSet(I), IsFiniteSet(J),
           I \cap J = {}, SameIcons(list, new, I)
    PROVE  Held(new, I \cup J) = Held(list, I) + Held(new, J)
<1>1. /\ Icons(new, I \cup J) = Icons(list, I) \cup Icons(new, J)
      /\ Icons(list, I) \cap Icons(new, J) = {}
    BY DEF Icons, SameIcons
<1>2. /\ Masks(new, I \cup J) = Masks(list, I) \cup Masks(new, J)
      /\ Masks(list, I) \cap Masks(new, J) = {}
    BY DEF Masks, SameIcons
<1>3. IsFiniteSet(I \cup J)
    BY FS_Union
<1>4. /\ Held(list, I) = Cardinality(Icons(list, I)) + Cardinality(Masks(list, I))
      /\ Held(new, J) = Cardinality(Icons(new, J)) + Cardinality(Masks(new, J))
      /\ Held(new, I \cup J) = Cardinality(Icons(new, I \cup J)) + Cardinality(Masks(new, I \cup J))
    BY <1>3, HeldIs
<1>5. /\ IsFiniteSet(Icons(list, I)) /\ IsFiniteSet(Icons(new, J))
      /\ IsFiniteSet(Masks(list, I)) /\ IsFiniteSet(Masks(new, J))
    BY HeldIs
<1>6. Cardinality(Icons(new, I \cup J)) = Cardinality(Icons(list, I)) + Cardinality(Icons(new, J))
    BY <1>1, <1>5, DisjointUnion
<1>7. Cardinality(Masks(new, I \cup J)) = Cardinality(Masks(list, I)) + Cardinality(Masks(new, J))
    BY <1>2, <1>5, DisjointUnion
<1>8. /\ Cardinality(Icons(list, I)) \in Nat /\ Cardinality(Icons(new, J)) \in Nat
      /\ Cardinality(Masks(list, I)) \in Nat /\ Cardinality(Masks(new, J)) \in Nat
    BY <1>5, FS_CardinalityType
<1> QED
    BY <1>4, <1>6, <1>7, <1>8

\* Sets that a bijection relates have as many elements.
LEMMA SameCount ==
    ASSUME NEW A, NEW B, NEW c \in Nat, NEW I, NEW f \in Bijection(1 .. c, I),
           A \subseteq 1 .. c, B \subseteq I, \A k \in 1 .. c : k \in A <=> f[k] \in B
    PROVE  Cardinality(A) = Cardinality(B)
<1> DEFINE g == [k \in A |-> f[k]]
<1>1. /\ f \in [1 .. c -> I] /\ \A j, k \in 1 .. c : f[j] = f[k] => j = k
      /\ \A i \in I : \E k \in 1 .. c : f[k] = i
    BY DEF Bijection, Injection, Surjection, IsInjective
<1>2. g \in [A -> B]
    BY <1>1
<1>3. \A j, k \in A : g[j] = g[k] => j = k
    BY <1>1
<1>4. \A i \in B : \E k \in A : g[k] = i
    BY <1>1
<1>5. DOMAIN g = A
    OBVIOUS
<1> HIDE DEF g
<1>6. g \in Bijection(A, B)
    BY <1>2, <1>3, <1>4, <1>5 DEF Bijection, Injection, Surjection, IsInjective
<1>7. IsFiniteSet(A)
    BY IndexSet
<1> QED
    BY <1>6, <1>7, FS_Bijection DEF ExistsBijection

\* The tasks that remain hold what they held.
LEMMA HeldByKept ==
    ASSUME NEW list, NEW I, IsFiniteSet(I), NEW new, NEW c \in Nat,
           NEW f \in Bijection(1 .. c, I),
           \A k \in 1 .. c : Alike(new[k], list[f[k]])
    PROVE  Held(new, 1 .. c) = Held(list, I)
<1>0. f \in [1 .. c -> I]
    BY DEF Bijection, Injection
<1>1. Cardinality(Icons(new, 1 .. c)) = Cardinality(Icons(list, I))
    <2>1. /\ Icons(new, 1 .. c) \subseteq 1 .. c /\ Icons(list, I) \subseteq I
          /\ \A k \in 1 .. c : k \in Icons(new, 1 .. c) <=> f[k] \in Icons(list, I)
        BY <1>0 DEF Icons, Alike
    <2> QED
        BY <2>1, SameCount
<1>2. Cardinality(Masks(new, 1 .. c)) = Cardinality(Masks(list, I))
    <2>1. /\ Masks(new, 1 .. c) \subseteq 1 .. c /\ Masks(list, I) \subseteq I
          /\ \A k \in 1 .. c : k \in Masks(new, 1 .. c) <=> f[k] \in Masks(list, I)
        BY <1>0 DEF Masks, Alike
    <2> QED
        BY <2>1, SameCount
<1>3. IsFiniteSet(1 .. c)
    BY FS_Interval
<1> QED
    BY <1>1, <1>2, <1>3, HeldIs

\* Redrawn tasks hold the same pixmaps.
LEMMA HeldAlike ==
    ASSUME NEW list, NEW new, NEW n \in Nat, \A i \in 1 .. n : Alike(new[i], list[i])
    PROVE  Held(new, 1 .. n) = Held(list, 1 .. n)
<1>1. Icons(new, 1 .. n) = Icons(list, 1 .. n) /\ Masks(new, 1 .. n) = Masks(list, 1 .. n)
    BY DEF Icons, Masks, Alike
<1> QED
    BY <1>1 DEF Held, Icons, Masks

\* A task more.
LEMMA HeldAppend ==
    ASSUME NEW list \in Seq(Task), NEW t \in Task
    PROVE  Held(Append(list, t), 1 .. Len(list) + 1) = Held(list, 1 .. Len(list)) + Held(<<t>>, {1})
<1> DEFINE n == Len(list)
           new == Append(list, t)
<1>1. n \in Nat /\ (\A k \in 1 .. n : new[k] = list[k]) /\ new[n + 1] = t
    BY AppendIs
<1> HIDE DEF new, n
<1>2. (1 .. n) \cap {n + 1} = {} /\ 1 .. n + 1 = (1 .. n) \cup {n + 1}
    BY <1>1
<1>3. Held(new, (1 .. n) \cup {n + 1}) = Held(list, 1 .. n) + Held(new, {n + 1})
    <2> DEFINE I == 1 .. n
               J == {n + 1}
    <2>1. IsFiniteSet(I)
        BY <1>1, FS_Interval
    <2>2. IsFiniteSet(J)
        BY FS_Singleton
    <2>3. SameIcons(list, new, I)
        BY <1>1 DEF SameIcons
    <2>4. I \cap J = {}
        BY <1>2
    <2> HIDE DEF I, J
    <2>5. Held(new, I \cup J) = Held(list, I) + Held(new, J)
        BY <2>1, <2>2, <2>3, <2>4, HeldAdds
    <2> QED
        BY <2>5 DEF I, J
<1>4. Held(new, {n + 1}) = Held(<<t>>, {1})
    <2>0. /\ Held(new, {n + 1}) = Cardinality(Icons(new, {n + 1})) + Cardinality(Masks(new, {n + 1}))
          /\ Held(<<t>>, {1}) = Cardinality(Icons(<<t>>, {1})) + Cardinality(Masks(<<t>>, {1}))
        BY DEF Held, Icons, Masks
    <2>c. Cardinality({n + 1}) = 1 /\ Cardinality({1}) = 1 /\ Cardinality({}) = 0
        BY FS_Singleton, FS_EmptySet
    <2>1. CASE t.icon_copied
        <3>1. Icons(new, {n + 1}) = {n + 1} /\ Icons(<<t>>, {1}) = {1}
            BY <1>1, <2>1 DEF Icons
        <3>2. CASE t.mask # "none"
            <4>1. Masks(new, {n + 1}) = {n + 1} /\ Masks(<<t>>, {1}) = {1}
                BY <1>1, <2>1, <3>2 DEF Masks
            <4> QED
                BY <2>0, <2>c, <3>1, <4>1
        <3>3. CASE t.mask = "none"
            <4>1. Masks(new, {n + 1}) = {} /\ Masks(<<t>>, {1}) = {}
                BY <1>1, <2>1, <3>3 DEF Masks
            <4> QED
                BY <2>0, <2>c, <3>1, <4>1
        <3> QED
            BY <3>2, <3>3
    <2>2. CASE ~t.icon_copied
        <3>1. /\ Icons(new, {n + 1}) = {} /\ Icons(<<t>>, {1}) = {}
              /\ Masks(new, {n + 1}) = {} /\ Masks(<<t>>, {1}) = {}
            BY <1>1, <2>2 DEF Icons, Masks
        <3> QED
            BY <2>0, <2>c, <3>1
    <2> QED
        BY <2>1, <2>2
<1> QED
    BY <1>2, <1>3, <1>4 DEF new, n

-----------------------------------------------------------------------------
(* A task that is new or gets another icon.                                *)

\* get_task_hinticon touches the icon only; a task that had no copy owns what it
\* gets.
LEMMA HintIs ==
    ASSUME ServerType, NEW t \in Task, NEW w \in Windows
    PROVE  LET u == HintIcon(t, w) IN
           /\ u \in Task /\ InPlace(u, t)
           /\ u.win = t.win /\ u.focused = t.focused /\ u.iconified = t.iconified /\ u.name = t.name
           /\ ~t.icon_copied => Owned(u)
<1>1. CASE w \notin alive \/ hints[w] = "none"
    <2>1. HintIcon(t, w) = [t EXCEPT !.icon = "generic", !.mask = "generic"]
        BY <1>1 DEF HintIcon
    <2> QED
        BY <2>1 DEF Task, InPlace, Owned
<1>2. CASE ~(w \notin alive \/ hints[w] = "none")
    <2> DEFINE m == IF hints[w] = "masked" THEN "copy" ELSE "none"
    <2>1. HintIcon(t, w) = [t EXCEPT !.icon = "copy", !.icon_copied = TRUE, !.mask = m]
        BY <1>2 DEF HintIcon
    <2>2. m \in {"none", "copy"}
        OBVIOUS
    <2> HIDE DEF m
    <2> QED
        BY <2>1, <2>2 DEF Task, InPlace, Owned
<1> QED
    BY <1>1, <1>2

\* What add_task reads into a new task.
LEMMA NewTaskIs ==
    ASSUME TypeInv, NEW w \in Windows
    PROVE  /\ NewTask(w) \in Task /\ NewTask(w).win = w /\ Owned(NewTask(w))
           /\ NewTask(w).focused = (w = focus_win)
           /\ w \in alive => NewTask(w).iconified = iconic[w] /\ NewTask(w).name = title[w]
<1> DEFINE t == [win |-> w, focused |-> (w = focus_win), iconified |-> is_iconified(w),
                 name |-> get_window_name(w), icon |-> "generic", mask |-> "none",
                 icon_copied |-> FALSE, pos_x |-> 0, width |-> 0, drawn |-> None]
<1>1. /\ (w = focus_win) \in BOOLEAN /\ is_iconified(w) \in BOOLEAN
      /\ get_window_name(w) \in Titles \cup {None}
    BY DEF is_iconified, get_window_name, TypeInv, ServerType
<1>2. t \in Task
    BY <1>1 DEF Task
<1>3. NewTask(w) = WithIcon(t, w)
    BY DEF NewTask
<1>4. w \in alive => t.iconified = iconic[w] /\ t.name = title[w]
    BY DEF is_iconified, get_window_name, TypeInv, ServerType
<1>5. t.win = w /\ t.focused = (w = focus_win) /\ ~t.icon_copied
    OBVIOUS
<1> HIDE DEF t
<1>6. CASE w \in alive \cap KdeIcon
    <2>1. NewTask(w) = [t EXCEPT !.icon = "kde", !.mask = "kde"]
        BY <1>3, <1>6 DEF WithIcon
    <2>2. [t EXCEPT !.icon = "kde", !.mask = "kde"] \in Task
        BY <1>2 DEF Task
    <2> QED
        BY <1>2, <1>4, <1>5, <2>1, <2>2 DEF Task, Owned
<1>7. CASE w \notin alive \cap KdeIcon
    <2>1. NewTask(w) = HintIcon(t, w)
        BY <1>3, <1>7 DEF WithIcon
    <2> QED
        BY <1>2, <1>4, <1>5, <2>1, HintIs DEF TypeInv
<1> QED
    BY <1>6, <1>7

-----------------------------------------------------------------------------
(* What the panel's steps make of the list.                                *)

\* The whole list was drawn.
Redrawn(new, old) ==
  /\ new \in Seq(Task) /\ Len(new) = Len(old)
  /\ \A i \in 1 .. Len(new) :
       /\ Alike(new[i], old[i]) /\ new[i].focused = old[i].focused
       /\ Laid(new[i], i, Len(new)) /\ Visible(new[i])

\* The new list has only tasks of the old one, each at most once.
Embeds(f, new, old) ==
  /\ f \in [1 .. Len(new) -> 1 .. Len(old)]
  /\ \A j, k \in 1 .. Len(new) : f[j] = f[k] => j = k
  /\ \A k \in 1 .. Len(new) : Alike(new[k], old[f[k]])

\* gui_draw_taskbar redraws its list.
LEMMA BarRedraws ==
    ASSUME NEW list \in Seq(Task)
    PROVE  Redrawn(DrawBar(list, Len(list)), list)
BY BarIs DEF Redrawn

\* Tasks that differ in focus, place and drawing only: transitivity.
LEMMA AlikeTrans ==
    ASSUME NEW t, NEW u, NEW v, Alike(t, u), Alike(u, v)
    PROVE  Alike(t, v)
BY DEF Alike

\* Redrawing keeps an embedding.
LEMMA EmbedsRedrawn ==
    ASSUME NEW old, NEW mid, NEW new, NEW f, Embeds(f, mid, old), Redrawn(new, mid)
    PROVE  Embeds(f, new, old)
<1>1. Len(new) = Len(mid) /\ \A i \in 1 .. Len(new) : Alike(new[i], mid[i])
    BY DEF Redrawn
<1> QED
    BY <1>1, AlikeTrans DEF Embeds

\* A list of like tasks embeds in the old one index by index.
LEMMA EmbedsItself ==
    ASSUME NEW old, NEW new, Len(old) \in Nat, Len(new) = Len(old),
           \A i \in 1 .. Len(new) : Alike(new[i], old[i])
    PROVE  Embeds([i \in 1 .. Len(new) |-> i], new, old)
BY DEF Embeds

\* f gives the place in the old list, one of I.
Picks(f, new, old, I) ==
  /\ Embeds(f, new, old)
  /\ \A k \in 1 .. Len(new) : f[k] \in I /\ new[k] = old[f[k]]
  /\ \A i \in I : \E k \in 1 .. Len(new) : f[k] = i

\* The tasks at I remain.
LEMMA OnlyTasks ==
    ASSUME NEW list \in Seq(Task), NEW I, I \subseteq 1 .. Len(list)
    PROVE  LET new == Only(list, I) IN
           /\ new \in Seq(Task) /\ Len(new) = Cardinality(I) /\ Len(new) \in Nat
           /\ Held(new, 1 .. Len(new)) = Held(list, I)
           /\ \E f : Picks(f, new, list, I)
<1>1. DOMAIN list = 1 .. Len(list) /\ Len(list) \in Nat
    BY DomainIs
<1>2. I \in SUBSET DOMAIN list
    BY <1>1
<1> DEFINE c == Cardinality(I)
           new == Only(list, I)
<1>3. new \in Seq(Task) /\ Len(new) = c
    BY <1>2, OnlyType
<1>4. IsFiniteSet(I) /\ c \in Nat
    BY <1>2, OnlyIs
<1>5. PICK f \in Bijection(1 .. c, I) : new = [k \in 1 .. c |-> list[f[k]]]
    BY <1>2, OnlyIs
<1>6. /\ f \in [1 .. c -> I] /\ (\A j, k \in 1 .. c : f[j] = f[k] => j = k)
      /\ \A i \in I : \E k \in 1 .. c : f[k] = i
    BY DEF Bijection, Injection, Surjection, IsInjective
<1>7. \A k \in 1 .. c : new[k] = list[f[k]] /\ f[k] \in I
    BY <1>5, <1>6
<1> HIDE DEF new, c
<1>8. \A k \in 1 .. c : Alike(new[k], list[f[k]])
    BY <1>7 DEF Alike
<1>9. Held(new, 1 .. c) = Held(list, I)
    BY <1>4, <1>8, HeldByKept
<1>10. Embeds(f, new, list)
    BY <1>3, <1>6, <1>8 DEF Embeds
<1>11. /\ \A k \in 1 .. Len(new) : f[k] \in I /\ new[k] = list[f[k]]
       /\ \A i \in I : \E k \in 1 .. Len(new) : f[k] = i
    BY <1>3, <1>6, <1>7
<1>12. Held(new, 1 .. Len(new)) = Held(list, I) /\ Len(new) \in Nat
    BY <1>3, <1>4, <1>9
<1>13. Picks(f, new, list, I)
    BY <1>10, <1>11 DEF Picks
<1> QED
    BY <1>3, <1>12, <1>13 DEF new, c

\* What the remaining tasks hold is what was held without what was freed.
LEMMA HeldSplit ==
    ASSUME NEW list, NEW n \in Nat, NEW I, I \subseteq 1 .. n
    PROVE  /\ Held(list, 1 .. n) - Held(list, (1 .. n) \ I) = Held(list, I)
           /\ n - Cardinality((1 .. n) \ I) = Cardinality(I)
<1> DEFINE J == (1 .. n) \ I
           N == 1 .. n
<1>1. I \in SUBSET N /\ J \in SUBSET N /\ I \cap J = {} /\ N = I \cup J
    OBVIOUS
<1>2. IsFiniteSet(I) /\ IsFiniteSet(J) /\ Cardinality(I) \in Nat /\ Cardinality(J) \in Nat
    BY <1>1, IndexSet
<1>3. Cardinality(N) = n
    BY FS_Interval
<1> HIDE DEF J, N
<1>4. SameIcons(list, list, I)
    BY DEF SameIcons
<1>0. I \cap J = {}
    BY <1>1
<1>5. Held(list, I \cup J) = Held(list, I) + Held(list, J)
    BY <1>0, <1>2, <1>4, HeldAdds
<1>6. Held(list, I) \in Nat /\ Held(list, J) \in Nat
    BY <1>2, HeldIs
<1>7. Cardinality(I \cup J) = Cardinality(I) + Cardinality(J)
    BY <1>1, <1>2, DisjointUnion
<1>8. Held(list, N) - Held(list, J) = Held(list, I)
    BY <1>1, <1>5, <1>6
<1>9. n - Cardinality(J) = Cardinality(I)
    BY <1>1, <1>2, <1>3, <1>7
<1> QED
    BY <1>8, <1>9 DEF J, N

-----------------------------------------------------------------------------
(* The inductive invariant.                                                *)

\* Windows: the list names each of them once, none that does not exist yet.
ServerInv ==
  /\ IsFiniteSet(alive) /\ Panel \in alive
  /\ \A i, j \in 1 .. Len(clientList) : clientList[i] = clientList[j] => i = j
  /\ \A i \in 1 .. Len(clientList) : clientList[i] \notin fresh
  /\ \A k \in 1 .. Len(events) : events[k].kind = "destroy" => events[k].win \notin alive \cup fresh

\* No window has two tasks, and num_tasks counts them.
ListInv ==
  /\ num_tasks = Len(task_list)
  /\ \A i, j \in 1 .. Len(task_list) : task_list[i].win = task_list[j].win => i = j
  /\ \A i \in 1 .. Len(task_list) : task_list[i].win \notin fresh

\* The windows still to be looked at have no task; the one that is about to be
\* selected has the last.
TodoInv ==
  /\ pc \in {"idle", "list"} => todo = <<>>
  /\ pc \in {"look", "select"} => todo # <<>>
  /\ \A j, k \in 1 .. Len(todo) : todo[j] = todo[k] => j = k
  /\ \A k \in 1 .. Len(todo) : todo[k] \notin fresh
  /\ pc = "select" => task_list # <<>> /\ task_list[Len(task_list)].win = todo[1]
  /\ \A i \in 1 .. Len(task_list), k \in 1 .. Len(todo) :
       task_list[i].win = todo[k] => pc = "select" /\ i = Len(task_list) /\ k = 1

PixInv ==
  /\ pixmaps = Held(task_list, 1 .. Len(task_list))
  /\ \A i \in 1 .. Len(task_list) : Owned(task_list[i])

\* During a refresh only the window that had the focus at its beginning is marked.
FocusInv ==
  /\ pc \in {"idle", "list"} =>
       \A i, j \in 1 .. Len(task_list) : task_list[i].focused /\ task_list[j].focused => i = j
  /\ pc \in {"look", "select"} =>
       \A i \in 1 .. Len(task_list) : task_list[i].focused => task_list[i].win = focus_win

LayInv ==
  pc = "idle" => \A i \in 1 .. Len(task_list) : Laid(task_list[i], i, Len(task_list))

\* What is not drawn will be: by the refresh that is under way or on an Expose.
DrawInv ==
  pc = "idle" /\ (\A k \in 1 .. Len(events) : events[k].kind # "expose") =>
    \A i \in 1 .. Len(task_list) : Visible(task_list[i])

BaseInv == TypeInv /\ ServerInv /\ ListInv /\ TodoInv /\ PixInv

-----------------------------------------------------------------------------
(* The effect of each of the panel's steps.                                *)

Unseen == <<alive, fresh, clientList, desktop, desk, iconic, title, hints, acts>>

\* The panel reads what belongs to the server and sets at most the focus.
LEMMA PanelKeeps ==
    ASSUME PanelStep
    PROVE  UNCHANGED Unseen
<1> USE DEF Unseen, server
<1>1. ReadDesktop => UNCHANGED Unseen
    BY DEF ReadDesktop
<1>2. ReadList => UNCHANGED Unseen
    BY DEF ReadList
<1>3. LookAt => UNCHANGED Unseen
    BY DEF LookAt
<1>4. SelectInput => UNCHANGED Unseen
    BY DEF SelectInput
<1>5. HandleDestroy => UNCHANGED Unseen
    BY DEF HandleDestroy
<1>6. HandleExpose \/ HandleFocusIn => UNCHANGED Unseen
    BY DEF HandleExpose, HandleFocusIn
<1>7. HandleProperty => UNCHANGED Unseen
    BY DEF HandleProperty
<1>8. SwitchDesk \/ PressGrill => UNCHANGED Unseen
    BY DEF SwitchDesk, PressGrill
<1>9. PressTasks => UNCHANGED Unseen
    BY DEF PressTasks
<1> QED
    BY <1>1, <1>2, <1>3, <1>4, <1>5, <1>6, <1>7, <1>8, <1>9 DEF PanelStep

\* The refresh ends with the list it had.
LEMMA DoneIs ==
    ASSUME TypeInv, ListInv, PixInv, Done(task_list, num_tasks), pixmaps' = pixmaps
    PROVE  /\ Redrawn(task_list', task_list) /\ num_tasks' = Len(task_list')
           /\ pc' = "idle" /\ todo' = <<>> /\ new_desk' = FALSE /\ focus_win' = None
           /\ pixmaps' = Held(task_list', 1 .. Len(task_list'))
<1>1. task_list \in Seq(Task) /\ num_tasks = Len(task_list) /\ Len(task_list) \in Nat
    BY DEF TypeInv, PanelType, ListInv
<1>2. Redrawn(task_list', task_list)
    BY <1>1, BarRedraws DEF Done
<1>3. Len(task_list') = Len(task_list) /\ \A i \in 1 .. Len(task_list) : Alike(task_list'[i], task_list[i])
    BY <1>2 DEF Redrawn
<1>4. Held(task_list', 1 .. Len(task_list)) = Held(task_list, 1 .. Len(task_list))
    BY <1>1, <1>3, HeldAlike
<1> QED
    BY <1>1, <1>2, <1>3, <1>4 DEF Done, PixInv

InList(w) == \E i \in 1 .. Len(clientList) : clientList[i] = w
InTodo(w) == \E k \in 1 .. Len(todo) : todo[k] = w
HasTask(w) == \E i \in 1 .. Len(task_list) : task_list[i].win = w

\* taskbar_read_clientlist sets the marks by the focus it has read, nothing else.
LEMMA RefocusedIs ==
    ASSUME TypeInv
    PROVE  /\ Refocused \in Seq(Task) /\ Len(Refocused) = Len(task_list)
           /\ \A i \in 1 .. Len(task_list) :
                Alike(Refocused[i], task_list[i]) /\ Refocused[i].focused = (task_list[i].win = focus_win)
<1> DEFINE n == Len(task_list)
<1>1. n \in Nat /\ DOMAIN task_list = 1 .. n /\ \A i \in 1 .. n : task_list[i] \in Task
    BY DomainIs DEF TypeInv, PanelType
<1>2. ASSUME NEW i \in 1 .. n
      PROVE  LET t == [task_list[i] EXCEPT !.focused = (task_list[i].win = focus_win)] IN
             t \in Task /\ Alike(t, task_list[i]) /\ t.focused = (task_list[i].win = focus_win)
    <2> DEFINE b == (task_list[i].win = focus_win)
    <2>1. b \in BOOLEAN /\ task_list[i] \in Task
        BY <1>1
    <2> HIDE DEF b
    <2>2. LET t == [task_list[i] EXCEPT !.focused = b] IN
          t \in Task /\ Alike(t, task_list[i]) /\ t.focused = b
        BY <2>1 DEF Task, Alike
    <2> QED
        BY <2>2 DEF b
<1>3. Refocused = [i \in 1 .. n |-> [task_list[i] EXCEPT !.focused = (task_list[i].win = focus_win)]]
    BY <1>1 DEF Refocused
<1> HIDE DEF n
<1>4. Refocused \in [1 .. n -> Task]
    BY <1>2, <1>3
<1>5. Refocused \in Seq(Task) /\ Len(Refocused) = n
    BY <1>1, <1>4, SeqIs
<1> QED
    BY <1>2, <1>3, <1>5 DEF n

\* The windows of the list that have no task are put down in todo, each once.
LEMMA NewWindows ==
    ASSUME NEW c \in Seq(Windows \cup {Panel}), NEW J, J \subseteq 1 .. Len(c),
           \A i, j \in 1 .. Len(c) : c[i] = c[j] => i = j
    PROVE  LET new == Only(c, J) IN
           /\ new \in Seq(Windows \cup {Panel})
           /\ \A j, k \in 1 .. Len(new) : new[j] = new[k] => j = k
           /\ \A k \in 1 .. Len(new) : \E i \in J : new[k] = c[i]
           /\ \A i \in J : \E k \in 1 .. Len(new) : new[k] = c[i]
<1> DEFINE new == Only(c, J)
           n == Cardinality(J)
<1>1. DOMAIN c = 1 .. Len(c) /\ Len(c) \in Nat
    BY DomainIs
<1>2. J \in SUBSET DOMAIN c
    BY <1>1
<1>3. new \in Seq(Windows \cup {Panel}) /\ Len(new) = n
    BY <1>2, OnlyType
<1>4. PICK f \in Bijection(1 .. n, J) : new = [k \in 1 .. n |-> c[f[k]]]
    BY <1>2, OnlyIs
<1>5. /\ f \in [1 .. n -> J] /\ (\A j, k \in 1 .. n : f[j] = f[k] => j = k)
      /\ \A i \in J : \E k \in 1 .. n : f[k] = i
    BY DEF Bijection, Injection, Surjection, IsInjective
<1>6. \A k \in 1 .. n : new[k] = c[f[k]] /\ f[k] \in J /\ f[k] \in 1 .. Len(c)
    BY <1>4, <1>5
<1> HIDE DEF new, n
<1>7. \A j, k \in 1 .. n : new[j] = new[k] => j = k
    BY <1>5, <1>6
<1>8. \A k \in 1 .. n : \E i \in J : new[k] = c[i]
    BY <1>6
<1>9. \A i \in J : \E k \in 1 .. n : new[k] = c[i]
    BY <1>5, <1>6
<1> QED
    BY <1>3, <1>7, <1>8, <1>9 DEF new

\* ReadList, when there is a list.
LEMMA ReadListIs ==
    ASSUME BaseInv, ReadList, clientList # <<None>>
    PROVE  /\ task_list' \in Seq(Task) /\ num_tasks' = Len(task_list')
           /\ \E f : Embeds(f, task_list', task_list)
           /\ pixmaps' = Held(task_list', 1 .. Len(task_list'))
           /\ \A i \in 1 .. Len(task_list') :
                /\ InList(task_list'[i].win) /\ ~new_desk
                /\ task_list'[i].focused => task_list'[i].win = focus_win
           /\ todo' \in Seq(Windows \cup {Panel})
           /\ \A j, k \in 1 .. Len(todo') : todo'[j] = todo'[k] => j = k
           /\ \A k \in 1 .. Len(todo') :
                InList(todo'[k]) /\ \A i \in 1 .. Len(task_list') : task_list'[i].win # todo'[k]
           /\ \A w : InList(w) => InTodo(w)' \/ HasTask(w)'
           /\ \/ /\ pc' = "idle" /\ todo' = <<>> /\ new_desk' = FALSE /\ focus_win' = None
                 /\ \A i \in 1 .. Len(task_list') :
                      Laid(task_list'[i], i, Len(task_list')) /\ Visible(task_list'[i])
              \/ pc' = "look" /\ todo' # <<>> /\ UNCHANGED <<new_desk, focus_win>>
           /\ skipped' = (skipped /\ ~new_desk)
<1> DEFINE N == 1 .. Len(task_list)
           stay == {i \in N : ~new_desk /\ InList(task_list[i].win)}
           gone == N \ stay
           kept == Only(Refocused, stay)
           n    == num_tasks - Cardinality(gone)
           J    == {i \in 1 .. Len(clientList) : \A j \in stay : task_list[j].win # clientList[i]}
           new  == Only(clientList, J)
<1>1. /\ task_list \in Seq(Task) /\ Len(task_list) \in Nat /\ DOMAIN task_list = N
      /\ num_tasks = Len(task_list) /\ pixmaps = Held(task_list, N)
      /\ clientList \in Seq(Windows \cup {Panel}) /\ DOMAIN clientList = 1 .. Len(clientList)
      /\ \A i, j \in 1 .. Len(clientList) : clientList[i] = clientList[j] => i = j
    BY DomainIs DEF BaseInv, TypeInv, PanelType, ServerType, ListInv, PixInv, ServerInv
<1>2. \A w : w \in ToSet(clientList) <=> InList(w)
    BY <1>1 DEF ToSet, InList
<1>3. stay = {i \in DOMAIN task_list : ~new_desk /\ task_list[i].win \in ToSet(clientList)}
    BY <1>1, <1>2
<1>4. J = {i \in DOMAIN clientList : \A j \in stay : task_list[j].win # clientList[i]}
    BY <1>1
<1> HIDE DEF stay, J
<1>5. /\ pixmaps' = pixmaps - Held(task_list, gone)
      /\ skipped' = (skipped /\ ~new_desk)
      /\ IF new = <<>> THEN Done(kept, n)
         ELSE /\ task_list' = kept /\ num_tasks' = n /\ todo' = new /\ pc' = "look"
              /\ UNCHANGED <<new_desk, focus_win>>
    BY <1>1, <1>3, <1>4 DEF ReadList
<1>6. stay \subseteq 1 .. Len(task_list)
    BY DEF stay
<1>7. n = Cardinality(stay) /\ pixmaps' = Held(task_list, stay)
    BY <1>1, <1>5, <1>6, HeldSplit
<1>8. /\ Refocused \in Seq(Task) /\ Len(Refocused) = Len(task_list)
      /\ \A i \in N : /\ Alike(Refocused[i], task_list[i])
                      /\ Refocused[i].focused = (task_list[i].win = focus_win)
    BY RefocusedIs DEF BaseInv
<1>9. /\ kept \in Seq(Task) /\ Len(kept) = n /\ Len(kept) \in Nat
      /\ Held(kept, 1 .. Len(kept)) = Held(Refocused, stay)
    BY <1>6, <1>7, <1>8, OnlyTasks
<1>p. PICK f : Picks(f, kept, Refocused, stay)
    BY <1>6, <1>8, OnlyTasks
<1>10. /\ Embeds(f, kept, Refocused)
       /\ \A k \in 1 .. Len(kept) : f[k] \in stay /\ kept[k] = Refocused[f[k]]
       /\ \A i \in stay : \E k \in 1 .. Len(kept) : f[k] = i
    BY <1>p DEF Picks
<1>11. Held(Refocused, stay) = Held(task_list, stay)
    <2>1. \A i \in stay : Alike(Refocused[i], task_list[i])
        BY <1>6, <1>8
    <2>2. /\ Icons(Refocused, stay) = Icons(task_list, stay)
          /\ Masks(Refocused, stay) = Masks(task_list, stay)
        BY <2>1 DEF Icons, Masks, Alike
    <2> QED
        BY <2>2 DEF Held, Icons, Masks
<1>12. Embeds(f, kept, task_list)
    BY <1>8, <1>10, AlikeTrans DEF Embeds
<1>13. \A k \in 1 .. Len(kept) :
         /\ kept[k].win = task_list[f[k]].win /\ f[k] \in stay
         /\ kept[k].focused = (kept[k].win = focus_win)
    <2> SUFFICES ASSUME NEW k \in 1 .. Len(kept)
                 PROVE  /\ kept[k].win = task_list[f[k]].win /\ f[k] \in stay
                        /\ kept[k].focused = (kept[k].win = focus_win)
        OBVIOUS
    <2>1. f[k] \in stay /\ f[k] \in N /\ kept[k] = Refocused[f[k]]
        BY <1>6, <1>10
    <2>2. Alike(Refocused[f[k]], task_list[f[k]]) /\ Refocused[f[k]].focused = (task_list[f[k]].win = focus_win)
        BY <1>8, <2>1
    <2> QED
        BY <2>1, <2>2 DEF Alike
<1>14. /\ new \in Seq(Windows \cup {Panel})
       /\ \A j, k \in 1 .. Len(new) : new[j] = new[k] => j = k
       /\ \A k \in 1 .. Len(new) : \E i \in J : new[k] = clientList[i]
       /\ \A i \in J : \E k \in 1 .. Len(new) : new[k] = clientList[i]
    <2>1. J \subseteq 1 .. Len(clientList)
        BY DEF J
    <2> QED
        BY <1>1, <2>1, NewWindows
<1> HIDE DEF kept, n, new, gone
<1>15. \A k \in 1 .. Len(new) : InList(new[k]) /\ \A i \in 1 .. Len(kept) : kept[i].win # new[k]
    BY <1>13, <1>14 DEF J, InList
<1>16. ASSUME NEW w, InList(w)
       PROVE  (\E k \in 1 .. Len(new) : new[k] = w) \/ \E i \in 1 .. Len(kept) : kept[i].win = w
    <2>1. PICK i \in 1 .. Len(clientList) : clientList[i] = w
        BY <1>16 DEF InList
    <2>2. CASE i \in J
        BY <1>14, <2>1, <2>2
    <2>3. CASE i \notin J
        <3>1. PICK j \in stay : task_list[j].win = w
            BY <2>1, <2>3 DEF J
        <3>2. PICK k \in 1 .. Len(kept) : f[k] = j
            BY <1>10, <3>1
        <3> QED
            BY <1>13, <3>1, <3>2
    <2> QED
        BY <2>2, <2>3
<1>17. \A k \in 1 .. Len(kept) : InList(kept[k].win) /\ ~new_desk
    BY <1>13 DEF stay
<1>18. CASE new = <<>>
    <2>1. Done(kept, n)
        BY <1>5, <1>18
    <2>2. Redrawn(task_list', kept)
        BY <1>9, <2>1, BarRedraws DEF Done
    <2>3. Embeds(f, task_list', task_list)
        BY <1>12, <2>2, EmbedsRedrawn
    <2>4. /\ task_list' \in Seq(Task) /\ Len(task_list') = Len(kept)
          /\ \A i \in 1 .. Len(kept) :
               /\ Alike(task_list'[i], kept[i]) /\ task_list'[i].focused = kept[i].focused
               /\ Laid(task_list'[i], i, Len(kept)) /\ Visible(task_list'[i])
        BY <2>2 DEF Redrawn
    <2>5. Held(task_list', 1 .. Len(kept)) = Held(kept, 1 .. Len(kept))
        BY <1>9, <2>4, HeldAlike
    <2>6. todo' = <<>> /\ Len(<<>>) = 0 /\ <<>> \in Seq(Windows \cup {Panel})
        BY <2>1 DEF Done
    <2>7. \A i \in 1 .. Len(kept) : task_list'[i].win = kept[i].win
        BY <2>4 DEF Alike
    <2>8. \A i \in 1 .. Len(task_list') :
            /\ InList(task_list'[i].win) /\ ~new_desk
            /\ task_list'[i].focused => task_list'[i].win = focus_win
        BY <1>13, <1>17, <2>4, <2>7
    <2>9. ASSUME NEW w, InList(w)
          PROVE  HasTask(w)'
        <3>1. PICK i \in 1 .. Len(kept) : kept[i].win = w
            BY <1>16, <1>18, <2>6, <2>9
        <3> QED
            BY <2>4, <2>7, <3>1 DEF HasTask
    <2>10. num_tasks' = Len(task_list') /\ pixmaps' = Held(task_list', 1 .. Len(task_list'))
        BY <1>7, <1>9, <1>11, <2>1, <2>4, <2>5 DEF Done
    <2>11. pc' = "idle" /\ new_desk' = FALSE /\ focus_win' = None
        BY <2>1 DEF Done
    <2>12. \A i \in 1 .. Len(task_list') :
             Laid(task_list'[i], i, Len(task_list')) /\ Visible(task_list'[i])
        BY <2>4
    <2> QED
        BY <1>5, <2>3, <2>4, <2>6, <2>8, <2>9, <2>10, <2>11, <2>12
<1>19. CASE new # <<>>
    <2>1. /\ task_list' = kept /\ num_tasks' = n /\ todo' = new /\ pc' = "look"
          /\ UNCHANGED <<new_desk, focus_win>>
        BY <1>5, <1>19
    <2>2. \A w : InList(w) => InTodo(w)' \/ HasTask(w)'
        BY <1>16, <2>1 DEF InTodo, HasTask
    <2>3. \A i \in 1 .. Len(task_list') :
            /\ InList(task_list'[i].win) /\ ~new_desk
            /\ task_list'[i].focused => task_list'[i].win = focus_win
        BY <1>13, <1>17, <2>1
    <2>4. num_tasks' = Len(task_list') /\ pixmaps' = Held(task_list', 1 .. Len(task_list'))
        BY <1>7, <1>9, <1>11, <2>1
    <2> QED
        BY <1>5, <1>9, <1>12, <1>14, <1>15, <1>19, <2>1, <2>2, <2>3, <2>4
<1> QED
    BY <1>18, <1>19

\* del_task on DestroyNotify: the other tasks stay in order, are laid out and
\* drawn; the pixmaps are freed.
LEMMA HandleDestroyIs ==
    ASSUME BaseInv, HandleDestroy
    PROVE  /\ Head(events).win \in Windows
           /\ task_list' \in Seq(Task) /\ num_tasks' = Len(task_list')
           /\ \E f : /\ Embeds(f, task_list', task_list)
                     /\ \A k \in 1 .. Len(task_list') : task_list'[k].focused = task_list[f[k]].focused
                     /\ \A i \in 1 .. Len(task_list) :
                          task_list[i].win # Head(events).win => \E k \in 1 .. Len(task_list') : f[k] = i
           /\ pixmaps' = Held(task_list', 1 .. Len(task_list'))
           /\ \A i \in 1 .. Len(task_list') :
                Laid(task_list'[i], i, Len(task_list')) /\ Visible(task_list'[i])
<1> DEFINE w == Head(events).win
           N == 1 .. Len(task_list)
           stay == {i \in N : task_list[i].win # w}
           gone == N \ stay
           kept == Only(task_list, stay)
           n    == num_tasks - Cardinality(gone)
<1>0. w \in Windows
    <2>1. Head(events) \in Event /\ Head(events).kind = "destroy"
        BY TailIs DEF HandleDestroy, idleWith, BaseInv, TypeInv, ServerType
    <2> QED
        BY <2>1, EventFields
<1>1. /\ task_list \in Seq(Task) /\ Len(task_list) \in Nat /\ DOMAIN task_list = N
      /\ num_tasks = Len(task_list) /\ pixmaps = Held(task_list, N)
    BY DomainIs DEF BaseInv, TypeInv, PanelType, ListInv, PixInv
<1>2. find_task(w) = gone
    BY <1>1 DEF find_task
<1>3. N \ gone = stay
    OBVIOUS
<1>4. /\ pixmaps' = pixmaps - Held(task_list, gone) /\ num_tasks' = n
      /\ task_list' = DrawBar(kept, n)
    BY <1>1, <1>2, <1>3 DEF HandleDestroy
<1>5. stay \subseteq N
    OBVIOUS
<1> HIDE DEF stay, w
<1>6. n = Cardinality(stay) /\ pixmaps' = Held(task_list, stay)
    BY <1>1, <1>4, <1>5, HeldSplit
<1>7. /\ kept \in Seq(Task) /\ Len(kept) = n /\ Len(kept) \in Nat
      /\ Held(kept, 1 .. Len(kept)) = Held(task_list, stay)
    BY <1>1, <1>5, <1>6, OnlyTasks
<1>8. PICK f : Picks(f, kept, task_list, stay)
    BY <1>1, <1>5, OnlyTasks
<1>9. /\ Embeds(f, kept, task_list)
      /\ \A k \in 1 .. Len(kept) : f[k] \in stay /\ kept[k] = task_list[f[k]]
      /\ \A i \in stay : \E k \in 1 .. Len(kept) : f[k] = i
    BY <1>8 DEF Picks
<1> HIDE DEF kept, gone, n
<1>10. Redrawn(task_list', kept)
    BY <1>4, <1>7, BarRedraws
<1>11. Embeds(f, task_list', task_list)
    BY <1>9, <1>10, EmbedsRedrawn
<1>12. /\ task_list' \in Seq(Task) /\ Len(task_list') = Len(kept)
       /\ \A i \in 1 .. Len(kept) :
            /\ Alike(task_list'[i], kept[i]) /\ task_list'[i].focused = kept[i].focused
            /\ Laid(task_list'[i], i, Len(kept)) /\ Visible(task_list'[i])
    BY <1>10 DEF Redrawn
<1>13. Held(task_list', 1 .. Len(kept)) = Held(kept, 1 .. Len(kept))
    BY <1>7, <1>12, HeldAlike
<1>14. \A k \in 1 .. Len(task_list') : task_list'[k].focused = task_list[f[k]].focused
    BY <1>9, <1>12
<1>15. \A i \in N : task_list[i].win # w => \E k \in 1 .. Len(task_list') : f[k] = i
    BY <1>9, <1>12 DEF stay
<1>16. num_tasks' = Len(task_list') /\ pixmaps' = Held(task_list', 1 .. Len(task_list'))
    BY <1>4, <1>6, <1>7, <1>12, <1>13
<1>17. \E g : /\ Embeds(g, task_list', task_list)
              /\ \A k \in 1 .. Len(task_list') : task_list'[k].focused = task_list[g[k]].focused
              /\ \A i \in 1 .. Len(task_list) :
                   task_list[i].win # Head(events).win => \E k \in 1 .. Len(task_list') : g[k] = i
    BY <1>11, <1>14, <1>15 DEF w
<1> QED
    BY <1>0, <1>12, <1>16, <1>17 DEF w

\* add_task does not make a task of this window.
Skips(w) == is_hidden(w) \/ ~is_visible_on_desktop(w, my_desktop)

\* The first window still to be looked at.
LEMMA HeadIs ==
    ASSUME BaseInv, pc \in {"look", "select"}
    PROVE  /\ todo \in Seq(Windows \cup {Panel}) /\ Len(todo) \in Nat /\ Len(todo) >= 1
           /\ Head(todo) = todo[1] /\ todo[1] \in Windows \cup {Panel}
           /\ Tail(todo) \in Seq(Windows \cup {Panel}) /\ Len(Tail(todo)) = Len(todo) - 1
           /\ \A k \in 1 .. Len(todo) - 1 : Tail(todo)[k] = todo[k + 1]
BY TailIs DEF BaseInv, TypeInv, PanelType, TodoInv

\* LookAt as three cases: the last window is passed over, another one is, a task
\* is added.
LEMMA LookAtIs ==
    ASSUME BaseInv, LookAt
    PROVE  /\ pc = "look" /\ moved' = moved \ {todo[1]}
           /\ \/ /\ Skips(todo[1]) /\ Len(todo) = 1
                 /\ Done(task_list, num_tasks) /\ pixmaps' = pixmaps /\ missed' = missed
              \/ /\ Skips(todo[1]) /\ Len(todo) # 1 /\ todo' = Tail(todo)
                 /\ UNCHANGED <<pc, task_list, num_tasks, new_desk, focus_win, pixmaps, missed>>
              \/ /\ ~Skips(todo[1]) /\ todo[1] \in Windows
                 /\ task_list' = Append(task_list, NewTask(todo[1]))
                 /\ num_tasks' = num_tasks + 1 /\ pixmaps' = pixmaps + Held(<<NewTask(todo[1])>>, {1})
                 /\ missed' = missed \ {todo[1]}
                 /\ pc' = "select" /\ UNCHANGED <<todo, new_desk, focus_win>>
<1>1. pc = "look" /\ Head(todo) = todo[1] /\ todo[1] \in Windows \cup {Panel}
    BY HeadIs DEF LookAt
<1>2. ~Skips(todo[1]) => todo[1] \in Windows
    BY <1>1 DEF Skips, is_hidden
<1>3. CASE Skips(todo[1]) /\ Len(todo) = 1
    BY <1>1, <1>3 DEF LookAt, Skips
<1>4. CASE Skips(todo[1]) /\ Len(todo) # 1
    BY <1>1, <1>4 DEF LookAt, Skips
<1>5. CASE ~Skips(todo[1])
    BY <1>1, <1>2, <1>5 DEF LookAt, Skips
<1> QED
    BY <1>3, <1>4, <1>5

\* SelectInput as two cases: the refresh is over or goes on.
LEMMA SelectInputIs ==
    ASSUME BaseInv, SelectInput
    PROVE  /\ pc = "select" /\ todo[1] \in Windows
           /\ selected' = selected \cup ({todo[1]} \cap alive)
           /\ UNCHANGED <<pixmaps, missed, moved>>
           /\ \/ Len(todo) = 1 /\ Done(task_list, num_tasks)
              \/ /\ Len(todo) # 1 /\ todo' = Tail(todo) /\ pc' = "look"
                 /\ UNCHANGED <<task_list, num_tasks, new_desk, focus_win>>
<1>1. pc = "select" /\ Head(todo) = todo[1]
    BY HeadIs DEF SelectInput
<1>2. todo[1] \in Windows
    <2>1. /\ task_list \in Seq(Task) /\ task_list # <<>>
          /\ task_list[Len(task_list)].win = todo[1]
        BY <1>1 DEF BaseInv, TodoInv, TypeInv, PanelType
    <2>2. task_list[Len(task_list)] \in Task
        BY <2>1
    <2> QED
        BY <2>1, <2>2 DEF Task
<1> QED
    BY <1>1, <1>2 DEF SelectInput, ghosts

\* A handler that leaves the tasks where they are and draws what it changes.
Touched(t, u) ==
  /\ t \in Task /\ t.win = u.win /\ InPlace(t, u)
  /\ Visible(u) => Visible(t)

\* Setting the mark changes nothing else of a task.
LEMMA FocusedIs ==
    ASSUME NEW u \in Task, NEW b \in BOOLEAN
    PROVE  LET t == [u EXCEPT !.focused = b] IN
           t \in Task /\ Alike(t, u) /\ InPlace(t, u) /\ t.focused = b
BY DEF Task, Alike, InPlace

\* A task that stays in place and is drawn is touched.
LEMMA DrawnTouches ==
    ASSUME NEW t \in Task, NEW u \in Task, t.win = u.win, InPlace(t, u)
    PROVE  Touched(Drawn(t), u)
BY DrawnIs DEF Touched, Alike, InPlace

\* handle_focusin marks the task of the window and no other.
LEMMA HandleFocusInIs ==
    ASSUME BaseInv, HandleFocusIn
    PROVE  /\ task_list' \in Seq(Task) /\ Len(task_list') = Len(task_list)
           /\ \A i \in 1 .. Len(task_list) :
                /\ Touched(task_list'[i], task_list[i]) /\ Alike(task_list'[i], task_list[i])
                /\ task_list'[i].focused = (task_list'[i].win = Head(events).win)
<1> DEFINE n == Len(task_list)
           w == Head(events).win
           mark(i) == IF task_list[i].focused = (task_list[i].win = w) THEN task_list[i]
                      ELSE Drawn([task_list[i] EXCEPT !.focused = (task_list[i].win = w)])
<1>1. n \in Nat /\ DOMAIN task_list = 1 .. n /\ \A i \in 1 .. n : task_list[i] \in Task
    BY DomainIs DEF BaseInv, TypeInv, PanelType
<1>2. task_list' = [i \in 1 .. n |-> mark(i)]
    BY <1>1 DEF HandleFocusIn
<1>3. ASSUME NEW i \in 1 .. n
      PROVE  /\ Touched(mark(i), task_list[i]) /\ Alike(mark(i), task_list[i])
             /\ mark(i).focused = (mark(i).win = w)
    <2> DEFINE u == task_list[i]
               b == (u.win = w)
    <2>1. u \in Task /\ b \in BOOLEAN
        BY <1>1
    <2>2. CASE u.focused = b
        <3>1. mark(i) = u
            BY <2>2
        <3> QED
            BY <2>1, <2>2, <3>1 DEF Touched, Alike, InPlace
    <2>3. CASE u.focused # b
        <3> DEFINE t == [u EXCEPT !.focused = b]
        <3>1. mark(i) = Drawn(t)
            BY <2>3
        <3>2. t \in Task /\ Alike(t, u) /\ InPlace(t, u) /\ t.focused = b
            BY <2>1, FocusedIs
        <3> HIDE DEF t
        <3>3. Alike(Drawn(t), t) /\ Drawn(t).focused = t.focused
            BY <3>2, DrawnIs
        <3>4. Touched(Drawn(t), u)
            BY <2>1, <3>2, DrawnTouches DEF Alike
        <3>5. Alike(Drawn(t), u)
            BY <3>2, <3>3, AlikeTrans
        <3> QED
            BY <3>1, <3>2, <3>3, <3>4, <3>5 DEF Alike
    <2> QED
        BY <2>2, <2>3
<1> HIDE DEF mark
<1>4. [i \in 1 .. n |-> mark(i)] \in [1 .. n -> Task]
    BY <1>3 DEF Touched
<1>5. [i \in 1 .. n |-> mark(i)] \in Seq(Task) /\ Len([i \in 1 .. n |-> mark(i)]) = n
    BY <1>1, <1>4, SeqIs
<1> QED
    BY <1>2, <1>3, <1>5

\* What a property event makes of a task.
LEMMA RefreshedIs ==
    ASSUME ServerType, NEW u \in Task, NEW a \in Atoms
    PROVE  LET t == Refreshed(u, a) IN
           /\ Touched(t, u) /\ t.focused = u.focused
           /\ IF a = "name" THEN t.name = get_window_name(u.win) ELSE t.name = u.name
           /\ IF a = "state" THEN t.iconified = is_iconified(u.win) ELSE t.iconified = u.iconified
           /\ IF Reloads(u, a) THEN Owned(u) => Owned(t)
              ELSE t.icon = u.icon /\ t.mask = u.mask /\ t.icon_copied = u.icon_copied
<1>0. u.win \in Windows /\ u.iconified \in BOOLEAN /\ is_iconified(u.win) \in BOOLEAN
      /\ get_window_name(u.win) \in Titles \cup {None}
    BY DEF Task, is_iconified, get_window_name, ServerType
<1>1. CASE a = "name"
    <2> DEFINE m == get_window_name(u.win)
               t == [u EXCEPT !.name = m]
    <2>1. Refreshed(u, a) = Drawn(t) /\ ~Reloads(u, a)
        BY <1>1 DEF Refreshed, Reloads
    <2> HIDE DEF m
    <2>2. /\ t \in Task /\ t.win = u.win /\ InPlace(t, u) /\ t.focused = u.focused
          /\ t.name = m /\ t.iconified = u.iconified
          /\ t.icon = u.icon /\ t.mask = u.mask /\ t.icon_copied = u.icon_copied
        BY <1>0 DEF Task, InPlace, m
    <2> HIDE DEF t
    <2>3. Alike(Drawn(t), t) /\ Drawn(t).focused = t.focused
        BY <2>2, DrawnIs
    <2>4. Touched(Drawn(t), u)
        BY <2>2, DrawnTouches
    <2> QED
        BY <1>1, <2>1, <2>2, <2>3, <2>4 DEF Alike, m
<1>2. CASE a = "state" /\ is_iconified(u.win) # u.iconified
    <2> DEFINE m == ~u.iconified
               t == [u EXCEPT !.iconified = m]
    <2>1. Refreshed(u, a) = Drawn(t) /\ ~Reloads(u, a)
        BY <1>2 DEF Refreshed, Reloads
    <2>m. m \in BOOLEAN /\ m = is_iconified(u.win)
        BY <1>0, <1>2
    <2> HIDE DEF m
    <2>2. /\ t \in Task /\ t.win = u.win /\ InPlace(t, u) /\ t.focused = u.focused
          /\ t.name = u.name /\ t.iconified = m
          /\ t.icon = u.icon /\ t.mask = u.mask /\ t.icon_copied = u.icon_copied
        BY <2>m DEF Task, InPlace
    <2> HIDE DEF t
    <2>3. Alike(Drawn(t), t) /\ Drawn(t).focused = t.focused
        BY <2>2, DrawnIs
    <2>4. Touched(Drawn(t), u)
        BY <2>2, DrawnTouches
    <2> QED
        BY <1>2, <2>1, <2>m, <2>2, <2>3, <2>4 DEF Alike
<1>3. CASE Reloads(u, a)
    <2> DEFINE t == HintIcon(u, u.win)
    <2>1. a = "hints" /\ u.icon = "generic"
        BY <1>3 DEF Reloads
    <2>2. Refreshed(u, a) = Drawn(t)
        BY <1>3, <2>1 DEF Refreshed
    <2>3. /\ t \in Task /\ InPlace(t, u)
          /\ t.win = u.win /\ t.focused = u.focused /\ t.iconified = u.iconified /\ t.name = u.name
          /\ ~u.icon_copied => Owned(t)
        BY <1>0, HintIs
    <2> HIDE DEF t
    <2>4. Alike(Drawn(t), t) /\ Drawn(t).focused = t.focused
        BY <2>3, DrawnIs
    <2>5. Touched(Drawn(t), u)
        BY <2>3, DrawnTouches
    <2>6. Owned(u) => Owned(Drawn(t))
        BY <2>1, <2>3, <2>4 DEF Owned, Alike
    <2> QED
        BY <1>3, <2>1, <2>2, <2>3, <2>4, <2>5, <2>6 DEF Alike
<1>4. CASE a # "name" /\ ~(a = "state" /\ is_iconified(u.win) # u.iconified) /\ ~Reloads(u, a)
    <2>1. Refreshed(u, a) = u
        BY <1>4 DEF Refreshed
    <2> QED
        BY <1>0, <1>4, <2>1 DEF Touched, InPlace
<1> QED
    BY <1>1, <1>2, <1>3, <1>4

\* handle_propertynotify refreshes the tasks of the window and loads pixmaps for
\* those only.
LEMMA HandlePropertyIs ==
    ASSUME BaseInv, HandleProperty
    PROVE  LET w == Head(events).win
               a == Head(events).atom
           IN
           /\ w \in Windows /\ a \in Atoms /\ Head(events).kind = "prop"
           /\ task_list' \in Seq(Task) /\ Len(task_list') = Len(task_list)
           /\ \A i \in 1 .. Len(task_list) :
                task_list'[i] = IF task_list[i].win = w THEN Refreshed(task_list[i], a) ELSE task_list[i]
           /\ pixmaps' = pixmaps + Held(task_list', {i \in 1 .. Len(task_list) :
                                      task_list[i].win = w /\ Reloads(task_list[i], a)})
<1> DEFINE n == Len(task_list)
           w == Head(events).win
           a == Head(events).atom
           new(i) == IF task_list[i].win = w THEN Refreshed(task_list[i], a) ELSE task_list[i]
<1>1. n \in Nat /\ DOMAIN task_list = 1 .. n /\ \A i \in 1 .. n : task_list[i] \in Task
    BY DomainIs DEF BaseInv, TypeInv, PanelType
<1>2. w \in Windows /\ a \in Atoms /\ Head(events).kind = "prop"
    <2>1. Head(events) \in Event /\ Head(events).kind = "prop" /\ Head(events).win # None
        BY TailIs DEF HandleProperty, idleWith, BaseInv, TypeInv, ServerType
    <2> QED
        BY <2>1, EventFields
<1>3. find_task(w) = {i \in 1 .. n : task_list[i].win = w}
    BY <1>1 DEF find_task
<1>4. {i \in find_task(w) : Reloads(task_list[i], a)}
        = {i \in 1 .. n : task_list[i].win = w /\ Reloads(task_list[i], a)}
    BY <1>3
<1>5. task_list' = [i \in 1 .. n |-> new(i)]
    BY <1>1, <1>3 DEF HandleProperty
<1>6. \A i \in 1 .. n : new(i) \in Task
    <2> SUFFICES ASSUME NEW i \in 1 .. n
                 PROVE  new(i) \in Task
        OBVIOUS
    <2>1. task_list[i] \in Task /\ ServerType
        BY <1>1 DEF BaseInv, TypeInv
    <2>2. Touched(Refreshed(task_list[i], a), task_list[i])
        BY <1>2, <2>1, RefreshedIs
    <2> QED
        BY <2>1, <2>2 DEF Touched
<1>7. pixmaps' = pixmaps + Held(task_list', {i \in 1 .. n : task_list[i].win = w /\ Reloads(task_list[i], a)})
    BY <1>4 DEF HandleProperty
<1> HIDE DEF new, w, a
<1>8. [i \in 1 .. n |-> new(i)] \in [1 .. n -> Task]
    BY <1>6
<1>9. [i \in 1 .. n |-> new(i)] \in Seq(Task) /\ Len([i \in 1 .. n |-> new(i)]) = n
    BY <1>1, <1>8, SeqIs
<1> QED
    BY <1>2, <1>5, <1>7, <1>9 DEF new, w, a

-----------------------------------------------------------------------------
(* Where the tasks lie, and presses.                                       *)

\* Multiplication is monotonic ...
LEMMA MulMono ==
    ASSUME NEW a \in Nat, NEW b \in Nat, a =< b, NEW c \in Nat
    PROVE  a * c =< b * c /\ a * c \in Nat /\ b * c \in Nat
OBVIOUS

\* ... and distributes over the next number.
LEMMA MulNext ==
    ASSUME NEW a \in Nat, NEW c \in Nat
    PROVE  (a + 1) * c = a * c + c
OBVIOUS

\* Task i ends before task j begins, and within the task area.
LEMMA SideBySide ==
    ASSUME NEW n \in Nat, NEW i \in 1 .. n, NEW t, Laid(t, i, n)
    PROVE  /\ t.pos_x \in Int /\ t.width \in Int
           /\ t.pos_x >= BarStart /\ t.pos_x + t.width =< BarStart + BarWidth
           /\ \A j \in 1 .. n : \A u : i < j /\ Laid(u, j, n) => t.pos_x + t.width < u.pos_x
<1> DEFINE W == TaskWidth(n)
<1>1. W \in Nat /\ n * W =< BarWidth /\ BarStart \in Nat /\ BarWidth \in Nat
    BY WidthType, FsPanelAssumption
<1> HIDE DEF W
<1>2. t.pos_x = BarStart + (i - 1) * W /\ t.width = W - 1
    BY DEF Laid, W
<1> DEFINE a == (i - 1) * W
           b == i * W
<1>3. b = a + W /\ a \in Nat /\ b \in Nat /\ b =< n * W /\ n * W \in Nat
    <2>1. i - 1 \in Nat /\ i \in Nat /\ i =< n
        OBVIOUS
    <2>2. ((i - 1) + 1) * W = a + W
        BY <1>1, <2>1, MulNext
    <2>3. (i - 1) + 1 = i
        BY <2>1
    <2>4. b =< n * W /\ b \in Nat /\ n * W \in Nat
        BY <1>1, <2>1, MulMono
    <2>5. a \in Nat
        BY <1>1, <2>1, MulMono
    <2> QED
        BY <2>2, <2>3, <2>4, <2>5
<1>4. t.pos_x = BarStart + a
    BY <1>2
<1>5. ASSUME NEW j \in 1 .. n, NEW u, i < j, Laid(u, j, n)
      PROVE  t.pos_x + t.width < u.pos_x
    <2> DEFINE c == (j - 1) * W
    <2>1. u.pos_x = BarStart + c
        BY <1>5 DEF Laid, W
    <2>2. i =< j - 1 /\ j - 1 \in Nat /\ i \in Nat
        BY <1>5
    <2>3. b =< c /\ c \in Nat
        BY <1>1, <2>2, MulMono
    <2> HIDE DEF a, b, c
    <2> QED
        BY <1>1, <1>2, <1>3, <1>4, <2>1, <2>3
<1> HIDE DEF a, b
<1> QED
    BY <1>1, <1>2, <1>3, <1>4, <1>5

\* A press hits at most one task.
LEMMA OneHit ==
    ASSUME TypeInv, LayInv, pc = "idle", NEW x \in Nat,
           NEW i \in 1 .. Len(task_list), NEW j \in 1 .. Len(task_list),
           Hit(task_list[i], x), Hit(task_list[j], x)
    PROVE  i = j
<1>1. Len(task_list) \in Nat
    BY DEF TypeInv, PanelType
<1>2. \A k \in 1 .. Len(task_list) : Laid(task_list[k], k, Len(task_list))
    BY DEF LayInv
<1>3. ASSUME NEW k \in 1 .. Len(task_list), NEW l \in 1 .. Len(task_list), k < l,
             Hit(task_list[k], x), Hit(task_list[l], x)
      PROVE  FALSE
    <2>1. task_list[k].pos_x + task_list[k].width < task_list[l].pos_x
        BY <1>1, <1>2, <1>3, SideBySide
    <2>2. task_list[k].pos_x \in Int /\ task_list[k].width \in Int /\ task_list[l].pos_x \in Int
        BY <1>1, <1>2, SideBySide
    <2> QED
        BY <1>3, <2>1, <2>2 DEF Hit
<1> QED
    BY <1>3

\* handle_press on the task that is hit.
LEMMA PressedIs ==
    ASSUME NEW u \in Task
    PROVE  LET t == Drawn(Pressed(u)) IN
           /\ Touched(t, u) /\ t.name = u.name
           /\ t.icon = u.icon /\ t.mask = u.mask /\ t.icon_copied = u.icon_copied
           /\ IF u.iconified \/ u.focused THEN t.iconified = ~u.iconified ELSE t.iconified = u.iconified
<1> DEFINE p == Pressed(u)
<1>1. /\ p \in Task /\ p.win = u.win /\ InPlace(p, u) /\ p.name = u.name
      /\ p.icon = u.icon /\ p.mask = u.mask /\ p.icon_copied = u.icon_copied
      /\ IF u.iconified \/ u.focused THEN p.iconified = ~u.iconified ELSE p.iconified = u.iconified
    <2>1. CASE u.iconified
        <3>1. p = [u EXCEPT !.iconified = FALSE, !.focused = TRUE]
            BY <2>1 DEF Pressed
        <3> QED
            BY <2>1, <3>1 DEF Task, InPlace
    <2>2. CASE ~u.iconified /\ u.focused
        <3>1. p = [u EXCEPT !.iconified = TRUE, !.focused = FALSE]
            BY <2>2 DEF Pressed
        <3> QED
            BY <2>2, <3>1 DEF Task, InPlace
    <2>3. CASE ~u.iconified /\ ~u.focused
        <3>1. p = [u EXCEPT !.focused = TRUE]
            BY <2>3 DEF Pressed
        <3> QED
            BY <2>3, <3>1 DEF Task, InPlace
    <2> QED
        BY <2>1, <2>2, <2>3
<1> HIDE DEF p
<1>2. Alike(Drawn(p), p)
    BY <1>1, DrawnIs
<1>3. Touched(Drawn(p), u)
    BY <1>1, DrawnTouches
<1> QED
    BY <1>1, <1>2, <1>3 DEF Alike, p

\* SetToSeq of at most one element.
LEMMA SmallSets ==
    /\ SetToSeq({}) = <<>>
    /\ \A r : SetToSeq({r}) = <<r>>
<1>1. SetToSeq({}) = <<>>
    <2>1. IsFiniteSet({}) /\ Cardinality({}) = 0
        BY FS_EmptySet
    <2>2. SetToSeq({}) \in Seq({}) /\ Len(SetToSeq({})) = 0
        BY <2>1, SetToSeqIs
    <2> QED
        BY <2>2
<1>2. ASSUME NEW r
      PROVE  SetToSeq({r}) = <<r>>
    <2>1. IsFiniteSet({r}) /\ Cardinality({r}) = 1
        BY FS_Singleton
    <2> DEFINE q == SetToSeq({r})
    <2>2. q \in Seq({r}) /\ Len(q) = 1
        BY <2>1, SetToSeqIs
    <2> HIDE DEF q
    <2>3. q[1] = r
        BY <2>2
    <2> QED
        BY <2>2, <2>3 DEF q
<1> QED
    BY <1>1, <1>2

\* What the panel asks of the window manager when task t is pressed.
Ask(t) == [kind |-> IF t.iconified THEN "map" ELSE "iconify", win |-> t.win]

\* handle_press: at most one task is hit, every other loses its mark, at most one
\* request is sent.
LEMMA PressTasksIs ==
    ASSUME BaseInv, LayInv, PressTasks
    PROVE  \E hits \in SUBSET (1 .. Len(task_list)) :
           /\ \A i, j \in hits : i = j
           /\ task_list' \in Seq(Task) /\ Len(task_list') = Len(task_list)
           /\ \A i \in 1 .. Len(task_list) :
                LET t == task_list'[i]
                    u == task_list[i]
                IN  /\ Touched(t, u) /\ t.name = u.name
                    /\ t.icon = u.icon /\ t.mask = u.mask /\ t.icon_copied = u.icon_copied
                    /\ i \notin hits => ~t.focused /\ t.iconified = u.iconified
                    /\ i \in hits => IF u.iconified \/ u.focused THEN t.iconified = ~u.iconified
                                     ELSE t.iconified = u.iconified
           /\ \/ (\A i \in hits : ~task_list[i].iconified /\ ~task_list[i].focused) /\ requests' = requests
              \/ \E i \in hits : /\ task_list[i].iconified \/ task_list[i].focused
                                 /\ requests' = Append(requests, Ask(task_list[i]))
           /\ \/ events' = Tail(events)
              \/ \E w \in Windows : events' = Append(Tail(events), [kind |-> "focusin", win |-> w])
           /\ focus' \in Windows \cup {None}
<1> DEFINE n == Len(task_list)
           x == Head(events).at
           hits == {i \in 1 .. n : Hit(task_list[i], x)}
           asking == {j \in hits : task_list[j].iconified \/ task_list[j].focused}
           asks == {Ask(task_list[i]) : i \in asking}
           new(i) == IF i \in hits THEN Drawn(Pressed(task_list[i]))
                     ELSE IF task_list[i].focused THEN Drawn([task_list[i] EXCEPT !.focused = FALSE])
                     ELSE task_list[i]
<1>1. n \in Nat /\ DOMAIN task_list = 1 .. n /\ \A i \in 1 .. n : task_list[i] \in Task
    BY DomainIs DEF BaseInv, TypeInv, PanelType
<1>2. pc = "idle" /\ x \in Nat
    <2>1. /\ Head(events) \in Event /\ Head(events).kind = "press" /\ Head(events).on = "tasks"
          /\ pc = "idle"
        BY TailIs DEF PressTasks, idleWith, BaseInv, TypeInv, ServerType
    <2> QED
        BY <2>1, EventFields, FsPanelAssumption
<1>3. ASSUME NEW i \in hits, NEW j \in hits
      PROVE  i = j
    BY <1>2, <1>3, OneHit DEF BaseInv
<1>4. task_list' = [i \in 1 .. n |-> new(i)]
    BY <1>1 DEF PressTasks
<1>5. requests' = requests \o SetToSeq(asks)
    BY <1>1 DEF PressTasks, Ask
<1>6. /\ focus' \in Windows \cup {None}
      /\ \/ events' = Tail(events)
         \/ \E w \in Windows : events' = Append(Tail(events), [kind |-> "focusin", win |-> w])
    <2> DEFINE focusing == {task_list[i].win : i \in {j \in hits : ~task_list[j].iconified
                                                                    /\ ~task_list[j].focused}}
               takers == {w \in focusing \cap alive : ~iconic[w]}
    <2>1. \/ UNCHANGED focus /\ events' = Tail(events)
          \/ \E w \in takers : focus' = w /\ events' = FocusEvents(w, Tail(events))
        BY <1>1 DEF PressTasks
    <2>2. takers \subseteq Windows
        BY <1>1 DEF Task
    <2>3. focus \in Windows \cup {None}
        BY DEF BaseInv, TypeInv, ServerType
    <2> HIDE DEF takers
    <2> QED
        BY <2>1, <2>2, <2>3 DEF FocusEvents
<1>7. ASSUME NEW i \in 1 .. n
      PROVE  LET t == new(i)
                 u == task_list[i]
             IN  /\ Touched(t, u) /\ t.name = u.name
                 /\ t.icon = u.icon /\ t.mask = u.mask /\ t.icon_copied = u.icon_copied
                 /\ i \notin hits => ~t.focused /\ t.iconified = u.iconified
                 /\ i \in hits => IF u.iconified \/ u.focused THEN t.iconified = ~u.iconified
                                  ELSE t.iconified = u.iconified
    <2> DEFINE u == task_list[i]
    <2>1. u \in Task
        BY <1>1
    <2>2. CASE i \in hits
        <3>1. new(i) = Drawn(Pressed(u))
            BY <2>2
        <3> QED
            BY <2>1, <2>2, <3>1, PressedIs
    <2>3. CASE i \notin hits /\ u.focused
        <3> DEFINE t == [u EXCEPT !.focused = FALSE]
        <3>1. new(i) = Drawn(t)
            BY <2>3
        <3>2. t \in Task /\ Alike(t, u) /\ InPlace(t, u) /\ t.focused = FALSE
            BY <2>1, FocusedIs
        <3> HIDE DEF t
        <3>3. Alike(Drawn(t), t) /\ Drawn(t).focused = t.focused
            BY <3>2, DrawnIs
        <3>4. Touched(Drawn(t), u)
            BY <2>1, <3>2, DrawnTouches DEF Alike
        <3> QED
            BY <2>3, <3>1, <3>2, <3>3, <3>4 DEF Alike
    <2>4. CASE i \notin hits /\ ~u.focused
        <3>1. new(i) = u
            BY <2>4
        <3> QED
            BY <2>1, <2>4, <3>1 DEF Touched, InPlace
    <2> QED
        BY <2>2, <2>3, <2>4
<1> HIDE DEF new
<1>8. [i \in 1 .. n |-> new(i)] \in [1 .. n -> Task]
    BY <1>7 DEF Touched
<1>9. [i \in 1 .. n |-> new(i)] \in Seq(Task) /\ Len([i \in 1 .. n |-> new(i)]) = n
    BY <1>1, <1>8, SeqIs
<1>10. \/ (\A i \in hits : ~task_list[i].iconified /\ ~task_list[i].focused) /\ requests' = requests
       \/ \E i \in hits : /\ task_list[i].iconified \/ task_list[i].focused
                          /\ requests' = Append(requests, Ask(task_list[i]))
    <2>0. requests \in Seq(Request)
        BY DEF BaseInv, TypeInv, ServerType
    <2>1. CASE asking = {}
        <3>1. asks = {}
            BY <2>1
        <3> HIDE DEF asks
        <3>s. SetToSeq(asks) = << >>
            BY <3>1, SmallSets
        <3>2. requests' = requests
            BY <1>5, <2>0, <3>s, ConcatNothing
        <3> QED
            BY <2>1, <3>2
    <2>2. CASE asking # {}
        <3>1. PICK i \in asking : TRUE
            BY <2>2
        <3>2. asking = {i}
            BY <1>3, <3>1
        <3> HIDE DEF asking
        <3>3. asks = {Ask(task_list[i])}
            BY <3>2
        <3> DEFINE r == Ask(task_list[i])
        <3>4. SetToSeq(asks) = <<r>>
            BY <3>3, SmallSets
        <3>5. r \in Request
            <4>1. task_list[i] \in Task
                BY <1>1, <3>1 DEF asking
            <4>2. task_list[i].win \in Windows
                BY <4>1 DEF Task
            <4> QED
                BY <4>2, RequestTypes DEF Ask
        <3> HIDE DEF r, asks
        <3>6. requests' = Append(requests, r)
            BY <1>5, <2>0, <3>4, <3>5, ConcatIs
        <3> QED
            BY <3>1, <3>6 DEF r, asking
    <2> QED
        BY <2>1, <2>2
<1>11. hits \in SUBSET (1 .. n)
    OBVIOUS
<1> HIDE DEF hits, asking, asks
<1> QED
    BY <1>3, <1>4, <1>6, <1>7, <1>9, <1>10, <1>11

-----------------------------------------------------------------------------
(* The invariant is kept by windows, window manager and user.              *)

ViewInv == FocusInv /\ LayInv /\ DrawInv

\* The events a step adds are no DestroyNotify.
Calm == \A k \in 1 .. Len(events') : k > Len(events) => events'[k].kind # "destroy"

\* Queueing an event other than DestroyNotify is calm.
LEMMA CalmBy ==
    ASSUME events \in Seq(Event), NEW e \in Event, e.kind # "destroy",
           events' = events \/ events' = Append(events, e)
    PROVE  Calm
<1>1. CASE events' = events
    BY <1>1 DEF Calm
<1>2. CASE events' = Append(events, e)
    <2>1. /\ Len(events') = Len(events) + 1 /\ Len(events) \in Nat
          /\ events'[Len(events) + 1] = e
        BY <1>2, AppendIs
    <2> QED
        BY <2>1 DEF Calm
<1> QED
    BY <1>1, <1>2

\* So is the notification about a window's property ...
LEMMA CalmNotify ==
    ASSUME events \in Seq(Event), NEW w \in Windows, NEW a \in Atoms, Notify(w, a)
    PROVE  Calm
<1> DEFINE e == [kind |-> "prop", win |-> w, atom |-> a]
<1>1. e \in Event /\ e.kind = "prop"
    BY EventTypes
<1>2. events' = events \/ events' = Append(events, e)
    BY DEF Notify
<1> HIDE DEF e
<1> QED
    BY <1>1, <1>2, CalmBy

\* ... and about one of the root window.
LEMMA CalmRoot ==
    ASSUME events \in Seq(Event), NEW a \in Atoms,
           events' = events \/ events' = Append(events, RootEvent(a))
    PROVE  Calm
<1>1. RootEvent(a) \in Event /\ RootEvent(a).kind = "prop"
    BY EventTypes DEF RootEvent
<1> QED
    BY <1>1, CalmBy

\* Only the destruction of a window queues a DestroyNotify.
LEMMA EnvEvents ==
    ASSUME TypeInv, WmStep \/ Environment
    PROVE  Calm \/ \E w \in Windows : Destroy(w)
<1>0. /\ events \in Seq(Event) /\ requests \in Seq(Request)
      /\ "list" \in Atoms /\ "desktop" \in Atoms /\ "name" \in Atoms /\ "state" \in Atoms
      /\ "hints" \in Atoms /\ "wmdesktop" \in Atoms
    BY DEF TypeInv, ServerType, Atoms
<1>1. ASSUME NEW w \in Windows, Manage(w) \/ Unmanage(w) PROVE Calm
    BY <1>0, <1>1, CalmRoot DEF Manage, Unmanage
<1>2. ASSUME ManagePanel \/ WmStart \/ WmExit PROVE Calm
    BY <1>0, <1>2, CalmRoot DEF ManagePanel, WmStart, WmExit
<1>3. ASSUME NEW d \in Desktops, SetDesktop(d) PROVE Calm
    BY <1>0, <1>3, CalmRoot DEF SetDesktop
<1>4. ASSUME NEW w \in Windows, NEW b, SetIconic(w, b) PROVE Calm
    <2>1. CASE iconic[w] = b
        BY <1>4, <2>1 DEF SetIconic, Calm
    <2>2. CASE iconic[w] # b
        BY <1>0, <1>4, <2>2, CalmNotify DEF SetIconic
    <2> QED
        BY <2>1, <2>2
<1>5. ASSUME NEW w \in Windows, MoveToDesktop(w) \/ Retitle(w) \/ SetHints(w) PROVE Calm
    BY <1>0, <1>5, CalmNotify DEF MoveToDesktop, Retitle, SetHints
<1>6. ASSUME NEW w \in Windows, ToggleIconic(w) PROVE Calm
    BY <1>4, <1>6 DEF ToggleIconic
<1>7. ASSUME NEW w \in Windows, MoveFocus(w) PROVE Calm
    <2> DEFINE e == [kind |-> "focusin", win |-> w]
    <2>1. e \in Event /\ e.kind = "focusin"
        BY EventTypes
    <2>2. events' = events \/ events' = Append(events, e)
        BY <1>7 DEF MoveFocus, FocusEvents
    <2> HIDE DEF e
    <2> QED
        BY <1>0, <2>1, <2>2, CalmBy
<1>8. ASSUME SwitchDesktop PROVE Calm
    BY <1>3, <1>8 DEF SwitchDesktop
<1>9. ASSUME Expose PROVE Calm
    <2> DEFINE e == [kind |-> "expose"]
    <2>1. e \in Event /\ e.kind = "expose"
        BY EventTypes
    <2>2. events' = Append(events, e)
        BY <1>9 DEF Expose
    <2> HIDE DEF e
    <2> QED
        BY <1>0, <2>1, <2>2, CalmBy
<1>10. ASSUME Press PROVE Calm
    <2>1. PICK e \in Event : e.kind = "press" /\ events' = Append(events, e)
        BY <1>10 DEF Press
    <2> QED
        BY <1>0, <2>1, CalmBy
<1>11. ASSUME WmHandle PROVE Calm
    <2> DEFINE r == Head(requests)
    <2>1. r \in Request
        BY <1>0, <1>11, TailIs DEF WmHandle
    <2>2. CASE r.kind = "desktop"
        BY <1>3, <1>11, <2>1, <2>2, RequestFields DEF WmHandle
    <2>3. CASE r.kind # "desktop" /\ r.win \in alive
        BY <1>4, <1>11, <2>1, <2>3, RequestFields DEF WmHandle
    <2>4. CASE r.kind # "desktop" /\ r.win \notin alive
        BY <1>11, <2>4 DEF WmHandle, Calm
    <2> QED
        BY <2>2, <2>3, <2>4
<1> QED
    BY <1>1, <1>2, <1>5, <1>6, <1>7, <1>8, <1>9, <1>10, <1>11 DEF WmStep, Environment

\* The parts of ServerInv.
OnceListed == \A i, j \in 1 .. Len(clientList) : clientList[i] = clientList[j] => i = j
NoneFresh == \A i \in 1 .. Len(clientList) : clientList[i] \notin fresh
DestroyedGone == \A k \in 1 .. Len(events) : events[k].kind = "destroy" => events[k].win \notin alive \cup fresh

\* A window that is appended to a client list without it is listed once.
LEMMA ListGrows ==
    ASSUME clientList \in Seq(Windows \cup {Panel}), OnceListed, NEW w \in Windows \cup {Panel},
           \A i \in 1 .. Len(clientList) : clientList[i] # w,
           clientList' = Append(clientList, w)
    PROVE  OnceListed' /\ \A i \in 1 .. Len(clientList') : clientList'[i] = w \/ \E j \in 1 .. Len(clientList) : clientList'[i] = clientList[j]
<1>1. /\ Len(clientList') = Len(clientList) + 1 /\ Len(clientList) \in Nat
      /\ \A k \in 1 .. Len(clientList) : clientList'[k] = clientList[k]
      /\ clientList'[Len(clientList) + 1] = w
    BY AppendIs
<1>2. \A i \in 1 .. Len(clientList') : i \in 1 .. Len(clientList) \/ i = Len(clientList) + 1
    BY <1>1
<1> QED
    BY <1>1, <1>2 DEF OnceListed

\* Which windows exist and are listed.
LEMMA EnvList ==
    ASSUME TypeInv, ServerInv, WmStep \/ Environment
    PROVE  /\ IsFiniteSet(alive') /\ Panel \in alive' /\ OnceListed' /\ NoneFresh'
           /\ fresh' \subseteq fresh /\ alive' \cup fresh' \subseteq alive \cup fresh
<1> DEFINE G == /\ IsFiniteSet(alive') /\ Panel \in alive' /\ OnceListed' /\ NoneFresh'
                /\ fresh' \subseteq fresh /\ alive' \cup fresh' \subseteq alive \cup fresh
<1>0. /\ IsFiniteSet(alive) /\ Panel \in alive /\ OnceListed /\ NoneFresh
      /\ alive \subseteq Windows \cup {Panel} /\ fresh \subseteq Windows /\ alive \cap fresh = {}
      /\ clientList \in Seq(Windows \cup {Panel}) \cup {<<None>>}
      /\ Panel \notin Windows /\ None \notin Windows
    BY FsPanelAssumption DEF ServerInv, OnceListed, NoneFresh, TypeInv, ServerType
<1>1. ASSUME UNCHANGED <<alive, fresh, clientList>> PROVE G
    BY <1>0, <1>1 DEF OnceListed, NoneFresh
<1>2. ASSUME NEW w \in Windows, Manage(w) PROVE G
    <2>1. /\ w \in fresh /\ clientList \in Seq(Windows \cup {Panel})
          /\ clientList' = Append(clientList, w)
          /\ fresh' = fresh \ {w} /\ alive' = alive \cup {w}
        BY <1>0, <1>2 DEF Manage
    <2>2. \A i \in 1 .. Len(clientList) : clientList[i] # w
        BY <1>0, <2>1 DEF NoneFresh
    <2>3. OnceListed' /\ \A i \in 1 .. Len(clientList') : clientList'[i] = w \/ \E j \in 1 .. Len(clientList) : clientList'[i] = clientList[j]
        BY <1>0, <2>1, <2>2, ListGrows
    <2>4. NoneFresh'
        BY <1>0, <2>1, <2>3 DEF NoneFresh
    <2>5. IsFiniteSet(alive')
        BY <1>0, <2>1, FS_AddElement
    <2> QED
        BY <1>0, <2>1, <2>3, <2>4, <2>5
<1>3. ASSUME ManagePanel PROVE G
    <2>1. /\ clientList \in Seq(Windows \cup {Panel}) /\ Panel \notin ToSet(clientList)
          /\ clientList' = Append(clientList, Panel) /\ UNCHANGED <<alive, fresh>>
        BY <1>0, <1>3 DEF ManagePanel
    <2>2. \A i \in 1 .. Len(clientList) : clientList[i] # Panel
        BY <2>1, DomainIs DEF ToSet
    <2>3. OnceListed' /\ \A i \in 1 .. Len(clientList') : clientList'[i] = Panel \/ \E j \in 1 .. Len(clientList) : clientList'[i] = clientList[j]
        BY <1>0, <2>1, <2>2, ListGrows
    <2>4. NoneFresh'
        BY <1>0, <2>1, <2>3 DEF NoneFresh
    <2> QED
        BY <1>0, <2>1, <2>3, <2>4
<1>4. ASSUME NEW w \in Windows, Destroy(w) PROVE G
    <2>1. alive' = alive \ {w} /\ fresh' = fresh /\ clientList' = clientList
        BY <1>4 DEF Destroy
    <2>2. IsFiniteSet(alive')
        BY <1>0, <2>1, FS_RemoveElement
    <2> QED
        BY <1>0, <2>1, <2>2 DEF OnceListed, NoneFresh
<1>5. ASSUME NEW w \in Windows, Unmanage(w) PROVE G
    <2> DEFINE J == {i \in DOMAIN clientList : clientList[i] # w}
    <2>1. clientList' = Only(clientList, J) /\ UNCHANGED <<alive, fresh>>
        BY <1>5 DEF Unmanage
    <2>2. clientList \in Seq(Windows \cup {Panel})
        <3>1. w \in ToSet(clientList) /\ w # None
            BY <1>0, <1>5 DEF Unmanage
        <3> QED
            BY <1>0, <3>1 DEF ToSet
    <2>3. J \subseteq 1 .. Len(clientList)
        BY <2>2, DomainIs
    <2> HIDE DEF J
    <2>a. \A i, j \in 1 .. Len(clientList) : clientList[i] = clientList[j] => i = j
        BY <1>0 DEF OnceListed
    <2> DEFINE q == Only(clientList, J)
    <2>b. /\ \A j, k \in 1 .. Len(q) : q[j] = q[k] => j = k
          /\ \A k \in 1 .. Len(q) : \E i \in J : q[k] = clientList[i]
        BY <2>a, <2>2, <2>3, NewWindows
    <2> HIDE DEF q
    <2>4. /\ \A j, k \in 1 .. Len(clientList') : clientList'[j] = clientList'[k] => j = k
          /\ \A k \in 1 .. Len(clientList') : \E i \in J : clientList'[k] = clientList[i]
        BY <2>b, <2>1 DEF q
    <2> QED
        BY <1>0, <2>1, <2>3, <2>4 DEF OnceListed, NoneFresh
<1>6. ASSUME WmExit PROVE G
    <2>1. clientList' = <<None>> /\ UNCHANGED <<alive, fresh>>
        BY <1>6 DEF WmExit
    <2> QED
        BY <1>0, <2>1 DEF OnceListed, NoneFresh
<1>7. ASSUME WmStart PROVE G
    <2>1. clientList' = SetToSeq(alive) /\ UNCHANGED <<alive, fresh>>
        BY <1>7 DEF WmStart
    <2> DEFINE q == SetToSeq(alive)
    <2>2. q \in Seq(alive) /\ IsInjective(q)
        BY <1>0, SetToSeqIs
    <2> HIDE DEF q
    <2>3. DOMAIN q = 1 .. Len(q) /\ \A k \in 1 .. Len(q) : q[k] \in alive
        BY <2>2, DomainIs
    <2>4. \A j, k \in 1 .. Len(q) : q[j] = q[k] => j = k
        BY <2>2, <2>3 DEF IsInjective
    <2> QED
        BY <1>0, <2>1, <2>3, <2>4 DEF OnceListed, NoneFresh, q
<1>8. WmHandle \/ SwitchDesktop \/ Expose \/ Press => UNCHANGED <<alive, fresh, clientList>>
    BY DEF WmHandle, SwitchDesktop, Expose, Press, server
<1>9. \A w \in Windows : MoveToDesktop(w) \/ ToggleIconic(w) \/ Retitle(w) \/ SetHints(w) \/ MoveFocus(w)
        => UNCHANGED <<alive, fresh, clientList>>
    BY DEF MoveToDesktop, ToggleIconic, Retitle, SetHints, MoveFocus
<1> HIDE DEF G
<1>10. G
    BY <1>1, <1>2, <1>3, <1>4, <1>5, <1>6, <1>7, <1>8, <1>9 DEF WmStep, Environment
<1> QED
    BY <1>10 DEF G

\* Windows, window manager and user keep ServerInv.
LEMMA EnvServer ==
    ASSUME TypeInv, ServerInv, WmStep \/ Environment
    PROVE  ServerInv'
<1>1. EnvFrame /\ ServerType'
    BY EnvStep DEF ServerInv
<1>2. /\ IsFiniteSet(alive') /\ Panel \in alive' /\ OnceListed' /\ NoneFresh'
      /\ fresh' \subseteq fresh /\ alive' \cup fresh' \subseteq alive \cup fresh
    BY EnvList
<1>3. DestroyedGone /\ Grows /\ events \in Seq(Event) /\ Len(events) \in Nat
    BY <1>1 DEF ServerInv, DestroyedGone, EnvFrame, TypeInv, ServerType
<1>4. DestroyedGone'
    <2>1. CASE Calm
        <3> SUFFICES ASSUME NEW k \in 1 .. Len(events'), events'[k].kind = "destroy"
                     PROVE  events'[k].win \notin alive' \cup fresh'
            BY DEF DestroyedGone
        <3>1. k \in 1 .. Len(events)
            BY <1>3, <2>1 DEF Calm
        <3>2. events'[k] = events[k]
            BY <1>3, <3>1 DEF Grows
        <3> QED
            BY <1>2, <1>3, <3>1, <3>2 DEF DestroyedGone
    <2>2. ASSUME NEW w \in Windows, Destroy(w)
          PROVE  DestroyedGone'
        <3> DEFINE e == [kind |-> "destroy", win |-> w]
        <3>1. e \in Event /\ e.win = w
            BY EventTypes
        <3>2. w \notin alive' \cup fresh'
            BY <2>2 DEF Destroy, TypeInv, ServerType
        <3>3. events' = events \/ events' = Append(events, e)
            BY <2>2 DEF Destroy
        <3> HIDE DEF e
        <3> SUFFICES ASSUME NEW k \in 1 .. Len(events'), events'[k].kind = "destroy"
                     PROVE  events'[k].win \notin alive' \cup fresh'
            BY DEF DestroyedGone
        <3>4. CASE k \in 1 .. Len(events)
            <4>1. events'[k] = events[k]
                BY <1>3, <3>4 DEF Grows
            <4> QED
                BY <1>2, <1>3, <3>4, <4>1 DEF DestroyedGone
        <3>5. CASE k \notin 1 .. Len(events)
            <4>1. events' = Append(events, e)
                BY <3>3, <3>5
            <4>2. Len(events') = Len(events) + 1 /\ events'[Len(events) + 1] = e
                BY <1>3, <3>1, <4>1, AppendIs
            <4>3. k = Len(events) + 1
                BY <1>3, <3>5, <4>2
            <4> QED
                BY <3>1, <3>2, <4>2, <4>3
        <3> QED
            BY <3>4, <3>5
    <2> QED
        BY <2>1, <2>2, EnvEvents
<1> QED
    BY <1>2, <1>4 DEF ServerInv, OnceListed, NoneFresh, DestroyedGone

\* What the environment leaves of the panel's invariant.
LEMMA EnvPanel ==
    ASSUME BaseInv, ViewInv, WmStep \/ Environment
    PROVE  BaseInv' /\ ViewInv'
<1>1. EnvFrame /\ ServerType'
    BY EnvStep DEF BaseInv, ServerInv
<1>2. ServerInv' /\ fresh' \subseteq fresh
    BY EnvServer, EnvList DEF BaseInv
<1> DEFINE n == Len(task_list)
<1>3. /\ n \in Nat /\ Len(task_list') = n /\ pc' = pc /\ todo' = todo /\ num_tasks' = num_tasks
      /\ focus_win' = focus_win /\ pixmaps' = pixmaps /\ Grows
      /\ task_list \in Seq(Task) /\ task_list' \in Seq(Task)
    BY <1>1 DEF EnvFrame, BaseInv, TypeInv, PanelType
<1>4. \A i \in 1 .. n : /\ Alike(task_list'[i], task_list[i]) /\ InPlace(task_list'[i], task_list[i])
                        /\ task_list'[i].focused = task_list[i].focused
    BY <1>1 DEF EnvFrame
<1>5. PanelType'
    BY <1>1 DEF EnvFrame, BaseInv, TypeInv, PanelType
<1> HIDE DEF n
<1>w. \A i \in 1 .. n : task_list'[i].win = task_list[i].win
    BY <1>4 DEF Alike
<1>6. ListInv'
    BY <1>2, <1>3, <1>w DEF BaseInv, ListInv, n
<1>7. TodoInv'
    <2>1. TodoInv /\ (task_list # <<>> => n # 0) /\ (n # 0 => task_list' # <<>>)
        BY <1>3 DEF BaseInv, n
    <2>2. n # 0 => n \in 1 .. n
        BY <1>3
    <2>3. pc' = "select" => task_list' # <<>> /\ task_list'[Len(task_list')].win = todo'[1]
        BY <1>3, <1>w, <2>1, <2>2 DEF TodoInv, n
    <2>4. \A i \in 1 .. Len(task_list'), k \in 1 .. Len(todo') :
            task_list'[i].win = todo'[k] => pc' = "select" /\ i = Len(task_list') /\ k = 1
        BY <1>3, <1>w, <2>1 DEF TodoInv, n
    <2>5. /\ \A k \in 1 .. Len(todo') : todo'[k] \notin fresh'
          /\ \A j, k \in 1 .. Len(todo') : todo'[j] = todo'[k] => j = k
        BY <1>2, <1>3, <2>1 DEF TodoInv
    <2>6. /\ pc' \in {"idle", "list"} => todo' = <<>>
          /\ pc' \in {"look", "select"} => todo' # <<>>
        BY <1>3, <2>1 DEF TodoInv
    <2> QED
        BY <2>3, <2>4, <2>5, <2>6 DEF TodoInv
<1>8. PixInv'
    <2>1. Held(task_list', 1 .. n) = Held(task_list, 1 .. n)
        BY <1>3, <1>4, HeldAlike
    <2> QED
        BY <1>3, <1>4, <2>1 DEF BaseInv, PixInv, Owned, Alike, n
<1>9. FocusInv'
    BY <1>3, <1>4, <1>w DEF ViewInv, FocusInv, n
<1>10. LayInv'
    BY <1>3, <1>4 DEF ViewInv, LayInv, Laid, InPlace, n
<1>11. DrawInv'
    <2>0. events \in Seq(Event) /\ Len(events) \in Nat
        BY DEF BaseInv, TypeInv, ServerType
    <2>1. CASE Expose
        <3>1. [kind |-> "expose"] \in Event /\ events' = Append(events, [kind |-> "expose"])
            BY <2>1, EventTypes DEF Expose
        <3>2. Len(events') = Len(events) + 1 /\ events'[Len(events) + 1] = [kind |-> "expose"]
            BY <2>0, <3>1, AppendIs
        <3>3. Len(events) + 1 \in 1 .. Len(events') /\ events'[Len(events) + 1].kind = "expose"
            BY <2>0, <3>2
        <3> QED
            BY <3>3 DEF DrawInv
    <2>2. CASE ~Expose
        <3>1. task_list' = task_list
            <4>1. WmStep => task_list' = task_list
                BY DEF WmStep, ManagePanel, WmStart, WmHandle, Unmanage, panel
            <4>2. Environment => task_list' = task_list
                BY <2>2 DEF Environment, Manage, Destroy, MoveToDesktop, ToggleIconic, Retitle, SetHints,
                            MoveFocus, WmExit, SwitchDesktop, Press, panel
            <4> QED
                BY <4>1, <4>2
        <3>2. \A k \in 1 .. Len(events) : k \in 1 .. Len(events') /\ events'[k] = events[k]
            BY <1>3, <2>0 DEF Grows
        <3> QED
            BY <1>3, <3>1, <3>2 DEF ViewInv, DrawInv
    <2> QED
        BY <2>1, <2>2
<1> QED
    BY <1>1, <1>2, <1>5, <1>6, <1>7, <1>8, <1>9, <1>10, <1>11 DEF BaseInv, ViewInv, TypeInv

-----------------------------------------------------------------------------
(* ... and by the panel.                                                   *)

\* The step takes the first event; what it may add is a FocusIn.
Takes ==
  /\ events # <<>> /\ events' \in Seq(Event) /\ Len(events') >= Len(events) - 1
  /\ \A k \in 1 .. Len(events') : k < Len(events) => events'[k] = events[k + 1]
  /\ \A k \in 1 .. Len(events') : k >= Len(events) => events'[k].kind = "focusin"

\* Taking the first event, with or without a FocusIn of one's own doing.
LEMMA TakesBy ==
    ASSUME events \in Seq(Event), events # <<>>,
           \/ events' = Tail(events)
           \/ \E w \in Windows : events' = Append(Tail(events), [kind |-> "focusin", win |-> w])
    PROVE  Takes
<1>1. /\ Tail(events) \in Seq(Event) /\ Len(Tail(events)) = Len(events) - 1
      /\ Len(events) \in Nat /\ Len(events) >= 1
      /\ \A k \in 1 .. Len(events) - 1 : Tail(events)[k] = events[k + 1]
    BY TailIs
<1>2. CASE events' = Tail(events)
    BY <1>1, <1>2 DEF Takes
<1>3. ASSUME NEW w \in Windows, events' = Append(Tail(events), [kind |-> "focusin", win |-> w])
      PROVE  Takes
    <2> DEFINE e == [kind |-> "focusin", win |-> w]
               t == Tail(events)
    <2>1. e \in Event /\ e.kind = "focusin"
        BY EventTypes
    <2>2. events' = Append(t, e)
        BY <1>3
    <2> HIDE DEF e, t
    <2>3. t \in Seq(Event)
        BY <1>1 DEF t
    <2>4. /\ events' \in Seq(Event) /\ Len(events') = Len(t) + 1
          /\ \A k \in 1 .. Len(t) : events'[k] = t[k]
          /\ events'[Len(t) + 1] = e
        BY <2>1, <2>2, <2>3, AppendIs
    <2>5. Len(t) = Len(events) - 1 /\ \A k \in 1 .. Len(events) - 1 : t[k] = events[k + 1]
        BY <1>1 DEF t
    <2>6. Len(events') = Len(events)
        BY <1>1, <2>4, <2>5
    <2>7. \A k \in 1 .. Len(events') : k < Len(events) => events'[k] = events[k + 1]
        BY <1>1, <2>4, <2>5
    <2>8. \A k \in 1 .. Len(events') : k >= Len(events) => events'[k].kind = "focusin"
        BY <1>1, <2>1, <2>4, <2>5, <2>6
    <2>9. Len(events') >= Len(events) - 1
        BY <1>1, <2>6
    <2>10. events' \in Seq(Event)
        BY <2>4
    <2> QED
        BY <2>7, <2>8, <2>9, <2>10 DEF Takes
<1> QED
    BY <1>2, <1>3

\* A refresh leaves the events alone once it has begun; every other step
\* begins with taking one.
LEMMA PanelEvents ==
    ASSUME BaseInv, LayInv, PanelStep
    PROVE  \/ Takes /\ pc = "idle"
           \/ events' = events /\ (ReadList \/ LookAt \/ SelectInput)
<1>0. events \in Seq(Event)
    BY DEF BaseInv, TypeInv, ServerType
<1>1. CASE ReadList \/ LookAt \/ SelectInput
    BY <1>1 DEF ReadList, LookAt, SelectInput
<1>2. CASE ReadDesktop \/ HandleDestroy \/ HandleExpose \/ HandleFocusIn \/ HandleProperty
           \/ SwitchDesk \/ PressGrill
    <2>1. Take /\ pc = "idle"
        BY <1>2 DEF ReadDesktop, HandleDestroy, HandleExpose, HandleFocusIn, HandleProperty,
                    SwitchDesk, PressGrill, idleWith
    <2> QED
        BY <1>0, <2>1, TakesBy DEF Take
<1>3. CASE PressTasks
    <2>1. \/ events' = Tail(events)
          \/ \E w \in Windows : events' = Append(Tail(events), [kind |-> "focusin", win |-> w])
        BY <1>3, PressTasksIs
    <2>2. pc = "idle" /\ events # <<>>
        BY <1>3 DEF PressTasks, idleWith
    <2> QED
        BY <1>0, <2>1, <2>2, TakesBy
<1> QED
    BY <1>1, <1>2, <1>3 DEF PanelStep

\* The panel's steps keep ServerInv and leave windows and window manager alone.
LEMMA PanelServer ==
    ASSUME BaseInv, LayInv, PanelStep
    PROVE  ServerType' /\ ServerInv' /\ UNCHANGED Unseen
<1>0. UNCHANGED Unseen
    BY PanelKeeps
<1>1. events' \in Seq(Event)
    BY PanelEvents DEF Takes, BaseInv, TypeInv, ServerType
<1>t. BaseInv => ServerType /\ focus \in Windows \cup {None} /\ selected \subseteq Windows
                 /\ moved \subseteq Windows /\ missed \subseteq Windows
    BY DEF BaseInv, TypeInv, ServerType
<1>2. focus' \in Windows \cup {None} /\ selected' \subseteq Windows /\ moved' \subseteq Windows
      /\ missed' \subseteq Windows
    <2>1. CASE LookAt
        <3>1. focus' = focus /\ selected' = selected
            BY <2>1 DEF LookAt, server
        <3>2. moved' = moved \ {todo[1]} /\ missed' \subseteq missed
            BY <2>1, LookAtIs
        <3> QED
            BY <1>t, <3>1, <3>2
    <2>2. CASE SelectInput
        <3>1. focus' = focus
            BY <2>2 DEF SelectInput, server
        <3> QED
            BY <1>t, <2>2, <3>1, SelectInputIs
    <2>3. CASE PressTasks
        <3>1. selected' = selected /\ moved' = moved /\ missed' = missed
            BY <2>3 DEF PressTasks, ghosts
        <3> QED
            BY <1>t, <2>3, <3>1, PressTasksIs
    <2>4. CASE ~LookAt /\ ~SelectInput /\ ~PressTasks
        BY <1>t, <2>4 DEF PanelStep, ReadDesktop, ReadList, HandleDestroy, HandleExpose, HandleFocusIn,
              HandleProperty, SwitchDesk, PressGrill, server, ghosts
    <2> QED
        BY <2>1, <2>2, <2>3, <2>4
<1>3. requests' \in Seq(Request)
    <2>0. requests \in Seq(Request) /\ my_desktop \in Desktops
        BY DEF BaseInv, TypeInv, ServerType, PanelType
    <2>1. CASE SwitchDesk
        <3>1. \/ requests' = requests
              \/ \E d \in Desktops : requests' = Append(requests, [kind |-> "desktop", to |-> d])
            BY <2>1 DEF SwitchDesk
        <3>2. \A d \in Desktops : [kind |-> "desktop", to |-> d] \in Request
            BY RequestTypes
        <3> QED
            BY <2>0, <3>1, <3>2, AppendIs
    <2>2. CASE PressTasks
        <3>1. \/ requests' = requests
              \/ \E i \in 1 .. Len(task_list) : requests' = Append(requests, Ask(task_list[i]))
            BY <2>2, PressTasksIs
        <3>2. \A i \in 1 .. Len(task_list) : Ask(task_list[i]) \in Request
            <4> SUFFICES ASSUME NEW i \in 1 .. Len(task_list) PROVE Ask(task_list[i]) \in Request
                OBVIOUS
            <4>1. task_list[i] \in Task
                BY DEF BaseInv, TypeInv, PanelType
            <4>2. task_list[i].win \in Windows
                BY <4>1 DEF Task
            <4> QED
                BY <4>2, RequestTypes DEF Ask
        <3> QED
            BY <2>0, <3>1, <3>2, AppendIs
    <2>3. CASE ~SwitchDesk /\ ~PressTasks
        <3>1. requests' = requests
            BY <2>3 DEF PanelStep, ReadDesktop, ReadList, LookAt, SelectInput, HandleDestroy, HandleExpose,
                        HandleFocusIn, HandleProperty, PressGrill
        <3> QED
            BY <2>0, <3>1
    <2> QED
        BY <2>1, <2>2, <2>3
<1>4. ServerType'
    <2>1. ServerType
        BY <1>t
    <2> QED
        BY <1>0, <1>1, <1>2, <1>3, <2>1 DEF ServerType, Unseen
<1>5. DestroyedGone'
    <2>0. DestroyedGone /\ events \in Seq(Event) /\ Len(events) \in Nat
        BY DEF BaseInv, ServerInv, DestroyedGone, TypeInv, ServerType
    <2>1. CASE events' = events
        BY <1>0, <2>0, <2>1 DEF DestroyedGone, Unseen
    <2>2. CASE Takes
        <3> SUFFICES ASSUME NEW k \in 1 .. Len(events'), events'[k].kind = "destroy"
                     PROVE  events'[k].win \notin alive \cup fresh
            BY <1>0 DEF DestroyedGone, Unseen
        <3>1. k < Len(events) /\ events'[k] = events[k + 1]
            BY <1>1, <2>0, <2>2 DEF Takes
        <3>2. k + 1 \in 1 .. Len(events)
            BY <2>0, <3>1
        <3> QED
            BY <2>0, <3>1, <3>2 DEF DestroyedGone
    <2> QED
        BY <2>1, <2>2, PanelEvents
<1>6. ServerInv'
    <2>1. ServerInv
        BY DEF BaseInv
    <2> QED
        BY <1>0, <1>5, <2>1 DEF ServerInv, DestroyedGone, Unseen
<1> QED
    BY <1>0, <1>4, <1>6

\* Steps that leave in the list only tasks it had.
LEMMA FewerTasks ==
    ASSUME BaseInv, UNCHANGED fresh, task_list' \in Seq(Task), num_tasks' = Len(task_list'),
           NEW f, Embeds(f, task_list', task_list)
    PROVE  ListInv' /\ \A i \in 1 .. Len(task_list') : Owned(task_list'[i])
<1>1. /\ \A i, j \in 1 .. Len(task_list) : task_list[i].win = task_list[j].win => i = j
      /\ \A i \in 1 .. Len(task_list) : task_list[i].win \notin fresh
    BY DEF BaseInv, ListInv
<1>2. \A i \in 1 .. Len(task_list) : Owned(task_list[i])
    BY DEF BaseInv, PixInv
<1>3. f \in [1 .. Len(task_list') -> 1 .. Len(task_list)]
    BY DEF Embeds
<1>4. \A k \in 1 .. Len(task_list') :
        Alike(task_list'[k], task_list[f[k]]) /\ f[k] \in 1 .. Len(task_list)
    BY <1>3 DEF Embeds
<1>5. \A j, k \in 1 .. Len(task_list') : f[j] = f[k] => j = k
    BY DEF Embeds
<1>6. \A i, j \in 1 .. Len(task_list') : task_list'[i].win = task_list'[j].win => i = j
    BY <1>1, <1>4, <1>5 DEF Alike
<1>7. \A i \in 1 .. Len(task_list') : task_list'[i].win \notin fresh'
    BY <1>1, <1>4 DEF Alike
<1>8. \A i \in 1 .. Len(task_list') : Owned(task_list'[i])
    BY <1>2, <1>4 DEF Alike, Owned
<1> QED
    BY <1>6, <1>7, <1>8 DEF ListInv

\* The refresh is over, or the bar was drawn without one.
LEMMA BarKeeps ==
    ASSUME BaseInv, UNCHANGED fresh, Redrawn(task_list', task_list), num_tasks' = Len(task_list'),
           pc' = "idle", todo' = <<>>, pixmaps' = Held(task_list', 1 .. Len(task_list')),
           \A i, j \in 1 .. Len(task_list) : task_list[i].focused /\ task_list[j].focused => i = j
    PROVE  ListInv' /\ TodoInv' /\ PixInv' /\ ViewInv'
<1>1. /\ task_list' \in Seq(Task) /\ Len(task_list') = Len(task_list) /\ Len(task_list) \in Nat
    BY DEF Redrawn, BaseInv, TypeInv, PanelType
<1>2. \A i \in 1 .. Len(task_list') :
        /\ Alike(task_list'[i], task_list[i]) /\ task_list'[i].focused = task_list[i].focused
        /\ Laid(task_list'[i], i, Len(task_list')) /\ Visible(task_list'[i])
    BY DEF Redrawn
<1>3. Embeds([i \in 1 .. Len(task_list') |-> i], task_list', task_list)
    BY <1>1, <1>2, EmbedsItself
<1>4. ListInv' /\ \A i \in 1 .. Len(task_list') : Owned(task_list'[i])
    BY <1>1, <1>3, FewerTasks
<1>5. TodoInv'
    BY DEF TodoInv
<1>6. PixInv'
    BY <1>4 DEF PixInv
<1>7. FocusInv' /\ LayInv' /\ DrawInv'
    BY <1>1, <1>2 DEF FocusInv, LayInv, DrawInv
<1> QED
    BY <1>4, <1>5, <1>6, <1>7 DEF ViewInv

\* The end of a refresh keeps the invariant.
LEMMA DoneKeeps ==
    ASSUME BaseInv, ViewInv, UNCHANGED <<fresh, pixmaps>>, Done(task_list, num_tasks)
    PROVE  /\ ListInv' /\ TodoInv' /\ PixInv' /\ ViewInv' /\ task_list' \in Seq(Task)
           /\ pc' = "idle" /\ todo' \in Seq(Windows \cup {Panel}) /\ new_desk' = FALSE /\ focus_win' = None
<1>1. /\ Redrawn(task_list', task_list) /\ num_tasks' = Len(task_list')
      /\ pc' = "idle" /\ todo' = <<>> /\ new_desk' = FALSE /\ focus_win' = None
      /\ pixmaps' = Held(task_list', 1 .. Len(task_list'))
    BY DoneIs DEF BaseInv
<1>2. \A i, j \in 1 .. Len(task_list) : task_list[i].focused /\ task_list[j].focused => i = j
    BY DEF ViewInv, FocusInv, BaseInv, ListInv, TypeInv, PanelType
<1>3. UNCHANGED fresh
    OBVIOUS
<1>4. ListInv' /\ TodoInv' /\ PixInv' /\ ViewInv'
    BY <1>1, <1>2, <1>3, BarKeeps
<1>5. task_list' \in Seq(Task)
    BY <1>1 DEF Redrawn
<1>6. todo' \in Seq(Windows \cup {Panel})
    BY <1>1
<1> QED
    BY <1>1, <1>4, <1>5, <1>6

\* A handler between two refreshes that leaves the tasks where they are.
LEMMA TouchKeeps ==
    ASSUME BaseInv, ViewInv, UNCHANGED <<fresh, num_tasks, pc, todo>>,
           Takes, pc = "idle", Head(events).kind # "expose",
           task_list' \in Seq(Task), Len(task_list') = Len(task_list),
           \A i \in 1 .. Len(task_list) : Touched(task_list'[i], task_list[i])
    PROVE  ListInv' /\ TodoInv' /\ LayInv' /\ DrawInv'
<1> DEFINE n == Len(task_list)
<1>1. \A i \in 1 .. n : /\ task_list'[i].win = task_list[i].win /\ InPlace(task_list'[i], task_list[i])
                        /\ Visible(task_list[i]) => Visible(task_list'[i])
    BY DEF Touched
<1>2. ListInv /\ TodoInv /\ LayInv /\ DrawInv
    BY DEF BaseInv, ViewInv
<1>3. Len(task_list') = n /\ UNCHANGED <<fresh, num_tasks, pc, todo>>
    OBVIOUS
<1> HIDE DEF n
<1>4. ListInv'
    BY <1>1, <1>2, <1>3 DEF ListInv, n
<1>5. TodoInv'
    <2>1. todo' = <<>> /\ pc' = "idle"
        BY <1>2, <1>3 DEF TodoInv
    <2> QED
        BY <2>1 DEF TodoInv
<1>6. LayInv'
    BY <1>1, <1>2, <1>3 DEF LayInv, Laid, InPlace, n
<1>7. DrawInv'
    <2> SUFFICES ASSUME \A k \in 1 .. Len(events') : events'[k].kind # "expose"
                 PROVE  \A i \in 1 .. n : Visible(task_list'[i])
        BY <1>3 DEF DrawInv
    <2>0. events \in Seq(Event) /\ events # <<>>
        BY DEF BaseInv, TypeInv, ServerType, Takes
    <2>1. Len(events) \in Nat /\ Head(events) = events[1]
        BY <2>0, TailIs
    <2>2. \A k \in 1 .. Len(events) : events[k].kind # "expose"
        <3> SUFFICES ASSUME NEW k \in 1 .. Len(events) PROVE events[k].kind # "expose"
            OBVIOUS
        <3>1. CASE k = 1
            BY <2>1, <3>1
        <3>2. CASE k # 1
            <4>0. events' \in Seq(Event) /\ Len(events') >= Len(events) - 1
                BY DEF Takes
            <4>1. k - 1 \in 1 .. Len(events') /\ k - 1 < Len(events) /\ (k - 1) + 1 = k
                BY <2>1, <3>2, <4>0
            <4>2. events'[k - 1] = events[(k - 1) + 1]
                BY <4>1 DEF Takes
            <4> QED
                BY <4>1, <4>2
        <3> QED
            BY <3>1, <3>2
    <2>3. \A i \in 1 .. n : Visible(task_list[i])
        BY <1>2, <2>2 DEF DrawInv, n
    <2> QED
        BY <1>1, <2>3
<1> QED
    BY <1>4, <1>5, <1>6, <1>7

\* Steps that leave the list as it is.
LEMMA StillThere ==
    ASSUME BaseInv, task_list' = task_list
    PROVE  /\ task_list' \in Seq(Task) /\ Len(task_list') = Len(task_list)
           /\ \A i \in 1 .. Len(task_list) : Touched(task_list'[i], task_list[i])
<1>1. task_list \in Seq(Task)
    BY DEF BaseInv, TypeInv, PanelType
<1>2. \A i \in 1 .. Len(task_list) : task_list[i] \in Task
    BY <1>1, DomainIs
<1> QED
    BY <1>1, <1>2 DEF Touched, InPlace

PanelInv == PanelType /\ ListInv /\ TodoInv /\ PixInv /\ ViewInv

\* ReadDesktop keeps the panel's invariant.
LEMMA ReadDesktopKeeps ==
    ASSUME BaseInv, ViewInv, ReadDesktop
    PROVE  PanelInv'
<1>1. /\ pc = "idle" /\ pc' = "list" /\ my_desktop' = desktop /\ focus_win' = focus
      /\ new_desk' = (desktop # my_desktop)
      /\ UNCHANGED <<fresh, pixmaps, task_list, num_tasks, todo, skipped>>
    BY DEF ReadDesktop, server, ghosts
<1>2. PanelType'
    BY <1>1 DEF BaseInv, TypeInv, PanelType, ServerType
<1>3. ListInv' /\ PixInv'
    BY <1>1 DEF BaseInv, ListInv, PixInv
<1>4. TodoInv'
    BY <1>1 DEF BaseInv, TodoInv
<1>5. ViewInv'
    BY <1>1 DEF ViewInv, FocusInv, LayInv, DrawInv
<1> QED
    BY <1>2, <1>3, <1>4, <1>5 DEF PanelInv

\* ReadList keeps it.
LEMMA ReadListKeeps ==
    ASSUME BaseInv, ViewInv, ReadList, UNCHANGED fresh
    PROVE  PanelInv'
<1>t. /\ my_desktop' = my_desktop /\ my_desktop \in Desktops
      /\ skipped' \in BOOLEAN
      /\ new_desk \in BOOLEAN /\ focus_win \in Windows \cup {None} /\ pc = "list"
    BY DEF ReadList, BaseInv, TypeInv, PanelType
<1>1. CASE clientList = <<None>>
    <2>1. Done(task_list, num_tasks) /\ pixmaps' = pixmaps
        BY <1>1 DEF ReadList
    <2>2. /\ ListInv' /\ TodoInv' /\ PixInv' /\ ViewInv' /\ task_list' \in Seq(Task)
          /\ pc' = "idle" /\ todo' \in Seq(Windows \cup {Panel}) /\ new_desk' = FALSE /\ focus_win' = None
        BY <2>1, DoneKeeps
    <2>3. PanelType'
        BY <1>t, <2>2 DEF PanelType
    <2> QED
        BY <2>2, <2>3 DEF PanelInv
<1>2. CASE clientList # <<None>>
    <2>1. /\ task_list' \in Seq(Task) /\ num_tasks' = Len(task_list')
          /\ pixmaps' = Held(task_list', 1 .. Len(task_list'))
          /\ todo' \in Seq(Windows \cup {Panel})
        BY <1>2, ReadListIs
    <2>2. PICK f : Embeds(f, task_list', task_list)
        BY <1>2, ReadListIs
    <2>3. /\ \A j, k \in 1 .. Len(todo') : todo'[j] = todo'[k] => j = k
          /\ \A k \in 1 .. Len(todo') :
                InList(todo'[k]) /\ \A i \in 1 .. Len(task_list') : task_list'[i].win # todo'[k]
        BY <1>2, ReadListIs
    <2>4. \/ /\ pc' = "idle" /\ todo' = <<>> /\ new_desk' = FALSE /\ focus_win' = None
             /\ \A i \in 1 .. Len(task_list') :
                  Laid(task_list'[i], i, Len(task_list')) /\ Visible(task_list'[i])
          \/ pc' = "look" /\ todo' # <<>> /\ new_desk' = new_desk /\ focus_win' = focus_win
        BY <1>2, ReadListIs
    <2>5. \A i \in 1 .. Len(task_list') : task_list'[i].focused => task_list'[i].win = focus_win
        BY <1>2, ReadListIs
    <2>6. ListInv' /\ \A i \in 1 .. Len(task_list') : Owned(task_list'[i])
        BY <2>1, <2>2, FewerTasks
    <2>7. PixInv'
        BY <2>1, <2>6 DEF PixInv
    <2>8. PanelType'
        BY <1>t, <2>1, <2>4 DEF PanelType
    <2>9. TodoInv'
        <3>1. \A w : InList(w) => w \notin fresh
            BY DEF InList, BaseInv, ServerInv
        <3> QED
            BY <2>3, <2>4, <3>1 DEF TodoInv
    <2>10. FocusInv'
        BY <2>4, <2>5, <2>6 DEF FocusInv, ListInv
    <2>11. LayInv' /\ DrawInv'
        BY <2>4 DEF LayInv, DrawInv
    <2> QED
        BY <2>6, <2>7, <2>8, <2>9, <2>10, <2>11 DEF PanelInv, ViewInv
<1> QED
    BY <1>1, <1>2

\* The next window of the list is done with.
LEMMA TodoAdvances ==
    ASSUME BaseInv, pc \in {"look", "select"}, Len(todo) # 1, todo' = Tail(todo), pc' = "look",
           task_list' = task_list, UNCHANGED fresh
    PROVE  TodoInv' /\ todo' \in Seq(Windows \cup {Panel})
<1>1. /\ todo \in Seq(Windows \cup {Panel}) /\ Len(todo) \in Nat /\ Len(todo) >= 1
      /\ Tail(todo) \in Seq(Windows \cup {Panel}) /\ Len(Tail(todo)) = Len(todo) - 1
      /\ \A k \in 1 .. Len(todo) - 1 : Tail(todo)[k] = todo[k + 1]
    BY HeadIs
<1>2. Len(todo') = Len(todo) - 1 /\ Len(todo) > 1
    BY <1>1
<1>3. \A k \in 1 .. Len(todo') : todo'[k] = todo[k + 1] /\ k + 1 \in 1 .. Len(todo) /\ k + 1 # 1
    BY <1>1, <1>2
<1>4. todo' # <<>>
    <2>1. Len(todo') # 0
        BY <1>1, <1>2
    <2> QED
        BY <2>1
<1>5. TodoInv
    BY DEF BaseInv
<1>6. \A j, k \in 1 .. Len(todo') : todo'[j] = todo'[k] => j = k
    <2> SUFFICES ASSUME NEW j \in 1 .. Len(todo'), NEW k \in 1 .. Len(todo'), todo'[j] = todo'[k]
                 PROVE  j = k
        OBVIOUS
    <2>1. j + 1 = k + 1
        BY <1>3, <1>5 DEF TodoInv
    <2> QED
        BY <1>1, <1>2, <2>1
<1>7. \A k \in 1 .. Len(todo') : todo'[k] \notin fresh
    BY <1>3, <1>5 DEF TodoInv
<1>8. \A i \in 1 .. Len(task_list), k \in 1 .. Len(todo') : task_list[i].win # todo'[k]
    BY <1>3, <1>5 DEF TodoInv
<1> QED
    BY <1>1, <1>4, <1>6, <1>7, <1>8 DEF TodoInv

\* LookAt keeps it.
LEMMA LookAtKeeps ==
    ASSUME BaseInv, ViewInv, LookAt, UNCHANGED fresh
    PROVE  PanelInv'
<1>t. /\ my_desktop' = my_desktop /\ my_desktop \in Desktops /\ skipped' = skipped
      /\ skipped \in BOOLEAN
      /\ new_desk \in BOOLEAN /\ focus_win \in Windows \cup {None} /\ pc = "look"
      /\ task_list \in Seq(Task) /\ todo \in Seq(Windows \cup {Panel}) /\ Len(task_list) \in Nat
    BY DEF LookAt, BaseInv, TypeInv, PanelType
<1>1. CASE Done(task_list, num_tasks) /\ pixmaps' = pixmaps
    <2>2. /\ ListInv' /\ TodoInv' /\ PixInv' /\ ViewInv' /\ task_list' \in Seq(Task)
          /\ pc' = "idle" /\ todo' \in Seq(Windows \cup {Panel}) /\ new_desk' = FALSE /\ focus_win' = None
        BY <1>1, DoneKeeps
    <2>3. PanelType'
        BY <1>t, <2>2 DEF PanelType
    <2> QED
        BY <2>2, <2>3 DEF PanelInv
<1>2. CASE /\ Len(todo) # 1 /\ todo' = Tail(todo)
           /\ UNCHANGED <<pc, task_list, num_tasks, new_desk, focus_win, pixmaps>>
    <2>1. TodoInv' /\ todo' \in Seq(Windows \cup {Panel})
        BY <1>t, <1>2, TodoAdvances
    <2>2. ListInv' /\ PixInv' /\ ViewInv'
        BY <1>t, <1>2 DEF BaseInv, ListInv, PixInv, ViewInv, FocusInv, LayInv, DrawInv
    <2>3. PanelType'
        BY <1>t, <1>2, <2>1 DEF PanelType
    <2> QED
        BY <2>1, <2>2, <2>3 DEF PanelInv
<1>3. CASE /\ todo[1] \in Windows
           /\ task_list' = Append(task_list, NewTask(todo[1]))
           /\ num_tasks' = num_tasks + 1 /\ pixmaps' = pixmaps + Held(<<NewTask(todo[1])>>, {1})
           /\ pc' = "select" /\ UNCHANGED <<todo, new_desk, focus_win>>
    <2> DEFINE w == todo[1]
               t == NewTask(w)
               n == Len(task_list)
    <2>1. t \in Task /\ t.win = w /\ Owned(t) /\ t.focused = (w = focus_win)
        BY <1>3, NewTaskIs DEF BaseInv
    <2>a. task_list' = Append(task_list, t)
        BY <1>3
    <2>b. pixmaps' = pixmaps + Held(<<t>>, {1}) /\ UNCHANGED <<todo, new_desk, focus_win>>
          /\ pc' = "select" /\ num_tasks' = num_tasks + 1
        BY <1>3
    <2> HIDE DEF t
    <2>2. /\ task_list' \in Seq(Task) /\ Len(task_list') = n + 1
          /\ \A k \in 1 .. n : task_list'[k] = task_list[k]
          /\ task_list'[n + 1] = t
        BY <1>t, <2>1, <2>a, AppendIs
    <2>3. /\ todo # <<>> /\ Len(todo) \in Nat /\ Len(todo) >= 1
          /\ \A j, k \in 1 .. Len(todo) : todo[j] = todo[k] => j = k
          /\ \A k \in 1 .. Len(todo) : todo[k] \notin fresh
          /\ \A i \in 1 .. n, k \in 1 .. Len(todo) : task_list[i].win # todo[k]
        BY <1>t, HeadIs DEF BaseInv, TodoInv
    <2>4. 1 \in 1 .. Len(todo) /\ n \in Nat /\ \A i \in 1 .. n + 1 : i \in 1 .. n \/ i = n + 1
        BY <1>t, <2>3
    <2>0. ListInv /\ PixInv /\ FocusInv
        BY DEF BaseInv, ViewInv
    <2>p. PixInv'
        <3>1. Held(task_list', 1 .. n + 1) = Held(task_list, 1 .. n) + Held(<<t>>, {1})
            BY <1>t, <2>1, <2>a, HeldAppend
        <3>2. \A i \in 1 .. n + 1 : Owned(task_list'[i])
            BY <2>0, <2>1, <2>2, <2>4 DEF PixInv
        <3> QED
            BY <2>0, <2>2, <2>b, <3>1, <3>2 DEF PixInv
    <2> HIDE DEF n, w
    <2>5. ListInv'
        <3>1. num_tasks' = Len(task_list')
            BY <2>0, <2>2, <2>b DEF ListInv, n
        <3>2. \A i \in 1 .. n : task_list'[i].win # t.win
            BY <2>1, <2>2, <2>3, <2>4 DEF n, w
        <3>3. \A i, j \in 1 .. n + 1 : task_list'[i].win = task_list'[j].win => i = j
            <4> SUFFICES ASSUME NEW i \in 1 .. n + 1, NEW j \in 1 .. n + 1,
                                task_list'[i].win = task_list'[j].win
                         PROVE  i = j
                OBVIOUS
            <4>1. CASE i \in 1 .. n /\ j \in 1 .. n
                BY <2>0, <2>2, <4>1 DEF ListInv, n
            <4>2. CASE i \in 1 .. n /\ j = n + 1
                BY <2>2, <3>2, <4>2
            <4>3. CASE i = n + 1 /\ j \in 1 .. n
                BY <2>2, <3>2, <4>3
            <4>4. CASE i = n + 1 /\ j = n + 1
                BY <4>4
            <4> QED
                BY <2>4, <4>1, <4>2, <4>3, <4>4
        <3>4. \A i \in 1 .. n + 1 : task_list'[i].win \notin fresh
            BY <2>0, <2>1, <2>2, <2>3, <2>4 DEF ListInv, n, w
        <3> QED
            BY <2>2, <3>1, <3>3, <3>4 DEF ListInv
    <2>6. TodoInv'
        <3>1. task_list' # <<>> /\ task_list'[Len(task_list')].win = todo[1]
            BY <2>1, <2>2, <2>4 DEF w
        <3>2. \A i \in 1 .. n + 1, k \in 1 .. Len(todo) :
                task_list'[i].win = todo[k] => i = n + 1 /\ k = 1
            <4> SUFFICES ASSUME NEW i \in 1 .. n + 1, NEW k \in 1 .. Len(todo), task_list'[i].win = todo[k]
                         PROVE  i = n + 1 /\ k = 1
                OBVIOUS
            <4>1. i = n + 1
                BY <2>2, <2>3, <2>4 DEF n
            <4>2. todo[1] = todo[k]
                BY <2>1, <2>2, <4>1 DEF w
            <4> QED
                BY <2>3, <2>4, <4>1, <4>2
        <3> QED
            BY <2>2, <2>3, <2>b, <3>1, <3>2 DEF TodoInv
    <2>7. FocusInv'
        <3>1. \A i \in 1 .. n + 1 : task_list'[i].focused => task_list'[i].win = focus_win
            <4> SUFFICES ASSUME NEW i \in 1 .. n + 1, task_list'[i].focused
                         PROVE  task_list'[i].win = focus_win
                OBVIOUS
            <4>1. CASE i \in 1 .. n
                BY <1>t, <2>0, <2>2, <4>1 DEF FocusInv, n
            <4>2. CASE i = n + 1
                BY <2>1, <2>2, <4>2
            <4> QED
                BY <2>4, <4>1, <4>2
        <3> QED
            BY <2>2, <2>b, <3>1 DEF FocusInv
    <2>8. LayInv' /\ DrawInv'
        BY <2>b DEF LayInv, DrawInv
    <2>9. PanelType'
        BY <1>t, <2>2, <2>b DEF PanelType
    <2> QED
        BY <2>5, <2>6, <2>7, <2>8, <2>9, <2>p DEF PanelInv, ViewInv
<1> QED
    BY <1>1, <1>2, <1>3, LookAtIs

\* SelectInput keeps it.
LEMMA SelectInputKeeps ==
    ASSUME BaseInv, ViewInv, SelectInput, UNCHANGED fresh
    PROVE  PanelInv'
<1>t. /\ my_desktop' = my_desktop /\ my_desktop \in Desktops /\ skipped' = skipped
      /\ skipped \in BOOLEAN
      /\ new_desk \in BOOLEAN /\ focus_win \in Windows \cup {None} /\ pc = "select"
      /\ task_list \in Seq(Task) /\ pixmaps' = pixmaps
    BY DEF SelectInput, BaseInv, TypeInv, PanelType, ghosts
<1>1. CASE Done(task_list, num_tasks)
    <2>2. /\ ListInv' /\ TodoInv' /\ PixInv' /\ ViewInv' /\ task_list' \in Seq(Task)
          /\ pc' = "idle" /\ todo' \in Seq(Windows \cup {Panel}) /\ new_desk' = FALSE /\ focus_win' = None
        BY <1>t, <1>1, DoneKeeps
    <2>3. PanelType'
        BY <1>t, <2>2 DEF PanelType
    <2> QED
        BY <2>2, <2>3 DEF PanelInv
<1>2. CASE /\ Len(todo) # 1 /\ todo' = Tail(todo) /\ pc' = "look"
           /\ UNCHANGED <<task_list, num_tasks, new_desk, focus_win>>
    <2>1. TodoInv' /\ todo' \in Seq(Windows \cup {Panel})
        BY <1>t, <1>2, TodoAdvances
    <2>2. ListInv' /\ PixInv' /\ ViewInv'
        BY <1>t, <1>2 DEF BaseInv, ListInv, PixInv, ViewInv, FocusInv, LayInv, DrawInv
    <2>3. PanelType'
        BY <1>t, <1>2, <2>1 DEF PanelType
    <2> QED
        BY <2>1, <2>2, <2>3 DEF PanelInv
<1> QED
    BY <1>1, <1>2, SelectInputIs

\* HandleDestroy keeps it.
LEMMA HandleDestroyKeeps ==
    ASSUME BaseInv, ViewInv, HandleDestroy, UNCHANGED fresh
    PROVE  PanelInv'
<1>1. /\ pc = "idle" /\ UNCHANGED <<my_desktop, pc, new_desk, focus_win, todo, skipped>>
    BY DEF HandleDestroy, idleWith, ghosts
<1>2. PICK f : /\ Embeds(f, task_list', task_list)
               /\ \A k \in 1 .. Len(task_list') : task_list'[k].focused = task_list[f[k]].focused
    BY HandleDestroyIs
<1>3. /\ task_list' \in Seq(Task) /\ num_tasks' = Len(task_list')
      /\ pixmaps' = Held(task_list', 1 .. Len(task_list'))
    BY HandleDestroyIs
<1>4. \A i \in 1 .. Len(task_list') :
        Laid(task_list'[i], i, Len(task_list')) /\ Visible(task_list'[i])
    BY HandleDestroyIs
<1>5. ListInv' /\ \A i \in 1 .. Len(task_list') : Owned(task_list'[i])
    BY <1>2, <1>3, FewerTasks
<1>6. PixInv'
    BY <1>3, <1>5 DEF PixInv
<1>7. TodoInv'
    <2>1. todo' = <<>> /\ pc' = "idle"
        BY <1>1 DEF BaseInv, TodoInv
    <2> QED
        BY <2>1 DEF TodoInv
<1>8. FocusInv'
    <2>1. f \in [1 .. Len(task_list') -> 1 .. Len(task_list)]
        BY <1>2 DEF Embeds
    <2>2. \A j, k \in 1 .. Len(task_list') : f[j] = f[k] => j = k
        BY <1>2 DEF Embeds
    <2>3. \A i, j \in 1 .. Len(task_list) : task_list[i].focused /\ task_list[j].focused => i = j
        BY <1>1 DEF ViewInv, FocusInv
    <2>4. \A i, j \in 1 .. Len(task_list') : task_list'[i].focused /\ task_list'[j].focused => i = j
        BY <1>2, <2>1, <2>2, <2>3
    <2> QED
        BY <1>1, <2>4 DEF FocusInv
<1>9. LayInv' /\ DrawInv'
    BY <1>4 DEF LayInv, DrawInv
<1>10. PanelType'
    BY <1>1, <1>3 DEF BaseInv, TypeInv, PanelType
<1> QED
    BY <1>5, <1>6, <1>7, <1>8, <1>9, <1>10 DEF PanelInv, ViewInv

\* HandleExpose keeps it.
LEMMA HandleExposeKeeps ==
    ASSUME BaseInv, ViewInv, HandleExpose, UNCHANGED fresh
    PROVE  PanelInv'
<1>1. /\ pc = "idle" /\ UNCHANGED <<num_tasks, my_desktop, pc, new_desk, focus_win, todo, skipped>>
      /\ pixmaps' = pixmaps /\ task_list' = DrawBar(task_list, num_tasks)
    BY DEF HandleExpose, idleWith, ghosts
<1>2. task_list \in Seq(Task) /\ num_tasks = Len(task_list) /\ Len(task_list) \in Nat
    BY DEF BaseInv, TypeInv, PanelType, ListInv
<1>3. Redrawn(task_list', task_list)
    BY <1>1, <1>2, BarRedraws
<1>4. task_list' \in Seq(Task) /\ Len(task_list') = Len(task_list)
    BY <1>3 DEF Redrawn
<1>5. \A i \in 1 .. Len(task_list) : Alike(task_list'[i], task_list[i])
    BY <1>3, <1>4 DEF Redrawn
<1>6. Held(task_list', 1 .. Len(task_list)) = Held(task_list, 1 .. Len(task_list))
    BY <1>2, <1>5, HeldAlike
<1>7. pixmaps' = Held(task_list', 1 .. Len(task_list'))
    BY <1>1, <1>4, <1>6 DEF BaseInv, PixInv
<1>8. \A i, j \in 1 .. Len(task_list) : task_list[i].focused /\ task_list[j].focused => i = j
    BY <1>1 DEF ViewInv, FocusInv
<1>9. pc' = "idle" /\ todo' = <<>> /\ num_tasks' = Len(task_list')
    BY <1>1, <1>2, <1>4 DEF BaseInv, TodoInv
<1>10. ListInv' /\ TodoInv' /\ PixInv' /\ ViewInv'
    BY <1>3, <1>7, <1>8, <1>9, BarKeeps
<1>11. PanelType'
    BY <1>1, <1>4 DEF BaseInv, TypeInv, PanelType
<1> QED
    BY <1>10, <1>11 DEF PanelInv

\* The handlers that leave the tasks where they are.
LEMMA HandlerFrame ==
    ASSUME BaseInv, ViewInv, Takes, UNCHANGED fresh, HandleFocusIn \/ HandleProperty \/ SwitchDesk \/ PressGrill \/ PressTasks,
           task_list' \in Seq(Task), Len(task_list') = Len(task_list),
           \A i \in 1 .. Len(task_list) : Touched(task_list'[i], task_list[i])
    PROVE  PanelType' /\ ListInv' /\ TodoInv' /\ LayInv' /\ DrawInv' /\ pc = "idle" /\ pc' = "idle"
<1>1. /\ pc = "idle" /\ Head(events).kind # "expose"
      /\ UNCHANGED <<num_tasks, my_desktop, pc, new_desk, focus_win, todo, skipped>>
    BY DEF HandleFocusIn, HandleProperty, SwitchDesk, PressGrill, PressTasks, idleWith, ghosts, panel
<1>3. PanelType'
    BY <1>1 DEF BaseInv, TypeInv, PanelType
<1>4. UNCHANGED <<fresh, num_tasks, pc, todo>>
    BY <1>1
<1>5. ListInv' /\ TodoInv' /\ LayInv' /\ DrawInv'
    BY <1>1, <1>4, TouchKeeps
<1> QED
    BY <1>1, <1>3, <1>5

\* HandleFocusIn keeps it.
LEMMA HandleFocusInKeeps ==
    ASSUME BaseInv, ViewInv, HandleFocusIn, Takes, UNCHANGED fresh
    PROVE  PanelInv'
<1>1. /\ task_list' \in Seq(Task) /\ Len(task_list') = Len(task_list)
      /\ pixmaps' = pixmaps /\ Len(task_list) \in Nat
    BY HandleFocusInIs DEF HandleFocusIn, BaseInv, TypeInv, PanelType
<1>2. \A i \in 1 .. Len(task_list) : Touched(task_list'[i], task_list[i])
    BY HandleFocusInIs
<1>3. \A i \in 1 .. Len(task_list) : Alike(task_list'[i], task_list[i])
    BY HandleFocusInIs
<1>4. \A i \in 1 .. Len(task_list) : task_list'[i].focused = (task_list'[i].win = Head(events).win)
    BY HandleFocusInIs
<1>5. PanelType' /\ ListInv' /\ TodoInv' /\ LayInv' /\ DrawInv' /\ pc' = "idle"
    BY <1>1, <1>2, HandlerFrame
<1>6. Held(task_list', 1 .. Len(task_list)) = Held(task_list, 1 .. Len(task_list))
    BY <1>1, <1>3, HeldAlike
<1>7. PixInv'
    BY <1>1, <1>3, <1>6 DEF BaseInv, PixInv, Owned, Alike
<1>8. FocusInv'
    BY <1>1, <1>4, <1>5 DEF FocusInv, ListInv
<1> QED
    BY <1>5, <1>7, <1>8 DEF PanelInv, ViewInv

\* Tasks without copied icons hold no pixmaps.
LEMMA HeldNone ==
    ASSUME NEW list, NEW I, \A i \in I : ~list[i].icon_copied
    PROVE  Held(list, I) = 0
<1>1. Icons(list, I) = {} /\ Masks(list, I) = {}
    BY DEF Icons, Masks
<1>2. Cardinality({}) = 0
    BY FS_EmptySet
<1>3. Held(list, I) = Cardinality(Icons(list, I)) + Cardinality(Masks(list, I))
    BY DEF Held, Icons, Masks
<1> QED
    BY <1>1, <1>2, <1>3

\* HandleProperty keeps it.
LEMMA HandlePropertyKeeps ==
    ASSUME BaseInv, ViewInv, HandleProperty, Takes, UNCHANGED fresh
    PROVE  PanelInv'
<1> DEFINE w == Head(events).win
           a == Head(events).atom
           N == 1 .. Len(task_list)
           R == {i \in N : task_list[i].win = w /\ Reloads(task_list[i], a)}
           I == N \ R
<1>1. /\ task_list' \in Seq(Task) /\ Len(task_list') = Len(task_list)
      /\ w \in Windows /\ a \in Atoms
      /\ pixmaps' = pixmaps + Held(task_list', R)
    BY HandlePropertyIs
<1>2. \A i \in N : task_list'[i] = IF task_list[i].win = w THEN Refreshed(task_list[i], a) ELSE task_list[i]
    BY HandlePropertyIs
<1>0. Len(task_list) \in Nat /\ (\A i \in N : task_list[i] \in Task) /\ ServerType
    BY DomainIs DEF BaseInv, TypeInv, PanelType
<1> HIDE DEF w, a
<1>3. ASSUME NEW i \in N
      PROVE  /\ Touched(task_list'[i], task_list[i]) /\ task_list'[i].focused = task_list[i].focused
             /\ IF i \in R THEN Owned(task_list[i]) => Owned(task_list'[i])
                ELSE /\ task_list'[i].icon = task_list[i].icon /\ task_list'[i].mask = task_list[i].mask
                     /\ task_list'[i].icon_copied = task_list[i].icon_copied
    <2> DEFINE u == task_list[i]
    <2>0. u \in Task
        BY <1>0
    <2>1. CASE u.win = w
        <3>1. task_list'[i] = Refreshed(u, a)
            BY <1>2, <2>1
        <3>2. i \in R <=> Reloads(u, a)
            BY <2>1
        <3> HIDE DEF u, R
        <3>3. /\ Touched(Refreshed(u, a), u) /\ Refreshed(u, a).focused = u.focused
              /\ IF Reloads(u, a) THEN Owned(u) => Owned(Refreshed(u, a))
                 ELSE /\ Refreshed(u, a).icon = u.icon /\ Refreshed(u, a).mask = u.mask
                      /\ Refreshed(u, a).icon_copied = u.icon_copied
            BY <1>0, <1>1, <2>0, RefreshedIs
        <3> QED
            BY <3>1, <3>2, <3>3 DEF u
    <2>2. CASE u.win # w
        <3>1. task_list'[i] = u /\ i \notin R
            BY <1>2, <2>2
        <3> QED
            BY <2>0, <3>1 DEF Touched, InPlace
    <2> QED
        BY <2>1, <2>2
<1>4. \A i \in N : Touched(task_list'[i], task_list[i])
    BY <1>3
<1>5. PanelType' /\ ListInv' /\ TodoInv' /\ LayInv' /\ DrawInv' /\ pc' = "idle" /\ pc = "idle"
    BY <1>1, <1>4, HandlerFrame
<1>6. FocusInv'
    BY <1>1, <1>3, <1>5 DEF ViewInv, FocusInv
<1>7. \A i \in N : Owned(task_list[i])
    BY DEF BaseInv, PixInv
<1>8. \A i \in N : Owned(task_list'[i])
    BY <1>3, <1>7 DEF Owned
<1>9. pixmaps' = Held(task_list', N)
    <2>1. R \in SUBSET N /\ I \in SUBSET N
        OBVIOUS
    <2>2. IsFiniteSet(R) /\ IsFiniteSet(I)
        BY <1>0, <2>1, IndexSet
    <2>3. I \cup R = N
        OBVIOUS
    <2>4. I \cap R = {}
        OBVIOUS
    <2>5. SameIcons(task_list, task_list', I) /\ SameIcons(task_list, task_list, I)
        BY <1>3 DEF SameIcons
    <2>6. \A i \in R : ~task_list[i].icon_copied
        BY <1>7 DEF Reloads, Owned
    <2> HIDE DEF R, I, N
    <2>7. Held(task_list', I \cup R) = Held(task_list, I) + Held(task_list', R)
        BY <2>2, <2>4, <2>5, HeldAdds
    <2>8. Held(task_list, I \cup R) = Held(task_list, I) + Held(task_list, R)
        BY <2>2, <2>4, <2>5, HeldAdds
    <2>9. Held(task_list, R) = 0
        BY <2>6, HeldNone
    <2>10. Held(task_list, I) \in Nat /\ Held(task_list', R) \in Nat
        BY <2>2, HeldIs
    <2>11. pixmaps = Held(task_list, N)
        BY DEF BaseInv, PixInv, N
    <2>12. pixmaps' = pixmaps + Held(task_list', R)
        BY <1>1
    <2>13. Held(task_list', N) = Held(task_list, I) + Held(task_list', R)
        BY <2>3, <2>7
    <2>14. Held(task_list, N) = Held(task_list, I) + 0
        BY <2>3, <2>8, <2>9
    <2>15. Held(task_list, I) \in Nat
        BY <2>10
    <2>16. pixmaps = Held(task_list, I)
        BY <2>11, <2>14, <2>15
    <2> QED
        BY <2>12, <2>13, <2>16
<1>10. PixInv'
    BY <1>1, <1>8, <1>9 DEF PixInv
<1> QED
    BY <1>5, <1>6, <1>10 DEF PanelInv, ViewInv

\* Presses beside the tasks keep it.
LEMMA PressBesideKeeps ==
    ASSUME BaseInv, ViewInv, SwitchDesk \/ PressGrill, Takes, UNCHANGED fresh
    PROVE  PanelInv'
<1>1. task_list' = task_list /\ pixmaps' = pixmaps
    BY DEF SwitchDesk, PressGrill, panel
<1>2. /\ task_list' \in Seq(Task) /\ Len(task_list') = Len(task_list)
      /\ \A i \in 1 .. Len(task_list) : Touched(task_list'[i], task_list[i])
    BY <1>1, StillThere
<1>3. PanelType' /\ ListInv' /\ TodoInv' /\ LayInv' /\ DrawInv' /\ pc' = "idle" /\ pc = "idle"
    BY <1>2, HandlerFrame
<1>4. PixInv' /\ FocusInv'
    BY <1>1, <1>3 DEF BaseInv, PixInv, ViewInv, FocusInv
<1> QED
    BY <1>3, <1>4 DEF PanelInv, ViewInv

\* Presses on the tasks keep it.
LEMMA PressTasksKeeps ==
    ASSUME BaseInv, ViewInv, PressTasks, Takes, UNCHANGED fresh
    PROVE  PanelInv'
<1>0. LayInv /\ Len(task_list) \in Nat /\ pixmaps' = pixmaps
    BY DEF ViewInv, PressTasks, BaseInv, TypeInv, PanelType
<1>1. PICK hits \in SUBSET (1 .. Len(task_list)) :
           /\ \A i, j \in hits : i = j
           /\ task_list' \in Seq(Task) /\ Len(task_list') = Len(task_list)
           /\ \A i \in 1 .. Len(task_list) :
                LET t == task_list'[i]
                    u == task_list[i]
                IN  /\ Touched(t, u)
                    /\ t.icon = u.icon /\ t.mask = u.mask /\ t.icon_copied = u.icon_copied
                    /\ i \notin hits => ~t.focused
    BY <1>0, PressTasksIs
<1>2. /\ task_list' \in Seq(Task) /\ Len(task_list') = Len(task_list)
      /\ \A i \in 1 .. Len(task_list) : Touched(task_list'[i], task_list[i])
    BY <1>1
<1>3. PanelType' /\ ListInv' /\ TodoInv' /\ LayInv' /\ DrawInv' /\ pc' = "idle" /\ pc = "idle"
    BY <1>2, HandlerFrame
<1>4. FocusInv'
    BY <1>1, <1>3 DEF FocusInv
<1>5. Icons(task_list', 1 .. Len(task_list)) = Icons(task_list, 1 .. Len(task_list))
      /\ Masks(task_list', 1 .. Len(task_list)) = Masks(task_list, 1 .. Len(task_list))
    BY <1>1 DEF Icons, Masks
<1>6. Held(task_list', 1 .. Len(task_list)) = Held(task_list, 1 .. Len(task_list))
    BY <1>5 DEF Held, Icons, Masks
<1>7. PixInv'
    BY <1>0, <1>1, <1>6 DEF BaseInv, PixInv, Owned
<1> QED
    BY <1>3, <1>4, <1>7 DEF PanelInv, ViewInv

\* Every step keeps the invariant.
LEMMA StepKeeps ==
    ASSUME BaseInv, ViewInv, [Next]_vars
    PROVE  BaseInv' /\ ViewInv'
<1>1. CASE PanelStep
    <2>0. LayInv
        BY DEF ViewInv
    <2>1. ServerType' /\ ServerInv' /\ UNCHANGED fresh
        BY <1>1, <2>0, PanelServer DEF Unseen
    <2>2. Takes \/ ReadList \/ LookAt \/ SelectInput
        BY <1>1, <2>0, PanelEvents
    <2>3. ReadList \/ LookAt \/ SelectInput => PanelInv'
        BY <2>1, ReadListKeeps, LookAtKeeps, SelectInputKeeps
    <2>4. ReadDesktop \/ HandleDestroy \/ HandleExpose => PanelInv'
        BY <2>1, ReadDesktopKeeps, HandleDestroyKeeps, HandleExposeKeeps
    <2>5. Takes /\ (HandleFocusIn \/ HandleProperty \/ SwitchDesk \/ PressGrill \/ PressTasks) => PanelInv'
        BY <2>1, HandleFocusInKeeps, HandlePropertyKeeps, PressBesideKeeps, PressTasksKeeps
    <2>6. PanelInv'
        BY <1>1, <2>2, <2>3, <2>4, <2>5 DEF PanelStep
    <2> QED
        BY <2>1, <2>6 DEF PanelInv, BaseInv, TypeInv
<1>2. CASE WmStep \/ Environment
    BY <1>2, EnvPanel
<1>3. CASE UNCHANGED vars
    BY <1>3 DEF vars, server, panel, ghosts, BaseInv, ViewInv, TypeInv, ServerType, PanelType, ServerInv,
                ListInv, TodoInv, PixInv, FocusInv, LayInv, DrawInv
<1> QED
    BY <1>1, <1>2, <1>3 DEF Next

\* The invariant holds initially ...
LEMMA InitKeeps ==
    ASSUME Init
    PROVE  BaseInv /\ ViewInv
<1>0. PICK old \in {<<>>} \cup {<<w>> : w \in Older} :
        clientList = old /\ alive = ToSet(old) \cup {Panel} /\ fresh = Windows \ alive
    BY DEF Init
<1>1. /\ Len(old) \in Nat /\ old \in Seq(Windows \cup {Panel}) /\ ToSet(old) \subseteq Windows
      /\ (\A i, j \in 1 .. Len(old) : old[i] = old[j] => i = j)
      /\ \A i \in 1 .. Len(old) : old[i] \in ToSet(old)
    <2>1. CASE old = <<>>
        BY <2>1 DEF ToSet
    <2>2. ASSUME NEW w \in Older, old = <<w>>
          PROVE  /\ Len(old) \in Nat /\ old \in Seq(Windows \cup {Panel}) /\ ToSet(old) \subseteq Windows
                 /\ (\A i, j \in 1 .. Len(old) : old[i] = old[j] => i = j)
                 /\ \A i \in 1 .. Len(old) : old[i] \in ToSet(old)
        BY <2>2, FsPanelAssumption DEF ToSet
    <2> QED
        BY <2>1, <2>2
<1>2. IsFiniteSet(alive)
    <2>1. CASE old = <<>>
        <3>1. alive = {Panel}
            BY <1>0, <2>1 DEF ToSet
        <3> QED
            BY <3>1, FS_Singleton
    <2>2. ASSUME NEW w \in Older, old = <<w>>
          PROVE  IsFiniteSet(alive)
        <3>1. alive = {Panel} \cup {w}
            BY <1>0, <2>2 DEF ToSet
        <3>2. IsFiniteSet({Panel})
            BY FS_Singleton
        <3> QED
            BY <3>1, <3>2, FS_AddElement
    <2> QED
        BY <2>1, <2>2
<1>3. ServerInv
    <2>1. Len(events) = 0
        BY DEF Init
    <2> QED
        BY <1>0, <1>1, <1>2, <2>1 DEF ServerInv
<1>4. alive \subseteq Windows \cup {Panel} /\ fresh \subseteq Windows \ alive
      /\ clientList \in Seq(Windows \cup {Panel})
    BY <1>0, <1>1
<1>5. title \in [Windows -> Titles] /\ desk \in [Windows -> Desktops \cup {AllDesktops}]
      /\ iconic \in [Windows -> BOOLEAN] /\ hints \in [Windows -> {"none", "icon", "masked"}]
    BY FsPanelAssumption DEF Init
<1>6. ServerType
    <2>1. /\ desktop \in Desktops /\ focus = None /\ selected = {} /\ events = <<>> /\ requests = <<>>
          /\ moved = {} /\ missed = {} /\ acts = 0
        BY DEF Init
    <2>2. acts \in 0 .. MaxActs
        BY <2>1, FsPanelAssumption
    <2> QED
        BY <1>4, <1>5, <2>1, <2>2 DEF ServerType
<1>7. /\ task_list = <<>> /\ num_tasks = 0 /\ pixmaps = 0 /\ pc = "idle" /\ todo = <<>>
      /\ my_desktop = 0 /\ new_desk = FALSE /\ focus_win = None /\ skipped = FALSE
    BY DEF Init
<1>8. PanelType
    <2>1. task_list \in Seq(Task) /\ todo \in Seq(Windows \cup {Panel})
        BY <1>7
    <2>2. my_desktop \in Desktops
        BY <1>7, FsPanelAssumption
    <2> QED
        BY <1>7, <2>1, <2>2 DEF PanelType
<1>9. Len(task_list) = 0 /\ Len(todo) = 0 /\ \A i \in 1 .. Len(task_list) : FALSE
    BY <1>7
<1>10. ListInv /\ TodoInv /\ ViewInv
    BY <1>7, <1>9 DEF ListInv, TodoInv, ViewInv, FocusInv, LayInv, DrawInv
<1>11. PixInv
    <2>1. \A i \in 1 .. Len(task_list) : ~task_list[i].icon_copied
        BY <1>9
    <2>2. Held(task_list, 1 .. Len(task_list)) = 0
        BY <2>1, HeldNone
    <2> QED
        BY <1>7, <1>9, <2>2 DEF PixInv
<1> QED
    BY <1>3, <1>6, <1>8, <1>10, <1>11 DEF BaseInv, TypeInv

\* ... and always.
LEMMA BaseHolds == Spec => [](BaseInv /\ ViewInv)
<1>1. Init => BaseInv /\ ViewInv
    BY InitKeeps
<1>2. BaseInv /\ ViewInv /\ [Next]_vars => (BaseInv /\ ViewInv)'
    BY StepKeeps
<1> QED
    BY <1>1, <1>2, PTL DEF Spec

\* Types: pixmaps, num_tasks and the places are numbers although del_task counts
\* down, whatever tasks a refresh, a DestroyNotify or a press finds.
THEOREM Types == Spec => []TypeOK
<1>1. ASSUME BaseInv PROVE TypeOK
    <2>1. task_list \in Seq(Task) /\ Len(task_list) \in Nat /\ num_tasks = Len(task_list)
          /\ pixmaps = Held(task_list, 1 .. Len(task_list))
        BY <1>1 DEF BaseInv, TypeInv, PanelType, ListInv, PixInv
    <2>2. IsFiniteSet(1 .. Len(task_list))
        BY <2>1, FS_Interval
    <2>3. pixmaps \in Nat /\ num_tasks \in Nat
        BY <2>1, <2>2, HeldIs
    <2> QED
        BY <1>1, <2>3 DEF BaseInv, TypeInv, ServerType, PanelType, TypeOK
<1> QED
    BY <1>1, BaseHolds, PTL

\* A set whose elements are equal has at most one.
LEMMA AtMostOne ==
    ASSUME NEW S, \A i, j \in S : i = j
    PROVE  Cardinality(S) =< 1
<1>1. CASE S = {}
    <2>1. Cardinality(S) = 0
        BY <1>1, FS_EmptySet
    <2> QED
        BY <2>1
<1>2. ASSUME NEW i \in S
      PROVE  Cardinality(S) =< 1
    <2>1. S = {i}
        BY <1>2
    <2>2. Cardinality(S) = 1
        BY <2>1, FS_Singleton
    <2> QED
        BY <2>2
<1> QED
    BY <1>1, <1>2

\* At most one task has the focus mark and no window has two tasks, after every
\* handler and every step of a refresh: handle_press, handle_focusin,
\* taskbar_read_clientlist and add_task agree on the mark.
THEOREM OneFocused == Spec => []AtMostOneFocused
<1>1. ASSUME BaseInv, ViewInv PROVE AtMostOneFocused
    <2> DEFINE S == {i \in DOMAIN task_list : task_list[i].focused}
    <2>1. /\ DOMAIN task_list = 1 .. Len(task_list)
          /\ \A i, j \in 1 .. Len(task_list) : task_list[i].win = task_list[j].win => i = j
          /\ pc \in {"idle", "list", "look", "select"}
        BY <1>1, DomainIs DEF BaseInv, TypeInv, PanelType, ListInv
    <2>2. \A i, j \in S : i = j
        BY <1>1, <2>1 DEF ViewInv, FocusInv
    <2>3. Cardinality(S) =< 1
        BY <2>2, AtMostOne
    <2> QED
        BY <2>1, <2>3 DEF AtMostOneFocused
<1> QED
    BY <1>1, BaseHolds, PTL

\* The pixmaps in the server are exactly the copies the tasks own: add_task, the
\* late icon of handle_propertynotify and del_task keep the books, and no pixmap
\* of a client or shared by all tasks is taken for a copy.
THEOREM NoPixmapLost == Spec => []PixmapsOwned
<1>1. ASSUME BaseInv PROVE PixmapsOwned
    <2>1. /\ DOMAIN task_list = 1 .. Len(task_list) /\ pixmaps = Held(task_list, 1 .. Len(task_list))
          /\ \A i \in 1 .. Len(task_list) : Owned(task_list[i])
        BY <1>1, DomainIs DEF BaseInv, TypeInv, PanelType, PixInv
    <2> QED
        BY <2>1 DEF PixmapsOwned, Owned
<1> QED
    BY <1>1, BaseHolds, PTL

\* Whenever an event is handled the tasks lie side by side in the task area, for
\* every width of the screen and every number of windows (also more than there
\* are pixels), and num_tasks counts them.
THEOREM SideBySideTasks == Spec => []TasksLaidOut
<1>1. ASSUME BaseInv, ViewInv, pc = "idle"
      PROVE  /\ num_tasks = Len(task_list)
             /\ \A i \in DOMAIN task_list :
                  /\ task_list[i].pos_x >= BarStart
                  /\ task_list[i].pos_x + task_list[i].width =< BarStart + BarWidth
                  /\ i > 1 => task_list[i - 1].pos_x + task_list[i - 1].width < task_list[i].pos_x
    <2>1. /\ DOMAIN task_list = 1 .. Len(task_list) /\ num_tasks = Len(task_list)
          /\ Len(task_list) \in Nat
        BY <1>1, DomainIs DEF BaseInv, TypeInv, PanelType, ListInv
    <2>2. \A i \in 1 .. Len(task_list) : Laid(task_list[i], i, Len(task_list))
        BY <1>1 DEF ViewInv, LayInv
    <2> SUFFICES ASSUME NEW i \in 1 .. Len(task_list)
                 PROVE  /\ task_list[i].pos_x >= BarStart
                        /\ task_list[i].pos_x + task_list[i].width =< BarStart + BarWidth
                        /\ i > 1 => task_list[i - 1].pos_x + task_list[i - 1].width < task_list[i].pos_x
        BY <2>1
    <2>3. Laid(task_list[i], i, Len(task_list))
        BY <2>2
    <2>4. /\ task_list[i].pos_x >= BarStart
          /\ task_list[i].pos_x + task_list[i].width =< BarStart + BarWidth
        BY <2>1, <2>3, SideBySide
    <2>5. ASSUME i > 1
          PROVE  task_list[i - 1].pos_x + task_list[i - 1].width < task_list[i].pos_x
        <3> DEFINE j == i - 1
        <3>1. j \in 1 .. Len(task_list) /\ j < i
            BY <2>1, <2>5
        <3> HIDE DEF j
        <3>2. Laid(task_list[j], j, Len(task_list))
            BY <2>2, <3>1
        <3>3. task_list[j].pos_x + task_list[j].width < task_list[i].pos_x
            BY <2>1, <2>3, <3>1, <3>2, SideBySide
        <3> QED
            BY <3>3 DEF j
    <2> QED
        BY <2>4, <2>5
<1>2. BaseInv /\ ViewInv => TasksLaidOut
    BY <1>1 DEF TasksLaidOut
<1> QED
    BY <1>2, BaseHolds, PTL

\* Once everything has settled what is on the screen is what the list says: what
\* a handler or a refresh changes it draws, and what an exposure destroyed is
\* drawn when its event comes.
THEOREM ScreenShowsList == Spec => []ScreenFollowsList
<1>1. ASSUME BaseInv, ViewInv PROVE ScreenFollowsList
    <2>1. DOMAIN task_list = 1 .. Len(task_list)
        BY <1>1, DomainIs DEF BaseInv, TypeInv, PanelType
    <2> SUFFICES ASSUME pc = "idle", events = <<>>
                 PROVE  \A i \in 1 .. Len(task_list) : Visible(task_list[i])
        BY <2>1 DEF ScreenFollowsList, Quiet, Visible
    <2>2. \A k \in 1 .. Len(events) : events[k].kind # "expose"
        OBVIOUS
    <2> QED
        BY <1>1, <2>2 DEF ViewInv, DrawInv
<1> QED
    BY <1>1, BaseHolds, PTL

-----------------------------------------------------------------------------
(* Marks and names follow the windows.                                     *)

\* The panel hears of the windows that have a task, but for the one it is just
\* about to select.
SelInv ==
  \A i \in 1 .. Len(task_list) : task_list[i].win \in alive =>
    task_list[i].win \in selected \/ (pc = "select" /\ i = Len(task_list))

PropPending(w, a) ==
  \E k \in 1 .. Len(events) : events[k] = [kind |-> "prop", win |-> w, atom |-> a]

\* The last thing the panel asked of the window manager about w, and the window
\* manager has still to do, is to make it iconic (b) or not.
Asked(w, b) ==
  \E k \in 1 .. Len(requests) :
    /\ requests[k] = [kind |-> IF b THEN "iconify" ELSE "map", win |-> w]
    /\ \A l \in 1 .. Len(requests) : l > k /\ requests[l].kind # "desktop" => requests[l].win # w

NameOk(w, m) == w \in alive \ missed => m = title[w] \/ PropPending(w, "name")

MarkOk(w, b) == w \in alive \ missed => b = iconic[w] \/ PropPending(w, "state") \/ Asked(w, b)

MarksInv ==
  \A i \in 1 .. Len(task_list) :
    /\ NameOk(task_list[i].win, task_list[i].name)
    /\ MarkOk(task_list[i].win, task_list[i].iconified)

\* A pending property event stays pending while the queue grows ...
LEMMA PendingGrows ==
    ASSUME events \in Seq(Event), Grows, NEW w, NEW a, PropPending(w, a)
    PROVE  PropPending(w, a)'
<1>1. PICK k \in 1 .. Len(events) : events[k] = [kind |-> "prop", win |-> w, atom |-> a]
    BY DEF PropPending
<1>2. k \in 1 .. Len(events') /\ events'[k] = events[k]
    BY <1>1 DEF Grows
<1> QED
    BY <1>1, <1>2 DEF PropPending

\* ... and until it is the one that is taken.
LEMMA PendingTakes ==
    ASSUME events \in Seq(Event), Takes, NEW w, NEW a, PropPending(w, a)
    PROVE  PropPending(w, a)' \/ Head(events) = [kind |-> "prop", win |-> w, atom |-> a]
<1>1. PICK k \in 1 .. Len(events) : events[k] = [kind |-> "prop", win |-> w, atom |-> a]
    BY DEF PropPending
<1>2. Head(events) = events[1] /\ Len(events) \in Nat /\ Len(events') >= Len(events) - 1 /\ Len(events') \in Nat
    BY TailIs DEF Takes
<1>3. CASE k = 1
    BY <1>1, <1>2, <1>3
<1>4. CASE k # 1
    <2>1. k - 1 \in 1 .. Len(events') /\ k - 1 < Len(events) /\ (k - 1) + 1 = k
        BY <1>2, <1>4
    <2>2. events'[k - 1] = events[(k - 1) + 1]
        BY <2>1 DEF Takes
    <2>3. events'[k - 1] = [kind |-> "prop", win |-> w, atom |-> a]
        BY <1>1, <2>1, <2>2
    <2> QED
        BY <2>1, <2>3 DEF PropPending
<1> QED
    BY <1>3, <1>4

\* A window that has a task has changed: the panel will hear of it, or has missed it.
Notified(w, a) == (w \in selected => PropPending(w, a)') /\ (Between(w) => w \in missed')

\* A change of a selected window is pending.
LEMMA NotifyPends ==
    ASSUME events \in Seq(Event), NEW w \in Windows, NEW a \in Atoms, Notify(w, a), w \in selected
    PROVE  PropPending(w, a)'
<1> DEFINE e == [kind |-> "prop", win |-> w, atom |-> a]
<1>1. e \in Event
    BY EventTypes
<1>2. events' = Append(events, e)
    BY DEF Notify
<1> HIDE DEF e
<1>3. Len(events') = Len(events) + 1 /\ events'[Len(events) + 1] = e /\ Len(events) \in Nat
    BY <1>1, <1>2, AppendIs
<1>4. Len(events) + 1 \in 1 .. Len(events')
    BY <1>3
<1> QED
    BY <1>3, <1>4 DEF PropPending, e

\* A window whose state changes is the one named, and is notified or missed.
LEMMA IconicNotifies ==
    ASSUME ServerType, NEW w \in Windows, NEW b \in BOOLEAN, SetIconic(w, b)
    PROVE  /\ \A v \in Windows : iconic'[v] = iconic[v] \/ (v = w /\ Notified(w, "state"))
           /\ iconic'[w] = b /\ missed \subseteq missed'
<1>1. /\ iconic' = [iconic EXCEPT ![w] = b] /\ iconic \in [Windows -> BOOLEAN]
      /\ events \in Seq(Event) /\ "state" \in Atoms
    BY DEF SetIconic, ServerType, Atoms
<1>2. iconic'[w] = b /\ \A v \in Windows : v # w => iconic'[v] = iconic[v]
    BY <1>1
<1>3. missed \subseteq missed'
    BY SetIconicIs
<1>4. CASE iconic[w] = b
    BY <1>2, <1>3, <1>4
<1>5. CASE iconic[w] # b
    <2>1. Notify(w, "state") /\ missed' = missed \cup (IF Between(w) THEN {w} ELSE {})
        BY <1>5 DEF SetIconic
    <2>2. Notified(w, "state")
        BY <1>1, <2>1, NotifyPends DEF Notified
    <2> QED
        BY <1>2, <1>3, <2>2
<1> QED
    BY <1>4, <1>5

\* What a step of the environment does to a window that has a task.
LEMMA EnvWindow ==
    ASSUME TypeInv, ServerInv, WmStep \/ Environment, NEW w \in Windows, w \notin fresh, w \in alive'
    PROVE  /\ w \in alive
           /\ w \in selected => w \in selected'
           /\ w \in missed => w \in missed'
           /\ w \in moved => w \in moved'
           /\ desk'[w] = desk[w] \/ w \in moved'
           /\ title'[w] = title[w] \/ Notified(w, "name")
           /\ iconic'[w] = iconic[w] \/ Notified(w, "state")
<1> DEFINE G == /\ w \in selected => w \in selected'
                /\ w \in missed => w \in missed'
                /\ w \in moved => w \in moved'
                /\ desk'[w] = desk[w] \/ w \in moved'
                /\ title'[w] = title[w] \/ Notified(w, "name")
                /\ iconic'[w] = iconic[w] \/ Notified(w, "state")
<1>0. w \in alive
    BY EnvList
<1>t. /\ ServerType /\ desk \in [Windows -> Desktops \cup {AllDesktops}] /\ iconic \in [Windows -> BOOLEAN]
      /\ title \in [Windows -> Titles] /\ events \in Seq(Event) /\ requests \in Seq(Request)
      /\ "name" \in Atoms /\ "state" \in Atoms
    BY DEF TypeInv, ServerType, Atoms
<1>1. ASSUME UNCHANGED <<selected, missed, moved, desk, title, iconic>> PROVE G
    BY <1>1
<1>2. ASSUME NEW v \in Windows, Manage(v) PROVE G
    <2>1. v # w /\ UNCHANGED <<selected, missed, moved, title, iconic>>
        BY <1>2 DEF Manage, ghosts
    <2>2. desk'[w] = desk[w]
        BY <1>t, <1>2, <2>1 DEF Manage
    <2> QED
        BY <2>1, <2>2
<1>3. ASSUME NEW v \in Windows, Destroy(v) PROVE G
    <2>1. v # w
        BY <1>3 DEF Destroy
    <2>2. /\ selected' = selected \ {v} /\ missed' = missed \ {v} /\ moved' = moved \ {v}
          /\ desk' = [desk EXCEPT ![v] = 0] /\ iconic' = [iconic EXCEPT ![v] = FALSE] /\ title' = title
        BY <1>3 DEF Destroy
    <2> QED
        BY <1>t, <2>1, <2>2
<1>4. ASSUME NEW v \in Windows, MoveToDesktop(v) PROVE G
    <2>1. moved' = moved \cup {v} /\ UNCHANGED <<selected, missed, title, iconic>>
        BY <1>4 DEF MoveToDesktop
    <2>2. v # w => desk'[w] = desk[w]
        BY <1>t, <1>4 DEF MoveToDesktop
    <2> QED
        BY <2>1, <2>2
<1>5. ASSUME NEW v \in Windows, ToggleIconic(v) PROVE G
    <2>1. SetIconic(v, ~iconic[v]) /\ UNCHANGED <<selected, moved, desk, title>> /\ (~iconic[v]) \in BOOLEAN
        BY <1>t, <1>5 DEF ToggleIconic
    <2>2. (iconic'[w] = iconic[w] \/ Notified(w, "state")) /\ missed \subseteq missed'
        BY <1>t, <2>1, IconicNotifies
    <2> QED
        BY <2>1, <2>2
<1>6. ASSUME NEW v \in Windows, Retitle(v) PROVE G
    <2>1. /\ Notify(v, "name") /\ missed' = missed \cup (IF Between(v) THEN {v} ELSE {})
          /\ UNCHANGED <<selected, moved, desk, iconic>>
        BY <1>6 DEF Retitle
    <2>2. v # w => title'[w] = title[w]
        BY <1>t, <1>6 DEF Retitle
    <2>3. v = w => Notified(w, "name")
        BY <1>t, <2>1, NotifyPends DEF Notified
    <2> QED
        BY <2>1, <2>2, <2>3
<1>7. ASSUME WmHandle PROVE G
    <2> DEFINE r == Head(requests)
    <2>0. UNCHANGED <<selected, moved, desk, title>>
        BY <1>7 DEF WmHandle
    <2>1. r \in Request
        BY <1>t, <1>7, TailIs DEF WmHandle
    <2>2. CASE r.kind # "desktop" /\ r.win \in alive
        <3>1. SetIconic(r.win, r.kind = "iconify") /\ r.win \in Windows /\ (r.kind = "iconify") \in BOOLEAN
            BY <1>7, <2>1, <2>2, RequestFields DEF WmHandle
        <3>2. (iconic'[w] = iconic[w] \/ Notified(w, "state")) /\ missed \subseteq missed'
            BY <1>t, <3>1, IconicNotifies
        <3> QED
            BY <2>0, <3>2
    <2>3. CASE ~(r.kind # "desktop" /\ r.win \in alive)
        BY <1>1, <1>7, <2>0, <2>3 DEF WmHandle
    <2> QED
        BY <2>2, <2>3
<1>8. ManagePanel \/ WmStart \/ WmExit \/ SwitchDesktop \/ Expose \/ Press
        => UNCHANGED <<selected, missed, moved, desk, title, iconic>>
    BY DEF ManagePanel, WmStart, WmExit, SwitchDesktop, Expose, Press, server, ghosts
<1>9. \A v \in Windows : Unmanage(v) \/ SetHints(v) \/ MoveFocus(v)
        => UNCHANGED <<selected, missed, moved, desk, title, iconic>>
    BY DEF Unmanage, SetHints, MoveFocus, ghosts
<1> HIDE DEF G
<1>10. G
    BY <1>1, <1>2, <1>3, <1>4, <1>5, <1>6, <1>7, <1>8, <1>9 DEF WmStep, Environment
<1> QED
    BY <1>0, <1>10 DEF G

\* Windows, window manager and user keep SelInv.
LEMMA SelEnv ==
    ASSUME BaseInv, SelInv, WmStep \/ Environment
    PROVE  SelInv'
<1>1. EnvFrame
    BY EnvStep DEF BaseInv, ServerInv
<1>2. Len(task_list') = Len(task_list) /\ pc' = pc
    BY <1>1 DEF EnvFrame
<1> SUFFICES ASSUME NEW i \in 1 .. Len(task_list), task_list'[i].win \in alive'
             PROVE  task_list'[i].win \in selected' \/ (pc = "select" /\ i = Len(task_list))
    BY <1>2 DEF SelInv
<1> DEFINE w == task_list[i].win
<1>3. w = task_list'[i].win
    BY <1>1 DEF EnvFrame, Alike
<1>4. w \in Windows /\ w \notin fresh
    <2>1. task_list[i] \in Task
        BY DEF BaseInv, TypeInv, PanelType
    <2> QED
        BY <2>1 DEF Task, BaseInv, ListInv
<1> HIDE DEF w
<1>5. w \in alive /\ (w \in selected => w \in selected')
    BY <1>3, <1>4, EnvWindow DEF BaseInv
<1>6. w \in selected \/ (pc = "select" /\ i = Len(task_list))
    BY <1>5 DEF SelInv, w
<1> QED
    BY <1>3, <1>5, <1>6

\* The request the window manager carries out is the last about its window, or
\* there is a later one.
LEMMA AskedTail ==
    ASSUME requests \in Seq(Request), requests # <<>>, requests' = Tail(requests),
           NEW w, NEW b, Asked(w, b)
    PROVE  \/ Asked(w, b)'
           \/ Head(requests) = [kind |-> IF b THEN "iconify" ELSE "map", win |-> w]
<1>1. PICK k \in 1 .. Len(requests) :
        /\ requests[k] = [kind |-> IF b THEN "iconify" ELSE "map", win |-> w]
        /\ \A l \in 1 .. Len(requests) : l > k /\ requests[l].kind # "desktop" => requests[l].win # w
    BY DEF Asked
<1>2. /\ Head(requests) = requests[1] /\ Len(requests) \in Nat /\ Len(requests') = Len(requests) - 1
      /\ \A l \in 1 .. Len(requests) - 1 : requests'[l] = requests[l + 1]
    BY TailIs
<1>3. CASE k = 1
    BY <1>1, <1>2, <1>3
<1>4. CASE k # 1
    <2>1. k - 1 \in 1 .. Len(requests') /\ (k - 1) + 1 = k /\ k - 1 \in 1 .. Len(requests) - 1
        BY <1>2, <1>4
    <2>2. requests'[k - 1] = requests[(k - 1) + 1]
        BY <1>2, <2>1
    <2>3. requests'[k - 1] = [kind |-> IF b THEN "iconify" ELSE "map", win |-> w]
        BY <1>1, <2>1, <2>2
    <2>4. ASSUME NEW l \in 1 .. Len(requests'), l > k - 1, requests'[l].kind # "desktop"
          PROVE  requests'[l].win # w
        <3>1. l + 1 \in 1 .. Len(requests) /\ l + 1 > k /\ l \in 1 .. Len(requests) - 1
            BY <1>2, <2>4
        <3>2. requests'[l] = requests[l + 1]
            BY <1>2, <3>1
        <3> QED
            BY <1>1, <2>4, <3>1, <3>2
    <2> QED
        BY <2>1, <2>3, <2>4 DEF Asked
<1> QED
    BY <1>3, <1>4

\* A name that is right or will be read again remains so when windows act ...
LEMMA NameEnv ==
    ASSUME BaseInv, WmStep \/ Environment, NEW w \in Windows, w \notin fresh, NEW m, NameOk(w, m),
           w \in alive => w \in selected \/ Between(w)
    PROVE  NameOk(w, m)'
<1> SUFFICES ASSUME w \in alive', w \notin missed'
             PROVE  m = title'[w] \/ PropPending(w, "name")'
    BY DEF NameOk
<1>1. /\ w \in alive /\ w \notin missed
      /\ title'[w] = title[w] \/ Notified(w, "name")
    BY EnvWindow DEF BaseInv
<1>2. CASE Notified(w, "name")
    BY <1>1, <1>2 DEF Notified
<1>3. CASE title'[w] = title[w]
    <2>1. m = title[w] \/ PropPending(w, "name")
        BY <1>1 DEF NameOk
    <2>2. Grows /\ events \in Seq(Event)
        BY EnvStep DEF EnvFrame, BaseInv, ServerInv, TypeInv, ServerType
    <2> QED
        BY <1>3, <2>1, <2>2, PendingGrows
<1> QED
    BY <1>1, <1>2, <1>3

\* ... and so does an iconified mark, which may also await the window manager.
LEMMA MarkEnv ==
    ASSUME BaseInv, WmStep \/ Environment, NEW w \in Windows, w \notin fresh, NEW b \in BOOLEAN, MarkOk(w, b),
           w \in alive => w \in selected \/ Between(w)
    PROVE  MarkOk(w, b)'
<1> SUFFICES ASSUME w \in alive', w \notin missed'
             PROVE  b = iconic'[w] \/ PropPending(w, "state")' \/ Asked(w, b)'
    BY DEF MarkOk
<1>1. /\ w \in alive /\ w \notin missed
      /\ iconic'[w] = iconic[w] \/ Notified(w, "state")
    BY EnvWindow DEF BaseInv
<1>2. CASE Notified(w, "state")
    BY <1>1, <1>2 DEF Notified
<1>3. CASE iconic'[w] = iconic[w]
    <2>1. b = iconic[w] \/ PropPending(w, "state") \/ Asked(w, b)
        BY <1>1 DEF MarkOk
    <2>2. Grows /\ events \in Seq(Event) /\ requests \in Seq(Request) /\ ServerType
        BY EnvStep DEF EnvFrame, BaseInv, ServerInv, TypeInv, ServerType
    <2>3. CASE Asked(w, b) /\ ~WmHandle
        <3>1. requests' = requests
            BY <2>3 DEF WmStep, Environment, ManagePanel, WmStart, Unmanage, Manage, Destroy, MoveToDesktop,
                        ToggleIconic, Retitle, SetHints, MoveFocus, WmExit, SwitchDesktop, Expose, Press
        <3> QED
            BY <2>3, <3>1 DEF Asked
    <2>4. CASE Asked(w, b) /\ WmHandle
        <3>1. requests # <<>> /\ requests' = Tail(requests)
            BY <2>4 DEF WmHandle
        <3>2. CASE Head(requests) = [kind |-> IF b THEN "iconify" ELSE "map", win |-> w]
            <4> DEFINE r == Head(requests)
            <4>1. r.win = w /\ r.kind # "desktop" /\ (r.kind = "iconify") = b
                BY <3>2
            <4>2. SetIconic(w, r.kind = "iconify") /\ (r.kind = "iconify") \in BOOLEAN
                BY <1>1, <2>4, <4>1 DEF WmHandle
            <4>3. iconic'[w] = (r.kind = "iconify")
                BY <2>2, <4>2, IconicNotifies
            <4> QED
                BY <4>1, <4>3
        <3> QED
            BY <2>2, <2>4, <3>1, <3>2, AskedTail
    <2> QED
        BY <1>3, <2>1, <2>2, <2>3, <2>4, PendingGrows
<1> QED
    BY <1>1, <1>2, <1>3

\* MarksInv in the next state, task by task.
LEMMA MarksNext ==
    ASSUME \A i \in 1 .. Len(task_list') :
             \E w, m, b : /\ task_list'[i].win = w /\ task_list'[i].name = m /\ task_list'[i].iconified = b
                          /\ NameOk(w, m)' /\ MarkOk(w, b)'
    PROVE  MarksInv'
<1> SUFFICES ASSUME NEW i \in 1 .. Len(task_list')
             PROVE  /\ NameOk(task_list[i].win, task_list[i].name)'
                    /\ MarkOk(task_list[i].win, task_list[i].iconified)'
    BY DEF MarksInv
<1>1. PICK w, m, b : /\ task_list'[i].win = w /\ task_list'[i].name = m /\ task_list'[i].iconified = b
                     /\ NameOk(w, m)' /\ MarkOk(w, b)'
    OBVIOUS
<1> QED
    BY <1>1 DEF NameOk, MarkOk, PropPending, Asked

\* Windows, window manager and user keep MarksInv.
LEMMA MarksEnv ==
    ASSUME BaseInv, SelInv, MarksInv, WmStep \/ Environment
    PROVE  MarksInv'
<1>1. EnvFrame
    BY EnvStep DEF BaseInv, ServerInv
<1>2. Len(task_list') = Len(task_list)
    BY <1>1 DEF EnvFrame
<1> SUFFICES ASSUME NEW i \in 1 .. Len(task_list)
             PROVE  \E w, m, b : /\ task_list'[i].win = w /\ task_list'[i].name = m
                                 /\ task_list'[i].iconified = b /\ NameOk(w, m)' /\ MarkOk(w, b)'
    BY <1>2, MarksNext
<1>p. PICK w, m, b : w = task_list[i].win /\ m = task_list[i].name /\ b = task_list[i].iconified
    OBVIOUS
<1>3. w = task_list'[i].win /\ m = task_list'[i].name /\ b = task_list'[i].iconified
    BY <1>1, <1>p DEF EnvFrame, Alike
<1>4. w \in Windows /\ w \notin fresh /\ b \in BOOLEAN
    <2>1. task_list[i] \in Task
        BY DEF BaseInv, TypeInv, PanelType
    <2> QED
        BY <1>p, <2>1 DEF Task, BaseInv, ListInv
<1>5. NameOk(w, m) /\ MarkOk(w, b)
    BY <1>p DEF MarksInv
<1>6. w \in alive => w \in selected \/ Between(w)
    BY <1>p DEF SelInv, Between, Last
<1>7. NameOk(w, m)'
    BY <1>4, <1>5, <1>6, NameEnv
<1>8. MarkOk(w, b)'
    BY <1>4, <1>5, <1>6, MarkEnv
<1> QED
    BY <1>3, <1>7, <1>8

\* Every task of the new list is one of the old one, but for focus, place and drawing.
OnlyOld == \A i \in 1 .. Len(task_list') : \E j \in 1 .. Len(task_list) : Alike(task_list'[i], task_list[j])

\* add_task makes a task of the next window.
Adds ==
  /\ LookAt /\ ~Skips(todo[1]) /\ todo[1] \in Windows
  /\ task_list' = Append(task_list, NewTask(todo[1])) /\ pc' = "select" /\ todo' = todo
  /\ missed' = missed \ {todo[1]}

\* Lists that are the same, redrawn or embedded have old tasks only.
LEMMA OldBy ==
    ASSUME BaseInv
    PROVE  /\ task_list' = task_list => OnlyOld
           /\ Redrawn(task_list', task_list) => OnlyOld
           /\ \A f : Embeds(f, task_list', task_list) => OnlyOld
<1>1. ASSUME task_list' = task_list PROVE OnlyOld
    BY <1>1 DEF OnlyOld, Alike
<1>2. ASSUME Redrawn(task_list', task_list) PROVE OnlyOld
    BY <1>2 DEF OnlyOld, Redrawn
<1>3. ASSUME NEW f, Embeds(f, task_list', task_list) PROVE OnlyOld
    <2>1. f \in [1 .. Len(task_list') -> 1 .. Len(task_list)]
        BY <1>3 DEF Embeds
    <2>2. \A k \in 1 .. Len(task_list') : f[k] \in 1 .. Len(task_list) /\ Alike(task_list'[k], task_list[f[k]])
        BY <1>3, <2>1 DEF Embeds
    <2> QED
        BY <2>2 DEF OnlyOld
<1> QED
    BY <1>1, <1>2, <1>3

\* So has the list at the end of a refresh.
LEMMA DoneOld ==
    ASSUME BaseInv, Done(task_list, num_tasks)
    PROVE  OnlyOld
<1>1. task_list \in Seq(Task) /\ num_tasks = Len(task_list)
    BY DEF BaseInv, TypeInv, PanelType, ListInv
<1>2. Redrawn(task_list', task_list)
    BY <1>1, BarRedraws DEF Done
<1> QED
    BY <1>2, OldBy

\* Only three of the panel's steps change or add a name or a mark.
LEMMA OldTasks ==
    ASSUME BaseInv, ViewInv, PanelStep
    PROVE  OnlyOld \/ HandleProperty \/ PressTasks \/ Adds
<1>1. CASE ReadDesktop \/ SwitchDesk \/ PressGrill
    <2>1. task_list' = task_list
        BY <1>1 DEF ReadDesktop, SwitchDesk, PressGrill, panel
    <2> QED
        BY <2>1, OldBy
<1>2. CASE ReadList
    <2>1. CASE clientList = <<None>>
        BY <1>2, <2>1, DoneOld DEF ReadList
    <2>2. CASE clientList # <<None>>
        BY <1>2, <2>2, ReadListIs, OldBy
    <2> QED
        BY <2>1, <2>2
<1>3. CASE LookAt
    <2>1. \/ Done(task_list, num_tasks) \/ task_list' = task_list
          \/ Adds
        BY <1>3, LookAtIs DEF Adds
    <2> QED
        BY <2>1, DoneOld, OldBy
<1>4. CASE SelectInput
    <2>1. Done(task_list, num_tasks) \/ task_list' = task_list
        BY <1>4, SelectInputIs
    <2> QED
        BY <2>1, DoneOld, OldBy
<1>5. CASE HandleDestroy
    BY <1>5, HandleDestroyIs, OldBy
<1>6. CASE HandleExpose
    <2>1. task_list \in Seq(Task) /\ num_tasks = Len(task_list)
        BY DEF BaseInv, TypeInv, PanelType, ListInv
    <2>2. Redrawn(task_list', task_list)
        BY <1>6, <2>1, BarRedraws DEF HandleExpose
    <2> QED
        BY <2>2, OldBy
<1>7. CASE HandleFocusIn
    BY <1>7, HandleFocusInIs DEF OnlyOld
<1> QED
    BY <1>1, <1>2, <1>3, <1>4, <1>5, <1>6, <1>7 DEF PanelStep

\* The windows of the tasks are those of the old ones, but for the one that is added.
LEMMA OldWindows ==
    ASSUME BaseInv, ViewInv, PanelStep, ~Adds
    PROVE  \A i \in 1 .. Len(task_list') : \E j \in 1 .. Len(task_list) : task_list'[i].win = task_list[j].win
<1>1. CASE OnlyOld
    BY <1>1 DEF OnlyOld, Alike
<1>2. CASE HandleProperty
    <2>1. /\ Len(task_list') = Len(task_list) /\ Head(events).atom \in Atoms
          /\ \A i \in 1 .. Len(task_list) :
                task_list'[i] = IF task_list[i].win = Head(events).win
                                THEN Refreshed(task_list[i], Head(events).atom) ELSE task_list[i]
        BY <1>2, HandlePropertyIs
    <2>2. ServerType /\ \A i \in 1 .. Len(task_list) : task_list[i] \in Task
        BY DomainIs DEF BaseInv, TypeInv, PanelType
    <2>3. \A i \in 1 .. Len(task_list) : Refreshed(task_list[i], Head(events).atom).win = task_list[i].win
        <3> DEFINE a == Head(events).atom
        <3>0. a \in Atoms
            BY <2>1
        <3> HIDE DEF a
        <3>1. \A i \in 1 .. Len(task_list) : Touched(Refreshed(task_list[i], a), task_list[i])
            BY <2>2, <3>0, RefreshedIs
        <3> QED
            BY <3>1 DEF Touched, a
    <2> QED
        BY <2>1, <2>3
<1>3. CASE PressTasks
    <2>1. /\ Len(task_list') = Len(task_list)
          /\ \A i \in 1 .. Len(task_list) : Touched(task_list'[i], task_list[i])
        BY <1>3, PressTasksIs DEF ViewInv
    <2> QED
        BY <2>1 DEF Touched
<1> QED
    BY <1>1, <1>2, <1>3, OldTasks

\* The list with the task that LookAt adds.
LEMMA AddsIs ==
    ASSUME BaseInv, Adds
    PROVE  LET n == Len(task_list) IN
           /\ n \in Nat /\ Len(task_list') = n + 1
           /\ \A k \in 1 .. n : task_list'[k] = task_list[k] /\ task_list[k].win # todo[1]
           /\ task_list'[n + 1] = NewTask(todo[1]) /\ NewTask(todo[1]).win = todo[1]
           /\ \A i \in 1 .. n + 1 : i \in 1 .. n \/ i = n + 1
<1> DEFINE n == Len(task_list)
           t == NewTask(todo[1])
<1>1. t \in Task /\ t.win = todo[1]
    BY NewTaskIs DEF BaseInv, Adds
<1>2. task_list \in Seq(Task) /\ n \in Nat
    BY DEF BaseInv, TypeInv, PanelType
<1>3. task_list' = Append(task_list, t)
    BY DEF Adds
<1> HIDE DEF t
<1>4. /\ Len(task_list') = n + 1
      /\ \A k \in 1 .. n : task_list'[k] = task_list[k]
      /\ task_list'[n + 1] = t
    BY <1>1, <1>2, <1>3, AppendIs
<1>5. pc = "look" /\ 1 \in 1 .. Len(todo)
    <2>1. pc = "look"
        BY DEF Adds, LookAt
    <2> QED
        BY <2>1, HeadIs
<1>6. \A k \in 1 .. n : task_list[k].win # todo[1]
    BY <1>5 DEF BaseInv, TodoInv
<1>7. \A i \in 1 .. n + 1 : i \in 1 .. n \/ i = n + 1
    BY <1>2
<1> QED
    BY <1>1, <1>2, <1>4, <1>6, <1>7 DEF t

\* The panel's steps keep SelInv.
LEMMA SelPanel ==
    ASSUME BaseInv, ViewInv, SelInv, PanelStep
    PROVE  SelInv'
<1>0. alive' = alive
    BY PanelKeeps DEF Unseen
<1>1. CASE Adds
    <2>1. LET n == Len(task_list) IN
           /\ n \in Nat /\ Len(task_list') = n + 1
           /\ \A k \in 1 .. n : task_list'[k] = task_list[k] /\ task_list[k].win # todo[1]
           /\ \A i \in 1 .. n + 1 : i \in 1 .. n \/ i = n + 1
        BY <1>1, AddsIs
    <2>2. selected' = selected /\ pc = "look" /\ pc' = "select"
        BY <1>1 DEF Adds, LookAt
    <2> QED
        BY <1>0, <2>1, <2>2 DEF SelInv
<1>2. CASE ~Adds
    <2>1. \A i \in 1 .. Len(task_list') : \E j \in 1 .. Len(task_list) : task_list'[i].win = task_list[j].win
        BY <1>2, OldWindows
    <2>2. \A j \in 1 .. Len(task_list) : task_list[j].win \in alive => task_list[j].win \in selected'
        <3>1. CASE SelectInput
            <4>1. pc = "select" /\ selected' = selected \cup ({todo[1]} \cap alive)
                BY <3>1, SelectInputIs
            <4>2. task_list[Len(task_list)].win = todo[1]
                BY <4>1 DEF BaseInv, TodoInv
            <4> QED
                BY <4>1, <4>2 DEF SelInv
        <3>2. CASE ~SelectInput
            <4>1. selected' = selected /\ pc # "select"
                BY <3>2 DEF PanelStep, ReadDesktop, ReadList, LookAt, HandleDestroy, HandleExpose,
                            HandleFocusIn, HandleProperty, SwitchDesk, PressGrill, PressTasks, idleWith
            <4> QED
                BY <4>1 DEF SelInv
        <3> QED
            BY <3>1, <3>2
    <2> QED
        BY <1>0, <2>1, <2>2 DEF SelInv
<1> QED
    BY <1>1, <1>2

\* Only handle_propertynotify takes the property events of windows.
LEMMA PendingKept ==
    ASSUME BaseInv, LayInv, PanelStep, ~HandleProperty, NEW w \in Windows, NEW a, PropPending(w, a)
    PROVE  PropPending(w, a)'
<1>0. events \in Seq(Event) /\ w # None
    BY FsPanelAssumption DEF BaseInv, TypeInv, ServerType
<1>1. CASE events' = events
    BY <1>1 DEF PropPending
<1>2. CASE Takes /\ pc = "idle"
    <2> DEFINE e == [kind |-> "prop", win |-> w, atom |-> a]
    <2>0. e.kind = "prop" /\ e.win = w
        OBVIOUS
    <2>1. CASE ReadDesktop
        <3>1. Head(events).win = None
            BY <2>1 DEF ReadDesktop, RootEvent
        <3> QED
            BY <1>0, <1>2, <2>0, <3>1, PendingTakes
    <2>2. CASE ~ReadDesktop
        <3>1. Head(events).kind # "prop"
            BY <1>2, <2>2 DEF PanelStep, ReadList, LookAt, SelectInput, HandleDestroy, HandleExpose,
                              HandleFocusIn, SwitchDesk, PressGrill, PressTasks, idleWith
        <3> QED
            BY <1>0, <1>2, <2>0, <3>1, PendingTakes
    <2> QED
        BY <2>1, <2>2
<1> QED
    BY <1>1, <1>2, PanelEvents

\* A request that is queued last decides what is asked of its window.
LEMMA AskedAppend ==
    ASSUME requests \in Seq(Request), NEW r \in Request, requests' = Append(requests, r), NEW w, NEW b
    PROVE  /\ (r.kind = "desktop" \/ r.win # w) /\ Asked(w, b) => Asked(w, b)'
           /\ r = [kind |-> IF b THEN "iconify" ELSE "map", win |-> w] => Asked(w, b)'
<1> DEFINE n == Len(requests)
<1>1. /\ Len(requests') = n + 1 /\ n \in Nat /\ (\A k \in 1 .. n : requests'[k] = requests[k])
      /\ requests'[n + 1] = r
    BY AppendIs
<1>2. \A l \in 1 .. n + 1 : l \in 1 .. n \/ l = n + 1
    BY <1>1
<1>3. ASSUME r.kind = "desktop" \/ r.win # w, Asked(w, b)
      PROVE  Asked(w, b)'
    <2>1. PICK k \in 1 .. n :
            /\ requests[k] = [kind |-> IF b THEN "iconify" ELSE "map", win |-> w]
            /\ \A l \in 1 .. n : l > k /\ requests[l].kind # "desktop" => requests[l].win # w
        BY <1>3 DEF Asked
    <2>2. k \in 1 .. n + 1 /\ requests'[k] = [kind |-> IF b THEN "iconify" ELSE "map", win |-> w]
        BY <1>1, <2>1
    <2>3. \A l \in 1 .. n + 1 : l > k /\ requests'[l].kind # "desktop" => requests'[l].win # w
        BY <1>1, <1>2, <1>3, <2>1
    <2> QED
        BY <1>1, <2>2, <2>3 DEF Asked
<1>4. ASSUME r = [kind |-> IF b THEN "iconify" ELSE "map", win |-> w]
      PROVE  Asked(w, b)'
    <2>1. n + 1 \in 1 .. Len(requests') /\ \A l \in 1 .. Len(requests') : ~(l > n + 1)
        BY <1>1
    <2> QED
        BY <1>1, <1>4, <2>1 DEF Asked
<1> QED
    BY <1>3, <1>4

\* A window the step does not look at.
LEMMA OkKept ==
    ASSUME BaseInv, ViewInv, PanelStep, ~HandleProperty, ~PressTasks,
           NEW w \in Windows, w \in missed => w \in missed', NEW m, NEW b, NameOk(w, m), MarkOk(w, b)
    PROVE  NameOk(w, m)' /\ MarkOk(w, b)'
<1>1. alive' = alive /\ title' = title /\ iconic' = iconic
    BY PanelKeeps DEF Unseen
<1>2. \A a : PropPending(w, a) => PropPending(w, a)'
    BY PendingKept DEF ViewInv
<1>3. Asked(w, b) => Asked(w, b)'
    <2>0. requests \in Seq(Request)
        BY DEF BaseInv, TypeInv, ServerType
    <2>1. CASE requests' = requests
        BY <2>1 DEF Asked
    <2>2. CASE requests' # requests
        <3>1. SwitchDesk
            BY <2>2 DEF PanelStep, ReadDesktop, ReadList, LookAt, SelectInput, HandleDestroy, HandleExpose,
                        HandleFocusIn, PressGrill
        <3>2. PICK d \in Desktops : requests' = Append(requests, [kind |-> "desktop", to |-> d])
            BY <2>2, <3>1 DEF SwitchDesk
        <3> DEFINE r == [kind |-> "desktop", to |-> d]
        <3>3. r \in Request /\ r.kind = "desktop" /\ requests' = Append(requests, r)
            BY <3>2, RequestTypes
        <3> HIDE DEF r
        <3> QED
            BY <2>0, <3>3, AskedAppend
    <2> QED
        BY <2>1, <2>2
<1> QED
    BY <1>1, <1>2, <1>3 DEF NameOk, MarkOk

\* The steps with old tasks only keep MarksInv.
LEMMA MarksOld ==
    ASSUME BaseInv, ViewInv, MarksInv, PanelStep, OnlyOld, ~HandleProperty, ~PressTasks, ~Adds
    PROVE  MarksInv'
<1> SUFFICES ASSUME NEW i \in 1 .. Len(task_list')
             PROVE  \E w, m, b : /\ task_list'[i].win = w /\ task_list'[i].name = m
                                 /\ task_list'[i].iconified = b /\ NameOk(w, m)' /\ MarkOk(w, b)'
    BY MarksNext
<1>1. PICK j \in 1 .. Len(task_list) : Alike(task_list'[i], task_list[j])
    BY DEF OnlyOld
<1>2. PICK w, m, b : w = task_list[j].win /\ m = task_list[j].name /\ b = task_list[j].iconified
    OBVIOUS
<1>3. w = task_list'[i].win /\ m = task_list'[i].name /\ b = task_list'[i].iconified
    BY <1>1, <1>2 DEF Alike
<1>4. w \in Windows
    <2>1. task_list[j] \in Task
        BY DEF BaseInv, TypeInv, PanelType
    <2> QED
        BY <1>2, <2>1 DEF Task
<1>5. NameOk(w, m) /\ MarkOk(w, b)
    BY <1>2 DEF MarksInv
<1>6. w \in missed => w \in missed'
    <2>1. CASE LookAt
        <3>1. missed' = missed
            BY <2>1, LookAtIs DEF Adds
        <3> QED
            BY <3>1
    <2>2. CASE ~LookAt
        BY <2>2 DEF PanelStep, ReadDesktop, ReadList, SelectInput, HandleDestroy, HandleExpose,
                    HandleFocusIn, SwitchDesk, PressGrill, ghosts
    <2> QED
        BY <2>1, <2>2
<1>7. NameOk(w, m)' /\ MarkOk(w, b)'
    BY <1>4, <1>5, <1>6, OkKept
<1> QED
    BY <1>3, <1>7

\* Adding a task keeps MarksInv.
LEMMA MarksAdds ==
    ASSUME BaseInv, ViewInv, MarksInv, PanelStep, Adds
    PROVE  MarksInv'
<1> DEFINE n == Len(task_list)
<1>0. LookAt /\ todo[1] \in Windows /\ missed' = missed \ {todo[1]} /\ alive' = alive
      /\ title' = title /\ iconic' = iconic
    BY PanelKeeps DEF Adds, Unseen
<1>1. /\ n \in Nat /\ Len(task_list') = n + 1
      /\ \A k \in 1 .. n : task_list'[k] = task_list[k] /\ task_list[k].win # todo[1]
      /\ task_list'[n + 1] = NewTask(todo[1]) /\ NewTask(todo[1]).win = todo[1]
      /\ \A i \in 1 .. n + 1 : i \in 1 .. n \/ i = n + 1
    BY AddsIs
<1>n. ~HandleProperty /\ ~PressTasks
    BY <1>0 DEF LookAt, HandleProperty, PressTasks, idleWith
<1> SUFFICES ASSUME NEW i \in 1 .. n + 1
             PROVE  \E w, m, b : /\ task_list'[i].win = w /\ task_list'[i].name = m
                                 /\ task_list'[i].iconified = b /\ NameOk(w, m)' /\ MarkOk(w, b)'
    BY <1>1, MarksNext
<1>2. CASE i \in 1 .. n
    <2>2. PICK w, m, b : w = task_list[i].win /\ m = task_list[i].name /\ b = task_list[i].iconified
        OBVIOUS
    <2>3. w = task_list'[i].win /\ m = task_list'[i].name /\ b = task_list'[i].iconified /\ w # todo[1]
        BY <1>1, <1>2, <2>2
    <2>4. w \in Windows
        <3>1. task_list[i] \in Task
            BY <1>2 DEF BaseInv, TypeInv, PanelType
        <3> QED
            BY <2>2, <3>1 DEF Task
    <2>5. NameOk(w, m) /\ MarkOk(w, b)
        BY <1>2, <2>2 DEF MarksInv
    <2>6. w \in missed => w \in missed'
        BY <1>0, <2>3
    <2>7. NameOk(w, m)' /\ MarkOk(w, b)'
        BY <1>n, <2>4, <2>5, <2>6, OkKept
    <2> QED
        BY <2>3, <2>7
<1>3. CASE i = n + 1
    <2>1. PICK w, m, b : w = todo[1] /\ m = NewTask(todo[1]).name /\ b = NewTask(todo[1]).iconified
        OBVIOUS
    <2>2. task_list'[i].win = w /\ task_list'[i].name = m /\ task_list'[i].iconified = b
        BY <1>1, <1>3, <2>1
    <2>3. w \in alive => m = title[w] /\ b = iconic[w]
        BY <1>0, <2>1, NewTaskIs DEF BaseInv
    <2>4. NameOk(w, m)' /\ MarkOk(w, b)'
        BY <1>0, <2>3 DEF NameOk, MarkOk
    <2> QED
        BY <2>2, <2>4
<1> QED
    BY <1>1, <1>2, <1>3

\* handle_propertynotify reads the property now: if it was the last to come, the
\* task is up to date.
LEMMA MarksProperty ==
    ASSUME BaseInv, ViewInv, MarksInv, PanelStep, HandleProperty
    PROVE  MarksInv'
<1> DEFINE a == Head(events).atom
           v == Head(events).win
<1>0. /\ alive' = alive /\ title' = title /\ iconic' = iconic /\ missed' = missed /\ requests' = requests
    BY PanelKeeps DEF Unseen, HandleProperty, ghosts
<1>1. /\ Len(task_list') = Len(task_list) /\ a \in Atoms
      /\ \A i \in 1 .. Len(task_list) :
            task_list'[i] = IF task_list[i].win = v THEN Refreshed(task_list[i], a) ELSE task_list[i]
    BY HandlePropertyIs
<1>2. Takes /\ events \in Seq(Event) /\ ServerType
    <2>1. ~ReadList /\ ~LookAt /\ ~SelectInput
        BY DEF HandleProperty, idleWith, ReadList, LookAt, SelectInput
    <2> QED
        BY <2>1, PanelEvents DEF BaseInv, TypeInv, ServerType, ViewInv
<1> SUFFICES ASSUME NEW i \in 1 .. Len(task_list)
             PROVE  \E w, m, b : /\ task_list'[i].win = w /\ task_list'[i].name = m
                                 /\ task_list'[i].iconified = b /\ NameOk(w, m)' /\ MarkOk(w, b)'
    BY <1>1, MarksNext
<1>3. PICK w, m, b : w = task_list[i].win /\ m = task_list[i].name /\ b = task_list[i].iconified
    OBVIOUS
<1>4. task_list[i] \in Task
    BY DEF BaseInv, TypeInv, PanelType
<1>5. NameOk(w, m) /\ MarkOk(w, b)
    BY <1>3 DEF MarksInv
<1>6. \A c : PropPending(w, c) => PropPending(w, c)' \/ (v = w /\ a = c)
    <2> SUFFICES ASSUME NEW c, PropPending(w, c), ~PropPending(w, c)'
                 PROVE  v = w /\ a = c
        OBVIOUS
    <2>1. Head(events) = [kind |-> "prop", win |-> w, atom |-> c]
        BY <1>2, PendingTakes
    <2> QED
        BY <2>1
<1>7. Asked(w, b) => Asked(w, b)'
    BY <1>0 DEF Asked
<1> HIDE DEF a, v
<1>8. CASE w # v
    <2>1. task_list'[i] = task_list[i]
        BY <1>1, <1>3, <1>8
    <2>2. NameOk(w, m)' /\ MarkOk(w, b)'
        BY <1>0, <1>5, <1>6, <1>7, <1>8 DEF NameOk, MarkOk
    <2> QED
        BY <1>3, <2>1, <2>2
<1>9. CASE w = v
    <2> DEFINE u == task_list[i]
               t == Refreshed(u, a)
    <2>1. task_list'[i] = t
        BY <1>1, <1>3, <1>9
    <2>2. /\ t.win = w
          /\ IF a = "name" THEN t.name = get_window_name(w) ELSE t.name = m
          /\ IF a = "state" THEN t.iconified = is_iconified(w) ELSE t.iconified = b
        BY <1>1, <1>2, <1>3, <1>4, RefreshedIs DEF Touched
    <2>3. PICK m2, b2 : m2 = t.name /\ b2 = t.iconified
        OBVIOUS
    <2> HIDE DEF t
    <2>4. NameOk(w, m2)'
        <3>1. CASE a = "name"
            BY <1>0, <2>2, <2>3, <3>1 DEF NameOk, get_window_name
        <3>2. CASE a # "name"
            BY <1>0, <1>5, <1>6, <2>2, <2>3, <3>2 DEF NameOk
        <3> QED
            BY <3>1, <3>2
    <2>5. MarkOk(w, b2)'
        <3>1. CASE a = "state"
            <4>1. w \in Windows /\ iconic \in [Windows -> BOOLEAN]
                BY <1>2, <1>3, <1>4 DEF Task, ServerType
            <4>2. w \in alive => b2 = iconic[w]
                BY <2>2, <2>3, <3>1, <4>1 DEF is_iconified
            <4> QED
                BY <1>0, <4>2 DEF MarkOk
        <3>2. CASE a # "state"
            <4>1. b2 = b
                BY <2>2, <2>3, <3>2
            <4> QED
                BY <1>0, <1>5, <1>6, <1>7, <3>2, <4>1 DEF MarkOk
        <3> QED
            BY <3>1, <3>2
    <2> QED
        BY <2>1, <2>2, <2>3, <2>4, <2>5
<1> QED
    BY <1>8, <1>9

\* handle_press sets the mark and asks for what it stands for.
LEMMA MarksPress ==
    ASSUME BaseInv, ViewInv, MarksInv, PanelStep, PressTasks
    PROVE  MarksInv'
<1>0. /\ alive' = alive /\ title' = title /\ iconic' = iconic /\ missed' = missed
      /\ requests \in Seq(Request) /\ ~HandleProperty
    BY PanelKeeps DEF Unseen, PressTasks, HandleProperty, idleWith, ghosts, BaseInv, TypeInv, ServerType
<1>1. PICK hits \in SUBSET (1 .. Len(task_list)) :
           /\ \A i, j \in hits : i = j
           /\ Len(task_list') = Len(task_list)
           /\ \A i \in 1 .. Len(task_list) :
                LET t == task_list'[i]
                    u == task_list[i]
                IN  /\ Touched(t, u) /\ t.name = u.name
                    /\ i \notin hits => t.iconified = u.iconified
                    /\ i \in hits => IF u.iconified \/ u.focused THEN t.iconified = ~u.iconified
                                     ELSE t.iconified = u.iconified
           /\ \/ (\A i \in hits : ~task_list[i].iconified /\ ~task_list[i].focused) /\ requests' = requests
              \/ \E i \in hits : /\ task_list[i].iconified \/ task_list[i].focused
                                 /\ requests' = Append(requests, Ask(task_list[i]))
    BY PressTasksIs DEF ViewInv
<1> SUFFICES ASSUME NEW i \in 1 .. Len(task_list)
             PROVE  \E w, m, b : /\ task_list'[i].win = w /\ task_list'[i].name = m
                                 /\ task_list'[i].iconified = b /\ NameOk(w, m)' /\ MarkOk(w, b)'
    BY <1>1, MarksNext
<1>2. PICK w, m, b : w = task_list[i].win /\ m = task_list[i].name /\ b = task_list[i].iconified
    OBVIOUS
<1>3. task_list[i] \in Task /\ w \in Windows /\ b \in BOOLEAN
    <2>1. task_list[i] \in Task
        BY DEF BaseInv, TypeInv, PanelType
    <2> QED
        BY <1>2, <2>1 DEF Task
<1>4. NameOk(w, m) /\ MarkOk(w, b)
    BY <1>2 DEF MarksInv
<1>5. \A c : PropPending(w, c) => PropPending(w, c)'
    BY <1>0, <1>3, PendingKept DEF ViewInv
<1>6. task_list'[i].win = w /\ task_list'[i].name = m
    BY <1>1, <1>2 DEF Touched
<1>7. NameOk(w, m)'
    BY <1>0, <1>4, <1>5 DEF NameOk
<1>8. CASE requests' = requests /\ \A j \in hits : ~task_list[j].iconified /\ ~task_list[j].focused
    <2>1. task_list'[i].iconified = b
        BY <1>1, <1>2, <1>8
    <2>2. Asked(w, b) => Asked(w, b)'
        BY <1>8 DEF Asked
    <2>3. MarkOk(w, b)'
        BY <1>0, <1>4, <1>5, <2>2 DEF MarkOk
    <2> QED
        BY <1>6, <1>7, <2>1, <2>3
<1>9. ASSUME NEW j \in hits, task_list[j].iconified \/ task_list[j].focused,
             requests' = Append(requests, Ask(task_list[j]))
      PROVE  \E b2 : task_list'[i].iconified = b2 /\ MarkOk(w, b2)'
    <2> DEFINE r == Ask(task_list[j])
    <2>0. task_list[j] \in Task
        BY DEF BaseInv, TypeInv, PanelType
    <2>1. r \in Request
        <3>1. task_list[j].win \in Windows
            BY <2>0 DEF Task
        <3> QED
            BY <3>1, RequestTypes DEF Ask
    <2>2. r.win = task_list[j].win
        BY DEF Ask
    <2>3. requests' = Append(requests, r)
        BY <1>9
    <2>4. CASE i = j
        <3>1. PICK b2 : b2 = task_list'[i].iconified
            OBVIOUS
        <3>2. b2 = ~b
            BY <1>1, <1>2, <1>9, <2>4, <3>1
        <3>3. r = [kind |-> IF b2 THEN "iconify" ELSE "map", win |-> w]
            <4>1. r = [kind |-> IF b THEN "map" ELSE "iconify", win |-> w]
                BY <1>2, <2>4 DEF Ask
            <4>2. (IF b THEN "map" ELSE "iconify") = (IF b2 THEN "iconify" ELSE "map")
                BY <1>3, <3>2
            <4> QED
                BY <4>1, <4>2
        <3> HIDE DEF r
        <3>4. Asked(w, b2)'
            BY <1>0, <2>1, <2>3, <3>3, AskedAppend
        <3> QED
            BY <3>1, <3>4 DEF MarkOk
    <2>5. CASE i # j
        <3>1. task_list'[i].iconified = b
            BY <1>1, <1>2, <2>5
        <3>2. r.win # w
            BY <1>2, <2>2, <2>5 DEF BaseInv, ListInv
        <3> HIDE DEF r
        <3>3. Asked(w, b) => Asked(w, b)'
            BY <1>0, <2>1, <2>3, <3>2, AskedAppend
        <3>4. MarkOk(w, b)'
            BY <1>0, <1>4, <1>5, <3>3 DEF MarkOk
        <3> QED
            BY <3>1, <3>4
    <2> QED
        BY <2>4, <2>5
<1> QED
    BY <1>1, <1>6, <1>7, <1>8, <1>9

\* Every step keeps SelInv and MarksInv.
LEMMA MarksStep ==
    ASSUME BaseInv, ViewInv, SelInv, MarksInv, [Next]_vars
    PROVE  SelInv' /\ MarksInv'
<1>1. CASE PanelStep
    BY <1>1, SelPanel, OldTasks, MarksOld, MarksAdds, MarksProperty, MarksPress
<1>2. CASE WmStep \/ Environment
    BY <1>2, SelEnv, MarksEnv
<1>3. CASE UNCHANGED vars
    BY <1>3 DEF vars, server, panel, ghosts, SelInv, MarksInv, NameOk, MarkOk, PropPending, Asked
<1> QED
    BY <1>1, <1>2, <1>3 DEF Next

\* Once everything has settled the name and the iconified mark of every task are
\* those of the window, although handle_press sets the mark before the window
\* manager has acted, its answers come late and among other changes, and add_task reads
\* before it selects; the windows that changed in between are the exception.
THEOREM MarksRight == Spec => []MarksFollowWindows
<1>1. Init => SelInv /\ MarksInv
    BY DEF Init, SelInv, MarksInv
<1>2. ASSUME BaseInv, MarksInv PROVE MarksFollowWindows
    <2>1. DOMAIN task_list = 1 .. Len(task_list)
        BY <1>2, DomainIs DEF BaseInv, TypeInv, PanelType
    <2>2. ASSUME events = <<>>, requests = <<>>, NEW i \in 1 .. Len(task_list),
                 task_list[i].win \in alive \ missed
          PROVE  /\ task_list[i].iconified = iconic[task_list[i].win]
                 /\ task_list[i].name = title[task_list[i].win]
        <3>1. ~PropPending(task_list[i].win, "name") /\ ~PropPending(task_list[i].win, "state")
              /\ ~Asked(task_list[i].win, task_list[i].iconified)
            BY <2>2 DEF PropPending, Asked
        <3> QED
            BY <1>2, <2>2, <3>1 DEF MarksInv, NameOk, MarkOk
    <2> QED
        BY <2>1, <2>2 DEF MarksFollowWindows, Quiet
<1>3. (BaseInv /\ ViewInv) /\ (SelInv /\ MarksInv) /\ [Next]_vars => (SelInv /\ MarksInv)'
    BY MarksStep
<1>4. BaseInv /\ MarksInv => MarksFollowWindows
    BY <1>2
<1> QED
    BY <1>1, <1>3, <1>4, BaseHolds, PTL DEF Spec

-----------------------------------------------------------------------------
(* The tasks follow the client list and the desktop.                       *)

\* A refresh will be begun.
RootPending == \E k \in 1 .. Len(events) : events[k] \in {RootEvent("list"), RootEvent("desktop")}

\* Until its window is managed the panel may not have read the desktop.
DeskInv == my_desktop = desktop \/ RootPending \/ ~InList(Panel)

Shown(w) == desk[w] \in {AllDesktops, my_desktop}

\* The tasks are of windows of the desktop the panel knows, unless it has noticed
\* another one and not yet looked at the list, or could not.
VisInv ==
  ~skipped /\ ~(pc = "list" /\ new_desk) =>
    \A i \in 1 .. Len(task_list) : task_list[i].win \in alive \ moved => Shown(task_list[i].win)

\* The list has not changed since the panel, itself in it, read it.
HasRead == ~RootPending /\ clientList # <<None>> /\ InList(Panel) /\ pc # "list"

InListInv ==
  HasRead =>
    /\ \A i \in 1 .. Len(task_list) : InList(task_list[i].win)
    /\ \A k \in 1 .. Len(todo) : InList(todo[k])

\* Every window of the list was looked at or will be.
CompleteInv ==
  HasRead => \A w \in Windows : InList(w) /\ w \in alive \ moved /\ ~InTodo(w) => HasTask(w) \/ ~Shown(w)

FollowInv == DeskInv /\ VisInv /\ InListInv /\ CompleteInv

\* A pending refresh stays pending while the queue grows.
LEMMA RootGrowing ==
    ASSUME events \in Seq(Event), Grows
    PROVE  /\ RootPending => RootPending'
           /\ \A a \in {"list", "desktop"} : events' = Append(events, RootEvent(a)) => RootPending'
<1>1. ASSUME RootPending PROVE RootPending'
    <2>1. PICK k \in 1 .. Len(events) : events[k] \in {RootEvent("list"), RootEvent("desktop")}
        BY <1>1 DEF RootPending
    <2>2. k \in 1 .. Len(events') /\ events'[k] = events[k]
        BY <2>1 DEF Grows
    <2> QED
        BY <2>1, <2>2 DEF RootPending
<1>2. ASSUME NEW a \in {"list", "desktop"}, events' = Append(events, RootEvent(a)) PROVE RootPending'
    <2>1. RootEvent(a) \in Event
        BY EventTypes DEF Atoms
    <2>2. Len(events') = Len(events) + 1 /\ events'[Len(events) + 1] = RootEvent(a) /\ Len(events) \in Nat
        BY <1>2, <2>1, AppendIs
    <2>3. Len(events) + 1 \in 1 .. Len(events')
        BY <2>2
    <2>4. RootEvent(a) \in {RootEvent("list"), RootEvent("desktop")}
        OBVIOUS
    <2> QED
        BY <2>2, <2>3, <2>4 DEF RootPending
<1> QED
    BY <1>1, <1>2

\* Whoever changes the list or the desktop tells the panel.
LEMMA EnvRoot ==
    ASSUME BaseInv, WmStep \/ Environment
    PROVE  /\ RootPending => RootPending'
           /\ RootPending' \/ UNCHANGED <<desktop, clientList>>
<1>0. events \in Seq(Event) /\ Grows /\ requests \in Seq(Request)
    BY EnvStep DEF EnvFrame, BaseInv, ServerInv, TypeInv, ServerType
<1>1. \A a \in {"list", "desktop"} : events' = Append(events, RootEvent(a)) => RootPending'
    BY <1>0, RootGrowing
<1>2. ManagePanel \/ WmStart \/ WmExit => RootPending'
    BY <1>1 DEF ManagePanel, WmStart, WmExit
<1>3. \A w \in Windows : Manage(w) \/ Unmanage(w) => RootPending'
    BY <1>1 DEF Manage, Unmanage
<1>4. \A d : SetDesktop(d) => RootPending' \/ desktop' = desktop
    BY <1>1 DEF SetDesktop
<1>5. SwitchDesktop => RootPending' \/ UNCHANGED <<desktop, clientList>>
    BY <1>4 DEF SwitchDesktop
<1>6. WmHandle => RootPending' \/ UNCHANGED <<desktop, clientList>>
    BY <1>4 DEF WmHandle
<1>7. Expose \/ Press => UNCHANGED <<desktop, clientList>>
    BY DEF Expose, Press, server
<1>8. \A w \in Windows : Destroy(w) \/ MoveToDesktop(w) \/ ToggleIconic(w) \/ Retitle(w) \/ SetHints(w)
                         \/ MoveFocus(w) => UNCHANGED <<desktop, clientList>>
    BY DEF Destroy, MoveToDesktop, ToggleIconic, Retitle, SetHints, MoveFocus
<1>9. RootPending => RootPending'
    BY <1>0, RootGrowing
<1> QED
    BY <1>2, <1>3, <1>5, <1>6, <1>7, <1>8, <1>9 DEF WmStep, Environment

\* Windows, window manager and user keep FollowInv.
LEMMA FollowEnv ==
    ASSUME BaseInv, FollowInv, WmStep \/ Environment
    PROVE  FollowInv'
<1>1. EnvFrame
    BY EnvStep DEF BaseInv, ServerInv
<1>2. /\ RootPending => RootPending'
      /\ RootPending' \/ UNCHANGED <<desktop, clientList>>
    BY EnvRoot
<1>3. /\ Len(task_list') = Len(task_list) /\ pc' = pc /\ todo' = todo /\ new_desk' = new_desk
      /\ skipped' = skipped /\ my_desktop' = my_desktop
      /\ \A i \in 1 .. Len(task_list) : task_list'[i].win = task_list[i].win
    BY <1>1 DEF EnvFrame, Alike
<1>4. \A i \in 1 .. Len(task_list) : task_list[i].win \in Windows /\ task_list[i].win \notin fresh
    <2>1. \A i \in 1 .. Len(task_list) : task_list[i] \in Task
        BY DomainIs DEF BaseInv, TypeInv, PanelType
    <2> QED
        BY <2>1 DEF Task, BaseInv, ListInv
<1>5. \A w \in Windows : w \notin fresh /\ w \in alive' =>
        /\ w \in alive
        /\ w \in moved => w \in moved'
        /\ desk'[w] = desk[w] \/ w \in moved'
    BY EnvWindow DEF BaseInv
<1>6. DeskInv'
    BY <1>2, <1>3 DEF FollowInv, DeskInv, InList
<1>7. VisInv'
    BY <1>3, <1>4, <1>5 DEF FollowInv, VisInv, Shown
<1>8. HasRead' => HasRead /\ clientList' = clientList
    BY <1>2, <1>3 DEF HasRead, InList
<1>9. InListInv'
    BY <1>3, <1>8 DEF FollowInv, InListInv, InList
<1>10. CompleteInv'
    <2> SUFFICES ASSUME HasRead', NEW w \in Windows, InList(w)', w \in alive' \ moved', ~InTodo(w)'
                 PROVE  HasTask(w)' \/ ~Shown(w)'
        BY DEF CompleteInv
    <2>1. HasRead /\ InList(w) /\ ~InTodo(w)
        BY <1>3, <1>8 DEF InList, InTodo
    <2>2. w \notin fresh
        BY <2>1 DEF InList, BaseInv, ServerInv
    <2>3. w \in alive \ moved /\ desk'[w] = desk[w]
        BY <1>5, <2>2
    <2>4. HasTask(w) \/ ~Shown(w)
        BY <2>1, <2>3 DEF FollowInv, CompleteInv
    <2>5. HasTask(w) => HasTask(w)'
        BY <1>3 DEF HasTask
    <2>6. Shown(w)' => Shown(w)
        BY <1>3, <2>3 DEF Shown
    <2> QED
        BY <2>4, <2>5, <2>6
<1> QED
    BY <1>6, <1>7, <1>9, <1>10 DEF FollowInv

\* Only a refresh takes an event of the root window.
LEMMA RootKept ==
    ASSUME BaseInv, ViewInv, PanelStep, ~ReadDesktop, RootPending
    PROVE  RootPending'
<1>0. events \in Seq(Event)
    BY DEF BaseInv, TypeInv, ServerType
<1>1. CASE events' = events
    BY <1>1 DEF RootPending
<1>2. CASE Takes /\ pc = "idle"
    <2>1. PICK k \in 1 .. Len(events) : events[k] \in {RootEvent("list"), RootEvent("desktop")}
        BY DEF RootPending
    <2>2. /\ Head(events) = events[1] /\ Len(events) \in Nat /\ Len(events') \in Nat
          /\ Len(events') >= Len(events) - 1
        BY <1>0, <1>2, TailIs DEF Takes
    <2>3. k # 1
        <3>1. events[k].kind = "prop" /\ events[k].win = None
            BY <2>1 DEF RootEvent
        <3>2. Head(events).kind # "prop" \/ Head(events).win # None
            BY <1>2 DEF PanelStep, ReadList, LookAt, SelectInput, HandleDestroy, HandleExpose,
                        HandleFocusIn, HandleProperty, SwitchDesk, PressGrill, PressTasks, idleWith
        <3> QED
            BY <2>2, <3>1, <3>2
    <2>4. k - 1 \in 1 .. Len(events') /\ k - 1 < Len(events) /\ (k - 1) + 1 = k
        BY <2>2, <2>3
    <2>5. events'[k - 1] = events[(k - 1) + 1]
        BY <1>2, <2>4 DEF Takes
    <2>6. events'[k - 1] \in {RootEvent("list"), RootEvent("desktop")}
        BY <2>1, <2>4, <2>5
    <2> QED
        BY <2>4, <2>6 DEF RootPending
<1> QED
    BY <1>1, <1>2, PanelEvents DEF ViewInv

\* A window that exists keeps its task, but for a refresh.
LEMMA TasksKept ==
    ASSUME BaseInv, ViewInv, PanelStep, ~ReadList, NEW w \in alive, HasTask(w)
    PROVE  HasTask(w)'
<1>0. PICK i \in 1 .. Len(task_list) : task_list[i].win = w
    BY DEF HasTask
<1>1. ASSUME Len(task_list') = Len(task_list),
             \A j \in 1 .. Len(task_list) : task_list'[j].win = task_list[j].win
      PROVE  HasTask(w)'
    BY <1>0, <1>1 DEF HasTask
<1>2. ASSUME Redrawn(task_list', task_list) PROVE HasTask(w)'
    <2>1. /\ Len(task_list') = Len(task_list)
          /\ \A j \in 1 .. Len(task_list) : task_list'[j].win = task_list[j].win
        BY <1>2 DEF Redrawn, Alike
    <2> QED
        BY <1>1, <2>1
<1>l. task_list \in Seq(Task) /\ num_tasks = Len(task_list)
    BY DEF BaseInv, TypeInv, PanelType, ListInv
<1>3. ASSUME Done(task_list, num_tasks) PROVE HasTask(w)'
    <2>1. Redrawn(task_list', task_list)
        BY <1>l, <1>3, BarRedraws DEF Done
    <2> QED
        BY <1>2, <2>1
<1>4. ASSUME task_list' = task_list PROVE HasTask(w)'
    BY <1>1, <1>4
<1>5. CASE Adds
    <2>1. i \in 1 .. Len(task_list') /\ task_list'[i] = task_list[i]
        BY <1>5, AddsIs
    <2> QED
        BY <1>0, <2>1 DEF HasTask
<1>6. CASE LookAt \/ SelectInput
    <2>1. Done(task_list, num_tasks) \/ task_list' = task_list \/ Adds
        BY <1>6, LookAtIs, SelectInputIs DEF Adds
    <2> QED
        BY <1>3, <1>4, <1>5, <2>1
<1>7. CASE ReadDesktop \/ SwitchDesk \/ PressGrill
    <2>1. task_list' = task_list
        BY <1>7 DEF ReadDesktop, SwitchDesk, PressGrill, panel
    <2> QED
        BY <1>4, <2>1
<1>8. CASE HandleExpose
    <2>1. Redrawn(task_list', task_list)
        BY <1>l, <1>8, BarRedraws DEF HandleExpose
    <2> QED
        BY <1>2, <2>1
<1>9. CASE HandleDestroy
    <2>1. Head(events).win # w
        <3>1. events \in Seq(Event) /\ events # <<>> /\ Head(events).kind = "destroy"
            BY <1>9 DEF HandleDestroy, idleWith, BaseInv, TypeInv, ServerType
        <3>2. Head(events) = events[1] /\ 1 \in 1 .. Len(events)
            BY <3>1, TailIs
        <3> QED
            BY <3>1, <3>2 DEF BaseInv, ServerInv
    <2>2. PICK f : /\ Embeds(f, task_list', task_list)
                   /\ \A j \in 1 .. Len(task_list) :
                        task_list[j].win # Head(events).win => \E k \in 1 .. Len(task_list') : f[k] = j
        BY <1>9, HandleDestroyIs
    <2>3. PICK k \in 1 .. Len(task_list') : f[k] = i
        BY <1>0, <2>1, <2>2
    <2>4. Alike(task_list'[k], task_list[i])
        BY <2>2, <2>3 DEF Embeds
    <2> QED
        BY <1>0, <2>3, <2>4 DEF HasTask, Alike
<1>10. CASE HandleFocusIn
    <2>1. /\ Len(task_list') = Len(task_list)
          /\ \A j \in 1 .. Len(task_list) : task_list'[j].win = task_list[j].win
        BY <1>10, HandleFocusInIs DEF Touched
    <2> QED
        BY <1>1, <2>1
<1>11. CASE PressTasks
    <2>1. /\ Len(task_list') = Len(task_list)
          /\ \A j \in 1 .. Len(task_list) : Touched(task_list'[j], task_list[j])
        BY <1>11, PressTasksIs DEF ViewInv
    <2> QED
        BY <1>1, <2>1 DEF Touched
<1>12. CASE HandleProperty
    <2> DEFINE a == Head(events).atom
    <2>1. /\ Len(task_list') = Len(task_list) /\ a \in Atoms
          /\ \A j \in 1 .. Len(task_list) :
                task_list'[j] = IF task_list[j].win = Head(events).win
                                THEN Refreshed(task_list[j], a) ELSE task_list[j]
        BY <1>12, HandlePropertyIs
    <2> HIDE DEF a
    <2>2. ServerType /\ \A j \in 1 .. Len(task_list) : task_list[j] \in Task
        BY DomainIs DEF BaseInv, TypeInv, PanelType
    <2>3. \A j \in 1 .. Len(task_list) : Touched(Refreshed(task_list[j], a), task_list[j])
        BY <2>1, <2>2, RefreshedIs
    <2>4. \A j \in 1 .. Len(task_list) : task_list'[j].win = task_list[j].win
        BY <2>1, <2>3 DEF Touched
    <2> QED
        BY <1>1, <2>1, <2>4
<1> QED
    BY <1>6, <1>7, <1>8, <1>9, <1>10, <1>11, <1>12 DEF PanelStep

\* add_task goes through todo, one window after the other.
LEMMA TodoGoes ==
    ASSUME BaseInv, LookAt \/ SelectInput
    PROVE  /\ \A k \in 1 .. Len(todo') : \E j \in 1 .. Len(todo) : todo'[k] = todo[j]
           /\ \A w : InTodo(w) => InTodo(w)' \/ w = todo[1]
           /\ todo' # todo => SelectInput \/ Skips(todo[1])
<1>1. pc \in {"look", "select"}
    BY DEF LookAt, SelectInput
<1>2. /\ Len(todo) \in Nat /\ Len(todo) >= 1
      /\ Len(Tail(todo)) = Len(todo) - 1
      /\ \A k \in 1 .. Len(todo) - 1 : Tail(todo)[k] = todo[k + 1]
    BY <1>1, HeadIs
<1>3. (Len(todo) = 1 /\ todo' = <<>>) \/ todo' = Tail(todo) \/ todo' = todo
    BY LookAtIs, SelectInputIs DEF Done
<1>4. todo' # todo => SelectInput \/ Skips(todo[1])
    BY LookAtIs
<1>5. CASE Len(todo) = 1 /\ todo' = <<>>
    <2>1. Len(todo') = 0
        BY <1>5
    <2>2. \A w : InTodo(w) => w = todo[1]
        BY <1>5 DEF InTodo
    <2> QED
        BY <1>4, <2>1, <2>2
<1>6. CASE todo' = todo
    BY <1>4, <1>6 DEF InTodo
<1>7. CASE todo' = Tail(todo)
    <2>1. Len(todo') = Len(todo) - 1 /\ \A k \in 1 .. Len(todo) - 1 : todo'[k] = todo[k + 1]
        BY <1>2, <1>7
    <2>2. \A k \in 1 .. Len(todo') : k + 1 \in 1 .. Len(todo) /\ todo'[k] = todo[k + 1]
        BY <1>2, <2>1
    <2>3. ASSUME NEW w, InTodo(w), w # todo[1] PROVE InTodo(w)'
        <3>1. PICK k \in 1 .. Len(todo) : todo[k] = w
            BY <2>3 DEF InTodo
        <3>2. k # 1 /\ k - 1 \in 1 .. Len(todo') /\ (k - 1) + 1 = k /\ k - 1 \in 1 .. Len(todo) - 1
            BY <1>2, <2>1, <2>3, <3>1
        <3>3. todo'[k - 1] = todo[(k - 1) + 1]
            BY <2>1, <3>2
        <3>4. todo'[k - 1] = w
            BY <3>1, <3>2, <3>3
        <3> QED
            BY <3>2, <3>4 DEF InTodo
    <2> QED
        BY <1>4, <2>2, <2>3
<1> QED
    BY <1>3, <1>5, <1>6, <1>7

\* The refresh begins.
LEMMA FollowDesktop ==
    ASSUME BaseInv, FollowInv, ReadDesktop
    PROVE  FollowInv'
<1>1. /\ pc = "idle" /\ pc' = "list" /\ my_desktop' = desktop /\ new_desk' = (desktop # my_desktop)
      /\ UNCHANGED <<task_list, alive, moved, desk, desktop, skipped>>
    BY DEF ReadDesktop, server, ghosts
<1>2. DeskInv'
    BY <1>1 DEF DeskInv
<1>3. VisInv'
    BY <1>1 DEF FollowInv, VisInv, Shown
<1>4. InListInv' /\ CompleteInv'
    BY <1>1 DEF InListInv, CompleteInv, HasRead
<1> QED
    BY <1>2, <1>3, <1>4 DEF FollowInv

\* The list is read.
LEMMA FollowList ==
    ASSUME BaseInv, ViewInv, FollowInv, PanelStep, ReadList
    PROVE  FollowInv'
<1>0. /\ UNCHANGED <<alive, fresh, clientList, desktop, desk>>
      /\ pc = "list" /\ my_desktop' = my_desktop /\ moved' = moved
      /\ skipped \in BOOLEAN /\ new_desk \in BOOLEAN
    BY PanelKeeps DEF Unseen, ReadList, BaseInv, TypeInv, PanelType
<1>1. ~ReadDesktop /\ ~Adds
    BY <1>0 DEF ReadDesktop, Adds, LookAt
<1>2. RootPending => RootPending'
    BY <1>1, RootKept
<1>3. DeskInv'
    BY <1>0, <1>2 DEF FollowInv, DeskInv, InList
<1>4. \A i \in 1 .. Len(task_list') : \E j \in 1 .. Len(task_list) : task_list'[i].win = task_list[j].win
    BY <1>1, OldWindows
<1>5. CASE clientList = <<None>>
    <2>1. skipped' = (skipped \/ new_desk)
        BY <1>5 DEF ReadList
    <2>2. VisInv'
        BY <1>0, <1>4, <2>1 DEF FollowInv, VisInv, Shown
    <2>3. InListInv' /\ CompleteInv'
        BY <1>0, <1>5 DEF InListInv, CompleteInv, HasRead
    <2> QED
        BY <1>3, <2>2, <2>3 DEF FollowInv
<1>6. CASE clientList # <<None>>
    <2>1. skipped' = (skipped /\ ~new_desk)
        BY <1>6, ReadListIs
    <2>2. \A i \in 1 .. Len(task_list') : InList(task_list'[i].win) /\ ~new_desk
        BY <1>6, ReadListIs
    <2>3. \A k \in 1 .. Len(todo') : InList(todo'[k])
        BY <1>6, ReadListIs
    <2>4. \A w : InList(w) => InTodo(w)' \/ HasTask(w)'
        BY <1>6, ReadListIs
    <2>5. VisInv'
        <3> SUFFICES ASSUME ~skipped', NEW i \in 1 .. Len(task_list'), task_list'[i].win \in alive \ moved
                     PROVE  Shown(task_list'[i].win)
            BY <1>0 DEF VisInv, Shown
        <3>1. ~new_desk /\ ~skipped
            BY <1>0, <2>1, <2>2
        <3>2. PICK j \in 1 .. Len(task_list) : task_list'[i].win = task_list[j].win
            BY <1>4
        <3> QED
            BY <3>1, <3>2 DEF FollowInv, VisInv
    <2>6. InListInv'
        BY <1>0, <2>2, <2>3 DEF InListInv, InList
    <2>7. CompleteInv'
        BY <1>0, <2>4 DEF CompleteInv, InList
    <2> QED
        BY <1>3, <2>5, <2>6, <2>7 DEF FollowInv
<1> QED
    BY <1>5, <1>6

\* One window of the list is looked at, or selected.
LEMMA FollowLook ==
    ASSUME BaseInv, ViewInv, FollowInv, PanelStep, LookAt \/ SelectInput
    PROVE  FollowInv'
<1>0. /\ UNCHANGED <<alive, fresh, clientList, desktop, desk>>
      /\ pc \in {"look", "select"} /\ my_desktop' = my_desktop /\ skipped' = skipped
    BY PanelKeeps DEF Unseen, LookAt, SelectInput, ghosts
<1>h. todo[1] \in Windows \cup {Panel} /\ 1 \in 1 .. Len(todo)
    BY <1>0, HeadIs
<1>1. ~ReadDesktop /\ ~ReadList
    BY <1>0 DEF ReadDesktop, ReadList
<1>2. RootPending => RootPending'
    BY <1>1, RootKept
<1>3. HasRead' => HasRead
    BY <1>0, <1>2 DEF HasRead, InList
<1>4. DeskInv'
    BY <1>0, <1>2 DEF FollowInv, DeskInv, InList
<1>5. /\ \A k \in 1 .. Len(todo') : \E j \in 1 .. Len(todo) : todo'[k] = todo[j]
      /\ \A w : InTodo(w) => InTodo(w)' \/ w = todo[1]
      /\ todo' # todo => SelectInput \/ Skips(todo[1])
    BY TodoGoes
<1>6. /\ LookAt => pc = "look" /\ moved' = moved \ {todo[1]}
      /\ SelectInput => pc = "select" /\ moved' = moved
    BY LookAtIs, SelectInputIs
<1>7. \A i \in 1 .. Len(task_list') :
        \/ \E j \in 1 .. Len(task_list) : task_list'[i].win = task_list[j].win
        \/ Adds /\ task_list'[i].win = todo[1]
    <2>1. CASE Adds
        BY <2>1, AddsIs
    <2>2. CASE ~Adds
        BY <2>2, OldWindows
    <2> QED
        BY <2>1, <2>2
<1>8. \A j \in 1 .. Len(task_list) : task_list[j].win \in moved => task_list[j].win \in moved'
    <2>1. pc = "look" => \A j \in 1 .. Len(task_list) : task_list[j].win # todo[1]
        BY <1>h DEF BaseInv, TodoInv
    <2> QED
        BY <1>6, <2>1
<1>9. VisInv'
    <2> SUFFICES ASSUME ~skipped, NEW i \in 1 .. Len(task_list'), task_list'[i].win \in alive \ moved'
                 PROVE  Shown(task_list'[i].win)
        BY <1>0 DEF VisInv, Shown
    <2>1. CASE \E j \in 1 .. Len(task_list) : task_list'[i].win = task_list[j].win
        BY <1>0, <1>8, <2>1 DEF FollowInv, VisInv
    <2>2. CASE Adds /\ task_list'[i].win = todo[1]
        BY <2>2 DEF Adds, Skips, is_visible_on_desktop, Shown
    <2> QED
        BY <1>7, <2>1, <2>2
<1>10. InListInv'
    <2> SUFFICES ASSUME HasRead'
                 PROVE  /\ \A i \in 1 .. Len(task_list') : InList(task_list'[i].win)
                        /\ \A k \in 1 .. Len(todo') : InList(todo'[k])
        BY <1>0 DEF InListInv, InList
    <2>1. /\ \A i \in 1 .. Len(task_list) : InList(task_list[i].win)
          /\ \A k \in 1 .. Len(todo) : InList(todo[k])
        BY <1>3 DEF FollowInv, InListInv
    <2> QED
        BY <1>h, <1>5, <1>7, <2>1
<1>11. CompleteInv'
    <2> SUFFICES ASSUME HasRead, NEW w \in Windows, InList(w), w \in alive, w \notin moved', ~InTodo(w)'
                 PROVE  HasTask(w)' \/ ~Shown(w)
        BY <1>0, <1>3 DEF CompleteInv, InList, Shown
    <2>1. CASE ~InTodo(w)
        <3>1. w # todo[1]
            BY <1>h, <2>1 DEF InTodo
        <3>2. w \notin moved
            BY <1>6, <3>1
        <3>3. HasTask(w) \/ ~Shown(w)
            BY <2>1, <3>2 DEF FollowInv, CompleteInv
        <3> QED
            BY <1>1, <3>3, TasksKept
    <2>2. CASE InTodo(w)
        <3>1. w = todo[1] /\ todo' # todo
            BY <1>5, <2>2 DEF InTodo
        <3>2. CASE SelectInput
            <4>1. /\ task_list # <<>> /\ task_list[Len(task_list)].win = todo[1]
                  /\ task_list \in Seq(Task)
                BY <1>6, <3>2 DEF BaseInv, TodoInv, TypeInv, PanelType
            <4>2. Len(task_list) \in 1 .. Len(task_list)
                BY <4>1
            <4>3. HasTask(w)
                BY <3>1, <4>1, <4>2 DEF HasTask
            <4> QED
                BY <1>1, <4>3, TasksKept
        <3>3. CASE Skips(todo[1])
            <4>1. w # Panel
                BY FsPanelAssumption
            <4> QED
                BY <3>1, <3>3, <4>1 DEF Skips, is_hidden, is_visible_on_desktop, Shown
        <3> QED
            BY <1>5, <3>1, <3>2, <3>3
    <2> QED
        BY <2>1, <2>2
<1> QED
    BY <1>4, <1>9, <1>10, <1>11 DEF FollowInv

\* The other handlers.
LEMMA FollowHandler ==
    ASSUME BaseInv, ViewInv, FollowInv, PanelStep, ~ReadDesktop, ~ReadList, ~LookAt, ~SelectInput
    PROVE  FollowInv'
<1>0. UNCHANGED <<alive, fresh, clientList, desktop, desk>>
    BY PanelKeeps DEF Unseen
<1>1. /\ pc = "idle" /\ pc' = "idle" /\ my_desktop' = my_desktop /\ skipped' = skipped /\ moved' = moved
      /\ todo' = todo
    BY DEF PanelStep, HandleDestroy, HandleExpose, HandleFocusIn, HandleProperty, SwitchDesk, PressGrill,
           PressTasks, idleWith, ghosts, panel
<1>2. RootPending => RootPending'
    BY RootKept
<1>3. HasRead' => HasRead
    BY <1>0, <1>1, <1>2 DEF HasRead, InList
<1>4. \A i \in 1 .. Len(task_list') : \E j \in 1 .. Len(task_list) : task_list'[i].win = task_list[j].win
    BY OldWindows DEF Adds
<1>5. DeskInv'
    BY <1>0, <1>1, <1>2 DEF FollowInv, DeskInv, InList
<1>6. VisInv'
    BY <1>0, <1>1, <1>4 DEF FollowInv, VisInv, Shown
<1>7. InListInv'
    BY <1>0, <1>1, <1>3, <1>4 DEF FollowInv, InListInv, InList
<1>8. CompleteInv'
    <2> SUFFICES ASSUME HasRead, NEW w \in Windows, InList(w), w \in alive, w \notin moved, ~InTodo(w)
                 PROVE  HasTask(w)' \/ ~Shown(w)
        BY <1>0, <1>1, <1>3 DEF CompleteInv, InList, InTodo, Shown
    <2>1. HasTask(w) \/ ~Shown(w)
        BY DEF FollowInv, CompleteInv
    <2> QED
        BY <2>1, TasksKept
<1> QED
    BY <1>5, <1>6, <1>7, <1>8 DEF FollowInv

\* Every step keeps FollowInv.
LEMMA FollowStep ==
    ASSUME BaseInv, ViewInv, FollowInv, [Next]_vars
    PROVE  FollowInv'
<1>1. CASE PanelStep
    BY <1>1, FollowDesktop, FollowList, FollowLook, FollowHandler
<1>2. CASE WmStep \/ Environment
    BY <1>2, FollowEnv
<1>3. CASE UNCHANGED vars
    BY <1>3 DEF vars, server, panel, ghosts, FollowInv, DeskInv, VisInv, InListInv, CompleteInv, HasRead,
                RootPending, InList, InTodo, HasTask, Shown
<1> QED
    BY <1>1, <1>2, <1>3 DEF Next

\* Once everything has settled the bar shows the windows of the current desktop,
\* for every interleaving of the reads of a refresh with changes of the windows,
\* the list and the desktop; a window that changed desktop and a list that was
\* missing when the desktop changed are the exceptions the code makes.
THEOREM TasksRight == Spec => []TasksFollowClients
<1>1. Init => FollowInv
    <2> SUFFICES ASSUME Init PROVE FollowInv
        OBVIOUS
    <2>1. /\ task_list = <<>> /\ todo = <<>> /\ pc = "idle"
          /\ \A i \in 1 .. Len(clientList) : clientList[i] # Panel
        <3>1. PICK old \in {<<>>} \cup {<<w>> : w \in Older} : clientList = old
            BY DEF Init
        <3>2. \A i \in 1 .. Len(clientList) : clientList[i] # Panel
            BY <3>1, FsPanelAssumption
        <3> QED
            BY <3>2 DEF Init
    <2>2. ~InList(Panel) /\ Len(task_list) = 0
        BY <2>1 DEF InList
    <2>3. DeskInv /\ InListInv /\ CompleteInv
        BY <2>2 DEF DeskInv, InListInv, CompleteInv, HasRead
    <2>4. VisInv
        BY <2>2 DEF VisInv
    <2> QED
        BY <2>3, <2>4 DEF FollowInv
<1>2. BaseInv /\ FollowInv => TasksFollowClients
    <2> SUFFICES ASSUME BaseInv, FollowInv, Quiet, ~skipped
                 PROVE  /\ my_desktop = desktop
                        /\ \A w \in Windows \ moved :
                             (find_task(w) # {}) <=> (w \in alive /\ is_visible_on_desktop(w, desktop))
                        /\ \A i \in DOMAIN task_list : task_list[i].win \in alive
        BY DEF TasksFollowClients
    <2>1. ~RootPending /\ pc = "idle" /\ clientList # <<None>>
        BY DEF Quiet, RootPending
    <2>2. \A w : w \in alive <=> InList(w)
        <3>1. DOMAIN clientList = 1 .. Len(clientList)
            BY DomainIs DEF BaseInv, TypeInv, ServerType
        <3> QED
            BY <3>1 DEF Quiet, ToSet, InList
    <2>3. HasRead
        BY <2>1, <2>2 DEF HasRead, BaseInv, ServerInv
    <2>4. my_desktop = desktop
        BY <2>3 DEF FollowInv, DeskInv, HasRead
    <2>5. DOMAIN task_list = 1 .. Len(task_list)
        BY DomainIs DEF BaseInv, TypeInv, PanelType
    <2>6. \A i \in DOMAIN task_list : task_list[i].win \in alive
        BY <2>2, <2>3, <2>5 DEF FollowInv, InListInv
    <2>7. ASSUME NEW w \in Windows \ moved
          PROVE  (find_task(w) # {}) <=> (w \in alive /\ is_visible_on_desktop(w, desktop))
        <3>1. (find_task(w) # {}) <=> HasTask(w)
            BY <2>5 DEF find_task, HasTask
        <3>2. w \in alive => (is_visible_on_desktop(w, desktop) <=> Shown(w))
            BY <2>4 DEF is_visible_on_desktop, Shown
        <3>3. HasTask(w) => w \in alive /\ Shown(w)
            BY <2>1, <2>5, <2>6 DEF HasTask, FollowInv, VisInv
        <3>4. ~InTodo(w)
            BY <2>1 DEF InTodo, BaseInv, TodoInv
        <3>5. w \in alive /\ Shown(w) => HasTask(w)
            BY <2>2, <2>3, <3>4 DEF FollowInv, CompleteInv
        <3> QED
            BY <3>1, <3>2, <3>3, <3>5
    <2> QED
        BY <2>4, <2>6, <2>7
<1>3. (BaseInv /\ ViewInv) /\ FollowInv /\ [Next]_vars => FollowInv'
    BY FollowStep
<1> QED
    BY <1>1, <1>2, <1>3, BaseHolds, PTL DEF Spec
====
