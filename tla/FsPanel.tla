------------------------------- MODULE FsPanel -------------------------------
(***************************************************************************)
(* The task bar, core/modules/fspanel/fspanel/fspanel.c: a list of tasks    *)
(* that follows the window manager's client list through X events.         *)
(*                                                                         *)
(* A refresh of the list is several steps, between which the windows and    *)
(* the window manager may act: the panel reads the desktop and the focus,   *)
(* then the client list, then the properties of one window after the other, *)
(* and asks for a window's events only after it has read them.  Events      *)
(* reach the panel in order but late.  Errors about windows that are gone   *)
(* are ignored (handle_error): reading their properties yields nothing.     *)
(*                                                                         *)
(* Window manager and server are external.  The model is of a window        *)
(* manager that speaks EWMH (wm_use_ewmh; the other protocol differs in the *)
(* names of the properties) and of the shipped build, with HAVE_XPM.        *)
(* The coordinates of the window, its two ends (grills) and the arrows are  *)
(* abstracted to where a press lands; the width of a task is computed.      *)
(***************************************************************************)
EXTENDS Integers, Sequences, FiniteSets, SequencesExt

CONSTANTS
  Windows,        \* client windows, model values
  Older,          \* the windows that may be there before the panel
  Panel,          \* the panel's own window
  Desktops,       \* 0 .. _NET_NUMBER_OF_DESKTOPS - 1
  Titles,         \* window names
  KdeIcon,        \* the windows that carry KWM_WIN_ICON
  BarStart,       \* left end of the task area (80)
  BarWidth,       \* its width (WINWIDTH - 80 - clock)
  MaxTaskWidth,   \* MAX_TASK_WIDTH (145)
  PressAt,        \* the x coordinates of presses in the task area
  None,           \* no window, no name
  MaxActs         \* bound: acts of windows, window manager and user

ASSUME FsPanelAssumption ==
  /\ Panel \notin Windows /\ None \notin Windows \cup {Panel}
  /\ None \notin Titles /\ Titles # {} /\ KdeIcon \subseteq Windows /\ Older \subseteq Windows
  /\ 0 \in Desktops /\ Desktops \subseteq Nat
  /\ BarStart \in Nat /\ BarWidth \in Nat /\ MaxTaskWidth \in Nat \ {0}
  /\ PressAt \subseteq Nat /\ MaxActs \in Nat

AllDesktops == -1

VARIABLES
  \* --- X server and window manager
  alive,          \* windows that exist
  fresh,          \* windows not created yet
  clientList,     \* _NET_CLIENT_LIST, <<None>> while the property is missing
  desktop,        \* _NET_CURRENT_DESKTOP
  desk,           \* window -> _NET_WM_DESKTOP
  iconic,         \* window -> WM_STATE is IconicState
  title,          \* window -> its name
  hints,          \* window -> icon in WM_HINTS: "none", "icon" or "masked"
  focus,          \* the window with the input focus
  selected,       \* windows whose events the panel has asked for
  events,         \* the panel's event queue
  requests,       \* messages of the panel the window manager has not handled
  pixmaps,        \* number of pixmaps the panel holds in the server
  \* --- the panel
  task_list, num_tasks, my_desktop,
  pc,             \* "idle", "list", "look", "select"
  new_desk, focus_win,
  todo,           \* windows of the list not yet looked at
  \* --- history
  moved,          \* windows that changed desktop since they were looked at
  missed,         \* windows that changed after they were read, before selected
  skipped,        \* a change of desktop was noticed while there was no list
  acts

server == <<alive, fresh, clientList, desktop, desk, iconic, title, hints, focus>>
panel  == <<task_list, num_tasks, my_desktop, pc, new_desk, focus_win, todo>>
ghosts == <<moved, missed, skipped>>
vars   == <<server, selected, events, requests, pixmaps, panel, ghosts, acts>>

Event == [kind : {"prop"}, win : Windows \cup {None},
          atom : {"list", "desktop", "name", "state", "hints", "wmdesktop"}]
         \cup [kind : {"destroy", "focusin"}, win : Windows]
         \cup [kind : {"expose"}]
         \cup [kind : {"press"}, on : {"tasks"}, at : PressAt]
         \cup [kind : {"press"}, on : {"left", "right", "lgrill", "rgrill"}]

Request == [kind : {"desktop"}, to : Desktops] \cup [kind : {"map", "iconify"}, win : Windows]

\* What gui_draw_task shows of a task.
Look == [focused : BOOLEAN, iconified : BOOLEAN, name : Titles \cup {None},
         icon : {"kde", "generic", "copy"}]

Task == [win : Windows, focused : BOOLEAN, iconified : BOOLEAN, name : Titles \cup {None},
         icon : {"kde", "generic", "copy"}, mask : {"none", "kde", "generic", "copy"},
         icon_copied : BOOLEAN, pos_x : Int, width : Int, drawn : Look \cup {None}]

TypeOK ==
  /\ alive \subseteq Windows \cup {Panel} /\ fresh \subseteq Windows \ alive
  /\ clientList \in Seq(Windows \cup {Panel}) \cup {<<None>>}
  /\ desktop \in Desktops
  /\ desk \in [Windows -> Desktops \cup {AllDesktops}]
  /\ iconic \in [Windows -> BOOLEAN]
  /\ title \in [Windows -> Titles]
  /\ hints \in [Windows -> {"none", "icon", "masked"}]
  /\ focus \in Windows \cup {None}
  /\ selected \subseteq Windows
  /\ events \in Seq(Event)
  /\ requests \in Seq(Request)
  /\ pixmaps \in Nat
  /\ task_list \in Seq(Task)
  /\ num_tasks \in Nat
  /\ my_desktop \in Desktops
  /\ pc \in {"idle", "list", "look", "select"}
  /\ new_desk \in BOOLEAN
  /\ focus_win \in Windows \cup {None}
  /\ todo \in Seq(Windows \cup {Panel})
  /\ moved \subseteq Windows /\ missed \subseteq Windows
  /\ skipped \in BOOLEAN
  /\ acts \in 0 .. MaxActs

\* A window may exist before the panel starts; the panel starts with an empty
\* list and maps its own window, which the window manager has still to manage.
Init ==
  /\ \E old \in {<<>>} \cup {<<w>> : w \in Older} :
       clientList = old /\ alive = ToSet(old) \cup {Panel} /\ fresh = Windows \ alive
  /\ desktop \in Desktops
  /\ desk = [w \in Windows |-> 0]
  /\ iconic = [w \in Windows |-> FALSE]
  /\ title = [w \in Windows |-> CHOOSE t \in Titles : TRUE]
  /\ hints = [w \in Windows |-> "none"]
  /\ focus = None /\ selected = {} /\ events = <<>> /\ requests = <<>> /\ pixmaps = 0
  /\ task_list = <<>> /\ num_tasks = 0 /\ my_desktop = 0
  /\ pc = "idle" /\ new_desk = FALSE /\ focus_win = None /\ todo = <<>>
  /\ moved = {} /\ missed = {} /\ skipped = FALSE /\ acts = 0

-----------------------------------------------------------------------------
(* Events of the server.                                                   *)

\* What is left of list s when only the entries I remain.
Only(s, I) ==
  LET index == CHOOSE f \in [1 .. Cardinality(I) -> I] : \A j, k \in DOMAIN f : j < k => f[j] < f[k]
  IN  [k \in 1 .. Cardinality(I) |-> s[index[k]]]

RootEvent(a) == [kind |-> "prop", win |-> None, atom |-> a]

\* A property event of window w, if the panel has asked for them.
Notify(w, a) ==
  events' = IF w \in selected
            THEN Append(events, [kind |-> "prop", win |-> w, atom |-> a]) ELSE events

\* Acts are counted; some (a name, an icon, an exposure, a press beside the
\* tasks, the end of the window manager) weigh two, so that the bound leaves
\* room for the others.
Act == acts < MaxActs /\ acts' = acts + 1
Seldom == acts + 1 < MaxActs /\ acts' = acts + 2

\* The panel has read the properties of w and not yet asked for its events.
Between(w) == pc = "select" /\ Last(task_list).win = w

\* The focus moves to f; only windows the panel listens to report it.
FocusEvents(f, evs) ==
  IF f \in selected /\ f # focus THEN Append(evs, [kind |-> "focusin", win |-> f]) ELSE evs

-----------------------------------------------------------------------------
(* Windows, window manager and user (external).                            *)
(*                                                                         *)
(* The window manager does what the panel asks, in order, sooner or later;  *)
(* requests wait for the next one if it ends.  One that refused to iconify  *)
(* a window would leave the mark that handle_press has set wrong for good.  *)

\* A window is created and the window manager takes it on.
Manage(w) ==
  /\ Act /\ w \in fresh /\ clientList # <<None>>
  /\ fresh' = fresh \ {w} /\ alive' = alive \cup {w}
  /\ clientList' = Append(clientList, w)
  /\ events' = Append(events, RootEvent("list"))
  /\ \E d \in Desktops \cup {AllDesktops} : desk' = [desk EXCEPT ![w] = d]
  /\ UNCHANGED <<desktop, iconic, title, hints, focus, selected, requests, pixmaps, panel, ghosts>>

\* The window manager takes on the panel's window, which main() maps.
ManagePanel ==
  /\ clientList # <<None>> /\ Panel \notin ToSet(clientList)
  /\ clientList' = Append(clientList, Panel)
  /\ events' = Append(events, RootEvent("list"))
  /\ UNCHANGED <<alive, fresh, desktop, desk, iconic, title, hints, focus, selected, requests,
                 pixmaps, panel, ghosts, acts>>

\* A window is destroyed, with its properties.
Destroy(w) ==
  /\ Act /\ w \in alive
  /\ alive' = alive \ {w}
  /\ selected' = selected \ {w}
  /\ events' = IF w \in selected THEN Append(events, [kind |-> "destroy", win |-> w]) ELSE events
  /\ focus' = IF focus = w THEN None ELSE focus
  /\ desk' = [desk EXCEPT ![w] = 0] /\ iconic' = [iconic EXCEPT ![w] = FALSE]
  /\ hints' = [hints EXCEPT ![w] = "none"]
  /\ moved' = moved \ {w} /\ missed' = missed \ {w}
  /\ UNCHANGED <<fresh, clientList, desktop, title, requests, pixmaps, panel, skipped>>

\* ... and removes a window that is gone from the list.
Unmanage(w) ==
  /\ w \in ToSet(clientList) \ (alive \cup {None})
  /\ clientList' = Only(clientList, {i \in DOMAIN clientList : clientList[i] # w})
  /\ events' = Append(events, RootEvent("list"))
  /\ UNCHANGED <<alive, fresh, desktop, desk, iconic, title, hints, focus, selected, requests, pixmaps,
                 panel, ghosts, acts>>

\* The window manager ends and deletes its list; the next one publishes its own.
WmExit ==
  /\ Seldom /\ clientList # <<None>>
  /\ clientList' = <<None>>
  /\ events' = Append(events, RootEvent("list"))
  /\ UNCHANGED <<alive, fresh, desktop, desk, iconic, title, hints, focus, selected, requests, pixmaps,
                 panel, ghosts>>

WmStart ==
  /\ clientList = <<None>>
  /\ clientList' = SetToSeq(alive)
  /\ events' = Append(events, RootEvent("list"))
  /\ UNCHANGED <<alive, fresh, desktop, desk, iconic, title, hints, focus, selected, requests, pixmaps,
                 panel, ghosts, acts>>

SetDesktop(d) ==
  /\ desktop' = d
  /\ events' = IF d = desktop THEN events ELSE Append(events, RootEvent("desktop"))

SwitchDesktop ==
  /\ Act /\ \E d \in Desktops \ {desktop} : SetDesktop(d)
  /\ UNCHANGED <<alive, fresh, clientList, desk, iconic, title, hints, focus, selected, requests,
                 pixmaps, panel, ghosts>>

MoveToDesktop(w) ==
  /\ Act /\ w \in alive
  /\ \E d \in (Desktops \cup {AllDesktops}) \ {desk[w]} : desk' = [desk EXCEPT ![w] = d]
  /\ moved' = moved \cup {w}
  /\ Notify(w, "wmdesktop")
  /\ UNCHANGED <<alive, fresh, clientList, desktop, iconic, title, hints, focus, selected, requests,
                 pixmaps, panel, missed, skipped>>

SetIconic(w, b) ==
  /\ iconic' = [iconic EXCEPT ![w] = b]
  /\ focus' = IF b /\ focus = w THEN None ELSE focus
  /\ IF iconic[w] = b THEN UNCHANGED <<events, missed>>
     ELSE Notify(w, "state") /\ missed' = missed \cup (IF Between(w) THEN {w} ELSE {})

ToggleIconic(w) ==
  /\ Act /\ w \in alive
  /\ SetIconic(w, ~iconic[w])
  /\ UNCHANGED <<alive, fresh, clientList, desktop, desk, title, hints, selected, requests,
                 pixmaps, panel, moved, skipped>>

Retitle(w) ==
  /\ Seldom /\ w \in alive
  /\ \E t \in Titles \ {title[w]} : title' = [title EXCEPT ![w] = t]
  /\ Notify(w, "name")
  /\ missed' = missed \cup (IF Between(w) THEN {w} ELSE {})
  /\ UNCHANGED <<alive, fresh, clientList, desktop, desk, iconic, hints, focus, selected, requests,
                 pixmaps, panel, moved, skipped>>

SetHints(w) ==
  /\ Seldom /\ w \in alive
  /\ \E h \in {"none", "icon", "masked"} \ {hints[w]} : hints' = [hints EXCEPT ![w] = h]
  /\ Notify(w, "hints")
  /\ UNCHANGED <<alive, fresh, clientList, desktop, desk, iconic, title, focus, selected, requests,
                 pixmaps, panel, ghosts>>

MoveFocus(w) ==
  /\ Act /\ w \in alive /\ ~iconic[w] /\ w # focus
  /\ focus' = w /\ events' = FocusEvents(w, events)
  /\ UNCHANGED <<alive, fresh, clientList, desktop, desk, iconic, title, hints, selected, requests,
                 pixmaps, panel, ghosts>>

\* The panel's window is uncovered: what was drawn is lost.
Expose ==
  /\ Seldom
  /\ task_list' = [i \in DOMAIN task_list |-> [task_list[i] EXCEPT !.drawn = None]]
  /\ events' = Append(events, [kind |-> "expose"])
  /\ UNCHANGED <<server, selected, requests, pixmaps, num_tasks, my_desktop, pc, new_desk,
                 focus_win, todo, ghosts>>

Press ==
  /\ \E e \in {f \in Event : f.kind = "press"} :
       /\ IF e.on = "tasks" THEN Act ELSE Seldom
       /\ events' = Append(events, e)
  /\ UNCHANGED <<server, selected, requests, pixmaps, panel, ghosts>>

\* The window manager does what the panel asked of it, without exception.
WmHandle ==
  /\ requests # <<>> /\ clientList # <<None>>
  /\ requests' = Tail(requests)
  /\ LET r == Head(requests) IN
       \/ /\ r.kind = "desktop" /\ SetDesktop(r.to) /\ UNCHANGED <<iconic, focus, missed>>
       \/ /\ r.kind # "desktop" /\ r.win \in alive
          /\ SetIconic(r.win, r.kind = "iconify") /\ UNCHANGED desktop
       \/ /\ r.kind # "desktop" /\ r.win \notin alive
          /\ UNCHANGED <<desktop, iconic, focus, missed, events>>
  /\ UNCHANGED <<alive, fresh, clientList, desk, title, hints, selected, pixmaps, panel,
                 moved, skipped, acts>>

-----------------------------------------------------------------------------
(* Drawing and icons.                                                      *)

LookOf(tk) == [focused |-> tk.focused, iconified |-> tk.iconified,
               name |-> tk.name, icon |-> tk.icon]

\* gui_draw_task: a task without a name is not drawn.
Drawn(tk) == IF tk.name = None THEN tk ELSE [tk EXCEPT !.drawn = LookOf(tk)]

TaskWidth(n) ==
  IF BarWidth \div n > MaxTaskWidth THEN MaxTaskWidth ELSE BarWidth \div n

\* gui_draw_taskbar: places n tasks side by side and draws them.
DrawBar(list, n) ==
  IF n = 0 THEN list
  ELSE [i \in DOMAIN list |->
          Drawn([list[i] EXCEPT !.pos_x = BarStart + (i - 1) * TaskWidth(n),
                                !.width = TaskWidth(n) - 1])]

\* get_task_hinticon and scale_icon: copies of the icon and of its mask.
HintIcon(tk, w) ==
  IF w \notin alive \/ hints[w] = "none"
  THEN [tk EXCEPT !.icon = "generic", !.mask = "generic"]
  ELSE [tk EXCEPT !.icon = "copy", !.icon_copied = TRUE,
                  !.mask = IF hints[w] = "masked" THEN "copy" ELSE "none"]

\* get_task_kdeicon, with the hints to fall back on.
WithIcon(tk, w) ==
  IF w \in alive \cap KdeIcon THEN [tk EXCEPT !.icon = "kde", !.mask = "kde"] ELSE HintIcon(tk, w)

\* The pixmaps entries I of a list hold, icons and masks: what del_task frees.
Held(list, I) ==
  Cardinality({i \in I : list[i].icon_copied})
    + Cardinality({i \in I : list[i].icon_copied /\ list[i].mask # "none"})

-----------------------------------------------------------------------------
(* The client list: taskbar_read_clientlist, add_task, del_task.            *)

\* A window that is gone has no properties: visible everywhere, not iconified.
is_visible_on_desktop(w, d) == w \notin alive \/ desk[w] \in {AllDesktops, d}

\* gui_create_taskbar marks the panel's own window WIN_HINTS_SKIP_TASKBAR, and no
\* client does: a hint of GNOME 1 that today's programs do not set.
is_hidden(w) == w = Panel

is_iconified(w) == w \in alive /\ iconic[w]

get_window_name(w) == IF w \in alive THEN title[w] ELSE None

find_task(w) == {i \in DOMAIN task_list : task_list[i].win = w}

NewTask(w) ==
  WithIcon([win |-> w, focused |-> (w = focus_win), iconified |-> is_iconified(w),
            name |-> get_window_name(w), icon |-> "generic", mask |-> "none",
            icon_copied |-> FALSE, pos_x |-> 0, width |-> 0, drawn |-> None], w)

\* The read is over: gui_draw_taskbar, back to the event loop.
Done(list, n) ==
  /\ pc' = "idle" /\ todo' = <<>> /\ new_desk' = FALSE /\ focus_win' = None
  /\ task_list' = DrawBar(list, n) /\ num_tasks' = n

Take == events # <<>> /\ events' = Tail(events)

\* Plausible bug: the tasks of the desktop that was left stay.
ReadDesktopOnly ==
  /\ pc = "idle" /\ Take
  /\ Head(events) \in {RootEvent("list"), RootEvent("desktop")}
  /\ my_desktop' = desktop
  /\ focus_win' = focus
  /\ pc' = "list"
  /\ UNCHANGED <<server, selected, requests, pixmaps, task_list, num_tasks, new_desk, todo,
                 ghosts, acts>>

\* handle_propertynotify for the root window: the desktop and the focus.
ReadDesktop ==
  /\ pc = "idle" /\ Take
  /\ Head(events) \in {RootEvent("list"), RootEvent("desktop")}
  /\ new_desk' = (desktop # my_desktop)
  /\ my_desktop' = desktop
  /\ focus_win' = focus
  /\ pc' = "list"
  /\ UNCHANGED <<server, selected, requests, pixmaps, task_list, num_tasks, todo,
                 ghosts, acts>>

Refocused == [i \in DOMAIN task_list |->
                [task_list[i] EXCEPT !.focused = (task_list[i].win = focus_win)]]

\* The list: tasks that are not in it go, on another desktop all of them.
ReadList ==
  /\ pc = "list"
  /\ IF clientList = <<None>>
     THEN /\ Done(task_list, num_tasks)
          /\ skipped' = (skipped \/ new_desk)
          /\ UNCHANGED pixmaps
     ELSE LET stay == {i \in DOMAIN task_list : ~new_desk /\ task_list[i].win \in ToSet(clientList)}
              gone == DOMAIN task_list \ stay
              kept == Only(Refocused, stay)
              n    == num_tasks - Cardinality(gone)
              new  == Only(clientList, {i \in DOMAIN clientList :
                                          \A j \in stay : task_list[j].win # clientList[i]})
          IN  /\ pixmaps' = pixmaps - Held(task_list, gone)
              /\ skipped' = (skipped /\ ~new_desk)
              /\ IF new = <<>> THEN Done(kept, n)
                 ELSE /\ task_list' = kept /\ num_tasks' = n /\ todo' = new /\ pc' = "look"
                      /\ UNCHANGED <<new_desk, focus_win>>
  /\ UNCHANGED <<server, selected, events, requests, my_desktop, moved, missed, acts>>

\* Plausible bug: add_task does not count.
LookAtUncounted ==
  /\ pc = "look"
  /\ LET w == Head(todo) IN
       /\ moved' = moved \ {w}
       /\ IF is_hidden(w) \/ ~is_visible_on_desktop(w, my_desktop)
          THEN /\ IF Len(todo) = 1 THEN Done(task_list, num_tasks)
                  ELSE /\ todo' = Tail(todo)
                       /\ UNCHANGED <<pc, task_list, num_tasks, new_desk, focus_win>>
               /\ UNCHANGED <<pixmaps, missed>>
          ELSE LET tk == NewTask(w) IN
               /\ task_list' = Append(task_list, tk)
               /\ pixmaps' = pixmaps + Held(<<tk>>, {1})
               /\ missed' = missed \ {w}
               /\ pc' = "select" /\ UNCHANGED <<num_tasks, todo, new_desk, focus_win>>
  /\ UNCHANGED <<server, selected, events, requests, my_desktop, skipped, acts>>

\* add_task, the next window of the list: another desktop or hidden, or a task.  Its
\* reads of one window are one step.
LookAt ==
  /\ pc = "look"
  /\ LET w == Head(todo) IN
       /\ moved' = moved \ {w}
       /\ IF is_hidden(w) \/ ~is_visible_on_desktop(w, my_desktop)
          THEN /\ IF Len(todo) = 1 THEN Done(task_list, num_tasks)
                  ELSE /\ todo' = Tail(todo)
                       /\ UNCHANGED <<pc, task_list, num_tasks, new_desk, focus_win>>
               /\ UNCHANGED <<pixmaps, missed>>
          ELSE LET tk == NewTask(w) IN
               /\ task_list' = Append(task_list, tk)
               /\ num_tasks' = num_tasks + 1
               /\ pixmaps' = pixmaps + Held(<<tk>>, {1})
               /\ missed' = missed \ {w}
               /\ pc' = "select" /\ UNCHANGED <<todo, new_desk, focus_win>>
  /\ UNCHANGED <<server, selected, events, requests, my_desktop, skipped, acts>>

\* add_task: XSelectInput, after everything was read.
SelectInput ==
  /\ pc = "select"
  /\ selected' = selected \cup ({Head(todo)} \cap alive)
  /\ IF Len(todo) = 1 THEN Done(task_list, num_tasks)
     ELSE /\ todo' = Tail(todo) /\ pc' = "look"
          /\ UNCHANGED <<task_list, num_tasks, new_desk, focus_win>>
  /\ UNCHANGED <<server, events, requests, pixmaps, my_desktop, ghosts, acts>>

-----------------------------------------------------------------------------
(* The other events.                                                       *)

idleWith(kind) == pc = "idle" /\ events # <<>> /\ Head(events).kind = kind

\* Plausible bug: num_tasks is counted down whether or not there is a task.
HandleDestroyCounts ==
  /\ idleWith("destroy") /\ Take
  /\ LET gone == find_task(Head(events).win) IN
       /\ task_list' = DrawBar(Only(task_list, DOMAIN task_list \ gone), num_tasks - 1)
       /\ num_tasks' = num_tasks - 1
       /\ pixmaps' = pixmaps - Held(task_list, gone)
  /\ UNCHANGED <<server, selected, requests, my_desktop, pc, new_desk, focus_win, todo,
                 ghosts, acts>>

\* DestroyNotify: del_task, then the whole bar is drawn.
HandleDestroy ==
  /\ idleWith("destroy") /\ Take
  /\ LET gone == find_task(Head(events).win)
         n    == num_tasks - Cardinality(gone) IN
       /\ task_list' = DrawBar(Only(task_list, DOMAIN task_list \ gone), n)
       /\ num_tasks' = n
       /\ pixmaps' = pixmaps - Held(task_list, gone)
  /\ UNCHANGED <<server, selected, requests, my_desktop, pc, new_desk, focus_win, todo,
                 ghosts, acts>>

HandleExpose ==
  /\ idleWith("expose") /\ Take
  /\ task_list' = DrawBar(task_list, num_tasks)
  /\ UNCHANGED <<server, selected, requests, pixmaps, num_tasks, my_desktop, pc, new_desk,
                 focus_win, todo, ghosts, acts>>

\* handle_focusin: the window's task is drawn focused, the others not.
HandleFocusIn ==
  /\ idleWith("focusin") /\ Take
  /\ task_list' = [i \in DOMAIN task_list |->
       LET tk == task_list[i]
           f  == tk.win = Head(events).win
       IN  IF tk.focused = f THEN tk ELSE Drawn([tk EXCEPT !.focused = f])]
  /\ UNCHANGED <<server, selected, requests, pixmaps, num_tasks, my_desktop, pc, new_desk,
                 focus_win, todo, ghosts, acts>>

\* Plausible bug: an icon that is there already is loaded again.
ReloadsAlways(tk, a) == a = "hints"

\* Some windows set their icon after they were mapped.
Reloads(tk, a) == a = "hints" /\ tk.icon = "generic"

\* Plausible bugs: every change of WM_STATE turns the mark over; a new name is not drawn.
RefreshedToggles(tk, a) ==
  CASE a = "name"  -> Drawn([tk EXCEPT !.name = get_window_name(tk.win)])
    [] a = "state" -> Drawn([tk EXCEPT !.iconified = ~tk.iconified])
    [] Reloads(tk, a) -> Drawn(HintIcon(tk, tk.win))
    [] OTHER -> tk

RefreshedUndrawn(tk, a) ==
  CASE a = "name"  -> [tk EXCEPT !.name = get_window_name(tk.win)]
    [] a = "state" /\ is_iconified(tk.win) # tk.iconified ->
         Drawn([tk EXCEPT !.iconified = ~tk.iconified])
    [] Reloads(tk, a) -> Drawn(HintIcon(tk, tk.win))
    [] OTHER -> tk

\* What handle_propertynotify makes of a task when property a has changed; the
\* property is read now, not as it was when the event was sent.
Refreshed(tk, a) ==
  CASE a = "name"  -> Drawn([tk EXCEPT !.name = get_window_name(tk.win)])
    [] a = "state" /\ is_iconified(tk.win) # tk.iconified ->
         Drawn([tk EXCEPT !.iconified = ~tk.iconified])
    [] Reloads(tk, a) -> Drawn(HintIcon(tk, tk.win))
    [] OTHER -> tk

HandleProperty ==
  /\ idleWith("prop") /\ Take
  /\ Head(events).win # None
  /\ LET hit == find_task(Head(events).win) IN
       /\ task_list' = [i \in DOMAIN task_list |->
            IF i \in hit THEN Refreshed(task_list[i], Head(events).atom) ELSE task_list[i]]
       /\ pixmaps' = pixmaps + Held(task_list', {i \in hit : Reloads(task_list[i], Head(events).atom)})
  /\ UNCHANGED <<server, selected, requests, num_tasks, my_desktop, pc, new_desk, focus_win,
                 todo, ghosts, acts>>

\* switch_desk: relative to the desktop the panel knows of.
SwitchDesk ==
  /\ idleWith("press") /\ Take
  /\ Head(events).on \in {"left", "right"}
  /\ LET want == my_desktop + (IF Head(events).on = "right" THEN 1 ELSE -1) IN
       requests' = IF want \in Desktops
                   THEN Append(requests, [kind |-> "desktop", to |-> want]) ELSE requests
  /\ UNCHANGED <<server, selected, pixmaps, panel, ghosts, acts>>

\* The grills: move_taskbar moves or hides the panel's window as a whole; presses
\* come in its coordinates.
PressGrill ==
  /\ idleWith("press") /\ Take
  /\ Head(events).on \in {"lgrill", "rgrill"}
  /\ UNCHANGED <<server, selected, requests, pixmaps, panel, ghosts, acts>>

Hit(tk, x) == x > tk.pos_x /\ x < tk.pos_x + tk.width

\* handle_press on a task: restores it, iconifies it or gives it the focus.
Pressed(tk) ==
  CASE tk.iconified -> [tk EXCEPT !.iconified = FALSE, !.focused = TRUE]
    [] ~tk.iconified /\ tk.focused -> [tk EXCEPT !.iconified = TRUE, !.focused = FALSE]
    [] OTHER -> [tk EXCEPT !.focused = TRUE]

\* Plausible bug: the others keep their focus mark.
PressTasksKeepsMarks ==
  /\ idleWith("press") /\ Head(events).on = "tasks"
  /\ LET x    == Head(events).at
         hits == {i \in DOMAIN task_list : Hit(task_list[i], x)}
         asks == {[kind |-> IF task_list[i].iconified THEN "map" ELSE "iconify",
                   win |-> task_list[i].win] :
                    i \in {j \in hits : task_list[j].iconified \/ task_list[j].focused}}
     IN  /\ task_list' = [i \in DOMAIN task_list |->
              IF i \in hits THEN Drawn(Pressed(task_list[i])) ELSE task_list[i]]
         /\ requests' = requests \o SetToSeq(asks)
         /\ events' = Tail(events)
  /\ UNCHANGED <<alive, fresh, clientList, desktop, desk, iconic, title, hints, focus, selected,
                 pixmaps, num_tasks, my_desktop, pc, new_desk, focus_win, todo, ghosts, acts>>

\* Every other task loses its focus mark.  XMapWindow and XIconifyWindow go to
\* the window manager, XSetInputFocus to the server, which refuses it for a
\* window that is not mapped.  (TasksLaidOut: a press hits at most one task.)
PressTasks ==
  /\ idleWith("press") /\ Head(events).on = "tasks"
  /\ LET x    == Head(events).at
         hits == {i \in DOMAIN task_list : Hit(task_list[i], x)}
         asks == {[kind |-> IF task_list[i].iconified THEN "map" ELSE "iconify",
                   win |-> task_list[i].win] :
                    i \in {j \in hits : task_list[j].iconified \/ task_list[j].focused}}
         focusing == {task_list[i].win : i \in {j \in hits : ~task_list[j].iconified
                                                            /\ ~task_list[j].focused}}
         takers == {w \in focusing \cap alive : ~iconic[w]}
     IN  /\ task_list' = [i \in DOMAIN task_list |->
              IF i \in hits THEN Drawn(Pressed(task_list[i]))
              ELSE IF task_list[i].focused THEN Drawn([task_list[i] EXCEPT !.focused = FALSE])
              ELSE task_list[i]]
         /\ requests' = requests \o SetToSeq(asks)
         /\ \/ takers = {} /\ UNCHANGED focus /\ events' = Tail(events)
            \/ \E w \in takers : focus' = w /\ events' = FocusEvents(w, Tail(events))
  /\ UNCHANGED <<alive, fresh, clientList, desktop, desk, iconic, title, hints, selected, pixmaps,
                 num_tasks, my_desktop, pc, new_desk, focus_win, todo, ghosts, acts>>

-----------------------------------------------------------------------------
PanelStep ==
  \/ ReadDesktop \/ ReadList \/ LookAt \/ SelectInput
  \/ HandleDestroy \/ HandleExpose \/ HandleFocusIn \/ HandleProperty
  \/ SwitchDesk \/ PressGrill \/ PressTasks

WmStep == ManagePanel \/ WmStart \/ WmHandle \/ \E w \in Windows : Unmanage(w)

Environment ==
  \/ \E w \in Windows : \/ Manage(w) \/ Destroy(w) \/ MoveToDesktop(w) \/ ToggleIconic(w)
                        \/ Retitle(w) \/ SetHints(w) \/ MoveFocus(w)
  \/ WmExit \/ SwitchDesktop \/ Expose \/ Press

Next == PanelStep \/ WmStep \/ Environment

Spec == Init /\ [][Next]_vars

-----------------------------------------------------------------------------
(* Properties.                                                             *)

\* Nothing is under way: no event, no request, and the window manager has
\* brought its list up to date.
Quiet ==
  /\ pc = "idle" /\ events = <<>> /\ requests = <<>>
  /\ clientList # <<None>> /\ ToSet(clientList) = alive

\* At most one task has the focus mark, between any two events and between any two
\* reads of a refresh: handle_press, handle_focusin, taskbar_read_clientlist and
\* add_task each set focused on their own account.  And no window has two tasks.
\* (Inside handle_press two are pressed in on the screen for a moment: it draws the
\* task that was hit before it reaches later ones that lose the mark.)
AtMostOneFocused ==
  /\ Cardinality({i \in DOMAIN task_list : task_list[i].focused}) =< 1
  /\ \A i, j \in DOMAIN task_list : task_list[i].win = task_list[j].win => i = j

\* Once everything has settled the bar shows the windows of the current
\* desktop, dead ones excluded, however the reads of one refresh were
\* interleaved with later changes.  Two kinds of staleness are the code's own:
\* a window that changed desktop since add_task looked at it (its
\* _NET_WM_DESKTOP events are ignored), and a desktop change that was noticed
\* while there was no client list, after which nothing is taken off the list.
TasksFollowClients ==
  Quiet /\ ~skipped =>
    /\ my_desktop = desktop
    /\ \A w \in Windows \ moved :
         (find_task(w) # {}) <=> (w \in alive /\ is_visible_on_desktop(w, desktop))
    /\ \A i \in DOMAIN task_list : task_list[i].win \in alive

\* Once everything has settled the name and the iconified mark of every task
\* are those of the window, although handle_press sets the mark before the
\* window manager has acted and events arrive late; but for windows that
\* changed between add_task's reads and its XSelectInput.  The window manager
\* is one that does what it is asked (WmHandle).
MarksFollowWindows ==
  Quiet =>
    \A i \in DOMAIN task_list :
      LET tk == task_list[i] IN
      tk.win \in alive \ missed =>
        tk.iconified = iconic[tk.win] /\ tk.name = title[tk.win]

\* Once everything has settled what is on the screen is what the list says:
\* every handler draws what it changed.
ScreenFollowsList ==
  Quiet => \A i \in DOMAIN task_list :
             task_list[i].name # None => task_list[i].drawn = LookOf(task_list[i])

\* The pixmaps the panel holds are exactly the copies its tasks own: none is
\* lost when a task is deleted, replaced or given an icon late, none is freed
\* that belongs to the client or to every task (generic_icon).
PixmapsOwned ==
  /\ pixmaps = Held(task_list, DOMAIN task_list)
  /\ \A i \in DOMAIN task_list :
       task_list[i].icon_copied => /\ task_list[i].icon = "copy"
                                   /\ task_list[i].mask \in {"none", "copy"}

\* Between two events the tasks lie side by side in the task area, so that a
\* press, whenever it is handled, hits at most one; num_tasks, from which the
\* width is computed, counts the list.
TasksLaidOut ==
  pc = "idle" =>
    /\ num_tasks = Len(task_list)
    /\ \A i \in DOMAIN task_list :
         /\ task_list[i].pos_x >= BarStart
         /\ task_list[i].pos_x + task_list[i].width =< BarStart + BarWidth
         /\ i > 1 => task_list[i - 1].pos_x + task_list[i - 1].width < task_list[i].pos_x
=============================================================================
