------------------------------- MODULE Reloader -------------------------------
(***************************************************************************)
(* The firewall reloader, core/modules/iptables-helper: the service script  *)
(* iptables-reloader watches rules.d with inotifyd, and every event runs     *)
(* iptables-reloader-worker, which starts a reload in the background unless *)
(* the LOCK directory says that one is about to start.  A reload sleeps,     *)
(* waits for its predecessor with the WAIT directory, for five seconds at    *)
(* most, gives up LOCK, compares the rule files with the cache of what was   *)
(* applied last, and if they differ flushes the chains and runs the files    *)
(* again.                                                                   *)
(*                                                                         *)
(* A rule file is its content; contents are opaque and not empty.  Running a *)
(* file first patches it in place (sed -i), and moves it away if it fails or *)
(* is not executable: both raise new events.  Patching a patched file may    *)
(* change it again: every run of sed puts one more -w behind iptables.  Each *)
(* of the three loops over the files goes through the names the shell found  *)
(* when it expanded rules.d/* at the beginning of the loop.  The chains hold *)
(* the contents applied since the last flush, in full or, of a file that     *)
(* failed, in part.  The service may be killed at any point and is started   *)
(* again; chains, rule files and the WAIT directory survive it.              *)
(*                                                                         *)
(* There are three ways in which a change of rules.d is lost.  The history   *)
(* variable lapse names the one that happened last until a reload flushes    *)
(* the chains with no other at work; an overlap outweighs the others:        *)
(*   "late"     a file changed after a reload had run it, or had expanded    *)
(*              the names without it, and before it was read for the cache;  *)
(*   "overlap"  a reload began while another was at work;                    *)
(*   "emptied"  no rule file was left for the cache, and the old one stayed. *)
(***************************************************************************)
EXTENDS Naturals, Sequences, FiniteSets

CONSTANTS
  NumFiles,       \* rule files, in the order of the shell's glob
  Contents,       \* what a rule file can contain
  Patch,          \* content -> what sed makes of it
  Bad,            \* contents that fail or lack the x bit
  Absent,         \* no such file
  Reloads,        \* reload processes
  Shipped,        \* what rules.d may hold at boot
  MaxEvents,      \* bound: events that wait for inotifyd
  MaxActs         \* bound: edits and crashes; a reload that outlasts the wait of
                  \* the next one counts as two

ASSUME ReloaderAssumption ==
  /\ NumFiles \in Nat \ {0} /\ Absent \notin Contents /\ Bad \subseteq Contents
  /\ Patch \in [Contents -> Contents]
  /\ \A c \in Contents : Patch[c] \in Bad <=> c \in Bad
  /\ Shipped \subseteq [1 .. NumFiles -> Contents \cup {Absent}]
  /\ MaxEvents \in Nat \ {0} /\ MaxActs \in Nat

Files == 1 .. NumFiles

VARIABLES
  rules,      \* file -> content
  chains,     \* contents in the ipt-helper chains, in order
  cache,      \* /run/iptables-reloader.cache, <<>> when missing or empty
  new,        \* ... .cache.new
  lock,       \* the LOCK directory exists
  wait,       \* the WAIT directory exists
  up,         \* the service runs: inotifyd watches
  events,     \* events inotifyd has not run the worker for
  pc,         \* reload -> where it is
  todo,       \* reload -> the names its loop has still to go through
  acts,       \* edits, crashes and overruns so far
  overrun,    \* history: a reload has given up waiting for one at work
  lapse,      \* history: what went wrong since the last lone flush
  unread      \* history: rules.d changed since a reload last gave up LOCK

vars == <<rules, chains, cache, new, lock, wait, up, events, pc, todo, acts,
          overrun, lapse, unread>>

Running == {"collect", "apply", "run", "rebuild"}

TypeOK ==
  /\ rules \in [Files -> Contents \cup {Absent}]
  /\ chains \in Seq(Contents) /\ cache \in Seq(Contents) /\ new \in Seq(Contents)
  /\ lock \in BOOLEAN /\ wait \in BOOLEAN /\ up \in BOOLEAN
  /\ events \in 0 .. MaxEvents
  /\ pc \in [Reloads -> {"none", "sleep", "wait"} \cup Running]
  /\ todo \in [Reloads -> SUBSET Files]
  /\ acts \in 0 .. MaxActs /\ overrun \in BOOLEAN
  /\ lapse \in {"none", "late", "overlap", "emptied"} /\ unread \in BOOLEAN

\* At boot the rule files of the image are there, nothing is applied.
Init ==
  /\ rules \in Shipped
  /\ chains = <<>> /\ cache = <<>> /\ new = <<>>
  /\ lock = FALSE /\ wait = FALSE /\ up = FALSE /\ events = 0
  /\ pc = [r \in Reloads |-> "none"] /\ todo = [r \in Reloads |-> {}]
  /\ acts = 0 /\ overrun = FALSE /\ lapse = "none" /\ unread = FALSE

-----------------------------------------------------------------------------
(* Events, the worker and the service.                                     *)

\* rules.d changes; without inotifyd nobody sees the event.
Raise ==
  /\ events' = IF up /\ events < MaxEvents THEN events + 1 ELSE events
  /\ unread' = TRUE

\* iptables-reloader-worker: one reload at a time is about to start.
Spawn(r) == pc' = [pc EXCEPT ![r] = "sleep"] /\ lock' = TRUE

Worker ==
  /\ up /\ events > 0
  /\ events' = events - 1
  /\ IF lock THEN UNCHANGED <<pc, lock>>
     ELSE \E r \in Reloads : pc[r] = "none" /\ Spawn(r)
  /\ UNCHANGED <<rules, chains, cache, new, wait, up, todo, acts, overrun, lapse, unread>>

\* Plausible bug: the cache of an earlier run stays.
StartKeepsCache ==
  /\ ~up
  /\ \E r \in Reloads : pc[r] = "none" /\ Spawn(r)
  /\ up' = TRUE
  /\ UNCHANGED <<rules, chains, cache, new, wait, events, todo, acts, overrun, lapse, unread>>

\* iptables-reloader: removes cache and LOCK of an earlier run, not WAIT, runs
\* the worker once and becomes inotifyd.  The reload sleeps longer than that
\* takes.
Start ==
  /\ ~up
  /\ cache' = <<>>
  /\ \E r \in Reloads : pc[r] = "none" /\ Spawn(r)
  /\ up' = TRUE
  /\ UNCHANGED <<rules, chains, new, wait, events, todo, acts, overrun, lapse, unread>>

\* The service and its reloads are killed.
Crash ==
  /\ up /\ acts < MaxActs /\ acts' = acts + 1
  /\ up' = FALSE /\ events' = 0
  /\ pc' = [r \in Reloads |-> "none"] /\ todo' = [r \in Reloads |-> {}]
  /\ UNCHANGED <<rules, chains, cache, new, lock, wait, overrun, lapse, unread>>

\* f is the name reload r comes to next.
First(r, f) == f \in todo[r] /\ \A g \in todo[r] : f =< g

\* A reload will not run file f any more, or is just running it, and has not yet
\* read it for the cache.
RunNotCached(f) ==
  \E r \in Reloads : \/ pc[r] \in {"apply", "run"} /\ f \notin todo[r]
                     \/ pc[r] = "run" /\ First(r, f)
                     \/ pc[r] = "rebuild" /\ f \in todo[r]

\* Somebody adds, changes or removes a rule file.
Edit(f) ==
  /\ acts < MaxActs /\ acts' = acts + 1
  /\ \E c \in (Contents \cup {Absent}) \ {rules[f]} : rules' = [rules EXCEPT ![f] = c]
  /\ lapse' = IF RunNotCached(f) /\ lapse # "overlap" THEN "late" ELSE lapse
  /\ Raise
  /\ UNCHANGED <<chains, cache, new, lock, wait, up, pc, todo, overrun>>

-----------------------------------------------------------------------------
(* reload_rules.                                                           *)

\* rules.d/*, expanded: the names that are there now.
Glob == {f \in Files : rules[f] # Absent}

Goto(r, l, names) == pc' = [pc EXCEPT ![r] = l] /\ todo' = [todo EXCEPT ![r] = names]

OtherAtWork(r) == \E q \in Reloads \ {r} : pc[q] \in Running

WakeUp(r) ==
  /\ pc[r] = "sleep" /\ Goto(r, "wait", {})
  /\ UNCHANGED <<rules, chains, cache, new, lock, wait, up, events, acts, overrun, lapse, unread>>

\* Plausible bug: LOCK stays until the reload is over.
BeginLocked(r) ==
  /\ wait' = TRUE
  /\ new' = <<>>
  /\ Goto(r, "collect", Glob)
  /\ lapse' = IF OtherAtWork(r) THEN "overlap" ELSE lapse
  /\ unread' = FALSE
  /\ UNCHANGED <<rules, chains, cache, lock, up, events>>

\* The wait is over: from here on a new event starts a new reload.
Begin(r) ==
  /\ wait' = TRUE
  /\ lock' = FALSE
  /\ new' = <<>>
  /\ Goto(r, "collect", Glob)
  /\ lapse' = IF OtherAtWork(r) THEN "overlap" ELSE lapse
  /\ unread' = FALSE
  /\ UNCHANGED <<rules, chains, cache, up, events>>

TakeWait(r) == pc[r] = "wait" /\ ~wait /\ Begin(r) /\ UNCHANGED <<acts, overrun>>

\* After five attempts it goes on without WAIT, whether WAIT was left behind by a
\* killed reload or another one is still at work.
GiveUpWaiting(r) ==
  /\ pc[r] = "wait" /\ wait
  /\ IF OtherAtWork(r) THEN acts + 2 =< MaxActs /\ acts' = acts + 2 /\ overrun' = TRUE
     ELSE UNCHANGED <<acts, overrun>>
  /\ Begin(r)

\* Plausible bug: a file that is gone is not passed over.
ContentUnchecked(f) == <<rules[f]>>

Content(f) == IF rules[f] = Absent THEN <<>> ELSE <<rules[f]>>

\* The loop over the files that appends them to .cache.new, before and after.
Collect(r) ==
  /\ pc[r] \in {"collect", "rebuild"}
  /\ \E f \in todo[r] :
       /\ First(r, f)
       /\ new' = new \o Content(f)
       /\ todo' = [todo EXCEPT ![r] = @ \ {f}]
  /\ UNCHANGED <<rules, chains, cache, lock, wait, up, events, pc, acts, overrun, lapse, unread>>

\* The same as last time: nothing to do.
NoChange(r) ==
  /\ pc[r] = "collect" /\ todo[r] = {}
  /\ cache # <<>> /\ new = cache
  /\ new' = <<>> /\ wait' = FALSE
  /\ Goto(r, "none", {})
  /\ UNCHANGED <<rules, chains, cache, lock, up, events, acts, overrun, lapse, unread>>

Flush(r) ==
  /\ pc[r] = "collect" /\ todo[r] = {}
  /\ cache = <<>> \/ new # cache
  /\ chains' = <<>>
  /\ Goto(r, "apply", Glob)
  /\ lapse' = IF OtherAtWork(r) THEN lapse ELSE "none"
  /\ UNCHANGED <<rules, cache, new, lock, wait, up, events, acts, overrun, unread>>

\* A file is moved to disabled/.
Disable(f) == rules' = [rules EXCEPT ![f] = Absent] /\ Raise

\* The loop that runs the files comes to a file: one that is gone is passed over,
\* one without the x bit goes to disabled/, another is patched.
Sed(r) ==
  /\ pc[r] = "apply"
  /\ \E f \in todo[r] :
       /\ First(r, f)
       /\ \/ /\ rules[f] = Absent
             /\ Goto(r, "apply", todo[r] \ {f})
             /\ UNCHANGED <<rules, events, unread>>
          \/ /\ rules[f] \in Bad
             /\ Disable(f)
             /\ Goto(r, "apply", todo[r] \ {f})
          \/ /\ rules[f] \in Contents
             /\ rules' = [rules EXCEPT ![f] = Patch[rules[f]]]
             /\ Raise
             /\ Goto(r, "run", todo[r])
  /\ UNCHANGED <<chains, cache, new, lock, wait, up, acts, overrun, lapse>>

\* The file is run as it is now; one that fails goes to disabled/, what it has
\* done by then stays.
Run(r) ==
  /\ pc[r] = "run"
  /\ \E f \in todo[r] :
       /\ First(r, f)
       /\ Goto(r, "apply", todo[r] \ {f})
       /\ \/ /\ rules[f] = Absent
             /\ UNCHANGED <<rules, chains, events, unread>>
          \/ /\ rules[f] \in Bad
             /\ chains' \in {chains, Append(chains, rules[f])}
             /\ Disable(f)
          \/ /\ rules[f] \in Contents \ Bad
             /\ chains' = Append(chains, rules[f])
             /\ UNCHANGED <<rules, events, unread>>
  /\ UNCHANGED <<cache, new, lock, wait, up, acts, overrun, lapse>>

\* Plausible bug: WAIT is given up before the cache is rebuilt.
RebuildUnlocked(r) ==
  /\ pc[r] = "apply" /\ todo[r] = {}
  /\ new' = <<>>
  /\ wait' = FALSE
  /\ Goto(r, "rebuild", Glob)
  /\ UNCHANGED <<rules, chains, cache, lock, up, events, acts, overrun, lapse, unread>>

\* Plausible bug: the file from above is just moved.
RebuildOmitted(r) ==
  /\ pc[r] = "apply" /\ todo[r] = {}
  /\ Goto(r, "rebuild", {})
  /\ UNCHANGED <<rules, chains, cache, new, lock, wait, up, events, acts, overrun, lapse, unread>>

\* The default rules are added; the cache is built anew, "as we sed'ed above".
Rebuild(r) ==
  /\ pc[r] = "apply" /\ todo[r] = {}
  /\ new' = <<>>
  /\ Goto(r, "rebuild", Glob)
  /\ UNCHANGED <<rules, chains, cache, lock, wait, up, events, acts, overrun, lapse, unread>>

\* mv of a .cache.new that no file was appended to fails: the cache stays.
Publish(r) ==
  /\ pc[r] = "rebuild" /\ todo[r] = {}
  /\ cache' = IF new = <<>> THEN cache ELSE new
  /\ lapse' = IF new = <<>> /\ cache # <<>> /\ lapse # "overlap" THEN "emptied" ELSE lapse
  /\ new' = <<>>
  /\ wait' = FALSE
  /\ Goto(r, "none", {})
  /\ UNCHANGED <<rules, chains, lock, up, events, acts, overrun, unread>>

-----------------------------------------------------------------------------
Reload(r) ==
  \/ WakeUp(r) \/ TakeWait(r) \/ GiveUpWaiting(r) \/ Collect(r) \/ NoChange(r)
  \/ Flush(r) \/ Sed(r) \/ Run(r) \/ Rebuild(r) \/ Publish(r)

Next ==
  \/ Worker \/ Start \/ Crash
  \/ \E f \in Files : Edit(f)
  \/ \E r \in Reloads : Reload(r)

\* inotifyd runs the worker for every event, systemd starts the service, and
\* every reload goes on; nobody has to edit a file or to kill the service.
Fairness == WF_vars(Worker) /\ WF_vars(Start) /\ \A r \in Reloads : WF_vars(Reload(r))

Spec == Init /\ [][Next]_vars /\ Fairness

-----------------------------------------------------------------------------
(* Properties.                                                             *)

Active == {r \in Reloads : pc[r] \in Running}

\* As long as no reload has given up waiting for one at work (lines 17-21), two
\* reloads never work on the chains and on the shared .cache.new at the same
\* time, across crashes that leave WAIT behind.  Once one has, each that ends
\* removes the WAIT directory of the other (line 123), and they may meet again
\* without anybody giving up.
OneReloadAtATime == ~overrun => Cardinality(Active) =< 1

\* Every change of rules.d, also one that a reload makes itself, is read by a
\* reload: while the service runs and no reload has begun to read since, an
\* event waits for inotifyd or a reload is about to start.  This holds however
\* long reloads take and across crashes; LOCK has to go before the files are
\* read (line 22).
EveryChangeRead ==
  up /\ unread => events > 0 \/ \E r \in Reloads : pc[r] \in {"sleep", "wait"}

\* The entries 1 .. n of g that are not Absent, in order.
Joined(g, n) ==
  LET w[i \in 0 .. n] == IF i = 0 THEN <<>>
                         ELSE w[i - 1] \o (IF g[i] = Absent THEN <<>> ELSE <<g[i]>>)
  IN  w[n]

\* The files that are there, in order.
Wanted == Joined(rules, NumFiles)

\* The chains without what is left of files that failed.
Working ==
  Joined([i \in 1 .. Len(chains) |-> IF chains[i] \in Bad THEN Absent ELSE chains[i]], Len(chains))

\* The chains hold the files of rules.d, but for what is left of files that
\* failed: nothing flushes the chains after such a file was moved away, because
\* the cache is built without it and the next reload finds no change.
Applied == Working = Wanted

\* Nothing is under way.
Quiet == events = 0 /\ \A r \in Reloads : pc[r] = "none"

\* No change of rules.d is lost in any other way than the three that lapse
\* names: when nothing is under way the chains hold what the files say.
NoChangeLost == up /\ Quiet /\ lapse = "none" => Applied

\* When the edits end the events that the reloads raise themselves come to an
\* end, and the chains hold the files of rules.d for good but for the three ways
\* of lapse; unless reloads run into each other again and again, as they may
\* without end once one has overrun.
RulesApplied ==
  []<>(Cardinality(Active) > 1) \/ <>[](Quiet /\ (lapse = "none" => Applied))

\* "Reloads iptables rules by flushing the tables and applying everything in
\* rules.d again" (lines 3-4), when the worst that happened since the chains were
\* last flushed is that a file changed late: the chains come to hold the files.
LateChangesApplied == <>[](lapse \in {"none", "late"} => Applied)
=============================================================================
