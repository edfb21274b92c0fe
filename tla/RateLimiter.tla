----------------------------- MODULE RateLimiter -----------------------------
(***************************************************************************)
(* The rate limiter of the kernel log watcher,                             *)
(* core/modules/kmsgwatch/src/kmsgwatch.go.  Every line of /dev/kmsg that   *)
(* matches a -match expression becomes a message; allow() decides whether   *)
(* it is posted.  It keeps the last 100 posted messages in a ring, indexed  *)
(* by the number of messages accepted so far.                               *)
(*                                                                         *)
(* The scanner loop is the only caller of allow(), so that one call is one  *)
(* step.  Time is counted in ticks; Go compares the monotonic readings of   *)
(* time.Now(), which never run backwards but may stand still between two    *)
(* calls.  A slot that was never used holds the zero time.Time, which lies  *)
(* before every window: here time 0, with the clock starting after Window.  *)
(***************************************************************************)
EXTENDS Integers, Sequences, FiniteSets

CONSTANTS
  Msgs,       \* the messages the expressions can produce
  Slots,      \* length of the ring (100)
  Window,     \* the window in ticks (900 seconds)
  Looks,      \* how many slots the duplicate check looks at (5)
  MaxSent,    \* bound: messages accepted
  MaxTime     \* bound: the clock

ASSUME RateLimiterAssumption ==
  /\ Slots \in Nat \ {0} /\ Window \in Nat \ {0}
  /\ Looks \in 1 .. Slots /\ MaxSent \in Nat /\ MaxTime \in Nat

CONSTANT NoMsg        \* the empty string of an unused slot
ASSUME NoMsgAssumption == NoMsg \notin Msgs

VARIABLES
  history,    \* the ring: slot -> the message and when it was accepted
  count,      \* messages ever accepted
  now,        \* the clock
  verdict,    \* what the last call of allow did: "sent", "rate" or "dup"
  sent        \* history variable: every accepted message, in order

vars == <<history, count, now, verdict, sent>>

Entry == [msg : Msgs \cup {NoMsg}, at : Nat]

TypeOK ==
  /\ history \in [0 .. Slots - 1 -> Entry]
  /\ count \in Nat
  /\ now \in Nat
  /\ verdict \in {"none", "sent", "rate", "dup"}
  /\ sent \in Seq(Entry)

Init ==
  /\ history = [s \in 0 .. Slots - 1 |-> [msg |-> NoMsg, at |-> 0]]
  /\ count = 0
  /\ now = Window + 1
  /\ verdict = "none"
  /\ sent = <<>>

-----------------------------------------------------------------------------
(* allow(): the two checks and the record.                                 *)

\* Plausible bugs: a window one tick too short; the slot after the next one.
LimitReachedEarly == history[count % Slots].at > now - (Window - 1)
LimitReachedNextSlot == history[(count + 1) % Slots].at > now - Window

\* The slot the next message goes to holds the oldest of the last Slots
\* messages: as long as that one is inside the window the limit is reached.
LimitReached == history[count % Slots].at > now - Window

\* Plausible bug: one slot fewer.
LookedShort == {(count + Slots - i) % Slots : i \in 0 .. Looks - 2}

\* The slots the duplicate check looks at: from the one that is about to be
\* overwritten backwards.
Looked == {(count + Slots - i) % Slots : i \in 0 .. Looks - 1}

Repeats(m) ==
  Cardinality({s \in Looked : history[s].at >= now - Window /\ history[s].msg = m})

DropLimited(m) ==
  /\ LimitReached
  /\ verdict' = "rate"
  /\ UNCHANGED <<history, count, now, sent>>

DropDuplicate(m) ==
  /\ ~LimitReached
  /\ Repeats(m) >= 2
  /\ verdict' = "dup"
  /\ UNCHANGED <<history, count, now, sent>>

Accept(m) ==
  /\ count < MaxSent
  /\ ~LimitReached
  /\ Repeats(m) < 2
  /\ history' = [history EXCEPT ![count % Slots] = [msg |-> m, at |-> now]]
  /\ count' = count + 1
  /\ verdict' = "sent"
  /\ sent' = Append(sent, [msg |-> m, at |-> now])
  /\ UNCHANGED now

\* Time passes between two matching lines.
Tick ==
  /\ now < MaxTime
  /\ \E t \in now + 1 .. MaxTime : now' = t
  /\ verdict' = "none"
  /\ UNCHANGED <<history, count, sent>>

Next ==
  \/ \E m \in Msgs : DropLimited(m) \/ DropDuplicate(m) \/ Accept(m)
  \/ Tick

Spec == Init /\ [][Next]_vars

-----------------------------------------------------------------------------
(* Properties.                                                             *)

\* The first promise of the type's comment, "no more than 100 messages in any
\* 900-second window": of any Slots + 1 messages in a row the last was accepted
\* at least Window after the first, wherever the ring has wrapped.
AtMostSlotsPerWindow ==
  \A i \in 1 .. Len(sent) - Slots : sent[i + Slots].at - sent[i].at >= Window

\* What the code makes of the second promise: no message occurs three times
\* among any Looks messages in a row of which none is more than Window older
\* than the last.  The check starts at the slot to be overwritten and so sees
\* one message fewer than it counts; the new message is the fifth.
AtMostTwoInTheWindow ==
  \A j \in 1 .. Len(sent) :
    Cardinality({i \in 1 .. j : /\ i > j - Looks
                                /\ sent[i].msg = sent[j].msg
                                /\ sent[i].at >= sent[j].at - Window}) =< 2

\* The second promise of the type's comment as it is written, "a given message
\* may appear at most 2 times among the last 5 sent messages", whenever they were
\* sent.  The code passes over entries older than the window, so that it does not
\* hold of messages that come seldom.
AtMostTwoOfTheLast ==
  \A j \in 1 .. Len(sent) :
    Cardinality({i \in 1 .. j : i > j - Looks /\ sent[i].msg = sent[j].msg}) =< 2

\* allow() refuses with "100 msgs in 900s" only when that many were accepted
\* inside the window that ends now: no message is lost to a slot that was
\* filled by an older one.
RefusedOnlyWhenFull ==
  verdict = "rate" =>
    Cardinality({i \in 1 .. Len(sent) : sent[i].at > now - Window}) >= Slots
=============================================================================
