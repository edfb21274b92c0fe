------------------------------ MODULE Brightness ------------------------------
(***************************************************************************)
(* The brightness key daemon, core/modules/slx-brightness/src/main.c.  It   *)
(* opens the input devices that may have brightness keys, waits for them    *)
(* with epoll, reads struct input_event records and moves the value of the  *)
(* brightness file by one step within the limits of its command line.       *)
(*                                                                         *)
(* A device is a stream of bytes, a record Size of them.  A record may       *)
(* arrive in two parts, and read(2) may return any number of the bytes it   *)
(* was asked for, fail because the device is gone, or be interrupted:        *)
(* handle_fd provides for each.  The bytes of a record are pairs of its key *)
(* and their position, so that a record that was put together wrongly is    *)
(* seen.  Others write the brightness file too (a power manager).           *)
(***************************************************************************)
EXTENDS Integers, Sequences

CONSTANTS
  Ids,          \* 0 .. n: the numbers X of /dev/input/eventX that are in use
  MaxGap,       \* missing numbers in a row after which open_events stops (10)
  Denied,       \* the numbers of devices that exist and cannot be opened
  VideoBus,     \* the numbers of devices named "Video Bus"
  All,          \* -a: listen to every device
  Size,         \* bytes of a record (24)
  Min, Max, Steps,   \* the command line
  Levels,       \* values others may write to the brightness file
  MaxRecords,   \* bound: records the devices produce
  MaxFaults,    \* bound: interrupted reads, unplugged devices, failed writes
  None

ASSUME BrightnessAssumption ==
  /\ Ids \subseteq Nat /\ (Ids # {} => \E i \in Ids : \A j \in Ids : j =< i)
  /\ VideoBus \subseteq Ids /\ Denied \subseteq Ids /\ All \in BOOLEAN
  /\ MaxGap \in Nat \ {0} /\ Size \in Nat \ {0, 1}
  /\ Min \in Nat /\ Max \in Nat /\ Steps \in Nat \ {0} /\ Min < Max
  /\ Levels \subseteq Nat /\ MaxRecords \in Nat /\ MaxFaults \in Nat
  /\ None \notin Nat

\* The records: key down or repeat of a brightness key, anything else.
Keys == {"up", "down", "other"}

Byte == [key : Keys, pos : 1 .. Size]

VARIABLES
  plugged,      \* devices that exist
  listening,    \* file descriptors in the epoll set
  blocking,     \* device -> its descriptor is in blocking mode
  stream,       \* device -> bytes that wait to be read
  due,          \* device -> the rest of a record it has sent the beginning of
  pc,           \* "epoll", "read", "message", "level", "exit"
  fd,           \* the device handle_fd works on
  done,         \* bytes of the record that are in buf
  buf,          \* the record, position -> byte
  key, val,     \* the key and the brightness handle_message has read
  level,        \* content of the brightness file
  interrupted,  \* history: devices with an interrupted read
  wrong,        \* history: devices of which a wrong record was handled
  records, faults

device  == <<plugged, listening, blocking, stream, due>>
reader  == <<pc, fd, done, buf, key, val>>
history == <<interrupted, wrong>>
vars    == <<device, reader, level, history, records, faults>>

TypeOK ==
  /\ plugged \subseteq Ids /\ listening \subseteq Ids
  /\ blocking \in [Ids -> BOOLEAN]
  /\ stream \in [Ids -> Seq(Byte)] /\ due \in [Ids -> Seq(Byte)]
  /\ pc \in {"epoll", "read", "message", "level", "exit"}
  /\ fd \in Ids \cup {None}
  /\ done \in -MaxFaults .. Size - 1
  /\ buf \in [1 .. Size -> Byte \cup {None}]
  /\ key \in Keys /\ val \in Nat /\ level \in Nat
  /\ interrupted \subseteq Ids /\ wrong \subseteq Ids
  /\ records \in 0 .. MaxRecords /\ faults \in 0 .. MaxFaults

-----------------------------------------------------------------------------
(* open_events: the scan of /dev/input.                                    *)

MaxId == CHOOSE i \in Ids : \A j \in Ids : j =< i

\* Plausible bug: a device that is found does not end the gap.
FailsInTotal(devs) ==
  LET f[i \in -1 .. MaxId] ==
        IF i = -1 THEN 0
        ELSE IF f[i - 1] = MaxGap \/ i \in devs \cap Denied THEN MaxGap
        ELSE IF i \in devs THEN f[i - 1] ELSE f[i - 1] + 1
  IN  f

\* Number of missing devices in a row up to number i; the loop is left when
\* they are MaxGap, or at a device that cannot be opened, and stays left.
Fails(devs) ==
  LET f[i \in -1 .. MaxId] ==
        IF i = -1 THEN 0
        ELSE IF f[i - 1] = MaxGap \/ i \in devs \cap Denied THEN MaxGap
        ELSE IF i \in devs THEN 0 ELSE f[i - 1] + 1
  IN  f

\* The devices that are listened to.  A device whose name the ioctl does not give
\* or that epoll_ctl refuses is skipped like one that is not wanted, without
\* counting for the gap; such failures are left out.
open_events(devs) ==
  {i \in devs : Fails(devs)[i] # MaxGap /\ (All \/ i \in VideoBus)}

\* main(): without a device to listen to the program ends.
Init ==
  /\ plugged \in SUBSET Ids
  /\ listening = open_events(plugged)
  /\ pc = IF listening = {} THEN "exit" ELSE "epoll"
  /\ blocking = [d \in Ids |-> FALSE]
  /\ stream = [d \in Ids |-> <<>>] /\ due = [d \in Ids |-> <<>>]
  /\ fd = None /\ done = 0 /\ buf = [i \in 1 .. Size |-> None] /\ key = "other" /\ val = 0
  /\ level \in Levels
  /\ interrupted = {} /\ wrong = {}
  /\ records = 0 /\ faults = 0

-----------------------------------------------------------------------------
(* Devices and other writers of the brightness file (external).            *)

Fault == faults < MaxFaults /\ faults' = faults + 1

\* A record, or the first n bytes of it.
Produce(d, n) ==
  /\ records < MaxRecords /\ d \in plugged \cap listening /\ pc # "exit"
  /\ due[d] = <<>>
  /\ \E k \in Keys :
       LET rec == [i \in 1 .. Size |-> [key |-> k, pos |-> i]] IN
       /\ stream' = [stream EXCEPT ![d] = @ \o SubSeq(rec, 1, n)]
       /\ due' = [due EXCEPT ![d] = SubSeq(rec, n + 1, Size)]
  /\ records' = records + 1
  /\ UNCHANGED <<plugged, listening, blocking, reader, level, history, faults>>

Complete(d) ==
  /\ due[d] # <<>>
  /\ stream' = [stream EXCEPT ![d] = @ \o due[d]]
  /\ due' = [due EXCEPT ![d] = <<>>]
  /\ UNCHANGED <<plugged, listening, blocking, reader, level, history, records, faults>>

Unplug(d) ==
  /\ Fault /\ d \in plugged \cap listening /\ pc # "exit"
  /\ plugged' = plugged \ {d}
  /\ stream' = [stream EXCEPT ![d] = <<>>] /\ due' = [due EXCEPT ![d] = <<>>]
  /\ UNCHANGED <<listening, blocking, reader, level, history, records>>

OtherWrites ==
  /\ Fault /\ pc # "exit"
  /\ \E v \in Levels \ {level} : level' = v
  /\ UNCHANGED <<device, reader, history, records>>

-----------------------------------------------------------------------------
(* main() and handle_fd().                                                 *)

\* epoll_wait reports a device with something to read or to fail.
Wait(d) ==
  /\ pc = "epoll" /\ d \in listening
  /\ stream[d] # <<>> \/ d \notin plugged
  /\ pc' = "read" /\ fd' = d
  /\ done' = 0 /\ buf' = [i \in 1 .. Size |-> None]
  /\ UNCHANGED <<device, key, val, level, history, records, faults>>

\* handle_fd returns, the locals are gone.
Return ==
  /\ pc' = "epoll" /\ fd' = None
  /\ done' = 0 /\ buf' = [i \in 1 .. Size |-> None] /\ key' = "other" /\ val' = 0

\* Plausible bugs: done counts the last read of a record too; every read goes to the
\* start of buf; the descriptor stays non-blocking.
ReadCountsAll(n) ==
  /\ pc = "read" /\ fd \in plugged
  /\ n =< Len(stream[fd]) /\ n =< Size - done
  /\ buf' = [i \in 1 .. Size |-> IF i - done \in 1 .. n THEN stream[fd][i - done] ELSE buf[i]]
  /\ stream' = [stream EXCEPT ![fd] = SubSeq(@, n + 1, Len(@))]
  /\ done' = done + n
  /\ IF n + done = Size
     THEN pc' = "message" /\ UNCHANGED blocking
     ELSE blocking' = [blocking EXCEPT ![fd] = TRUE] /\ UNCHANGED pc
  /\ UNCHANGED <<plugged, listening, due, fd, key, val, level, history, records, faults>>

ReadToStart(n) ==
  /\ pc = "read" /\ fd \in plugged
  /\ n =< Len(stream[fd]) /\ n =< Size - done
  /\ buf' = [i \in 1 .. Size |-> IF i \in 1 .. n THEN stream[fd][i] ELSE buf[i]]
  /\ stream' = [stream EXCEPT ![fd] = SubSeq(@, n + 1, Len(@))]
  /\ IF n + done = Size
     THEN pc' = "message" /\ UNCHANGED <<done, blocking>>
     ELSE done' = done + n /\ blocking' = [blocking EXCEPT ![fd] = TRUE] /\ UNCHANGED pc
  /\ UNCHANGED <<plugged, listening, due, fd, key, val, level, history, records, faults>>

ReadNeverBlocks(n) ==
  /\ pc = "read" /\ fd \in plugged
  /\ n =< Len(stream[fd]) /\ n =< Size - done
  /\ buf' = [i \in 1 .. Size |-> IF i - done \in 1 .. n THEN stream[fd][i - done] ELSE buf[i]]
  /\ stream' = [stream EXCEPT ![fd] = SubSeq(@, n + 1, Len(@))]
  /\ IF n + done = Size THEN pc' = "message" /\ UNCHANGED done
     ELSE done' = done + n /\ UNCHANGED pc
  /\ UNCHANGED <<plugged, listening, blocking, due, fd, key, val, level, history, records, faults>>

\* read() yields n bytes.  They go to buf + done: with a negative done the
\* first of them lie outside the record.  A record that is not complete makes
\* the descriptor blocking.
Read(n) ==
  /\ pc = "read" /\ fd \in plugged
  /\ n =< Len(stream[fd]) /\ n =< Size - done
  /\ buf' = [i \in 1 .. Size |-> IF i - done \in 1 .. n THEN stream[fd][i - done] ELSE buf[i]]
  /\ stream' = [stream EXCEPT ![fd] = SubSeq(@, n + 1, Len(@))]
  /\ IF n + done = Size
     THEN pc' = "message" /\ UNCHANGED <<done, blocking>>
     ELSE done' = done + n /\ blocking' = [blocking EXCEPT ![fd] = TRUE] /\ UNCHANGED pc
  /\ UNCHANGED <<plugged, listening, due, fd, key, val, level, history, records, faults>>

\* read() is interrupted: the loop goes on, and -1 counts as a number of bytes.
ReadInterrupted ==
  /\ pc = "read" /\ fd \in plugged /\ Fault
  /\ done' = done - 1
  /\ blocking' = [blocking EXCEPT ![fd] = TRUE]
  /\ interrupted' = interrupted \cup {fd}
  /\ UNCHANGED <<plugged, listening, stream, due, pc, fd, buf, key, val, level, wrong, records>>

\* EAGAIN: the descriptor is empty.
ReadAgain ==
  /\ pc = "read" /\ fd \in plugged
  /\ stream[fd] = <<>> /\ ~blocking[fd]
  /\ Return
  /\ UNCHANGED <<device, level, history, records, faults>>

\* Any other error: main() removes the descriptor and closes it.
ReadGone ==
  /\ pc = "read" /\ fd \notin plugged
  /\ listening' = listening \ {fd}
  /\ Return
  /\ UNCHANGED <<plugged, blocking, stream, due, level, history, records, faults>>

-----------------------------------------------------------------------------
(* handle_message().                                                       *)

Whole(k) == \A i \in 1 .. Size : buf[i] = [key |-> k, pos |-> i]

\* What the record in buf looks like: its key, or anything when the bytes are
\* not those of one record.
Shown(k) == Whole(k) \/ \A j \in Keys : ~Whole(j)

Noted == wrong' = IF \E k \in Keys : Whole(k) THEN wrong ELSE wrong \cup {fd}

\* Plausible bug: the descriptor stays blocking.
NextRecordStaysBlocking ==
  /\ pc' = "read"
  /\ done' = 0
  /\ UNCHANGED blocking
  /\ key' = "other" /\ val' = 0 /\ buf' = [i \in 1 .. Size |-> None]

\* After handle_message: a record that took several reads ends blocking mode.
NextRecord ==
  /\ pc' = "read"
  /\ done' = 0
  /\ blocking' = IF done = 0 THEN blocking ELSE [blocking EXCEPT ![fd] = FALSE]
  /\ key' = "other" /\ val' = 0 /\ buf' = [i \in 1 .. Size |-> None]

\* Not a brightness key, or the brightness cannot be read.
Ignore ==
  /\ pc = "message" /\ Noted
  /\ \/ Shown("other") /\ UNCHANGED faults
     \/ (Shown("up") \/ Shown("down")) /\ Fault
  /\ NextRecord
  /\ UNCHANGED <<plugged, listening, stream, due, fd, level, interrupted, records>>

GetLevel ==
  /\ pc = "message" /\ Noted
  /\ \E k \in {"up", "down"} : Shown(k) /\ key' = k
  /\ val' = level
  /\ pc' = "level"
  /\ UNCHANGED <<device, fd, done, buf, level, interrupted, records, faults>>

\* Plausible bug: the step may be 0.
_stepUnchecked == (Max - Min) \div Steps

_step == LET s == (Max - Min) \div Steps IN IF s < 1 THEN 1 ELSE s

newval ==
  LET v == IF key = "up" THEN val + _step ELSE val - _step
  IN  IF v < Min THEN Min ELSE IF v > Max THEN Max ELSE v

\* The new value is written unless it is the old one; the write may fail.
PutLevel ==
  /\ pc = "level"
  /\ \/ level' = (IF newval = val THEN level ELSE newval) /\ UNCHANGED faults
     \/ newval # val /\ Fault /\ UNCHANGED level
  /\ NextRecord
  /\ UNCHANGED <<plugged, listening, stream, due, fd, history, records>>

-----------------------------------------------------------------------------
Program ==
  \/ \E d \in Ids : Wait(d)
  \/ \E n \in 1 .. Size + MaxFaults : Read(n)
  \/ ReadAgain \/ ReadGone \/ Ignore \/ GetLevel \/ PutLevel

Next ==
  \/ Program
  \/ ReadInterrupted
  \/ \E d \in Ids : Complete(d) \/ Unplug(d) \/ \E n \in 1 .. Size : Produce(d, n)
  \/ OtherWrites

\* The program runs whenever it can, and a device that has begun a record sends
\* the rest of it; signals and other writers owe nothing.
Spec == Init /\ [][Next]_vars /\ WF_vars(Program) /\ \A d \in Ids : WF_vars(Complete(d))

-----------------------------------------------------------------------------
(* Properties.                                                             *)

\* handle_message only sees records as the device sent them, however read()
\* cuts them up, until a read is interrupted.
RecordsWhole == wrong \subseteq interrupted

\* Whenever the program waits for all devices, no descriptor is left in
\* blocking mode, where the next handle_fd would wait for this device alone,
\* and what comes next from every device is the first byte of a record; `done'
\* is a local variable, a record begun could not be finished.  Interrupted reads
\* excepted.
ReadyForAll ==
  pc = "epoll" =>
    \A d \in listening \ interrupted :
      LET coming == stream[d] \o due[d] IN
      ~blocking[d] /\ (coming # <<>> => coming[1].pos = 1)

\* What a brightness key does when the write succeeds: the value stays within
\* the limits of the command line and moves at least by one towards the key's
\* end, even when there are more steps than values (main() forces a step of 1)
\* and when the value found lies outside the limits.
KeyMovesLevel ==
  [][pc = "level" /\ pc' = "read" /\ faults' = faults =>
       IF key = "up" THEN val < Max => level' > val /\ level' \in Min .. Max
                     ELSE val > Min => level' < val /\ level' \in Min .. Max]_vars

\* The devices open_events finds are those that neither a device that cannot be
\* opened nor MaxGap missing numbers in a row precede ("keep going for a bit, since for example unplugging a USB device
\* would leave a gap in the numbering").
ScanBridgesGaps ==
  records = 0 /\ faults = 0 =>
    listening = {i \in plugged : /\ All \/ i \in VideoBus
                                 /\ \A j \in plugged \cap Denied : i < j
                                 /\ ~\E s \in 0 .. i : /\ s + MaxGap =< i
                                                       /\ (s .. s + MaxGap - 1) \cap plugged = {}}

\* No device is forgotten: what it has sent is read in the end, unless a read
\* was interrupted.
EveryRecordRead ==
  \A d \in Ids : stream[d] # <<>> ~> stream[d] = <<>> \/ interrupted # {}
=============================================================================
