------------------------------ MODULE EventLog ------------------------------
(***************************************************************************)
(* The event logger (dzipc_log.cc): threads of the application put events  *)
(* into a bounded queue, a writer thread moves them into an in-memory      *)
(* chunk, and a rotation closes the bag file and opens the next one with   *)
(* the queue's mutex released.  start() and stop() are called by one       *)
(* thread of the application while the others go on recording.             *)
(*                                                                         *)
(* An event is its time stamp, taken before the mutex is.  A bag is the    *)
(* sequence of events in its chunk: a chunk is written only by a rotation  *)
(* or by stop(), each of which closes the file, so a file holds one.       *)
(* Record layouts, names and the containers' capacity are left out.        *)
(***************************************************************************)
EXTENDS Naturals, Sequences, SequencesExt

CONSTANTS
    Recorders,     \* threads that record events
    MaxQueue,      \* max_queue_
    MaxChunk,      \* events at which max_memory_ or max_file_size_ is reached
    Duration,      \* is max_duration_sec_ set
    Metas,         \* endpoints the info pool lists at start()
    Huge,          \* events whose payload does not fit 32 bits
    MaxEvents,     \* bound on events
    MaxStarts,     \* bound on start() calls
    Failures       \* may opening a file or starting the thread fail

VARIABLES
    running, queue, chunk,
    open,          \* out_.is_open()
    bags,          \* closed bag files, as sequences of events
    rotating,      \* rotation_in_progress_
    armed,         \* queue_rotation_armed_
    blocked,       \* queue_rearm_blocked_
    writer,        \* where the writer thread stands; "none": not joinable
    event,         \* the event it holds
    control,       \* where the thread that starts and stops stands
    stamped,       \* recorder -> the event it is about to queue, 0 if none
    clock,         \* last time stamp given
    starts,
    accepted,      \* history: events queued, in that order
    lost,          \* history: did a rotation fail to open its file
    calm           \* history: was the queue below the low watermark since
                   \* the last rotation

vars == <<running, queue, chunk, open, bags, rotating, armed, blocked, writer,
          event, control, stamped, clock, starts, accepted, lost, calm>>
fileVars == <<open, bags>>
callVars == <<control, stamped, clock, starts>>

low_watermark == IF MaxQueue < 2 THEN 1 ELSE MaxQueue \div 2
augmented_queue_cap == MaxQueue + MaxQueue \div 2

Largest(a, b) == IF a > b THEN a ELSE b

TypeOK ==
    /\ {running, open, rotating, armed, blocked, lost, calm} \subseteq BOOLEAN
    /\ queue \in Seq(1..MaxEvents)
    /\ Len(queue) <= Largest(Metas, MaxQueue + MaxQueue \div 2)
    /\ Len(chunk) <= MaxChunk
    /\ writer \in {"none", "check", "sleep", "serialize", "append", "finalize",
                   "reopen", "done"}
    /\ event \in 0..MaxEvents
    /\ control \in {"idle", "notify", "join", "finish"}
    /\ stamped \in [Recorders -> 0..MaxEvents]
    /\ clock \in 0..MaxEvents /\ starts \in 0..MaxStarts

Init ==
    /\ running = FALSE /\ queue = <<>> /\ chunk = <<>> /\ open = FALSE
    /\ bags = <<>> /\ rotating = FALSE /\ armed = FALSE /\ blocked = FALSE
    /\ writer = "none" /\ event = 0 /\ control = "idle"
    /\ stamped = [r \in Recorders |-> 0] /\ clock = 0 /\ starts = 0
    /\ accepted = <<>> /\ lost = FALSE /\ calm = TRUE

(* cv_.notify: the writer leaves its wait and looks at the condition again *)
Woken == IF writer = "sleep" THEN "check" ELSE writer

---------------------------------------------------------------------------
(* start(): refused while a writer is there to be joined.  The endpoints   *)
(* known are queued first, whatever the limit, and may arm the trigger.    *)

Started == [i \in 1..Metas |-> clock + i]

Start ==
    /\ control = "idle" /\ starts < MaxStarts
    /\ ~running /\ writer = "none"
    /\ clock + Metas <= MaxEvents
    /\ starts' = starts + 1
    /\ rotating' = FALSE /\ blocked' = FALSE /\ chunk' = <<>>
    /\ \/ /\ running' = TRUE /\ open' = TRUE /\ writer' = "check"
          /\ queue' = Started /\ accepted' = accepted \o Started
          /\ clock' = clock + Metas
          /\ armed' = (Metas >= MaxQueue)
          /\ calm' = TRUE
       \/ /\ Failures  \* the file cannot be opened, or the thread not started
          /\ running' = FALSE /\ queue' = <<>> /\ armed' = FALSE
          /\ UNCHANGED <<open, writer, accepted, clock, calm>>
    /\ UNCHANGED <<bags, event, control, stamped, lost>>

(* record(): running_ is read without the mutex and again with it          *)

RecordBegin(r) ==
    /\ stamped[r] = 0 /\ running /\ clock < MaxEvents
    /\ clock' = clock + 1
    /\ stamped' = [stamped EXCEPT ![r] = clock + 1]
    /\ UNCHANGED <<running, queue, chunk, fileVars, rotating, armed, blocked,
                   writer, event, control, starts, accepted, lost, calm>>

EffectiveMax ==
    IF armed \/ rotating \/ blocked THEN augmented_queue_cap ELSE MaxQueue

Arms == Len(queue) + 1 >= MaxQueue /\ ~blocked

RecordPush(r) ==
    /\ stamped[r] # 0
    /\ stamped' = [stamped EXCEPT ![r] = 0]
    /\ IF running /\ Len(queue) < EffectiveMax
         THEN /\ queue' = Append(queue, stamped[r])
              /\ accepted' = Append(accepted, stamped[r])
              /\ armed' = (armed \/ Arms)
              /\ writer' = Woken
         ELSE UNCHANGED <<queue, accepted, armed, writer>>
    /\ UNCHANGED <<running, chunk, fileVars, rotating, blocked, event,
                   control, clock, starts, lost, calm>>

---------------------------------------------------------------------------
(* The writer thread.  maybe_unblock_rearm_locked ends a turn with the     *)
(* mutex held; a turn that drops an event does not get there.              *)

(* wait_for_event_or_deadline and what writer_loop does with the answer    *)
TakeOrSleepOnStop ==
    /\ writer = "check"
    /\ \/ running /\ queue = <<>> /\ writer' = "sleep" /\ UNCHANGED <<event, queue, calm>>
       \/ ~running /\ writer' = "done" /\ UNCHANGED <<event, queue, calm>>
       \/ /\ running /\ queue # <<>>
          /\ event' = Head(queue) /\ queue' = Tail(queue)
          /\ calm' = (calm \/ Len(queue') < low_watermark)
          /\ writer' = "serialize"
    /\ UNCHANGED <<running, chunk, fileVars, rotating, armed, blocked, callVars,
                   accepted, lost>>
TakeOrSleep ==
    /\ writer = "check"
    /\ \/ running /\ queue = <<>> /\ writer' = "sleep" /\ UNCHANGED <<event, queue, calm>>
       \/ ~running /\ queue = <<>> /\ writer' = "done" /\ UNCHANGED <<event, queue, calm>>
       \/ /\ queue # <<>>
          /\ event' = Head(queue) /\ queue' = Tail(queue)
          /\ calm' = (calm \/ Len(queue') < low_watermark)
          /\ writer' = "serialize"
    /\ UNCHANGED <<running, chunk, fileVars, rotating, armed, blocked, callVars,
                   accepted, lost>>

(* cv_.wait_until returns at the deadline of a bag that has an event       *)
DeadlineReached ==
    /\ writer = "sleep" /\ Duration /\ chunk # <<>>
    /\ running /\ queue = <<>>
    /\ rotating' = TRUE
    /\ writer' = "finalize"
    /\ UNCHANGED <<running, queue, chunk, fileVars, armed, blocked, event,
                   callVars, accepted, lost, calm>>

(* serialize_event_to_msg_rec, without the mutex                           *)
Serialize ==
    /\ writer = "serialize"
    /\ IF event \in Huge
         THEN writer' = "check" /\ event' = 0
         ELSE writer' = "append" /\ UNCHANGED event
    /\ UNCHANGED <<running, queue, chunk, fileVars, rotating, armed, blocked,
                   callVars, accepted, lost, calm>>

(* should_rotate_locked, of a chunk c; the elapsed time is up or not       *)
ShouldRotate(c, timeUp) ==
    c # <<>> /\ (Len(c) >= MaxChunk \/ (Duration /\ timeUp) \/ armed)

Unblocked == blocked /\ Len(queue) >= low_watermark

AppendEvent(timeUp) ==
    LET c == Append(chunk, event) IN
    /\ writer = "append"
    /\ timeUp => Duration
    /\ chunk' = c /\ event' = 0
    /\ IF ShouldRotate(c, timeUp)
         THEN /\ rotating' = TRUE /\ writer' = "finalize"
              /\ UNCHANGED blocked
         ELSE /\ writer' = "check" /\ blocked' = Unblocked
              /\ UNCHANGED rotating
    /\ UNCHANGED <<running, queue, fileVars, armed, callVars, accepted, lost, calm>>

(* do_rotate, first part, without the mutex: finalize_current_bag flushes  *)
(* the chunk, writes the index and the header and closes the file          *)
Finalize ==
    /\ writer = "finalize"
    /\ bags' = Append(bags, chunk)
    /\ chunk' = <<>>
    /\ open' = FALSE
    /\ writer' = "reopen"
    /\ UNCHANGED <<running, queue, rotating, armed, blocked, event, callVars,
                   accepted, lost, calm>>

(* do_rotate, second part, with the mutex: the trigger is consumed, and    *)
(* not set again before the backlog is below the low watermark             *)
Reopen ==
    /\ writer = "reopen"
    /\ open' = TRUE
    /\ rotating' = FALSE /\ armed' = FALSE
    /\ blocked' = (Len(queue) >= low_watermark)
    /\ calm' = (Len(queue) < low_watermark)
    /\ writer' = "check"
    /\ UNCHANGED <<running, queue, chunk, bags, event, callVars, accepted, lost>>

ReopenFailed ==
    /\ Failures /\ writer = "reopen"
    /\ running' = FALSE
    /\ rotating' = FALSE /\ armed' = FALSE /\ blocked' = FALSE
    /\ queue' = <<>> /\ chunk' = <<>>
    /\ lost' = TRUE
    /\ writer' = "check"
    /\ UNCHANGED <<fileVars, event, callVars, accepted, calm>>

---------------------------------------------------------------------------
(* stop(): the flag under the mutex, the notification, the join, and the    *)
(* last bag                                                                 *)

StopBegin ==
    /\ control = "idle"
    /\ running' = FALSE
    /\ control' = "notify"
    /\ UNCHANGED <<queue, chunk, fileVars, rotating, armed, blocked, writer, event,
                   stamped, clock, starts, accepted, lost, calm>>

StopNotify ==
    /\ control = "notify"
    /\ writer' = Woken
    /\ control' = "join"
    /\ UNCHANGED <<running, queue, chunk, fileVars, rotating, armed, blocked,
                   event, stamped, clock, starts, accepted, lost, calm>>

StopJoin ==
    /\ control = "join" /\ writer \in {"none", "done"}
    /\ writer' = "none"
    /\ control' = "finish"
    /\ UNCHANGED <<running, queue, chunk, fileVars, rotating, armed, blocked,
                   event, stamped, clock, starts, accepted, lost, calm>>

StopFinish ==
    /\ control = "finish"
    /\ bags' = IF open THEN Append(bags, chunk) ELSE bags
    /\ open' = FALSE
    /\ armed' = FALSE /\ blocked' = FALSE /\ queue' = <<>> /\ chunk' = <<>>
    /\ control' = "idle"
    /\ UNCHANGED <<running, rotating, writer, event, stamped, clock, starts,
                   accepted, lost, calm>>

Writer ==
    \/ TakeOrSleep \/ DeadlineReached \/ Serialize
    \/ \E t \in BOOLEAN : AppendEvent(t)
    \/ Finalize \/ Reopen \/ ReopenFailed

Stop == StopNotify \/ StopJoin \/ StopFinish

Next ==
    \/ Start \/ StopBegin \/ Stop
    \/ \E r \in Recorders : RecordBegin(r) \/ RecordPush(r)
    \/ Writer

(* The threads run; nobody has to record, start or stop anything.           *)
Fairness == WF_vars(Writer) /\ WF_vars(Stop)

Spec == Init /\ [][Next]_vars /\ Fairness

---------------------------------------------------------------------------
\* The events of s that a record can hold
Writable(s) ==
    LET F[i \in 0 .. Len(s)] ==
            IF i = 0 THEN <<>>
            ELSE IF s[i] \in Huge THEN F[i - 1] ELSE Append(F[i - 1], s[i])
    IN  F[Len(s)]

(* NothingLost: when nothing is on its way and no rotation failed to open   *)
(* its file, the bags, one after the other, hold every event that was       *)
(* queued, once and in that order: none disappears in a rotation that runs  *)
(* without the mutex, and none that was accepted before stop() is dropped.  *)
NothingLost ==
    writer = "none" /\ control = "idle" /\ ~lost =>
        FlattenSeq(bags) = Writable(accepted)

(* OneRotationPerBacklog: outside a rotation the queue trigger is armed     *)
(* only if the backlog fell below the low watermark since the last          *)
(* rotation, so a queue that stays long does not give a bag per event.      *)
OneRotationPerBacklog == armed /\ ~rotating => calm

(* StopReturns: stop() comes back, whether the writer sleeps, holds an      *)
(* event, or is in the middle of a rotation that fails.                     *)
StopReturns == control # "idle" ~> control = "idle"

(* QueuedIsTaken: an event that was queued does not wait for ever.          *)
QueuedIsTaken ==
    \A e \in 1..MaxEvents :
        (\E i \in DOMAIN queue : queue[i] = e)
            ~> ~(\E i \in DOMAIN queue : queue[i] = e)
=============================================================================
