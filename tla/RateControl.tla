---------------------------- MODULE RateControl ----------------------------
(***************************************************************************)
(* The rate limit of a UDP node (src/dzIPC/common/data_rev.cc):            *)
(* effective_rate_bps seeds the node's state from the process-wide knob    *)
(* when a message starts, adapt_rate_dctcp moves it when the message ends, *)
(* by the share F of its pages that had to be sent again (0 .. Scale).     *)
(*                                                                         *)
(* The knob may be turned at any time, also while a message is under way.  *)
(* The arithmetic is the code's: integer division, truncation towards zero *)
(* in the moving average, rates of type size_t, which would wrap below 0.  *)
(***************************************************************************)
EXTENDS Integers

CONSTANTS
  Limits,          \* values of the knob, 0 (no limit) among them
  PageCounts,      \* page counts of messages
  Losses,          \* values of F that occur
  PageBytes,       \* UDP_MAX_SIZE
  TicksPerSecond,  \* 1000: times are in ticks
  SubscriberTm,    \* 50: the shortest receive deadline, in ticks
  Slack,           \* 20: the receiver's fixed allowance, in ticks
  FloorDivisor,    \* kRateFloorDivisor
  StepDivisor,     \* kRateRecoverStepDivisor
  MinPages,        \* kMinPagesForRateSignal
  GateAlpha,       \* kRateRecoverAlpha
  TauDelay,        \* DZIPC_TAU_DELAY_ROUNDS
  MaxTauDelay,     \* kMaxTauDelayRounds
  Scale            \* 256: F and alpha are in 1/Scale

Accuracy == 16     \* alpha_accum is in 1/16 of that

VARIABLES
  knob,     \* global_rate_limit_bps
  st,       \* RateLimitState of the node
  msg,      \* the message under way, or None
  healed,   \* history: from now on nothing is lost and the knob stays
  strayed   \* history: since the last seeding, a message ended under another limit

vars == <<knob, st, msg, healed, strayed>>

None == [pages |-> 0]

MaxOf(a, b) == IF a >= b THEN a ELSE b
LesserOf(a, b) == IF a <= b THEN a ELSE b
(* C++ division truncates towards zero. *)
Quot(a, b) == IF a >= 0 THEN a \div b ELSE -((-a) \div b)

(***************************************************************************)
(* The floors.                                                             *)
(***************************************************************************)
(* rate_limited_transit_ms at the knob's rate; 0 without a limit. *)
Transit(pages) == IF knob = 0 THEN 0 ELSE (pages * PageBytes * TicksPerSecond) \div knob

(* window_floor_bps: slower, and the receiver's deadline would pass. *)
WindowFloor(pages) ==
  LET deadline == MaxOf(SubscriberTm, Transit(pages) + Transit(pages) \div 2 + Slack)
  IN ((pages * PageBytes * TicksPerSecond * 3) \div 2) \div deadline

Floor(pages) == MaxOf(st.initial \div FloorDivisor, WindowFloor(pages))

IncStep == MaxOf(1, st.initial \div StepDivisor)

(***************************************************************************)
(* A message starts: effective_rate_bps.                                   *)
(***************************************************************************)
Seeded ==
  [st EXCEPT !.initial = knob, !.bps = knob, !.accum = 0, !.warned = FALSE]

(* The state is seeded again whenever the knob differs from the value it   *)
(* was seeded with; an explicit rate of the caller bypasses it. *)
StartMessage(pages, explicit) ==
  LET reseed == ~explicit /\ knob # 0 /\ st.initial # knob IN
  /\ msg = None
  /\ st' = IF reseed THEN Seeded ELSE st
  /\ msg' = [pages |-> pages]
  /\ strayed' = (strayed /\ ~reseed)
  /\ UNCHANGED <<knob, healed>>

(***************************************************************************)
(* A message ends: adapt_rate_dctcp.                                       *)
(***************************************************************************)
(* The experiment's delay line of F; not used when TauDelay is 0. *)
DelayedLoss(f) ==
  IF TauDelay = 0 THEN f
  ELSE st.delayed[(st.head + MaxTauDelay - TauDelay) % MaxTauDelay]

Delay(s, f) ==
  IF TauDelay = 0 THEN s
  ELSE [s EXCEPT !.delayed[st.head] = f, !.head = (@ + 1) % MaxTauDelay]

(* The average only rises. *)
AverageRises(f) == MaxOf(st.accum, st.accum + Quot(f * Accuracy - st.accum, 16))

(* alpha moves by 1/16 of its distance to F. *)
Average(f) == st.accum + Quot(f * Accuracy - st.accum, 16)

Alpha(accum) == accum \div Accuracy

(* alpha / 2 of the rate, rounded up. *)
Drop(bps, alpha) == (bps * alpha + 2 * Scale - 1) \div (2 * Scale)

(* Pages lost one here and one there count as alpha = 1. *)
EffectiveAlpha(accum, random) == IF random THEN 1 ELSE MaxOf(Alpha(accum), 1)

Raised(bps) == LesserOf(st.initial, bps + IncStep)

AfterLoss(f, random) ==
  LET accum == Average(f)
      low == MaxOf(Floor(msg.pages), st.bps - Drop(st.bps, EffectiveAlpha(accum, random)))
  IN [st EXCEPT !.accum = accum,
                !.bps = IF random THEN Raised(low) ELSE low,
                !.warned = @ \/ low = Floor(msg.pages)]

(* Small messages say nothing about room on the link. *)
AfterClean(clean, timeout) ==
  LET accum == Average(0) IN
  IF clean /\ msg.pages >= MinPages /\ Alpha(accum) <= GateAlpha
    THEN [st EXCEPT !.accum = accum, !.bps = Raised(@)]
    ELSE [st EXCEPT !.accum = accum,
                    !.warned = @ \/ (timeout /\ st.bps <= Floor(msg.pages))]

(* outcome: "acked", "timeout", or "integrity", which does not adapt.      *)
(* random: the runs of lost pages look like random loss. *)
EndMessage(f, random, outcome) ==
  LET late == DelayedLoss(f)
      adapted == IF late > 0 THEN AfterLoss(late, random)
                 ELSE AfterClean(outcome = "acked" /\ f = 0, outcome = "timeout")
  IN /\ msg # None
     /\ healed => outcome = "acked" /\ f = 0
     /\ random => f > 0
     /\ st' = IF st.bps = 0 \/ outcome = "integrity" THEN st ELSE Delay(adapted, f)
     /\ msg' = None
     /\ strayed' = (strayed \/ knob # st.initial)
     /\ UNCHANGED <<knob, healed>>

(* set_socket_rate_limit_bps, by any thread. *)
SetLimit(l) ==
  /\ ~healed /\ l # knob
  /\ knob' = l
  /\ UNCHANGED <<st, msg, healed, strayed>>

Heal ==
  /\ ~healed /\ msg = None /\ knob # 0
  /\ healed' = TRUE
  /\ UNCHANGED <<knob, st, msg, strayed>>

Init ==
  /\ knob \in Limits
  /\ st = [initial |-> 0, bps |-> 0, accum |-> 0, warned |-> FALSE, head |-> 0,
           delayed |-> [i \in 0..(MaxTauDelay - 1) |-> 0]]
  /\ msg = None
  /\ healed = FALSE /\ strayed = FALSE

Outcomes == {"acked", "timeout", "integrity"}

Next ==
  \/ \E p \in PageCounts, e \in BOOLEAN : StartMessage(p, e)
  \/ \E f \in Losses, random \in BOOLEAN, o \in Outcomes : EndMessage(f, random, o)
  \/ \E l \in Limits : SetLimit(l)
  \/ Heal

(* Messages that were started end; after Heal large ones keep coming. *)
Fairness ==
  /\ WF_vars(\E f \in Losses, random \in BOOLEAN, o \in Outcomes : EndMessage(f, random, o))
  /\ SF_vars(\E p \in PageCounts : p >= MinPages /\ StartMessage(p, FALSE))

Spec == Init /\ [][Next]_vars /\ Fairness

(***************************************************************************)
(* Properties.                                                             *)
(***************************************************************************)
TypeOK ==
  /\ knob \in Limits
  /\ st.initial \in Limits /\ st.bps \in Nat /\ st.accum \in 0..(Scale * Accuracy)
  /\ st.warned \in BOOLEAN /\ st.head \in 0..(MaxTauDelay - 1)
  /\ \A i \in DOMAIN st.delayed : st.delayed[i] \in Losses \cup {0}
  /\ healed \in BOOLEAN /\ strayed \in BOOLEAN

(* Whatever was lost so far and whatever comes next, the amount taken off  *)
(* the rate is not more than the rate: st.bps - drop, of type size_t, does *)
(* not wrap to an unlimited rate. *)
NoWrap == \A f \in Losses :
  st.bps > 0 => Drop(st.bps, EffectiveAlpha(Average(f), FALSE)) <= st.bps

(* The rate stays between the static floor and the limit it was seeded     *)
(* with, as long as messages end under that limit: otherwise the window    *)
(* floor is computed from another one. *)
RateWithinLimit ==
  (st.initial # 0 /\ ~strayed) => st.bps \in (st.initial \div FloorDivisor)..st.initial

(* Loss that is not taken for random slows the sender down, however small  *)
(* its share and however clean the past, until the floor is reached. *)
LossSlows ==
  [][\A f \in Losses, o \in Outcomes :
       (EndMessage(f, FALSE, o) /\ o # "integrity" /\ DelayedLoss(f) > 0 /\ st.bps > 0) =>
         st'.bps < st.bps \/ st'.bps = Floor(msg.pages)]_vars

(* Once the link is healthy the rate climbs back to the limit: alpha does  *)
(* not get stuck above the gate, nor the rate below the limit. *)
Recovers == healed ~> (st.bps = knob)
=============================================================================
