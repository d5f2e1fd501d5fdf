--------------------------- MODULE WitnessPlugin ---------------------------
(***************************************************************************)
(* When a node that runs the witness plugin makes a block: a task wakes up *)
(* every second, looks at the clock and at the chain, and goes back to     *)
(* sleep (libraries/plugins/witness/witness.cpp).  The task runs in the    *)
(* thread of the chain database and does not give way, but it may be       *)
(* started late and it takes its time; in between the node receives blocks *)
(* and switches forks.                                                     *)
(*                                                                         *)
(* clock and wake are in parts of a second; slots and the times of blocks  *)
(* are in seconds.                                                         *)
(***************************************************************************)
EXTENDS Integers, FiniteSets

CONSTANTS
  Second,              \* parts of a second, of which
  Margin,              \* so many are too short a sleep (50 ms)
  Interval,            \* BTCM_BLOCK_INTERVAL
  Own,                 \* slots of witnesses whose key the plugin has
  Keyless,             \* slots of its witnesses whose key it does not have
  MaxSecond,           \* bound on the clock
  PluginProfiles       \* see PluginProfile

\* How late the task may be started, and how long it may take.
PluginProfile == [late : Nat, work : Nat]

Half == Second \div 2

ASSUME WitnessPluginAssumption ==
  /\ {Second, Margin, Interval, MaxSecond} \subseteq Nat \ {0}
  /\ Second % 2 = 0 /\ Margin <= Half
  /\ Own \subseteq Nat /\ Keyless \subseteq Nat /\ Own \cap Keyless = {}
  /\ PluginProfiles \subseteq PluginProfile

VARIABLES
  pluginProfile,
  clock,
  wake,                \* when _block_production_task is due
  enabled,             \* _production_enabled
  head_time,           \* the time of the head block
  first,               \* the second in which the plugin was started
  outcome,             \* for each slot of this node, what the task came to
  signed,              \* for each second, the blocks this node made for it
  dropped              \* times of own blocks that a switch took off the chain

pluginVars == <<pluginProfile, clock, wake, enabled, head_time, first, outcome, signed, dropped>>

Seconds == 0 .. MaxSecond + 1
SlotTimes == {t \in Seconds : t % Interval = 0}
Mine(t) == t \div Interval \in Own
Others(t) == t \div Interval \notin Own \cup Keyless

\* The second that is nearest to a time.
Now(t) == (t + Half) \div Second

get_slot_time(slot) == (head_time \div Interval) * Interval + slot * Interval

get_slot_at_time(when) ==
  IF when < get_slot_time(1) THEN 0 ELSE (when - get_slot_time(1)) \div Interval + 1

-----------------------------------------------------------------------------
\* Mutant: the task sleeps for a second, however late it has become.
schedule_production_loop_Drift(now) == now + Second

\* The task is due at the next whole second, or the one after it.
schedule_production_loop(now) ==
  LET time_to_next_second == Second - (now % Second)
  IN  now + time_to_next_second + (IF time_to_next_second < Margin THEN Second ELSE 0)

\* What maybe_produce_block comes to in the second now; low says that too few
\* slots have been filled, fails that generate_block threw twice, the second
\* time without the pending transactions.
maybe_produce_block(now, low, fails) ==
  LET slot == get_slot_at_time(now)
      scheduled_time == get_slot_time(slot)
  IN  IF ~ enabled /\ get_slot_time(1) < now THEN "not_synced"
      ELSE IF slot = 0 THEN "not_time_yet"
      ELSE IF Others(scheduled_time) THEN "not_my_turn"
      ELSE IF ~ Mine(scheduled_time) THEN "no_private_key"
      ELSE IF low THEN "low_participation"
      ELSE IF scheduled_time # now THEN "lag"
      ELSE IF fails THEN "exception_producing_block" ELSE "produced"

\* The task runs: it sees the clock as it is at first, and sets its alarm by
\* what the clock says in the end.
block_production_loop(work, low, fails) ==
  LET now == Now(clock)
      result == maybe_produce_block(now, low, fails)
  IN  /\ clock >= wake
      /\ enabled' = (enabled \/ get_slot_time(1) >= now)
      /\ outcome' = [outcome EXCEPT ![now] = IF now % Interval = 0 /\ Mine(now) THEN result ELSE @]
      /\ signed' = [signed EXCEPT ![now] = IF result = "produced" THEN @ + 1 ELSE @]
      /\ head_time' = IF result = "produced" THEN now ELSE head_time
      /\ clock' = clock + work
      /\ wake' = schedule_production_loop(clock')
      /\ UNCHANGED <<pluginProfile, first, dropped>>

-----------------------------------------------------------------------------
(* Surroundings. *)

\* Time passes, and the task is not kept waiting for too long.
Pass ==
  /\ clock < wake + pluginProfile.late
  /\ clock' = clock + 1
  /\ UNCHANGED <<pluginProfile, wake, enabled, head_time, first, outcome, signed, dropped>>

\* Blocks of others come, as early as their clocks may be fast.
Arrived(t) == t * Second <= clock + Half

push_block(t) ==
  /\ t > head_time /\ Others(t) /\ Arrived(t)
  /\ head_time' = t
  /\ UNCHANGED <<pluginProfile, clock, wake, enabled, first, outcome, signed, dropped>>

\* A longer branch, which may end earlier.
switch_forks(t) ==
  /\ t < head_time /\ ~ Mine(t)
  /\ head_time' = t
  /\ dropped' = dropped \cup {s \in Seconds : s > t /\ signed[s] > 0}
  /\ UNCHANGED <<pluginProfile, clock, wake, enabled, first, outcome, signed>>

-----------------------------------------------------------------------------
\* The node has been started, with or without enable-stale-production.
PluginInit ==
  /\ pluginProfile \in PluginProfiles
  /\ clock \in 0 .. Second - 1
  /\ wake = schedule_production_loop(clock)
  /\ enabled \in BOOLEAN
  /\ head_time = 0
  /\ first = wake \div Second
  /\ outcome = [s \in Seconds |-> "none"]
  /\ signed = [s \in Seconds |-> 0]
  /\ dropped = {}

InBounds == clock + pluginProfile.work < MaxSecond * Second

PluginNext ==
  /\ InBounds
  /\ \/ Pass
     \/ \E work \in 0 .. pluginProfile.work, low, fails \in BOOLEAN : block_production_loop(work, low, fails)
     \/ \E t \in SlotTimes : push_block(t) \/ switch_forks(t)

PluginSpec == PluginInit /\ [][PluginNext]_pluginVars

-----------------------------------------------------------------------------
(* Properties. *)

Punctual == pluginProfile.late < Half /\ pluginProfile.late + pluginProfile.work <= Second - Margin

\* The node makes at most one block for a time, whatever forks it switches
\* between, as long as the task starts within half a second; if it does not,
\* the task may run twice in what it takes for the same second, and a second
\* block is possible only when the first is no longer on the chain
\* (schedule_production_loop, get_slot_at_time).
OncePerSlot ==
  \A s \in Seconds : signed[s] > 1 => ~ Punctual /\ s \in dropped

\* If the task is punctual it sleeps through no slot of this node: a slot
\* without a block has another reason than the alarm.
NoSlotSleptThrough ==
  Punctual =>
    \A s \in SlotTimes : Mine(s) /\ s >= first /\ s * Second + Half <= clock =>
      outcome[s] # "none"

\* What a witness relies on.
ProductionSound == OncePerSlot /\ NoSlotSleptThrough

=============================================================================
