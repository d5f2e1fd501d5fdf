--------------------------- MODULE ElectionProofs ---------------------------
(***************************************************************************)
(* Who is elected and who produces blocks, and when: proofs about Voting,  *)
(* WitnessSchedule and WitnessPlugin.                                      *)
(*                                                                         *)
(* A node makes at most one block for a slot and sleeps through none of    *)
(* its slots, for every clock, interval and set of slots.  The alarm is    *)
(* always set to a whole second, k * Second.  A punctual task sees the     *)
(* clock at less than half a second after that, so that it takes the time  *)
(* for second k, and it is done early enough to set the alarm to second    *)
(* k + 1: it visits every second once.  Of a task that is late only this   *)
(* is left, that a block is later than the head it is built on.            *)
(*                                                                         *)
(* The schedule goes on for every set of witnesses and every order of      *)
(* votes, rounds and missed slots, and a majority of a round decides.      *)
(*                                                                         *)
(* The votes add up for every depth of proxies.  What is proxied is kept   *)
(* by differences, and the proof says what they are differences of: the    *)
(* shares of the accounts at each distance.  What comes through an account *)
(* is all that counts for it, so that taking it out and putting it in at   *)
(* another place changes nothing else, and what comes to a voter without a *)
(* proxy is what comes to the end of the chain, where the tallies change.  *)
(***************************************************************************)
EXTENDS Voting, WitnessSchedule, WitnessPlugin, FoldLemmas, SequenceTheorems, TLAPS

-----------------------------------------------------------------------------
(* Whole seconds. *)

\* Multiplication by a positive number keeps the order.
LEMMA TimesMono ==
  ASSUME NEW n \in Nat \ {0}, NEW a \in Int, NEW b \in Int
  PROVE  /\ a < b => a * n + n <= b * n
         /\ a <= b => a * n <= b * n
  OBVIOUS

\* Quotient and remainder of a time that is d parts into second k.
LEMMA WholeSecond ==
  ASSUME NEW n \in Nat \ {0}, NEW k \in Nat, NEW d \in Nat, d < n
  PROVE  /\ (k * n + d) \div n = k
         /\ (k * n + d) % n = d
<1> DEFINE t == k * n + d
           q == t \div n
           r == t % n
<1>1. t \in Nat  OBVIOUS
<1>2. q \in Int /\ r \in Int /\ t = q * n + r /\ 0 <= r /\ r < n  BY <1>1
<1> HIDE DEF q, r
<1>3. ~ (q < k)  BY <1>2, TimesMono
<1>4. ~ (k < q)  BY <1>2, TimesMono
<1>5. q = k  BY <1>2, <1>3, <1>4
<1>6. r = d  BY <1>2, <1>5
<1> QED  BY <1>5, <1>6 DEF q, r

\* What the quotient and the remainder of a natural number are.
LEMMA DivNat ==
  ASSUME NEW n \in Nat \ {0}, NEW t \in Nat
  PROVE  /\ t \div n \in Nat /\ t % n \in Nat
         /\ t = (t \div n) * n + (t % n)
         /\ t % n < n
<1>1. PICK q \in Int, r \in Nat : q = t \div n /\ r = t % n /\ t = q * n + r /\ r < n
  OBVIOUS
<1>2. ASSUME q < 0 PROVE FALSE
  <2>1. PICK x \in Int : x = q * n /\ x + n <= 0
    BY <1>2
  <2> QED  BY <1>1, <2>1
<1> QED  BY <1>1, <1>2

-----------------------------------------------------------------------------
(* The inductive invariant. *)

\* The numbers the module is about, and the states its variables take.
ClockShape ==
  /\ pluginProfile \in PluginProfiles
  /\ clock \in Nat /\ wake \in Nat /\ head_time \in Nat /\ first \in Nat

RecordShape ==
  /\ DOMAIN outcome = Seconds
  /\ signed \in [Seconds -> Nat]
  /\ dropped \subseteq Seconds

\* The alarm is set to a whole second and the task is not overdue.
AlarmSet ==
  /\ wake % Second = 0
  /\ clock <= wake + pluginProfile.late

\* A block this node made is not later than the head, or a switch took it off.
BlocksBehindHead ==
  \A s \in Seconds : signed[s] > 0 /\ s \notin dropped => s <= head_time

\* A second block for a time needs a first one that is off the chain.
SecondAfterDrop ==
  \A s \in Seconds : signed[s] > 1 => s \in dropped

\* A punctual task has visited the seconds before the alarm, and no other.
VisitedOnce ==
  Punctual =>
    \A s \in Seconds : signed[s] <= 1 /\ (s * Second >= wake => signed[s] = 0)

SlotsVisited ==
  Punctual =>
    \A s \in SlotTimes : Mine(s) /\ s >= first /\ s * Second < wake => outcome[s] # "none"

PluginInv ==
  /\ ClockShape /\ RecordShape /\ AlarmSet
  /\ BlocksBehindHead /\ SecondAfterDrop
  /\ VisitedOnce /\ SlotsVisited

-----------------------------------------------------------------------------
(* The alarm and the clock. *)

\* The constants, one by one.
LEMMA Constants ==
  /\ Second \in Nat \ {0} /\ Margin \in Nat \ {0} /\ Interval \in Nat \ {0} /\ MaxSecond \in Nat \ {0}
  /\ Half \in Nat /\ Second = Half + Half /\ Half > 0 /\ Margin <= Half
  /\ \A p \in PluginProfiles : p.late \in Nat /\ p.work \in Nat
<1>1. Second \in Nat \ {0} /\ Margin \in Nat \ {0} /\ Interval \in Nat \ {0} /\ MaxSecond \in Nat \ {0}
  BY WitnessPluginAssumption
<1>2. Half \in Nat /\ Second = Half + Half
  BY <1>1, WitnessPluginAssumption DEF Half
<1>3. Half > 0 /\ Margin <= Half
  BY <1>1, <1>2, WitnessPluginAssumption
<1>4. ASSUME NEW p \in PluginProfiles PROVE p.late \in Nat /\ p.work \in Nat
  BY WitnessPluginAssumption DEF PluginProfile
<1> QED  BY <1>1, <1>2, <1>3, <1>4

\* The alarm is set to a whole second, later than now.
LEMMA AlarmWhole ==
  ASSUME NEW now \in Nat
  PROVE  /\ schedule_production_loop(now) \in Nat
         /\ now < schedule_production_loop(now)
         /\ schedule_production_loop(now) % Second = 0
<1>1. PICK q \in Nat, r \in Nat : now = q * Second + r /\ r < Second /\ r = now % Second
  BY Constants, DivNat
<1> DEFINE extra == IF Second - r < Margin THEN Second ELSE 0
<1>2. schedule_production_loop(now) = now + (Second - r) + extra
  BY <1>1 DEF schedule_production_loop
<1>3. (q + 1) * Second = q * Second + Second /\ (q + 2) * Second = q * Second + Second + Second
  BY Constants
<1>4. q * Second \in Nat
  BY Constants
<1>5. schedule_production_loop(now) = (q + 1) * Second \/ schedule_production_loop(now) = (q + 2) * Second
  BY <1>1, <1>2, <1>3, <1>4, Constants
<1>6. schedule_production_loop(now) \in Nat /\ now < schedule_production_loop(now)
  BY <1>1, <1>3, <1>4, <1>5, Constants
<1>7. ASSUME NEW n \in Nat PROVE (n * Second) % Second = 0
  <2>1. PICK z \in Nat : z = 0 /\ z < Second  BY Constants
  <2>2. (n * Second + z) % Second = z  BY <2>1, Constants, WholeSecond
  <2>3. n * Second + z = n * Second  BY <2>1, Constants
  <2> QED  BY <2>1, <2>2, <2>3
<1>8. q + 1 \in Nat /\ q + 2 \in Nat
  OBVIOUS
<1> QED  BY <1>5, <1>6, <1>7, <1>8

\* A task that is started and ends early enough in second k sees second k and
\* sets its alarm to the next one.
LEMMA InSecond ==
  ASSUME NEW k \in Nat, NEW d \in Nat, NEW w \in Nat, d < Half, d + w <= Second - Margin
  PROVE  /\ Now(k * Second + d) = k
         /\ schedule_production_loop(k * Second + d + w) = (k + 1) * Second
<1>1. (k * Second + (d + Half)) \div Second = k
  <2>1. d + Half \in Nat /\ d + Half < Second  BY Constants
  <2> QED  BY <2>1, Constants, WholeSecond
<1>2. Now(k * Second + d) = k
  <2>1. k * Second \in Nat  BY Constants
  <2>2. k * Second + d + Half = k * Second + (d + Half)  BY <2>1, Constants
  <2> QED  BY <1>1, <2>2 DEF Now
<1>3. PICK t \in Nat : t = k * Second + (d + w) /\ t = k * Second + d + w
  BY Constants
<1>4. t % Second = d + w
  <2>1. d + w \in Nat /\ d + w < Second  BY Constants
  <2> QED  BY <1>3, <2>1, Constants, WholeSecond
<1>5. (k + 1) * Second = k * Second + Second /\ k * Second \in Nat
  BY Constants
<1>6. schedule_production_loop(t) = t + (Second - (d + w)) + 0
  BY <1>4, Constants DEF schedule_production_loop
<1> QED  BY <1>2, <1>3, <1>5, <1>6, Constants

\* The second the task sees is one of those the module keeps record of.
LEMMA NowInSeconds ==
  ASSUME ClockShape, InBounds
  PROVE  Now(clock) \in Seconds
<1>1. pluginProfile.work \in Nat /\ clock \in Nat
  BY Constants DEF ClockShape
<1>2. PICK q \in Nat, r \in Nat : clock + Half = q * Second + r /\ r < Second /\ q = (clock + Half) \div Second
  BY <1>1, Constants, DivNat
<1>3. clock < MaxSecond * Second /\ MaxSecond * Second \in Nat
  BY <1>1, Constants DEF InBounds
<1>4. ~ (MaxSecond + 1 < q)
  <2> SUFFICES ASSUME MaxSecond + 1 < q PROVE FALSE  OBVIOUS
  <2>1. (MaxSecond + 1) * Second + Second <= q * Second
    BY Constants, TimesMono
  <2>2. (MaxSecond + 1) * Second = MaxSecond * Second + Second
    BY Constants
  <2> QED  BY <1>1, <1>2, <1>3, <2>1, <2>2, Constants
<1> QED  BY <1>2, <1>4, Constants DEF Now, Seconds

-----------------------------------------------------------------------------
(* The steps. *)

\* A block is made for a second later than the head's: slot 1 is later than
\* the head, and nothing is produced before slot 1.
LEMMA ProducedAfterHead ==
  ASSUME NEW now \in Nat, NEW low \in BOOLEAN, NEW fails \in BOOLEAN, head_time \in Nat,
         maybe_produce_block(now, low, fails) = "produced"
  PROVE  now > head_time
<1>1. PICK q \in Nat, r \in Nat :
        q = head_time \div Interval /\ head_time = q * Interval + r /\ r < Interval
  BY Constants, DivNat
<1>2. get_slot_time(1) = q * Interval + Interval /\ q * Interval \in Nat
  BY <1>1, Constants DEF get_slot_time
<1>3. get_slot_at_time(now) # 0
  BY DEF maybe_produce_block
<1>4. ~ (now < get_slot_time(1))
  BY <1>3 DEF get_slot_at_time
<1> QED  BY <1>1, <1>2, <1>4, Constants

\* Whatever it comes to, it is not "none".
LEMMA OutcomeIsOne ==
  ASSUME NEW now, NEW low \in BOOLEAN, NEW fails \in BOOLEAN
  PROVE  maybe_produce_block(now, low, fails) # "none"
BY DEF maybe_produce_block

LEMMA PassInv ==
  ASSUME PluginInv, InBounds, Pass
  PROVE  PluginInv'
<1> USE DEF Pass
<1>1. ClockShape'  BY DEF PluginInv, ClockShape
<1>2. RecordShape'  BY DEF PluginInv, RecordShape, Seconds
<1>3. AlarmSet'
  <2>1. pluginProfile.late \in Nat  BY Constants DEF PluginInv, ClockShape
  <2>2. clock \in Nat /\ wake \in Nat  BY DEF PluginInv, ClockShape
  <2> QED  BY <2>1, <2>2 DEF PluginInv, AlarmSet
<1>4. BlocksBehindHead'  BY DEF PluginInv, BlocksBehindHead
<1>5. SecondAfterDrop'  BY DEF PluginInv, SecondAfterDrop
<1>6. VisitedOnce'  BY DEF PluginInv, VisitedOnce, Punctual
<1>7. SlotsVisited'  BY DEF PluginInv, SlotsVisited, Punctual
<1> QED  BY <1>1, <1>2, <1>3, <1>4, <1>5, <1>6, <1>7 DEF PluginInv

LEMMA PushInv ==
  ASSUME PluginInv, NEW t \in SlotTimes, push_block(t)
  PROVE  PluginInv'
<1> USE DEF push_block
<1>0. t \in Nat  BY Constants DEF SlotTimes, Seconds
<1>1. ClockShape'  BY <1>0 DEF PluginInv, ClockShape
<1>2. RecordShape'  BY DEF PluginInv, RecordShape
<1>3. AlarmSet'  BY DEF PluginInv, AlarmSet
<1>4. BlocksBehindHead'
  <2> SUFFICES ASSUME NEW s \in Seconds, signed[s] > 0, s \notin dropped PROVE s <= t
    BY DEF BlocksBehindHead
  <2>1. s <= head_time  BY DEF PluginInv, BlocksBehindHead
  <2>2. s \in Nat /\ head_time \in Nat  BY Constants DEF Seconds, PluginInv, ClockShape
  <2> QED  BY <1>0, <2>1, <2>2
<1>5. SecondAfterDrop'  BY DEF PluginInv, SecondAfterDrop
<1>6. VisitedOnce'  BY DEF PluginInv, VisitedOnce, Punctual
<1>7. SlotsVisited'  BY DEF PluginInv, SlotsVisited, Punctual
<1> QED  BY <1>1, <1>2, <1>3, <1>4, <1>5, <1>6, <1>7 DEF PluginInv

LEMMA SwitchInv ==
  ASSUME PluginInv, NEW t \in SlotTimes, switch_forks(t)
  PROVE  PluginInv'
<1> USE DEF switch_forks
<1>0. t \in Nat  BY Constants DEF SlotTimes, Seconds
<1>1. ClockShape'  BY <1>0 DEF PluginInv, ClockShape
<1>2. RecordShape'  BY DEF PluginInv, RecordShape
<1>3. AlarmSet'  BY DEF PluginInv, AlarmSet
<1>4. BlocksBehindHead'
  <2> SUFFICES ASSUME NEW s \in Seconds, signed[s] > 0, s \notin dropped' PROVE s <= t
    BY DEF BlocksBehindHead
  <2>1. s \in Nat  BY Constants DEF Seconds
  <2> QED  BY <1>0, <2>1
<1>5. SecondAfterDrop'  BY DEF PluginInv, SecondAfterDrop
<1>6. VisitedOnce'  BY DEF PluginInv, VisitedOnce, Punctual
<1>7. SlotsVisited'  BY DEF PluginInv, SlotsVisited, Punctual
<1> QED  BY <1>1, <1>2, <1>3, <1>4, <1>5, <1>6, <1>7 DEF PluginInv

LEMMA LoopInv ==
  ASSUME PluginInv, InBounds,
         NEW work \in 0 .. pluginProfile.work, NEW low \in BOOLEAN, NEW fails \in BOOLEAN,
         block_production_loop(work, low, fails)
  PROVE  PluginInv'
<1> DEFINE result == maybe_produce_block(Now(clock), low, fails)
<1>1. /\ pluginProfile.late \in Nat /\ pluginProfile.work \in Nat
      /\ clock \in Nat /\ wake \in Nat /\ head_time \in Nat /\ first \in Nat
  BY Constants DEF PluginInv, ClockShape
<1>2. work \in Nat /\ work <= pluginProfile.work
  BY <1>1
<1>3. PICK now \in Nat : now = Now(clock) /\ now \in Seconds
  <2>1. Now(clock) \in Seconds  BY NowInSeconds DEF PluginInv
  <2> QED  BY <2>1, Constants DEF Seconds
<1>4. /\ clock >= wake /\ clock' = clock + work
      /\ wake' = schedule_production_loop(clock + work)
      /\ pluginProfile' = pluginProfile /\ first' = first /\ dropped' = dropped
      /\ outcome' = [outcome EXCEPT ![now] = IF now % Interval = 0 /\ Mine(now) THEN result ELSE @]
      /\ signed' = [signed EXCEPT ![now] = IF result = "produced" THEN @ + 1 ELSE @]
      /\ head_time' = IF result = "produced" THEN now ELSE head_time
  BY <1>3 DEF block_production_loop
<1>5. result # "none"
  BY OutcomeIsOne
<1>6. result = "produced" => now > head_time
  BY <1>1, <1>3, ProducedAfterHead
<1> HIDE DEF result
<1>7. clock + work \in Nat
  BY <1>1, <1>2
<1>8. wake' \in Nat /\ clock' < wake' /\ wake' % Second = 0
  BY <1>4, <1>7, AlarmWhole
<1>9. signed \in [Seconds -> Nat] /\ DOMAIN outcome = Seconds /\ dropped \subseteq Seconds
  BY DEF PluginInv, RecordShape
<1>10. /\ \A s \in Seconds : signed'[s] = IF s = now /\ result = "produced" THEN signed[s] + 1 ELSE signed[s]
       /\ \A s \in Seconds : outcome'[s] = IF s = now /\ now % Interval = 0 /\ Mine(now) THEN result ELSE outcome[s]
       /\ signed' \in [Seconds -> Nat] /\ DOMAIN outcome' = Seconds
  BY <1>3, <1>4, <1>9
\* What a punctual task sees, and when it wakes up again.
<1>11. Punctual => now * Second = wake /\ wake' = (now + 1) * Second
  <2> SUFFICES ASSUME Punctual PROVE now * Second = wake /\ wake' = (now + 1) * Second
    OBVIOUS
  <2>1. PICK k \in Nat : wake = k * Second
    <3>1. wake = (wake \div Second) * Second + (wake % Second) /\ wake \div Second \in Nat
      BY <1>1, Constants, DivNat
    <3>2. PICK k \in Nat : k = wake \div Second  BY <3>1
    <3>3. k * Second \in Nat  BY Constants
    <3>4. wake % Second = 0  BY DEF PluginInv, AlarmSet
    <3> QED  BY <3>1, <3>2, <3>3, <3>4
  <2>2. k * Second \in Nat  BY Constants
  <2>3. PICK d \in Nat : clock = k * Second + d /\ d <= pluginProfile.late
    <3>1. clock <= wake + pluginProfile.late  BY DEF PluginInv, AlarmSet
    <3>2. clock - wake \in Nat /\ clock = wake + (clock - wake)  BY <1>1, <1>4
    <3> QED  BY <1>1, <2>1, <2>2, <3>1, <3>2
  <2>4. d < Half /\ d + work <= Second - Margin
    BY <1>1, <1>2, <2>3, Constants DEF Punctual
  <2>5. Now(k * Second + d) = k /\ schedule_production_loop(k * Second + d + work) = (k + 1) * Second
    BY <1>2, <2>4, InSecond
  <2> QED  BY <1>3, <1>4, <2>1, <2>3, <2>5
<1>12. Punctual' <=> Punctual
  BY <1>4 DEF Punctual
<1>13. ClockShape'
  BY <1>1, <1>3, <1>4, <1>7, <1>8 DEF PluginInv, ClockShape
<1>14. RecordShape'
  BY <1>4, <1>9, <1>10 DEF RecordShape
<1>15. AlarmSet'
  BY <1>1, <1>4, <1>7, <1>8 DEF AlarmSet
<1>16. BlocksBehindHead'
  <2> SUFFICES ASSUME NEW s \in Seconds, signed'[s] > 0, s \notin dropped PROVE s <= head_time'
    BY <1>4 DEF BlocksBehindHead
  <2>1. s \in Nat  BY Constants DEF Seconds
  <2>2. CASE s = now /\ result = "produced"  BY <1>4, <2>1, <2>2
  <2>3. CASE ~ (s = now /\ result = "produced")
    <3>1. signed'[s] = signed[s]  BY <1>10, <2>3
    <3>2. s <= head_time  BY <3>1 DEF PluginInv, BlocksBehindHead
    <3> QED  BY <1>1, <1>3, <1>4, <1>6, <2>1, <3>2
  <2> QED  BY <2>2, <2>3
<1>17. SecondAfterDrop'
  <2> SUFFICES ASSUME NEW s \in Seconds, signed'[s] > 1, s \notin dropped PROVE FALSE
    BY <1>4 DEF SecondAfterDrop
  <2>1. s \in Nat /\ signed[s] \in Nat  BY <1>9, Constants DEF Seconds
  <2>2. CASE s = now /\ result = "produced"
    <3>1. signed[s] > 0  BY <1>10, <2>1, <2>2
    <3>2. s <= head_time  BY <3>1 DEF PluginInv, BlocksBehindHead
    <3> QED  BY <1>1, <1>3, <1>6, <2>2, <3>2
  <2>3. CASE ~ (s = now /\ result = "produced")
    <3>1. signed'[s] = signed[s]  BY <1>10, <2>3
    <3> QED  BY <3>1 DEF PluginInv, SecondAfterDrop
  <2> QED  BY <2>2, <2>3
<1>18. VisitedOnce'
  <2> SUFFICES ASSUME Punctual, NEW s \in Seconds
               PROVE  signed'[s] <= 1 /\ (s * Second >= wake' => signed'[s] = 0)
    BY <1>12 DEF VisitedOnce
  <2>1. s \in Nat /\ signed[s] \in Nat  BY <1>9, Constants DEF Seconds
  <2>2. signed[s] <= 1 /\ (s * Second >= wake => signed[s] = 0)
    BY DEF PluginInv, VisitedOnce
  <2>3. now * Second = wake /\ wake' = (now + 1) * Second  BY <1>11
  <2>4. now * Second \in Nat /\ s * Second \in Nat /\ (now + 1) * Second = now * Second + Second
    BY <2>1, Constants
  <2>5. CASE s = now
    <3>1. signed[s] = 0  BY <2>2, <2>3, <2>4, <2>5
    <3>2. signed'[s] <= 1  BY <1>10, <3>1
    <3>3. ~ (s * Second >= wake')  BY <2>3, <2>4, <2>5, Constants
    <3> QED  BY <3>2, <3>3
  <2>6. CASE s # now
    <3>1. signed'[s] = signed[s]  BY <1>10, <2>6
    <3>2. s * Second >= wake' => s * Second >= wake  BY <2>3, <2>4, Constants
    <3> QED  BY <2>2, <3>1, <3>2
  <2> QED  BY <2>5, <2>6
<1>19. SlotsVisited'
  <2> SUFFICES ASSUME Punctual, NEW s \in SlotTimes, Mine(s), s >= first, s * Second < wake'
               PROVE  outcome'[s] # "none"
    BY <1>4, <1>12 DEF SlotsVisited
  <2>1. s \in Nat /\ s \in Seconds /\ s % Interval = 0  BY Constants DEF SlotTimes, Seconds
  <2>2. now * Second = wake /\ wake' = (now + 1) * Second  BY <1>11
  <2>3. s <= now
    <3> SUFFICES ASSUME now < s PROVE FALSE  BY <2>1
    <3>1. now * Second + Second <= s * Second  BY <2>1, Constants, TimesMono
    <3>2. now * Second \in Nat /\ s * Second \in Nat /\ (now + 1) * Second = now * Second + Second
      BY <2>1, Constants
    <3> QED  BY <2>2, <3>1, <3>2, Constants
  <2>4. CASE s = now  BY <1>5, <1>10, <2>1, <2>4
  <2>5. CASE s < now
    <3>1. s * Second + Second <= now * Second  BY <2>1, <2>5, Constants, TimesMono
    <3>2. now * Second \in Nat /\ s * Second \in Nat  BY <2>1, Constants
    <3>3. s * Second < wake  BY <2>2, <3>1, <3>2, Constants
    <3>4. outcome[s] # "none"  BY <3>3 DEF PluginInv, SlotsVisited
    <3> QED  BY <1>10, <2>1, <2>5, <3>4
  <2> QED  BY <2>1, <2>3, <2>4, <2>5
<1> QED  BY <1>13, <1>14, <1>15, <1>16, <1>17, <1>18, <1>19 DEF PluginInv

-----------------------------------------------------------------------------
(* The theorems. *)

LEMMA PluginInitInv == PluginInit => PluginInv
<1> SUFFICES ASSUME PluginInit PROVE PluginInv
  OBVIOUS
<1> USE DEF PluginInit
<1>1. clock \in Nat /\ pluginProfile \in PluginProfiles /\ pluginProfile.late \in Nat
  BY Constants
<1>2. wake \in Nat /\ clock < wake /\ wake % Second = 0
  BY <1>1, AlarmWhole
<1>3. PICK k \in Nat, z \in Nat : k = wake \div Second /\ wake = k * Second + z /\ z = 0
  BY <1>2, Constants, DivNat, ZenonT(60)
<1>4. first = k /\ k * Second = wake
  BY <1>3, Constants
<1>5. ClockShape  BY <1>1, <1>2, <1>4 DEF ClockShape
<1>6. RecordShape  BY DEF RecordShape
<1>7. AlarmSet  BY <1>1, <1>2 DEF AlarmSet
<1>8. BlocksBehindHead /\ SecondAfterDrop /\ VisitedOnce
  BY DEF BlocksBehindHead, SecondAfterDrop, VisitedOnce
<1>9. SlotsVisited
  <2> SUFFICES ASSUME NEW s \in SlotTimes, s >= first, s * Second < wake PROVE FALSE
    BY DEF SlotsVisited
  <2>1. s \in Nat  BY Constants DEF SlotTimes, Seconds
  <2>2. k * Second <= s * Second  BY <1>4, <2>1, Constants, TimesMono
  <2>3. s * Second \in Nat  BY <2>1, Constants
  <2> QED  BY <1>2, <1>4, <2>2, <2>3
<1> QED  BY <1>5, <1>6, <1>7, <1>8, <1>9 DEF PluginInv

LEMMA PluginStepInv == PluginInv /\ [PluginNext]_pluginVars => PluginInv'
<1> SUFFICES ASSUME PluginInv, [PluginNext]_pluginVars PROVE PluginInv'
  OBVIOUS
<1>1. CASE PluginNext
  <2>1. InBounds  BY <1>1 DEF PluginNext
  <2>2. CASE Pass  BY <2>1, <2>2, PassInv
  <2>3. ASSUME NEW work \in 0 .. pluginProfile.work, NEW low \in BOOLEAN, NEW fails \in BOOLEAN,
               block_production_loop(work, low, fails)
        PROVE  PluginInv'
    BY <2>1, <2>3, LoopInv
  <2>4. ASSUME NEW t \in SlotTimes, push_block(t) PROVE PluginInv'  BY <2>4, PushInv
  <2>5. ASSUME NEW t \in SlotTimes, switch_forks(t) PROVE PluginInv'  BY <2>5, SwitchInv
  <2> QED  BY <1>1, <2>2, <2>3, <2>4, <2>5 DEF PluginNext
<1>2. CASE UNCHANGED pluginVars
  BY <1>2 DEF pluginVars, PluginInv, ClockShape, RecordShape, AlarmSet, BlocksBehindHead,
              SecondAfterDrop, VisitedOnce, SlotsVisited, Punctual
<1> QED  BY <1>1, <1>2

LEMMA PluginInvSound == PluginInv => ProductionSound
<1> SUFFICES ASSUME PluginInv PROVE ProductionSound
  OBVIOUS
<1>1. OncePerSlot
  <2> SUFFICES ASSUME NEW s \in Seconds, signed[s] > 1 PROVE ~ Punctual /\ s \in dropped
    BY DEF OncePerSlot
  <2>1. signed[s] \in Nat  BY DEF PluginInv, RecordShape
  <2>2. s \in dropped  BY DEF PluginInv, SecondAfterDrop
  <2>3. ~ Punctual  BY <2>1 DEF PluginInv, VisitedOnce
  <2> QED  BY <2>2, <2>3
<1>2. NoSlotSleptThrough
  <2> SUFFICES ASSUME Punctual, NEW s \in SlotTimes, Mine(s), s >= first, s * Second + Half <= clock
               PROVE  outcome[s] # "none"
    BY DEF NoSlotSleptThrough
  <2>1. s \in Nat  BY Constants DEF SlotTimes, Seconds
  <2>2. s * Second \in Nat  BY <2>1, Constants
  <2>3. clock <= wake + pluginProfile.late /\ pluginProfile.late < Half
    BY DEF PluginInv, AlarmSet, Punctual
  <2>4. clock \in Nat /\ wake \in Nat /\ pluginProfile.late \in Nat
    BY Constants DEF PluginInv, ClockShape
  <2>5. s * Second < wake  BY <2>2, <2>3, <2>4, Constants
  <2> QED  BY <2>5 DEF PluginInv, SlotsVisited
<1> QED  BY <1>1, <1>2 DEF ProductionSound

\* Whatever the block interval, the clock's resolution, the slots of the node
\* and the delays of its task, the node makes a second block for a time only
\* if the task is late and the first block is off the chain, and a punctual
\* task visits every slot of the node (schedule_production_loop,
\* block_production_loop, maybe_produce_block).
THEOREM ProductionCorrect == PluginSpec => []ProductionSound
<1>1. PluginInit => PluginInv  BY PluginInitInv
<1>2. PluginInv /\ [PluginNext]_pluginVars => PluginInv'  BY PluginStepInv
<1>3. PluginInv => ProductionSound  BY PluginInvSound
<1> QED  BY <1>1, <1>2, <1>3, PTL DEF PluginSpec


-----------------------------------------------------------------------------
(* The schedule: the inductive invariant. *)

\* The variables ScheduleTypeOK says nothing of.
ScheduleShape ==
  /\ ScheduleTypeOK
  /\ scheduleProfile \in ScheduleProfiles
  /\ fee \in [Witnesses -> {0, 1}]
  /\ running_version \in [Witnesses -> Nat] /\ hardfork_version_vote \in [Witnesses -> Nat]
  /\ binary \in [Witnesses -> Nat]
  /\ recent_slots_filled \in [1 .. Window -> {0, 1}]
  /\ open \in [witness : Int, missed : Nat]

\* A lap is over no later than the scheduled time: until then the votes do
\* not carry a witness past its end.  Who does not exist waits at the start.
LapsRun ==
  \A w \in Witnesses :
    /\ virtual[w].last_update <= current_virtual_time /\ current_virtual_time <= virtual[w].scheduled
    /\ virtual[w].position + votes[w] * (virtual[w].scheduled - virtual[w].last_update) <= Lap
    /\ w \notin registered => votes[w] = 0 /\ virtual[w] = New

\* A scheduled witness can sign, and the maintenance that ends the block will
\* not take its key: it is the witness of the block, or has not been idle.
SomeoneStays ==
  \E x \in Range(shuffled) \cap keyed : open = NoBlock \/ x = open.witness \/ unconfirmed[x] <= Day

\* Nobody votes for a hard fork that it does not run.
VotesHonest == \A w \in Witnesses : hardfork_version_vote[w] <= running_version[w]

ScheduleInv == ScheduleShape /\ LapsRun /\ SomeoneStays /\ ParticipationCounts /\ VotesHonest

-----------------------------------------------------------------------------
(* Virtual times. *)

\* What a lap shared among v votes and one leaves.
LEMMA LapShare ==
  ASSUME NEW n \in Nat, NEW v \in Nat
  PROVE  n \div (v + 1) \in Nat /\ n \div (v + 1) <= n /\ v * (n \div (v + 1)) <= n
<1>1. PICK m \in Nat \ {0} : m = v + 1
  OBVIOUS
<1>2. PICK q \in Nat, r \in Nat : q = n \div m /\ r = n % m /\ n = q * m + r
  BY DivNat
<1>3. q * m = v * q + q
  <2>1. q * (v + 1) = q * v + q /\ q * v = v * q
    BY ONLY q \in Nat, v \in Nat
  <2> QED  BY <1>1, <2>1
<1>4. PICK p \in Nat : p = v * q
  BY <1>2
<1>5. n = p + q + r
  BY <1>2, <1>3, <1>4
<1> QED  BY <1>1, <1>2, <1>4, <1>5

\* 128-bit sums that do and do not run over.
LEMMA WrapTimes ==
  ASSUME NEW t \in Nat
  PROVE  /\ t <= Lap => Wrap(t) = t
         /\ t > Lap /\ t <= Lap + Lap => Wrap(t) = t - Lap - 1
<1>1. PICK n \in Nat \ {0} : n = Lap + 1
  BY ScheduleAssumption
<1>2. ASSUME t <= Lap PROVE Wrap(t) = t
  <2>1. t < n /\ 0 * n + t = t
    BY <1>1, <1>2, ScheduleAssumption
  <2>2. (0 * n + t) % n = t
    BY <2>1, WholeSecond
  <2> QED  BY <1>1, <2>1, <2>2 DEF Wrap
<1>3. ASSUME t > Lap, t <= Lap + Lap PROVE Wrap(t) = t - Lap - 1
  <2>1. PICK d \in Nat : d = t - Lap - 1 /\ d < n /\ 1 * n + d = t
    BY <1>1, <1>3, ScheduleAssumption
  <2>2. (1 * n + d) % n = d
    BY <2>1, WholeSecond
  <2> QED  BY <1>1, <2>1, <2>2 DEF Wrap
<1> QED  BY <1>2, <1>3

\* The virtual times of a witness with v votes.
VirtualTimes == [position : Times, last_update : Times, scheduled : Times]
InLap(r, v, time) ==
  /\ r \in VirtualTimes
  /\ r.last_update <= time /\ time <= r.scheduled
  /\ r.position + v * (r.scheduled - r.last_update) <= Lap

\* Until the scheduled time the lap is not over.
LEMMA InLapNow ==
  ASSUME NEW v \in Nat, NEW time \in Times, NEW r, InLap(r, v, time)
  PROVE  r.position + v * (time - r.last_update) \in Times
<1>0. PICK L \in Nat : L = Lap
  BY ScheduleAssumption
<1>1. PICK p \in Nat, l \in Nat, s \in Nat, t \in Nat :
        p = r.position /\ l = r.last_update /\ s = r.scheduled /\ t = time
  BY ScheduleAssumption DEF InLap, VirtualTimes, Times
<1>2. l <= t /\ t <= s /\ p + v * (s - l) <= L
  BY <1>0, <1>1 DEF InLap
<1>3. PICK a \in Nat, b \in Nat : a = t - l /\ b = s - t
  BY <1>2
<1>4. s - l = a + b
  BY <1>1, <1>3
<1>5. v * (a + b) = v * a + v * b /\ v * a \in Nat /\ v * b \in Nat
  OBVIOUS
<1>6. p + v * (t - l) \in 0 .. L
  BY ONLY <1>2, <1>3, <1>4, <1>5, p \in Nat, L \in Nat, v \in Nat
<1> QED  BY <1>0, <1>1, <1>6 DEF Times

\* A new lap that ends within the largest time.
LEMMA NewLapRuns ==
  ASSUME NEW v \in Nat, NEW time \in Times, time + Lap \div (v + 1) <= Lap
  PROVE  InLap([position |-> 0, last_update |-> time, scheduled |-> time + Lap \div (v + 1)], v, time)
<1>1. PICK L \in Nat, t \in Nat : L = Lap /\ t = time /\ t <= L
  BY ScheduleAssumption DEF Times
<1>2. PICK q \in Nat : q = L \div (v + 1) /\ v * q <= L
  BY LapShare
<1>3. t + q <= L
  BY <1>1, <1>2
<1>4. t + q - t = q /\ 0 + v * (t + q - t) <= L /\ t + q \in 0 .. L /\ t <= t + q /\ 0 \in 0 .. L /\ t \in 0 .. L
  BY ONLY <1>1, <1>2, <1>3, v \in Nat
<1>5. InLap([position |-> 0, last_update |-> t, scheduled |-> t + q], v, t)
  BY <1>1, <1>4 DEF InLap, VirtualTimes, Times
<1> QED  BY <1>1, <1>2, <1>5

\* Votes that change: where the witness is, and how far it is to the end.
LEMMA VotesChangeLap ==
  ASSUME NEW v \in Nat, NEW time \in Times, NEW p \in Times, NEW s, s = Wrap(time + Wrap(Lap - p) \div (v + 1))
  PROVE  InLap([position |-> p, last_update |-> time, scheduled |-> IF s < time THEN Lap ELSE s], v, time)
<1>1. PICK L \in Nat, t \in Nat, a \in Nat : L = Lap /\ t = time /\ t <= L /\ a = p /\ a <= L
  BY ScheduleAssumption DEF Times
<1>2. PICK n \in Nat : n = L - a /\ n <= L /\ Wrap(n) = n
  BY <1>1, WrapTimes
<1>3. PICK q \in Nat, w \in Nat : q = n \div (v + 1) /\ q <= n /\ w = v * q /\ w <= n
  BY LapShare
<1>4. s = Wrap(t + q)
  BY <1>1, <1>2, <1>3
<1>5. CASE t + q <= L
  <2>1. s = t + q /\ ~ (s < t)
    BY <1>1, <1>4, <1>5, WrapTimes
  <2>2. s - t = q /\ a + v * (s - t) <= L /\ s \in 0 .. L /\ t <= s /\ t <= t
    BY ONLY <1>1, <1>2, <1>3, <1>5, <2>1, v \in Nat
  <2>3. InLap([position |-> a, last_update |-> t, scheduled |-> s], v, t)
    BY <1>1, <2>2 DEF InLap, VirtualTimes, Times
  <2> QED  BY <1>1, <2>1, <2>3
<1>6. CASE t + q > L
  <2>1. s = t + q - L - 1 /\ s < t
    BY <1>1, <1>2, <1>3, <1>4, <1>6, WrapTimes
  <2>2. PICK e \in Nat, g \in Nat : e = L - t /\ q = e + g
    BY <1>1, <1>6
  <2>3. v * (e + g) = v * e + v * g /\ v * e \in Nat /\ v * g \in Nat
    OBVIOUS
  <2>4. a + v * (L - t) <= L
    BY ONLY <1>1, <1>2, <1>3, <2>2, <2>3, v \in Nat
  <2>5. InLap([position |-> a, last_update |-> t, scheduled |-> L], v, t)
    BY <1>1, <2>4 DEF InLap, VirtualTimes, Times
  <2> QED  BY <1>1, <2>1, <2>5
<1> QED  BY <1>1, <1>3, <1>5, <1>6

-----------------------------------------------------------------------------
(* A round. *)

Slotting == INSTANCE SequenceFolds WITH Op <- shift_slot

\* The orders of the two indices, by_vote_name and by_schedule_time.
ByVotes == {p \in Witnesses \X Witnesses : MoreVotes(p[1], p[2])}
ByTime == {p \in Witnesses \X Witnesses : Earlier(p[1], p[2])}

LEMMA OrdersStrict ==
  ASSUME ScheduleTypeOK, NEW K \in SUBSET Witnesses
  PROVE  StrictOrder(ByVotes, K) /\ StrictOrder(ByTime, K)
<1>1. ASSUME NEW x \in K PROVE x \in Nat /\ votes[x] \in Nat /\ virtual[x].scheduled \in Nat
  BY ScheduleAssumption DEF ScheduleTypeOK, Times
<1>2. StrictOrder(ByVotes, K)
  BY <1>1 DEF StrictOrder, ByVotes, MoreVotes
<1>3. StrictOrder(ByTime, K)
  BY <1>1 DEF StrictOrder, ByTime, Earlier
<1> QED  BY <1>2, <1>3

LEMMA OrderedBefore ==
  ASSUME NEW K \in SUBSET Witnesses, NEW w \in Witnesses
  PROVE  /\ {x \in K : MoreVotes(x, w)} = Preceding(ByVotes, K, w)
         /\ {x \in K : Earlier(x, w)} = Preceding(ByTime, K, w)
  BY DEF Preceding, ByVotes, ByTime

\* The places of a round are not exceeded, and if anyone has a key someone
\* gets one.
LEMMA ActiveWitnesses ==
  ASSUME ScheduleTypeOK, NEW K \in SUBSET registered, NEW top, top = Top(K)
  PROVE  /\ IsFiniteSet(top) /\ top \subseteq K
         /\ IsFiniteSet(Processed(K, top))
         /\ IsFiniteSet(top \cup (Processed(K, top) \cap K))
         /\ Cardinality(top \cup (Processed(K, top) \cap K)) \in 0 .. MaxMiners
         /\ K # {} => top \cup (Processed(K, top) \cap K) # {}
<1> DEFINE S == K \ top
           second == Processed(K, top) \cap S
<1>1. K \subseteq Witnesses /\ IsFiniteSet(K) /\ registered \subseteq Witnesses
  BY ScheduleAssumption, FS_Subset DEF ScheduleTypeOK
<1>2. top \subseteq K /\ IsFiniteSet(top) /\ S \subseteq Witnesses /\ IsFiniteSet(S)
  BY <1>1, FS_Subset DEF Top
<1>3. Cardinality(top) <= MaxVoted
  <2>1. top = {w \in K : Cardinality(Preceding(ByVotes, K, w)) < MaxVoted}
    BY <1>1, OrderedBefore DEF Top
  <2> QED  BY <1>1, <2>1, OrdersStrict, FirstMembers, ScheduleAssumption
<1>4. PICK m \in Nat, t \in Nat, k \in Nat : m = MaxMiners /\ t = Cardinality(top) /\ k = m - t /\ k > 0
  BY <1>2, <1>3, FS_CardinalityType, ScheduleAssumption
<1>5. ASSUME NEW w \in S
      PROVE  w \in Processed(K, top) <=> Cardinality(Preceding(ByTime, S, w)) < k
  <2>1. w \in registered /\ w \in Witnesses
    BY <1>1
  <2>2. Preceding(ByTime, S, w) \in SUBSET S
    BY DEF Preceding
  <2>3. PICK c \in Nat : c = Cardinality(Preceding(ByTime, S, w))
    BY <1>2, <2>2, FS_Subset, FS_CardinalityType
  <2>4. {x \in S : Earlier(x, w)} = Preceding(ByTime, S, w)
    BY <1>2, <2>1, OrderedBefore
  <2>5. w \in Processed(K, top) <=> t + c < m
    BY <1>4, <2>1, <2>3, <2>4 DEF Processed
  <2>6. t + c < m <=> c < k
    BY ONLY <1>4, <2>3
  <2> QED  BY <2>3, <2>5, <2>6
<1>6. second = {w \in S : Cardinality(Preceding(ByTime, S, w)) < k}
  BY <1>5
<1>7. Cardinality(second) <= k /\ IsFiniteSet(second)
  <2>1. second \in SUBSET S
    OBVIOUS
  <2>2. IsFiniteSet(second)
    BY <1>2, <2>1, FS_Subset
  <2>3. StrictOrder(ByTime, S)
    BY <1>2, OrdersStrict
  <2>4. Cardinality({w \in S : Cardinality(Preceding(ByTime, S, w)) < k}) <= k
    BY <1>2, <2>3, FirstMembers
  <2> QED  BY <1>6, <2>2, <2>4
<1>8. top \cup (Processed(K, top) \cap K) = top \cup second
  BY <1>2
<1>9. top \cap second = {}
  OBVIOUS
<1>10. IsFiniteSet(Processed(K, top))
  <2>1. Processed(K, top) \in SUBSET Witnesses
    BY <1>1 DEF Processed
  <2> QED  BY <2>1, FS_Subset, ScheduleAssumption
<1>11. ASSUME K # {} PROVE top \cup second # {}
  <2>1. CASE top # {}
    BY <2>1
  <2>2. CASE top = {}
    <3>1. S # {}
      BY <1>11, <2>2
    <3>2. StrictOrder(ByTime, S)
      BY <1>2, OrdersStrict
    <3>3. PICK w \in S : Preceding(ByTime, S, w) = {}
      BY <1>2, <3>1, <3>2, FirstExists
    <3>4. Cardinality(Preceding(ByTime, S, w)) < k
      BY <1>4, <3>3, FS_EmptySet
    <3> QED  BY <1>6, <3>4
  <2> QED  BY <2>1, <2>2
<1> HIDE DEF S, second
<1>12. IsFiniteSet(top \cup second)
       /\ Cardinality(top \cup second) = Cardinality(top) + Cardinality(second) - Cardinality(top \cap second)
  BY <1>2, <1>7, FS_Union
<1>13. Cardinality(top \cap second) = 0
  BY <1>9, FS_EmptySet
<1>14. PICK s \in Nat : s = Cardinality(second) /\ s <= k
  BY <1>7, FS_CardinalityType
<1>15. PICK a : a = Cardinality(top \cup second)
  OBVIOUS
<1>16. a = t + s - 0
  BY <1>4, <1>12, <1>13, <1>14, <1>15
<1>17. a \in 0 .. m
  BY ONLY <1>4, <1>14, <1>16
<1> QED  BY <1>2, <1>4, <1>8, <1>10, <1>11, <1>12, <1>15, <1>17

\* LapsRun for the virtual times vt at a time.
LapsAt(vt, time) ==
  \A w \in Witnesses : InLap(vt[w], votes[w], time) /\ (w \notin registered => votes[w] = 0 /\ vt[w] = New)

LEMMA LapsRunAt ==
  ASSUME ScheduleTypeOK
  PROVE  LapsRun <=> LapsAt(virtual, current_virtual_time)
  BY DEF ScheduleTypeOK, LapsRun, LapsAt, InLap, VirtualTimes

\* The virtual times after the witnesses W have begun a new lap.
Relapped(W, time) ==
  [w \in Witnesses |->
     IF w \in W THEN [position |-> 0, last_update |-> time, scheduled |-> time + Lap \div (votes[w] + 1)]
     ELSE virtual[w]]

\* Whoever comes before one that is looked at is looked at.
LEMMA ProcessedFirst ==
  ASSUME ScheduleTypeOK, NEW K \in SUBSET registered, NEW top, IsFiniteSet(top),
         NEW p \in Processed(K, top), NEW w \in registered, w \notin Processed(K, top)
  PROVE  virtual[p].scheduled <= virtual[w].scheduled
<1> DEFINE S == K \ top
           P == {x \in S : Earlier(x, p)}
           W == {x \in S : Earlier(x, w)}
<1>1. p \in Witnesses /\ w \in Witnesses /\ S \subseteq Witnesses /\ IsFiniteSet(S) /\ p \in registered
  <2>1. registered \in SUBSET Witnesses /\ S \in SUBSET Witnesses
    BY DEF ScheduleTypeOK
  <2> QED  BY <2>1, FS_Subset, ScheduleAssumption DEF Processed
<1>2. \A x \in Witnesses : x \in Nat /\ virtual[x].scheduled \in Nat
  BY ScheduleAssumption DEF ScheduleTypeOK, Times
<1> SUFFICES ASSUME ~ (virtual[p].scheduled <= virtual[w].scheduled) PROVE FALSE
  OBVIOUS
<1>3. W \subseteq P
  <2>1. virtual[w].scheduled < virtual[p].scheduled
    BY <1>1, <1>2
  <2> SUFFICES ASSUME NEW x \in S, Earlier(x, w) PROVE Earlier(x, p)
    OBVIOUS
  <2> QED  BY <1>1, <1>2, <2>1 DEF Earlier
<1>4. P \in SUBSET S /\ W \in SUBSET P
  BY <1>3
<1>5. Cardinality(top) + Cardinality(P) < MaxMiners
  BY DEF Processed
<1>6. ~ (Cardinality(top) + Cardinality(W) < MaxMiners)
  BY DEF Processed
<1> HIDE DEF S, P, W
<1>7. IsFiniteSet(P)
  BY <1>1, <1>4, FS_Subset
<1>8. PICK cw \in Nat, cp \in Nat : cw = Cardinality(W) /\ cp = Cardinality(P) /\ cw <= cp
  BY <1>4, <1>7, FS_Subset, FS_CardinalityType
<1>9. PICK t \in Nat, m \in Nat : t = Cardinality(top) /\ m = MaxMiners
  BY FS_CardinalityType, ScheduleAssumption
<1>10. t + cp < m /\ ~ (t + cw < m)
  BY <1>5, <1>6, <1>8, <1>9
<1> QED  BY ONLY <1>8, <1>9, <1>10

\* The time a round advances to is reached by everyone who was not looked at
\* at the earliest.
LEMMA NewTimeReached ==
  ASSUME ScheduleTypeOK, LapsRun, NEW K \in SUBSET registered, NEW top, IsFiniteSet(top)
  PROVE  LET time == NewTime(Processed(K, top))
         IN /\ time \in Times /\ current_virtual_time <= time
            /\ \A w \in Witnesses \ Processed(K, top) : time <= virtual[w].scheduled
<1> DEFINE s == {virtual[w].scheduled : w \in Processed(K, top)} \cup {current_virtual_time}
           time == NewTime(Processed(K, top))
<1>0. PICK L \in Nat : L = Lap
  BY ScheduleAssumption
<1>1. registered \subseteq Witnesses /\ Processed(K, top) \subseteq registered
  BY DEF ScheduleTypeOK, Processed
<1>2. \A x \in Witnesses : virtual[x].scheduled \in 0 .. L
  BY <1>0 DEF ScheduleTypeOK, Times
<1>3. current_virtual_time \in 0 .. L
  BY <1>0 DEF ScheduleTypeOK, Times
<1>4. s \in SUBSET (0 .. L) /\ s # {}
  BY <1>1, <1>2, <1>3
<1>5. time = Slotting!Largest(s)
  BY DEF NewTime, Max, Slotting!Largest
<1>6. time \in s /\ \A y \in s : y <= time
  <2> HIDE DEF s, time
  <2> QED  BY <1>4, <1>5, Slotting!LargestPicked
<1>7. current_virtual_time <= time
  BY <1>6
<1>8. ASSUME NEW w \in Witnesses \ Processed(K, top) PROVE time <= virtual[w].scheduled
  <2>1. CASE time = current_virtual_time
    BY <2>1 DEF LapsRun
  <2>2. CASE time # current_virtual_time
    <3>1. PICK p \in Processed(K, top) : time = virtual[p].scheduled
      BY <1>6, <2>2
    <3>2. CASE w \in registered
      BY <1>8, <3>1, <3>2, ProcessedFirst
    <3>3. CASE w \notin registered
      <4>1. virtual[w] = New
        BY <3>3 DEF LapsRun
      <4>2. virtual[w].scheduled = L
        BY <1>0, <4>1 DEF New
      <4>3. virtual[p].scheduled \in 0 .. L
        BY <1>1, <1>2
      <4> QED  BY <3>1, <4>2, <4>3
    <3> QED  BY <3>2, <3>3
  <2> QED  BY <2>1, <2>2
<1>9. time \in Times
  BY <1>0, <1>4, <1>6 DEF Times
<1> QED  BY <1>7, <1>8, <1>9

\* No lap is overrun by a round, whether or not the times run over.
LEMMA RoundRuns ==
  ASSUME ScheduleTypeOK, LapsRun, NEW K \in SUBSET registered, NEW top, IsFiniteSet(top),
         NEW processed, processed = Processed(K, top), NEW time, time = NewTime(processed)
  PROVE  IF Overflow(processed, time) THEN LapsAt(Relapped(registered, 0), 0)
         ELSE time \in Times /\ LapsAt(Relapped(processed, time), time)
<1>0. PICK L \in Nat : L = Lap
  BY ScheduleAssumption
<1>1. \A w \in Witnesses : votes[w] \in Nat
  BY ScheduleAssumption DEF ScheduleTypeOK
<1>2. LapsAt(virtual, current_virtual_time)
  BY LapsRunAt
<1>3. processed \subseteq registered /\ registered \subseteq Witnesses
  BY DEF Processed, ScheduleTypeOK
<1>4. CASE Overflow(processed, time)
  <2> SUFFICES ASSUME NEW w \in Witnesses
               PROVE  /\ InLap(Relapped(registered, 0)[w], votes[w], 0)
                      /\ w \notin registered => votes[w] = 0 /\ Relapped(registered, 0)[w] = New
    BY <1>4 DEF LapsAt
  <2>1. 0 \in Times
    BY <1>0 DEF Times
  <2>2. CASE w \in registered
    <3>1. PICK q \in Nat : q = L \div (votes[w] + 1) /\ q <= L
      BY <1>1, LapShare
    <3>2. 0 + q <= L
      BY <3>1
    <3>3. InLap([position |-> 0, last_update |-> 0, scheduled |-> 0 + Lap \div (votes[w] + 1)], votes[w], 0)
      BY <1>0, <1>1, <2>1, <3>1, <3>2, NewLapRuns
    <3> QED  BY <2>2, <3>3 DEF Relapped
  <2>3. CASE w \notin registered
    <3>1. votes[w] = 0 /\ virtual[w] = New /\ Relapped(registered, 0)[w] = virtual[w]
      BY <1>2, <2>3 DEF LapsAt, Relapped
    <3>2. InLap(New, 0, 0)
      BY <1>0 DEF InLap, New, VirtualTimes, Times
    <3> QED  BY <2>3, <3>1, <3>2
  <2> QED  BY <2>2, <2>3
<1>5. CASE ~ Overflow(processed, time)
  <2>1. /\ time \in Times /\ current_virtual_time <= time
        /\ \A w \in Witnesses \ processed : time <= virtual[w].scheduled
    BY NewTimeReached
  <2>2. PICK t \in Nat, c \in Nat : t = time /\ t <= L /\ c = current_virtual_time
    BY <1>0, <2>1 DEF Times, ScheduleTypeOK
  <2> SUFFICES ASSUME NEW w \in Witnesses
               PROVE  /\ InLap(Relapped(processed, time)[w], votes[w], time)
                      /\ w \notin registered => votes[w] = 0 /\ Relapped(processed, time)[w] = New
    BY <1>5, <2>1 DEF LapsAt
  <2>3. CASE w \in processed
    <3>1. PICK q \in Nat : q = L \div (votes[w] + 1) /\ q <= L
      BY <1>1, LapShare
    <3>2. ~ (Wrap(t + q) < t)
      BY <1>0, <1>5, <2>2, <2>3, <3>1 DEF Overflow
    <3>3. t + q <= L
      <4> SUFFICES ASSUME t + q > L PROVE FALSE
        BY <2>2, <3>1
      <4>1. Wrap(t + q) = t + q - L - 1
        BY <1>0, <2>2, <3>1, WrapTimes
      <4> QED  BY <2>2, <3>1, <3>2, <4>1
    <3>4. InLap([position |-> 0, last_update |-> time, scheduled |-> time + Lap \div (votes[w] + 1)], votes[w], time)
      BY <1>0, <1>1, <2>1, <2>2, <3>1, <3>3, NewLapRuns
    <3> QED  BY <1>3, <2>3, <3>4 DEF Relapped
  <2>4. CASE w \notin processed
    <3>1. Relapped(processed, time)[w] = virtual[w] /\ time <= virtual[w].scheduled
      BY <2>1, <2>4 DEF Relapped
    <3>2. InLap(virtual[w], votes[w], current_virtual_time) /\ (w \notin registered => votes[w] = 0 /\ virtual[w] = New)
      BY <1>2 DEF LapsAt
    <3>3. virtual[w].last_update <= time
      <4>1. PICK l \in Nat : l = virtual[w].last_update
        BY <1>0 DEF ScheduleTypeOK, Times
      <4> QED  BY <2>1, <2>2, <3>2, <4>1 DEF InLap
    <3> QED  BY <3>1, <3>2, <3>3 DEF InLap
  <2> QED  BY <2>3, <2>4
<1> QED  BY <1>4, <1>5

-----------------------------------------------------------------------------
(* Slots. *)

Filled(recent) == {i \in 1 .. Window : recent[i] = 1}
SlotStates == {st \in [recent : [1 .. Window -> {0, 1}], count : Nat] : st.count = Cardinality(Filled(st.recent))}

\* The slots move down by one, and the last one is new.
LEMMA Shifted ==
  ASSUME NEW r \in [1 .. Window -> {0, 1}], NEW bit \in {0, 1}
  PROVE  /\ Head(r) = r[1]
         /\ Append(Tail(r), bit) \in [1 .. Window -> {0, 1}]
         /\ \A i \in 1 .. Window : Append(Tail(r), bit)[i] = IF i < Window THEN r[i + 1] ELSE bit
<1>1. PICK n \in Nat : n = Window /\ n > 0
  BY ScheduleAssumption
<1>2. r \in Seq({0, 1}) /\ Len(r) = n /\ r # << >>
  BY <1>1
<1>3. Head(r) = r[1]
  BY <1>2
<1>4. PICK t : t = Tail(r)
  OBVIOUS
<1>5. t \in Seq({0, 1}) /\ Len(t) = n - 1 /\ \A i \in 1 .. n - 1 : t[i] = r[i + 1]
  BY <1>1, <1>2, <1>4, HeadTailProperties
<1>6. PICK u : u = Append(t, bit)
  OBVIOUS
<1>7. u \in Seq({0, 1}) /\ Len(u) = n /\ (\A i \in 1 .. n - 1 : u[i] = t[i]) /\ u[n] = bit
  BY <1>1, <1>5, <1>6, AppendProperties
<1>8. u \in [1 .. n -> {0, 1}]
  BY ONLY <1>1, <1>7
<1>9. \A i \in 1 .. n : u[i] = IF i < n THEN r[i + 1] ELSE bit
  BY ONLY <1>1, <1>5, <1>7
<1> QED  BY <1>1, <1>3, <1>4, <1>6, <1>8, <1>9

\* The count follows.
LEMMA ShiftCounts ==
  ASSUME NEW st \in SlotStates, NEW bit \in {0, 1}
  PROVE  shift_slot(st, bit) \in SlotStates
<1>1. PICK n \in Nat : n = Window /\ n > 0
  BY ScheduleAssumption
<1>2. PICK r \in [1 .. Window -> {0, 1}] : r = st.recent
  BY DEF SlotStates
<1>3. PICK u \in [1 .. Window -> {0, 1}] :
        u = Append(Tail(r), bit) /\ (\A i \in 1 .. Window : u[i] = IF i < Window THEN r[i + 1] ELSE bit) /\ Head(r) = r[1]
  BY Shifted
<1> DEFINE F == Filled(r)
           G == Filled(u)
           S == F \ {1}
           T == G \ {n}
           f == [i \in S |-> i - 1]
<1>4. F \in SUBSET (1 .. n) /\ G \in SUBSET (1 .. n)
  BY <1>1 DEF Filled
<1>5. IsFiniteSet(1 .. n)
  BY FS_Interval
<1>6. IsFiniteSet(F) /\ IsFiniteSet(G) /\ IsFiniteSet(S) /\ IsFiniteSet(T)
  <2>1. IsFiniteSet(F) /\ IsFiniteSet(G)
    BY <1>4, <1>5, FS_Subset
  <2> QED  BY <2>1, FS_Subset
<1>7. f \in Bijection(S, T)
  <2>1. ASSUME NEW i \in S PROVE i - 1 \in T
    <3>1. i \in 2 .. n /\ i - 1 \in 1 .. n /\ i - 1 < n
      BY <1>1, <1>4
    <3>2. r[i] = 1
      BY DEF Filled
    <3>3. u[i - 1] = r[i - 1 + 1] /\ i - 1 + 1 = i
      BY <1>1, <1>3, <3>1
    <3> QED  BY <1>1, <3>1, <3>2, <3>3 DEF Filled
  <2>2. ASSUME NEW j \in T PROVE j + 1 \in S /\ j = (j + 1) - 1
    <3>1. j \in 1 .. n - 1 /\ j + 1 \in 2 .. n
      BY <1>1, <1>4
    <3>2. u[j] = 1 /\ u[j] = r[j + 1]
      BY <1>1, <1>3, <3>1 DEF Filled
    <3>3. j + 1 \in 1 .. Window /\ j + 1 # 1
      BY <1>1, <3>1
    <3> QED  BY <1>1, <3>1, <3>2, <3>3 DEF Filled
  <2>3. \A i \in S : i \in Int
    BY <1>4
  <2> HIDE DEF S, T
  <2>4. f \in [S -> T]
    BY <2>1
  <2>5. \A a, b \in S : f[a] = f[b] => a = b
    BY <2>3
  <2>6. \A j \in T : \E i \in S : f[i] = j
    BY <2>2
  <2> QED  BY <2>4, <2>5, <2>6 DEF Bijection, Injection, Surjection, IsInjective
<1>8. Cardinality(T) = Cardinality(S)
  <2> HIDE DEF S, T, f
  <2> QED  BY <1>6, <1>7, FS_Bijection DEF ExistsBijection
<1>9. PICK cf \in Nat, cg \in Nat, cs \in Nat : cf = Cardinality(F) /\ cg = Cardinality(G) /\ cs = Cardinality(S)
  BY <1>6, FS_CardinalityType
<1>10. cs = IF 1 \in F THEN cf - 1 ELSE cf
  <2> HIDE DEF F
  <2> QED  BY <1>6, <1>9, FS_RemoveElement
<1>11. cs = IF n \in G THEN cg - 1 ELSE cg
  <2> HIDE DEF F, G
  <2> QED  BY <1>6, <1>8, <1>9, FS_RemoveElement
<1>12. (1 \in F <=> r[1] = 1) /\ (n \in G <=> bit = 1)
  BY <1>1, <1>3 DEF Filled
<1>13. r[1] \in {0, 1}
  BY <1>1
<1>14. cg = cf - r[1] + bit
  BY <1>10, <1>11, <1>12, <1>13
<1>15. st.count = cf
  BY <1>2, <1>9 DEF SlotStates
<1>16. shift_slot(st, bit) = [recent |-> u, count |-> cg]
  BY <1>2, <1>3, <1>14, <1>15 DEF shift_slot
<1> QED  BY <1>9, <1>16 DEF SlotStates

\* The slots of a block and of those missed before it.
LEMMA SlotsCounted ==
  ASSUME ScheduleShape, ParticipationCounts, FillSlots
  PROVE  recent_slots_filled' \in [1 .. Window -> {0, 1}] /\ participation_count' = Cardinality(Filled(recent_slots_filled'))
<1> DEFINE base == [recent |-> recent_slots_filled, count |-> participation_count]
           bits == [i \in 1 .. open.missed + 1 |-> IF i = 1 THEN 1 ELSE 0]
<1>1. base \in SlotStates
  <2>1. Filled(recent_slots_filled) \in SUBSET (1 .. Window)
    BY DEF Filled
  <2>2. IsFiniteSet(1 .. Window)
    BY FS_Interval, ScheduleAssumption
  <2>3. Cardinality(Filled(recent_slots_filled)) \in Nat
    BY <2>1, <2>2, FS_Subset, FS_CardinalityType
  <2> QED  BY <2>3 DEF SlotStates, ScheduleShape, ParticipationCounts, Filled
<1>2. bits \in Seq({0, 1})
  <2>1. PICK m \in Nat : m = open.missed + 1
    BY DEF ScheduleShape
  <2>2. [i \in 1 .. m |-> IF i = 1 THEN 1 ELSE 0] \in Seq({0, 1})
    BY SMT
  <2> QED  BY <2>1, <2>2
<1>3. FoldLeft(shift_slot, base, bits) = Slotting!Fold(base, bits)
  BY DEF Slotting!Fold, FoldLeft, Slotting!MapThenFoldSet, MapThenFoldSet, Max, Slotting!Largest
<1>4. Slotting!Fold(base, bits) \in SlotStates
  <2>1. Slotting!Closed(SlotStates, {0, 1})
    BY ShiftCounts DEF Slotting!Closed
  <2> HIDE DEF base, bits
  <2> QED  BY <1>1, <1>2, <2>1, Slotting!FoldIn
<1>5. PICK st \in SlotStates : recent_slots_filled' = st.recent /\ participation_count' = st.count
  BY <1>3, <1>4 DEF FillSlots
<1> QED  BY <1>5 DEF SlotStates

-----------------------------------------------------------------------------
(* The steps keep the invariant. *)

\* Short sequences over a set.
LEMMA ShortSeq ==
  ASSUME NEW S, NEW n \in Nat, NEW s
  PROVE  /\ s \in BoundedSeq(S, n) => Len(s) \in 0 .. n /\ s \in [1 .. Len(s) -> S]
         /\ \A m \in 0 .. n : s \in [1 .. m -> S] => s \in BoundedSeq(S, n)
  BY DEF BoundedSeq, SeqOf

\* A schedule stays one when more witnesses exist.
LEMMA ShortSeqMore ==
  ASSUME NEW S, NEW T, S \subseteq T, NEW n \in Nat, NEW s \in BoundedSeq(S, n)
  PROVE  s \in BoundedSeq(T, n)
<1>1. Len(s) \in 0 .. n /\ s \in [1 .. Len(s) -> S]
  BY ShortSeq
<1>2. s \in [1 .. Len(s) -> T]
  BY <1>1
<1> QED  BY <1>1, <1>2, ShortSeq

\* Every slot belongs to a scheduled witness.
LEMMA SlotTaken ==
  ASSUME ScheduleTypeOK, Len(shuffled) > 0, NEW i \in Nat
  PROVE  get_scheduled_witness(i) \in Range(shuffled) /\ get_scheduled_witness(i) \in registered
<1>1. PICK n \in Nat : n = Len(shuffled) /\ n > 0 /\ shuffled \in [1 .. n -> registered]
  BY ShortSeq, ScheduleAssumption DEF ScheduleTypeOK
<1>2. PICK a \in Nat : a = current_aslot + i
  BY ScheduleAssumption DEF ScheduleTypeOK
<1>3. PICK m \in Nat : m = a % n /\ m < n
  BY <1>1, DivNat
<1>4. 1 + m \in 1 .. n
  BY <1>1, <1>3
<1>5. get_scheduled_witness(i) = shuffled[1 + m]
  BY <1>1, <1>2, <1>3 DEF get_scheduled_witness
<1> QED  BY <1>1, <1>4, <1>5 DEF Range

LEMMA ScheduleInitInv == ScheduleInit => ScheduleInv
<1> SUFFICES ASSUME ScheduleInit PROVE ScheduleInv
  OBVIOUS
<1> USE DEF ScheduleInit
<1>1. PICK g \in Genesis : g = Min(Genesis)
  <2>1. Genesis \in SUBSET Nat /\ Genesis # {}
    BY ScheduleAssumption
  <2>2. \E x \in Genesis : \A y \in Genesis : x <= y
    BY <2>1, LeastNumber
  <2> QED  BY <2>2 DEF Min
<1>2. shuffled = <<g>> /\ g \in Witnesses /\ g \in registered
  BY <1>1, ScheduleAssumption
<1>3. votes \in [Witnesses -> 0 .. MaxVotes] /\ \A w \in Witnesses \ Genesis : votes[w] = 0
  BY ScheduleAssumption DEF ScheduleProfile
<1>4. PICK L \in Nat : L = Lap
  BY ScheduleAssumption
<1>5. ASSUME NEW w \in Witnesses
      PROVE  InLap(virtual[w], votes[w], 0) /\ (w \notin registered => votes[w] = 0 /\ virtual[w] = New)
  <2>1. PICK v \in Nat : v = votes[w]
    <3>1. MaxVotes \in Nat
      BY ScheduleAssumption
    <3>2. votes[w] \in 0 .. MaxVotes
      BY ONLY <1>3, w \in Witnesses
    <3> QED  BY ONLY <3>1, <3>2
  <2>2. PICK q \in Nat : q = L \div (v + 1) /\ q <= L
    BY LapShare
  <2>3. 0 \in Times /\ 0 + q <= L
    BY <1>4, <2>2 DEF Times
  <2>4. InLap([position |-> 0, last_update |-> 0, scheduled |-> 0 + Lap \div (v + 1)], v, 0)
    BY <1>4, <2>2, <2>3, NewLapRuns
  <2>5. virtual[w] = [position |-> 0, last_update |-> 0, scheduled |-> q]
    BY <1>4, <2>1, <2>2 DEF New
  <2>6. 0 + Lap \div (v + 1) = q
    BY <1>4, <2>2
  <2>7. InLap(virtual[w], votes[w], 0)
    BY <2>1, <2>4, <2>5, <2>6
  <2>8. ASSUME w \notin registered PROVE votes[w] = 0 /\ virtual[w] = New
    <3>1. v = 0
      BY <1>3, <2>1, <2>8
    <3>2. L \div 1 = L
      OBVIOUS
    <3>3. v + 1 = 1
      BY <3>1
    <3>4. q = L
      BY <2>2, <3>2, <3>3
    <3> QED  BY <1>4, <2>1, <2>5, <3>1, <3>4 DEF New
  <2> QED  BY <2>7, <2>8
<1>6. virtual \in [Witnesses -> VirtualTimes]
  <2>1. \A w \in Witnesses : virtual[w] \in VirtualTimes
    BY <1>5 DEF InLap
  <2>2. virtual = [w \in Witnesses |-> virtual[w]]
    OBVIOUS
  <2> QED  BY <2>1, <2>2
<1>7. <<g>> \in [1 .. 1 -> registered] /\ 1 \in 0 .. MaxMiners /\ Len(<<g>>) = 1 /\ DOMAIN <<g>> = 1 .. 1
  BY <1>2, ScheduleAssumption
<1>8. shuffled \in BoundedSeq(registered, MaxMiners)
  <2>0. shuffled \in [1 .. 1 -> registered]
    BY <1>2, <1>7
  <2>1. PICK f, S, n : f = shuffled /\ S = registered /\ n = MaxMiners /\ n \in Nat /\ f \in [1 .. 1 -> S] /\ 1 \in 0 .. n
    BY <1>7, <2>0, ScheduleAssumption
  <2>2. f \in BoundedSeq(S, n)
    BY ONLY <2>1, ShortSeq
  <2> QED  BY <2>1, <2>2
<1>9. IsInjective(shuffled)
  <2>1. \A a \in 1 .. 1 : a = 1
    OBVIOUS
  <2> QED  BY <1>2, <1>7, <2>1 DEF IsInjective
<1>10. 0 \in Times /\ 0 \in 0 .. MaxMiners - 1 /\ 0 \in 0 .. Slots - 1 /\ 0 \in 0 .. NumHardforks
  BY ScheduleAssumption DEF Times
<1>11. unconfirmed \in [Witnesses -> 0 .. Day + 1]
  BY ScheduleAssumption, SMTT(30)
<1>12. ScheduleTypeOK
  BY <1>3, <1>6, <1>8, <1>9, <1>10, <1>11, ScheduleAssumption DEF ScheduleTypeOK, VirtualTimes
<1>13. ScheduleShape
  <2>1. open \in [witness : Int, missed : Nat]
    BY DEF NoBlock, NoOne
  <2> QED  BY <1>12, <2>1 DEF ScheduleShape
<1>14. LapsRun
  <2>1. LapsAt(virtual, current_virtual_time)
    BY <1>5 DEF LapsAt
  <2> QED  BY <1>12, <2>1, LapsRunAt
<1>15. SomeoneStays
  <2>1. 1 \in DOMAIN shuffled /\ shuffled[1] = g
    BY <1>2
  <2>2. g \in Range(shuffled)
    BY <2>1 DEF Range
  <2> QED  BY <1>1, <2>2 DEF SomeoneStays
<1>16. ParticipationCounts
  <2>1. {i \in 1 .. Window : recent_slots_filled[i] = 1} = 1 .. Window
    OBVIOUS
  <2>2. Cardinality(1 .. Window) = Window
    <3>1. PICK n \in Nat : n = Window /\ ~ (1 > n)
      BY ScheduleAssumption
    <3>2. Cardinality(1 .. n) = IF 1 > n THEN 0 ELSE n - 1 + 1
      BY FS_Interval
    <3> QED  BY <3>1, <3>2
  <2> QED  BY <2>1, <2>2 DEF ParticipationCounts
<1>17. VotesHonest
  BY DEF VotesHonest
<1> QED  BY <1>13, <1>14, <1>15, <1>16, <1>17 DEF ScheduleInv

LEMMA BeginKeeps ==
  ASSUME ScheduleInv, UNCHANGED scheduleProfile, NEW missed \in Nat, begin_block(missed)
  PROVE  ScheduleInv'
<1> DEFINE w == get_scheduled_witness(missed + 1)
<1>1. w \in Range(shuffled) /\ w \in registered /\ w \in keyed /\ w \in Witnesses
  <2>1. missed + 1 \in Nat
    OBVIOUS
  <2> QED  BY <2>1, SlotTaken DEF begin_block, ScheduleInv, ScheduleShape, ScheduleTypeOK
<1> HIDE DEF w
<1>2. /\ binary[w] >= last_hardfork
      /\ running_version' = [running_version EXCEPT ![w] = binary[w]]
      /\ hardfork_version_vote' =
          [hardfork_version_vote EXCEPT ![w] =
             IF binary[w] > last_hardfork THEN last_hardfork + 1
             ELSE IF hardfork_version_vote[w] > binary[w] THEN last_hardfork ELSE hardfork_version_vote[w]]
      /\ open' = [witness |-> w, missed |-> missed]
  BY DEF begin_block, w
<1>3. UNCHANGED <<registered, votes, virtual, keyed, unconfirmed, fee, binary, current_virtual_time, shuffled, median_fee,
                  next_hardfork, last_hardfork, hardfork_due, head, current_aslot, recent_slots_filled, participation_count>>
  BY DEF begin_block, witness, schedule, hardforks, slots
<1>4. ScheduleTypeOK'
  BY <1>3 DEF ScheduleInv, ScheduleShape, ScheduleTypeOK
<1>5. binary[w] \in Nat /\ last_hardfork \in Nat /\ hardfork_version_vote[w] \in Nat
  BY <1>1, ScheduleAssumption DEF ScheduleInv, ScheduleShape, ScheduleTypeOK
<1>6. running_version' \in [Witnesses -> Nat] /\ hardfork_version_vote' \in [Witnesses -> Nat]
  BY <1>1, <1>2, <1>5 DEF ScheduleInv, ScheduleShape
<1>7. ScheduleShape'
  <2>1. w \in Int
    BY <1>1, ScheduleAssumption
  <2>2. open' \in [witness : Int, missed : Nat]
    BY <1>2, <2>1
  <2> QED  BY <1>3, <1>4, <1>6, <2>2 DEF ScheduleInv, ScheduleShape
<1>8. LapsRun'
  BY <1>3 DEF ScheduleInv, LapsRun
<1>9. SomeoneStays'
  BY <1>1, <1>2, <1>3 DEF SomeoneStays
<1>10. ParticipationCounts'
  BY <1>3 DEF ScheduleInv, ParticipationCounts
<1>11. VotesHonest'
  <2> SUFFICES ASSUME NEW x \in Witnesses PROVE hardfork_version_vote'[x] <= running_version'[x]
    BY DEF VotesHonest
  <2>1. CASE x = w
    BY <1>1, <1>2, <1>5, <2>1 DEF ScheduleInv, ScheduleShape
  <2>2. CASE x # w
    BY <1>1, <1>2, <2>2 DEF ScheduleInv, ScheduleShape, VotesHonest
  <2> QED  BY <2>1, <2>2
<1> QED  BY <1>7, <1>8, <1>9, <1>10, <1>11 DEF ScheduleInv

LEMMA VoteKeeps ==
  ASSUME ScheduleInv, NEW w \in registered, NEW delta \in {-1, 1}, adjust_witness_vote(w, delta),
         UNCHANGED <<scheduleProfile, versions, schedule, hardforks, slots, open>>
  PROVE  ScheduleInv'
<1>1. UNCHANGED <<scheduleProfile, registered, keyed, unconfirmed, fee, running_version, hardfork_version_vote, binary,
                  current_virtual_time, shuffled, last_hardfork, head, current_aslot, recent_slots_filled,
                  participation_count, open>>
  BY DEF adjust_witness_vote, versions, schedule, hardforks, slots
<1>2. ScheduleTypeOK /\ LapsAt(virtual, current_virtual_time) /\ w \in Witnesses
  BY LapsRunAt DEF ScheduleInv, ScheduleShape, ScheduleTypeOK
<1>3. PICK v \in Nat : v = votes[w] + delta /\ v \in 0 .. MaxVotes
  BY ScheduleAssumption DEF adjust_witness_vote
<1>4. votes' = [votes EXCEPT ![w] = v]
  BY <1>3 DEF adjust_witness_vote
<1>5. advance(w) \in Times
  <2>1. PICK L \in Nat, c \in Nat, l \in Nat, a \in Nat, p \in Nat :
          /\ L = Lap /\ c = current_virtual_time /\ l = virtual[w].last_update /\ a = votes[w] /\ p = virtual[w].position
          /\ c <= L /\ l <= c
    <3>1. virtual[w] \in VirtualTimes /\ virtual[w].last_update <= current_virtual_time
      BY <1>2, Zenon DEF LapsAt, InLap
    <3>2. Lap \in Nat /\ current_virtual_time \in 0 .. Lap /\ votes[w] \in Nat
      BY <1>2, ScheduleAssumption DEF ScheduleTypeOK, Times
    <3>3. virtual[w].last_update \in Nat /\ virtual[w].position \in Nat
      BY <3>1, <3>2 DEF VirtualTimes, Times
    <3> QED  BY <3>1, <3>2, <3>3
  <2>2. PICK d \in Nat : d = c - l /\ d <= L
    BY <2>1
  <2>3. Wrap(d) = d
    BY <2>1, <2>2, WrapTimes
  <2>4. p + a * d \in Times
    <3>1. virtual[w].position + votes[w] * (current_virtual_time - virtual[w].last_update) \in Times
      BY <1>2, <2>1, InLapNow DEF LapsAt, ScheduleTypeOK
    <3> QED  BY <2>1, <2>2, <3>1
  <2>5. PICK e \in Nat : e = p + a * d /\ e <= L
    BY <2>1, <2>4 DEF Times
  <2>6. Wrap(e) = e
    BY <2>1, <2>5, WrapTimes
  <2>7. advance(w) = Wrap(p + a * Wrap(c - l))
    BY <2>1 DEF advance
  <2>8. advance(w) = e
    BY <2>2, <2>3, <2>5, <2>6, <2>7
  <2> QED  BY <2>4, <2>5, <2>8
<1>6. PICK s : s = Wrap(current_virtual_time + Wrap(Lap - advance(w)) \div (v + 1))
  OBVIOUS
<1>7. PICK r : r = [position |-> advance(w), last_update |-> current_virtual_time,
                    scheduled |-> IF s < current_virtual_time THEN Lap ELSE s]
  OBVIOUS
<1>8. InLap(r, v, current_virtual_time)
  BY <1>2, <1>5, <1>6, <1>7, VotesChangeLap DEF ScheduleTypeOK
<1>9. virtual' = [virtual EXCEPT ![w] = r]
  <2>1. votes[w] + delta + 1 = v + 1
    BY <1>3
  <2> QED  BY <1>6, <1>7, <2>1 DEF adjust_witness_vote
<1>10. votes' \in [Witnesses -> 0 .. MaxVotes] /\ virtual' \in [Witnesses -> VirtualTimes]
  BY <1>2, <1>3, <1>4, <1>8, <1>9 DEF ScheduleTypeOK, InLap, VirtualTimes
<1>11. ScheduleTypeOK'
  BY <1>1, <1>2, <1>10 DEF ScheduleTypeOK, VirtualTimes
<1>12. ScheduleShape'
  BY <1>1, <1>11 DEF ScheduleInv, ScheduleShape
<1>13. LapsRun'
  <2>1. \A x \in Witnesses : InLap(virtual'[x], votes'[x], current_virtual_time)
                             /\ (x \notin registered => votes'[x] = 0 /\ virtual'[x] = New)
    <3> TAKE x \in Witnesses
    <3>1. CASE x = w
      BY <1>2, <1>4, <1>8, <1>9, <3>1 DEF ScheduleTypeOK
    <3>2. CASE x # w
      BY <1>2, <1>4, <1>9, <3>2 DEF ScheduleTypeOK, LapsAt
    <3> QED  BY <3>1, <3>2
  <2> QED  BY <1>1, <2>1 DEF LapsRun, InLap
<1>14. SomeoneStays' /\ ParticipationCounts' /\ VotesHonest'
  BY <1>1 DEF ScheduleInv, SomeoneStays, ParticipationCounts, VotesHonest
<1> QED  BY <1>12, <1>13, <1>14 DEF ScheduleInv

LEMMA UpdateKeeps ==
  ASSUME ScheduleInv, NEW w \in Witnesses, NEW key \in BOOLEAN, NEW new_fee \in {0, 1},
         witness_update(w, key, new_fee), key \/ MayLeave(w),
         UNCHANGED <<scheduleProfile, versions, schedule, hardforks, slots, open>>
  PROVE  ScheduleInv'
<1>1. UNCHANGED <<scheduleProfile, votes, virtual, unconfirmed, running_version, hardfork_version_vote, binary,
                  current_virtual_time, shuffled, last_hardfork, head, current_aslot, recent_slots_filled,
                  participation_count, open>>
  BY DEF witness_update, versions, schedule, hardforks, slots
<1>2. /\ registered' = registered \cup {w}
      /\ keyed' = IF key THEN keyed \cup {w} ELSE keyed \ {w}
      /\ fee' = [fee EXCEPT ![w] = new_fee]
  BY DEF witness_update
<1>3. shuffled \in BoundedSeq(registered', MaxMiners)
  <2>1. registered \subseteq registered'
    BY <1>2
  <2> QED  BY <2>1, ShortSeqMore, ScheduleAssumption DEF ScheduleInv, ScheduleShape, ScheduleTypeOK
<1>4. registered' \subseteq Witnesses /\ keyed' \subseteq registered' /\ fee' \in [Witnesses -> {0, 1}]
  BY <1>2 DEF ScheduleInv, ScheduleShape, ScheduleTypeOK
<1>5. ScheduleTypeOK'
  BY <1>1, <1>3, <1>4 DEF ScheduleInv, ScheduleShape, ScheduleTypeOK
<1>6. ScheduleShape'
  BY <1>1, <1>4, <1>5 DEF ScheduleInv, ScheduleShape
<1>7. LapsRun'
  BY <1>1, <1>2 DEF ScheduleInv, LapsRun
<1>8. SomeoneStays'
  <2>1. CASE key
    BY <1>1, <1>2, <2>1 DEF ScheduleInv, SomeoneStays
  <2>2. CASE ~ key
    <3>1. PICK x \in Range(shuffled) \cap keyed : x # w /\ unconfirmed[x] <= Day
      BY <2>2 DEF MayLeave
    <3> QED  BY <1>1, <1>2, <2>2, <3>1 DEF SomeoneStays
  <2> QED  BY <2>1, <2>2
<1>9. ParticipationCounts' /\ VotesHonest'
  BY <1>1 DEF ScheduleInv, ParticipationCounts, VotesHonest
<1> QED  BY <1>6, <1>7, <1>8, <1>9 DEF ScheduleInv

LEMMA OperationKeeps ==
  ASSUME ScheduleInv, UNCHANGED scheduleProfile, Operation
  PROVE  ScheduleInv'
<1>0. UNCHANGED <<scheduleProfile, versions, schedule, hardforks, slots, open>>
  BY DEF Operation
<1>1. /\ scheduleProfile.leaving \subseteq Witnesses /\ keyed \subseteq Witnesses
      /\ \A w \in Witnesses : fee[w] \in {0, 1} /\ 1 - fee[w] \in {0, 1}
  BY ScheduleAssumption DEF ScheduleInv, ScheduleShape, ScheduleTypeOK, ScheduleProfile
<1>2. CASE \E w \in scheduleProfile.voted \cap registered : \E delta \in {-1, 1} : adjust_witness_vote(w, delta)
  BY <1>0, <1>2, VoteKeeps
<1>3. CASE \E w \in scheduleProfile.leaving : witness_update(w, TRUE, fee[w])
  BY <1>0, <1>1, <1>3, UpdateKeeps
<1>4. CASE \E w \in scheduleProfile.leaving : w \in registered /\ MayLeave(w) /\ witness_update(w, FALSE, fee[w])
  BY <1>0, <1>1, <1>4, UpdateKeeps
<1>5. CASE \E w \in scheduleProfile.fees \cap keyed : witness_update(w, TRUE, 1 - fee[w])
  BY <1>0, <1>1, <1>5, UpdateKeeps
<1> QED  BY <1>2, <1>3, <1>4, <1>5 DEF Operation

LEMMA UpgradeKeeps ==
  ASSUME ScheduleInv, UNCHANGED scheduleProfile, NEW w \in Witnesses, Upgrade(w)
  PROVE  ScheduleInv'
<1>1. UNCHANGED <<scheduleProfile, registered, votes, virtual, keyed, unconfirmed, fee, running_version,
                  hardfork_version_vote, current_virtual_time, shuffled, last_hardfork, head, current_aslot,
                  recent_slots_filled, participation_count, open>>
  BY DEF Upgrade, witness, schedule, hardforks, slots
<1>2. binary' \in [Witnesses -> Nat]
  BY DEF Upgrade, ScheduleInv, ScheduleShape
<1>3. ScheduleShape'
  BY <1>1, <1>2 DEF ScheduleInv, ScheduleShape, ScheduleTypeOK
<1>4. LapsRun' /\ SomeoneStays' /\ ParticipationCounts' /\ VotesHonest'
  BY <1>1 DEF ScheduleInv, LapsRun, SomeoneStays, ParticipationCounts, VotesHonest
<1> QED  BY <1>3, <1>4 DEF ScheduleInv

\* Nothing the invariant speaks of changes.
LEMMA ScheduleStutter ==
  ASSUME ScheduleInv, UNCHANGED <<scheduleProfile, witness, versions, schedule, hardforks, slots, open>>
  PROVE  ScheduleInv'
<1>1. UNCHANGED <<scheduleProfile, registered, votes, virtual, keyed, unconfirmed, fee, running_version,
                  hardfork_version_vote, binary, current_virtual_time, shuffled, last_hardfork, head, current_aslot,
                  recent_slots_filled, participation_count, open>>
  BY DEF witness, versions, schedule, hardforks, slots
<1>2. ScheduleShape'
  BY <1>1 DEF ScheduleInv, ScheduleShape, ScheduleTypeOK
<1>3. LapsRun' /\ SomeoneStays' /\ ParticipationCounts' /\ VotesHonest'
  BY <1>1 DEF ScheduleInv, LapsRun, SomeoneStays, ParticipationCounts, VotesHonest
<1> QED  BY <1>2, <1>3 DEF ScheduleInv

\* A new round is scheduled from the witnesses that can sign, each once.
LEMMA RoundScheduled ==
  ASSUME ScheduleInv, NEW K \in SUBSET registered, K # {}, update_witness_schedule4(K)
  PROVE  /\ shuffled' \in BoundedSeq(registered, MaxMiners) /\ IsInjective(shuffled')
         /\ Range(shuffled') \subseteq K /\ Range(shuffled') # {}
<1> DEFINE top == Top(K)
           active == top \cup (Processed(K, top) \cap K)
<1>1. PICK order \in SetToSeqs(active) : shuffled' = order
  BY DEF update_witness_schedule4
<1>2. /\ IsFiniteSet(active) /\ active \subseteq K /\ active # {}
      /\ Cardinality(active) \in 0 .. MaxMiners
  BY ActiveWitnesses DEF ScheduleInv, ScheduleShape
<1> HIDE DEF active, top
<1>3. PICK c \in Nat : c = Cardinality(active) /\ c > 0 /\ c \in 0 .. MaxMiners
  BY <1>2, FS_EmptySet, FS_CardinalityType
<1>4. order \in [1 .. c -> active] /\ \A i, j \in 1 .. c : i # j => order[i] # order[j]
  BY <1>3 DEF SetToSeqs
<1>5. order \in [1 .. c -> registered] /\ DOMAIN order = 1 .. c /\ 1 \in 1 .. c
  BY <1>2, <1>3, <1>4
<1>6. order \in BoundedSeq(registered, MaxMiners)
  BY <1>3, <1>5, ShortSeq, ScheduleAssumption
<1>7. IsInjective(order)
  BY <1>4, <1>5 DEF IsInjective
<1>8. Range(order) \subseteq K /\ order[1] \in Range(order)
  BY <1>2, <1>4, <1>5 DEF Range
<1> QED  BY <1>1, <1>6, <1>7, <1>8

\* The virtual times after a round.
LEMMA RoundTimes ==
  ASSUME ScheduleInv, NEW K \in SUBSET registered, update_witness_schedule4(K)
  PROVE  LapsAt(virtual', current_virtual_time') /\ current_virtual_time' \in Times /\ virtual' \in [Witnesses -> VirtualTimes]
<1> DEFINE top == Top(K)
           processed == Processed(K, top)
           time == NewTime(processed)
<1>1. update_virtual_times(processed, time)
  BY DEF update_witness_schedule4
<1>2. ScheduleTypeOK /\ LapsRun /\ IsFiniteSet(top)
  BY ActiveWitnesses DEF ScheduleInv, ScheduleShape
<1>3. IF Overflow(processed, time) THEN LapsAt(Relapped(registered, 0), 0)
      ELSE time \in Times /\ LapsAt(Relapped(processed, time), time)
  BY <1>2, RoundRuns
<1>4. IF Overflow(processed, time) THEN virtual' = Relapped(registered, 0) /\ current_virtual_time' = 0
      ELSE virtual' = Relapped(processed, time) /\ current_virtual_time' = time
  BY <1>1 DEF update_virtual_times, NewLap, Relapped
<1> HIDE DEF top, processed, time
<1>5. 0 \in Times
  BY ScheduleAssumption DEF Times
<1>6. PICK vt, ct : vt = virtual' /\ ct = current_virtual_time'
  OBVIOUS
<1>7. LapsAt(vt, ct) /\ ct \in Times /\ DOMAIN vt = Witnesses /\ vt = [w \in Witnesses |-> vt[w]]
  BY <1>3, <1>4, <1>5, <1>6 DEF Relapped
<1>8. vt \in [Witnesses -> VirtualTimes]
  BY <1>7 DEF LapsAt, InLap
<1> QED  BY <1>6, <1>7, <1>8

\* The maintenance leaves a scheduled witness its key.
LEMMA SomeoneKeepsKey ==
  ASSUME ScheduleInv, open # NoBlock
  PROVE  \E x \in Range(shuffled) : x \in StillKeyed
<1>1. PICK x \in Range(shuffled) \cap keyed : x = open.witness \/ unconfirmed[x] <= Day
  BY DEF ScheduleInv, SomeoneStays
<1>2. unconfirmed[x] \in Nat /\ Day \in Nat
  <2>1. x \in Witnesses /\ unconfirmed \in [Witnesses -> 0 .. Day + 1]
    BY <1>1 DEF ScheduleInv, ScheduleShape, ScheduleTypeOK
  <2>2. unconfirmed[x] \in 0 .. Day + 1 /\ Day \in Nat
    BY <2>1, ScheduleAssumption
  <2> QED  BY <2>2
<1> QED  BY <1>1, <1>2 DEF StillKeyed, idle

LEMMA EndKeeps ==
  ASSUME ScheduleInv, UNCHANGED scheduleProfile, end_block
  PROVE  ScheduleInv'
<1>1. UNCHANGED <<scheduleProfile, registered, votes, fee, running_version, hardfork_version_vote, binary>> /\ open' = NoBlock
  BY DEF end_block, versions
<1>2. keyed' = StillKeyed /\ StillKeyed \subseteq keyed /\ StillKeyed \in SUBSET registered
  BY DEF end_block, update_global_dynamic_data, StillKeyed, ScheduleInv, ScheduleShape, ScheduleTypeOK
<1>3. \E x \in Range(shuffled) : x \in StillKeyed
  BY SomeoneKeepsKey DEF end_block
<1>4. recent_slots_filled' \in [1 .. Window -> {0, 1}] /\ participation_count' = Cardinality(Filled(recent_slots_filled'))
  BY SlotsCounted DEF ScheduleInv, end_block, update_global_dynamic_data
<1>5. head' \in 0 .. MaxMiners - 1 /\ current_aslot' \in 0 .. Slots - 1
  <2>1. ASSUME NEW n \in Nat \ {0}, NEW h \in Nat PROVE h % n \in 0 .. n - 1
    <3>1. PICK r \in Nat : r = h % n /\ r < n
      BY DivNat
    <3> QED  BY <3>1
  <2>2. head + 1 \in Nat /\ current_aslot + open.missed + 1 \in Nat
    BY ScheduleAssumption DEF ScheduleInv, ScheduleShape, ScheduleTypeOK
  <2>3. head' = (head + 1) % MaxMiners /\ current_aslot' = (current_aslot + open.missed + 1) % Slots
    BY DEF end_block, update_global_dynamic_data
  <2>4. MaxMiners \in Nat \ {0} /\ Slots \in Nat \ {0}
    BY ScheduleAssumption
  <2>5. (head + 1) % MaxMiners \in 0 .. MaxMiners - 1
    BY <2>1, <2>2, <2>4
  <2>6. (current_aslot + open.missed + 1) % Slots \in 0 .. Slots - 1
    BY <2>1, <2>2, <2>4
  <2> QED  BY <2>3, <2>5, <2>6
<1>6. unconfirmed' \in [Witnesses -> 0 .. Day + 1]
  <2>1. unconfirmed' = [w \in Witnesses |-> IF w = open.witness THEN 0 ELSE Min({unconfirmed[w] + 1, Day + 1})]
    BY DEF end_block, Confirm
  <2>2. ASSUME NEW w \in Witnesses PROVE Min({unconfirmed[w] + 1, Day + 1}) \in 0 .. Day + 1
    <3>1. PICK u \in Nat, d \in Nat : u = unconfirmed[w] + 1 /\ d = Day + 1
      <4>1. Day \in Nat
        BY ScheduleAssumption
      <4>2. unconfirmed \in [Witnesses -> 0 .. Day + 1]
        BY DEF ScheduleInv, ScheduleShape, ScheduleTypeOK
      <4>3. unconfirmed[w] \in 0 .. Day + 1
        BY ONLY <4>2, w \in Witnesses
      <4> QED  BY ONLY <4>1, <4>3
    <3>2. Min({u, d}) \in {u, d} /\ \A y \in {u, d} : Min({u, d}) <= y
      <4>1. \E x \in {u, d} : \A y \in {u, d} : x <= y
        OBVIOUS
      <4> QED  BY <4>1 DEF Min
    <3>3. PICK m : m = Min({u, d})
      OBVIOUS
    <3>4. m \in 0 .. d
      BY <3>2, <3>3
    <3> QED  BY <3>1, <3>3, <3>4
  <2>3. 0 \in 0 .. Day + 1
    BY ScheduleAssumption
  <2> QED  BY <2>1, <2>2, <2>3
<1>7. last_hardfork' \in 0 .. NumHardforks
  <2>1. last_hardfork' = last_hardfork \/ (last_hardfork < NumHardforks /\ last_hardfork' = last_hardfork + 1)
    BY DEF end_block, process_hardforks
  <2> QED  BY <2>1, ScheduleAssumption DEF ScheduleInv, ScheduleShape, ScheduleTypeOK
<1>8. /\ shuffled' \in BoundedSeq(registered, MaxMiners) /\ IsInjective(shuffled')
      /\ \E x \in Range(shuffled') : x \in StillKeyed
      /\ LapsAt(virtual', current_virtual_time') /\ current_virtual_time' \in Times /\ virtual' \in [Witnesses -> VirtualTimes]
  <2>1. CASE head' = 0
    <3>1. update_witness_schedule4(StillKeyed)
      BY <2>1 DEF end_block, update_witness_schedule
    <3>2. StillKeyed # {}
      BY <1>3
    <3> QED  BY <1>2, <3>1, <3>2, RoundScheduled, RoundTimes
  <2>2. CASE head' # 0
    <3>1. UNCHANGED <<shuffled, virtual, current_virtual_time>>
      BY <2>2 DEF end_block, update_witness_schedule, schedule
    <3>2. LapsAt(virtual, current_virtual_time)
      BY LapsRunAt DEF ScheduleInv, ScheduleShape
    <3> QED  BY <1>3, <3>1, <3>2 DEF ScheduleInv, ScheduleShape, ScheduleTypeOK, VirtualTimes
  <2> QED  BY <2>1, <2>2
<1>9. ScheduleTypeOK'
  BY <1>1, <1>2, <1>5, <1>6, <1>7, <1>8 DEF ScheduleInv, ScheduleShape, ScheduleTypeOK, VirtualTimes
<1>10. ScheduleShape'
  <2>1. NoBlock \in [witness : Int, missed : Nat]
    BY DEF NoBlock, NoOne
  <2> QED  BY <1>1, <1>4, <1>9, <2>1 DEF ScheduleInv, ScheduleShape
<1>11. LapsRun'
  BY <1>1, <1>8 DEF LapsAt, LapsRun, InLap
<1>12. SomeoneStays'
  BY <1>1, <1>2, <1>8 DEF SomeoneStays
<1>13. ParticipationCounts'
  BY <1>4 DEF ParticipationCounts, Filled
<1>14. VotesHonest'
  BY <1>1 DEF ScheduleInv, VotesHonest
<1> QED  BY <1>10, <1>11, <1>12, <1>13, <1>14 DEF ScheduleInv

LEMMA ScheduleStep ==
  ASSUME ScheduleInv, [ScheduleNext]_scheduleVars
  PROVE  ScheduleInv'
<1>1. CASE UNCHANGED scheduleProfile /\ BeginBlock
  <2>1. ASSUME NEW m \in 0 .. (IF settled THEN MaxMiners ELSE scheduleProfile.missed) PROVE m \in Nat
    BY ScheduleAssumption DEF ScheduleInv, ScheduleShape, ScheduleProfile
  <2> QED  BY <1>1, <2>1, BeginKeeps DEF BeginBlock
<1>2. CASE UNCHANGED scheduleProfile /\ Operation
  BY <1>2, OperationKeeps
<1>3. CASE UNCHANGED scheduleProfile /\ \E w \in Witnesses : Upgrade(w)
  BY <1>3, UpgradeKeeps
<1>4. CASE UNCHANGED scheduleProfile /\ end_block
  BY <1>4, EndKeeps
<1>5. CASE UNCHANGED scheduleProfile /\ Settle
  BY <1>5, ScheduleStutter DEF Settle
<1>6. CASE UNCHANGED scheduleVars
  BY <1>6, ScheduleStutter DEF scheduleVars
<1> QED  BY <1>1, <1>2, <1>3, <1>4, <1>5, <1>6 DEF ScheduleNext

LEMMA ScheduleInvHolds == ScheduleSpec => []ScheduleInv
<1>1. ScheduleInit => ScheduleInv
  BY ScheduleInitInv
<1>2. ScheduleInv /\ [ScheduleNext]_scheduleVars => ScheduleInv'
  BY ScheduleStep
<1> QED  BY <1>1, <1>2, PTL DEF ScheduleSpec

\* In any order of votes, new witnesses, lost keys, missed slots, rounds and
\* resets: virtual times stay within their laps, somebody can sign for the next
\* block, and the participation is the number of filled slots
\* (update_witness_schedule4, adjust_witness_vote, update_global_dynamic_data).
THEOREM ScheduleCorrect == ScheduleSpec => []ScheduleSound
<1>1. ScheduleInv => ScheduleSound
  <2> SUFFICES ASSUME ScheduleInv PROVE ScheduleSound
    OBVIOUS
  <2>1. ScheduleTypeOK /\ ParticipationCounts /\ SomeoneCanSign
    BY DEF ScheduleInv, ScheduleShape, SomeoneStays, SomeoneCanSign
  <2>2. LapsAt(virtual, current_virtual_time)
    BY <2>1, LapsRunAt DEF ScheduleInv
  <2>3. LapsNotOverrun
    <3> SUFFICES ASSUME NEW w \in registered
                 PROVE  /\ virtual[w].last_update <= current_virtual_time
                        /\ current_virtual_time <= virtual[w].scheduled
                        /\ virtual[w].position + votes[w] * (current_virtual_time - virtual[w].last_update) <= Lap
      BY DEF LapsNotOverrun
    <3>1. w \in Witnesses /\ votes[w] \in Nat /\ current_virtual_time \in Times
      BY <2>1, ScheduleAssumption DEF ScheduleTypeOK
    <3>2. InLap(virtual[w], votes[w], current_virtual_time)
      BY <2>2, <3>1 DEF LapsAt
    <3>3. virtual[w].position + votes[w] * (current_virtual_time - virtual[w].last_update) \in Times
      BY <3>1, <3>2, InLapNow
    <3> QED  BY <3>2, <3>3 DEF InLap, Times
  <2> QED  BY <2>1, <2>3 DEF ScheduleSound
<1> QED  BY <1>1, ScheduleInvHolds, PTL

-----------------------------------------------------------------------------
(* What a round decides. *)

\* The median is at the middle position.
LEMMA MedianInMiddle ==
  ASSUME ScheduleShape, NEW active \in SUBSET Witnesses, IsFiniteSet(active), active # {}, NEW h \in Nat,
         h = Cardinality(active) \div 2, h < Cardinality(active)
  PROVE  /\ median(active) \in active
         /\ Cardinality({x \in active : fee[x] < fee[median(active)]}) <= h
         /\ Cardinality({x \in active : fee[x] <= fee[median(active)]}) > h
<1> DEFINE f == [w \in active |-> fee[w]]
<1>1. f \in [active -> 0 .. 1]
  BY DEF ScheduleShape
<1>2. \E v \in 0 .. 1 : AtPosition(f, active, v, h)
  <2> HIDE DEF f
  <2>1. 1 \in Nat
    OBVIOUS
  <2> QED  BY <1>1, <2>1, OrderStatistic
<1>3. PICK w \in active : AtPosition(f, active, fee[w], h)
  BY <1>2 DEF AtPosition
<1>4. /\ {x \in active : f[x] < fee[w]} = {x \in active : fee[x] < fee[w]}
      /\ {x \in active : f[x] <= fee[w]} = {x \in active : fee[x] <= fee[w]}
  OBVIOUS
<1>5. /\ Cardinality({x \in active : fee[x] < fee[w]}) <= h
      /\ Cardinality({x \in active : fee[x] <= fee[w]}) > h
  BY <1>3, <1>4 DEF AtPosition
<1> QED  BY <1>5 DEF median

\* A fee that more than half agree on is the median.
LEMMA MajorityIsMedian ==
  ASSUME ScheduleShape, NEW active \in SUBSET Witnesses, IsFiniteSet(active), active # {}, NEW f \in {0, 1},
         2 * Cardinality({w \in active : fee[w] = f}) > Cardinality(active)
  PROVE  fee[median(active)] = f
<1> DEFINE F == {w \in active : fee[w] = f}
           G == {w \in active : fee[w] = 1 - f}
<1>1. \A w \in active : fee[w] \in {0, 1}
  BY DEF ScheduleShape
<1>2. F \in SUBSET active /\ G \in SUBSET active /\ F \cup G = active /\ F \cap G = {}
  BY <1>1
<1>3. IsFiniteSet(F) /\ IsFiniteSet(G)
  BY <1>2, FS_Subset
<1>4. PICK c \in Nat, a \in Nat, b \in Nat : c = Cardinality(active) /\ a = Cardinality(F) /\ b = Cardinality(G)
  BY <1>3, FS_CardinalityType
<1>5. c = a + b
  <2> HIDE DEF F, G
  <2>1. Cardinality(F \cup G) = Cardinality(F) + Cardinality(G) - Cardinality(F \cap G)
    BY <1>3, FS_Union
  <2>2. Cardinality(F \cap G) = 0
    BY <1>2, FS_EmptySet
  <2>3. c = a + b - 0
    BY <1>2, <1>4, <2>1, <2>2
  <2> QED  BY ONLY <2>3, a \in Nat, b \in Nat
<1>6. 2 * a > c
  BY <1>4
<1>7. PICK h \in Nat : h = c \div 2 /\ 2 * h <= c /\ c <= 2 * h + 1
  BY ONLY c \in Nat
<1>8. h < c /\ b <= h /\ a > h
  BY <1>4, <1>5, <1>6, <1>7
<1> DEFINE m == median(active)
<1>9. /\ m \in active
      /\ Cardinality({x \in active : fee[x] < fee[m]}) <= h
      /\ Cardinality({x \in active : fee[x] <= fee[m]}) > h
  BY <1>4, <1>7, <1>8, MedianInMiddle
<1> HIDE DEF m
<1> SUFFICES ASSUME fee[m] # f PROVE FALSE
  BY DEF m
<1>10. CASE f = 0
  <2>1. fee[m] = 1
    BY <1>1, <1>9, <1>10
  <2>2. {x \in active : fee[x] < fee[m]} = F
    BY <1>1, <1>10, <2>1
  <2>3. a <= h
    BY <1>4, <1>9, <2>2
  <2> QED  BY <1>8, <2>3
<1>11. CASE f = 1
  <2>1. fee[m] = 0
    BY <1>1, <1>9, <1>11
  <2>2. {x \in active : fee[x] <= fee[m]} = G
    BY <1>1, <1>11, <2>1
  <2>3. b > h
    BY <1>4, <1>9, <2>2
  <2> QED  BY <1>8, <2>3
<1> QED  BY <1>10, <1>11

\* A new schedule has every active witness once.
LEMMA ScheduleIsActive ==
  ASSUME NEW active, IsFiniteSet(active), NEW order \in SetToSeqs(active)
  PROVE  Range(order) = active /\ Len(order) = Cardinality(active)
<1>1. PICK c \in Nat : c = Cardinality(active)
  BY FS_CardinalityType
<1>2. order \in [1 .. c -> active] /\ \A i, j \in 1 .. c : i # j => order[i] # order[j]
  BY <1>1 DEF SetToSeqs
<1>3. order \in Injection(1 .. c, active)
  BY <1>2 DEF Injection, IsInjective
<1>4. Cardinality(1 .. c) = c
  BY <1>1, FS_Interval
<1>5. order \in Surjection(1 .. c, active)
  BY <1>1, <1>3, <1>4, FS_Injection
<1>6. Range(order) = active
  BY <1>2, <1>5 DEF Surjection, Range
<1>7. Len(order) = c
  BY <1>2
<1> QED  BY <1>1, <1>6, <1>7

\* Only a new round changes the schedule and counts votes.
LEMMA RoundOnly ==
  ASSUME ScheduleInv, [ScheduleNext]_scheduleVars, ~ UNCHANGED <<shuffled, last_hardfork>>
  PROVE  end_block
<1>1. CASE BeginBlock
  BY <1>1 DEF BeginBlock, begin_block, schedule, hardforks
<1>2. CASE Operation
  BY <1>2 DEF Operation, schedule, hardforks
<1>3. CASE \E w \in Witnesses : Upgrade(w)
  BY <1>3 DEF Upgrade, schedule, hardforks
<1>4. CASE Settle
  BY <1>4 DEF Settle, schedule, hardforks
<1>5. CASE UNCHANGED scheduleVars
  BY <1>5 DEF scheduleVars, schedule, hardforks
<1> QED  BY <1>1, <1>2, <1>3, <1>4, <1>5 DEF ScheduleNext

LEMMA MedianStep ==
  ASSUME ScheduleInv, end_block, shuffled' # shuffled, NEW f \in {0, 1},
         2 * Cardinality({w \in Range(shuffled') : fee'[w] = f}) > Len(shuffled')
  PROVE  median_fee' = f
<1> DEFINE K == StillKeyed
           active == Top(K) \cup (Processed(K, Top(K)) \cap K)
<1>1. update_witness_schedule4(K)
  BY DEF end_block, update_witness_schedule, schedule
<1>2. PICK order \in SetToSeqs(active) : shuffled' = order
  BY <1>1 DEF update_witness_schedule4
<1>3. median_fee' = fee[median(active)] /\ fee' = fee
  BY <1>1 DEF update_witness_schedule4, update_median_witness_props, end_block
<1>4. K \in SUBSET registered /\ registered \subseteq Witnesses
  BY DEF StillKeyed, ScheduleInv, ScheduleShape, ScheduleTypeOK
<1>5. K # {}
  BY SomeoneKeepsKey DEF end_block
<1>6. IsFiniteSet(active) /\ active # {} /\ active \in SUBSET Witnesses
  BY <1>4, <1>5, ActiveWitnesses DEF ScheduleInv, ScheduleShape
<1> HIDE DEF active, K
<1>7. Range(order) = active /\ Len(order) = Cardinality(active)
  BY <1>6, ScheduleIsActive
<1>8. 2 * Cardinality({w \in active : fee[w] = f}) > Cardinality(active)
  BY <1>2, <1>3, <1>7
<1> QED  BY <1>3, <1>6, <1>8, MajorityIsMedian DEF ScheduleInv

LEMMA HardforkStep ==
  ASSUME ScheduleInv, end_block, last_hardfork' # last_hardfork, head' = 0
  PROVE  Cardinality({w \in Range(shuffled) : running_version'[w] >= last_hardfork'}) >= Required
<1>1. last_hardfork < next_hardfork' /\ last_hardfork' = last_hardfork + 1 /\ running_version' = running_version
  BY DEF end_block, process_hardforks, versions
<1>2. next_hardfork' = IF Majority = {} THEN last_hardfork ELSE Min(Majority)
  BY DEF end_block, update_witness_schedule, update_witness_schedule4, count_hardfork_votes
<1>3. last_hardfork \in Nat
  BY ScheduleAssumption DEF ScheduleInv, ScheduleShape, ScheduleTypeOK
<1>4. PICK v : v \in Majority /\ v = Min(Majority) /\ next_hardfork' = v
  <2>1. Majority # {}
    BY <1>1, <1>2, <1>3
  <2>2. Majority \in SUBSET Nat
    BY ScheduleAssumption DEF Majority
  <2>3. \E x \in Majority : \A y \in Majority : x <= y
    BY <2>1, <2>2, LeastNumber
  <2> QED  BY <1>2, <2>1, <2>3 DEF Min
<1>5. v \in Nat /\ VotesFor(v) >= Required /\ v >= last_hardfork + 1
  BY <1>1, <1>3, <1>4, ScheduleAssumption DEF Majority
<1>6. PICK n \in Nat : n = Len(shuffled) /\ shuffled \in [1 .. n -> registered]
  <2>1. shuffled \in BoundedSeq(registered, MaxMiners) /\ MaxMiners \in Nat
    BY ScheduleAssumption DEF ScheduleInv, ScheduleShape, ScheduleTypeOK
  <2> QED  BY <2>1, ShortSeq
<1> DEFINE I == {i \in 1 .. n : hardfork_version_vote[shuffled[i]] = v}
           W == {w \in Range(shuffled) : running_version[w] >= last_hardfork + 1}
           g == [i \in I |-> shuffled[i]]
<1>7. ASSUME NEW i \in I PROVE shuffled[i] \in W
  <2>1. shuffled[i] \in Range(shuffled) /\ shuffled[i] \in Witnesses
    BY <1>6 DEF Range, ScheduleInv, ScheduleShape, ScheduleTypeOK
  <2>2. PICK a \in Nat, b \in Nat : a = hardfork_version_vote[shuffled[i]] /\ b = running_version[shuffled[i]] /\ a <= b
    BY <2>1 DEF ScheduleInv, ScheduleShape, VotesHonest
  <2> QED  BY <1>3, <1>5, <2>1, <2>2
<1>8. g \in Injection(I, W)
  <2>1. \A i, j \in 1 .. n : shuffled[i] = shuffled[j] => i = j
    BY <1>6 DEF IsInjective, ScheduleInv, ScheduleShape, ScheduleTypeOK
  <2>2. I \subseteq 1 .. n
    OBVIOUS
  <2> HIDE DEF I, W
  <2>3. g \in [I -> W] /\ DOMAIN g = I
    BY <1>7
  <2>4. \A i, j \in I : g[i] = g[j] => i = j
    BY <2>1, <2>2
  <2> HIDE DEF g
  <2> QED  BY <2>3, <2>4 DEF Injection, IsInjective
<1>9. IsFiniteSet(W)
  <2>1. W \in SUBSET Witnesses
    BY <1>6 DEF Range, ScheduleInv, ScheduleShape, ScheduleTypeOK
  <2> HIDE DEF W
  <2> QED  BY <2>1, FS_Subset, ScheduleAssumption
<1>10. VotesFor(v) = Cardinality(I)
  BY <1>6 DEF VotesFor
<1> HIDE DEF I, W, g
<1>11. IsFiniteSet(I) /\ Cardinality(I) <= Cardinality(W)
  BY <1>8, <1>9, FS_Injection
<1>12. Cardinality(I) \in Nat /\ Cardinality(W) \in Nat
  BY <1>9, <1>11, FS_CardinalityType
<1>13. Cardinality(W) >= Required
  BY <1>5, <1>10, <1>11, <1>12, ScheduleAssumption
<1> QED  BY <1>1, <1>13 DEF W

\* The fee of a new round is one that more than half of its witnesses ask
\* for, when there is one, and a hard fork happens only when the required
\* number of the round's witnesses run it (update_median_witness_props,
\* update_witness_schedule4, process_hardforks).
THEOREM RoundsDecide == ScheduleSpec => MajorityDecides
<1> DEFINE Median == \A f \in {0, 1} :
             shuffled' # shuffled /\ 2 * Cardinality({w \in Range(shuffled') : fee'[w] = f}) > Len(shuffled')
               => median_fee' = f
           Hardfork == last_hardfork' # last_hardfork /\ head' = 0 =>
             Cardinality({w \in Range(shuffled) : running_version'[w] >= last_hardfork'}) >= Required
<1>1. ScheduleInv /\ [ScheduleNext]_scheduleVars => [Median]_scheduleVars
  BY RoundOnly, MedianStep
<1>2. ScheduleInv /\ [ScheduleNext]_scheduleVars => [Hardfork]_scheduleVars
  BY RoundOnly, HardforkStep
<1>3. ScheduleSpec => [][Median]_scheduleVars
  <2> HIDE DEF Median
  <2> QED  BY <1>1, ScheduleInvHolds, PTL DEF ScheduleSpec
<1>4. ScheduleSpec => [][Hardfork]_scheduleVars
  <2> HIDE DEF Hardfork
  <2> QED  BY <1>2, ScheduleInvHolds, PTL DEF ScheduleSpec
<1> QED  BY <1>3, <1>4, PTL DEF MajorityDecides, MedianOfMajority, HardforkHasProducers

-----------------------------------------------------------------------------
(* Chains of proxies. *)

Ends == Accounts \cup {Self}
Proxies == [Accounts -> Ends]

LEMMA HopSteps ==
  ASSUME NEW px \in Proxies, NEW a \in Accounts
  PROVE  /\ Hop(px, a) \in [0 .. Depth -> Ends]
         /\ Hop(px, a)[0] = a
         /\ \A k \in 0 .. Depth - 1 :
              Hop(px, a)[k + 1] = IF Hop(px, a)[k] = Self THEN Self ELSE px[Hop(px, a)[k]]
<1> DEFINE step == [x \in Ends |-> IF x = Self THEN Self ELSE px[x]]
           Eq(h) == h = [k \in 0 .. Depth |-> IF k = 0 THEN a ELSE IF h[k - 1] = Self THEN Self ELSE px[h[k - 1]]]
<1>0. Depth \in Nat
  BY VotingAssumption
<1>1. step \in [Ends -> Ends] /\ a \in Ends
  BY DEF Ends, Proxies
<1>2. PICK h \in [0 .. Depth -> Ends] : Iterates(h, Depth, a, step)
  <2> HIDE DEF step
  <2> QED  BY <1>0, <1>1, IteratesExist
<1>3. Eq(h)
  <2>1. ASSUME NEW k \in 0 .. Depth
        PROVE  h[k] = IF k = 0 THEN a ELSE IF h[k - 1] = Self THEN Self ELSE px[h[k - 1]]
    <3>1. CASE k = 0
      BY <1>2, <3>1 DEF Iterates
    <3>2. CASE k # 0
      <4>1. k - 1 \in 0 .. Depth - 1 /\ (k - 1) + 1 = k /\ k - 1 \in 0 .. Depth
        BY <1>0, <3>2
      <4>2. h[k] = step[h[k - 1]]
        BY <1>2, <4>1 DEF Iterates
      <4> QED  BY <3>2, <4>1, <4>2
    <3> QED  BY <3>1, <3>2
  <2> QED  BY <2>1
<1>4. Hop(px, a) = CHOOSE g : Eq(g)
  BY DEF Hop
<1>5. Eq(Hop(px, a))
  <2> HIDE DEF Eq
  <2> QED  BY <1>3, <1>4
<1> DEFINE H == Hop(px, a)
<1>6. H = [k \in 0 .. Depth |-> IF k = 0 THEN a ELSE IF H[k - 1] = Self THEN Self ELSE px[H[k - 1]]]
  BY <1>5
<1> HIDE DEF H
<1>7. H[0] = a
  BY <1>0, <1>6
<1>8. ASSUME NEW k \in 0 .. Depth - 1 PROVE H[k + 1] = IF H[k] = Self THEN Self ELSE px[H[k]]
  <2>1. k + 1 \in 0 .. Depth /\ k + 1 # 0 /\ (k + 1) - 1 = k
    BY <1>0
  <2> QED  BY <1>6, <2>1
<1>9. \A k \in Nat : k <= Depth => H[k] \in Ends
  <2> DEFINE N == {k \in Nat : k <= Depth => H[k] \in Ends}
  <2>1. 0 \in N
    BY <1>1, <1>7
  <2>2. ASSUME NEW k \in N PROVE k + 1 \in N
    <3>1. CASE k + 1 <= Depth
      <4>1. k \in 0 .. Depth - 1 /\ k <= Depth
        BY <1>0, <3>1
      <4>2. H[k] \in Ends
        BY <4>1
      <4>3. H[k + 1] \in Ends
        BY <1>8, <4>1, <4>2 DEF Ends, Proxies
      <4> QED  BY <4>3
    <3>2. CASE ~ (k + 1 <= Depth)
      BY <3>2
    <3> QED  BY <3>1, <3>2
  <2>3. N \in SUBSET Nat
    OBVIOUS
  <2> HIDE DEF N
  <2>4. N = Nat
    BY <2>1, <2>2, <2>3, NatSetInduction
  <2> QED  BY <2>4 DEF N
<1>10. H \in [0 .. Depth -> Ends]
  <2>1. \A k \in 0 .. Depth : H[k] \in Ends
    BY <1>0, <1>9
  <2>2. DOMAIN H = 0 .. Depth /\ H = [k \in 0 .. Depth |-> H[k]]
    BY <1>6
  <2> QED  BY <2>1, <2>2
<1> QED  BY <1>7, <1>8, <1>10 DEF H

\* A chain goes on from any of its members.
LEMMA HopAfter ==
  ASSUME NEW px \in Proxies, NEW a \in Accounts, NEW d \in Nat, NEW n \in Nat, d + n <= Depth,
         NEW b \in Accounts, Hop(px, a)[d] = b
  PROVE  Hop(px, a)[d + n] = Hop(px, b)[n]
<1> DEFINE N == {k \in Nat : d + k <= Depth => Hop(px, a)[d + k] = Hop(px, b)[k]}
<1>0. Depth \in Nat
  BY VotingAssumption
<1>1. 0 \in N
  BY HopSteps
<1>2. ASSUME NEW k \in N PROVE k + 1 \in N
  <2>1. SUFFICES ASSUME d + (k + 1) <= Depth PROVE Hop(px, a)[d + (k + 1)] = Hop(px, b)[k + 1]
    OBVIOUS
  <2>2. d + k \in 0 .. Depth - 1 /\ k \in 0 .. Depth - 1 /\ d + (k + 1) = (d + k) + 1 /\ d + k <= Depth
    BY <1>0, <2>1
  <2>3. Hop(px, a)[d + k] = Hop(px, b)[k]
    BY <2>2
  <2>4. Hop(px, a)[(d + k) + 1] = IF Hop(px, a)[d + k] = Self THEN Self ELSE px[Hop(px, a)[d + k]]
    BY <2>2, HopSteps
  <2>5. Hop(px, b)[k + 1] = IF Hop(px, b)[k] = Self THEN Self ELSE px[Hop(px, b)[k]]
    BY <2>2, HopSteps
  <2> QED  BY <2>2, <2>3, <2>4, <2>5
<1>3. N \in SUBSET Nat
  OBVIOUS
<1> HIDE DEF N
<1>4. N = Nat
  BY <1>1, <1>2, <1>3, NatSetInduction
<1> QED  BY <1>4 DEF N

\* And nothing comes after its end.
LEMMA HopEnded ==
  ASSUME NEW px \in Proxies, NEW a \in Accounts, NEW d \in Nat, NEW n \in Nat, d + n <= Depth, Hop(px, a)[d] = Self
  PROVE  Hop(px, a)[d + n] = Self
<1> DEFINE N == {k \in Nat : d + k <= Depth => Hop(px, a)[d + k] = Self}
<1>0. Depth \in Nat
  BY VotingAssumption
<1>1. 0 \in N
  OBVIOUS
<1>2. ASSUME NEW k \in N PROVE k + 1 \in N
  <2>1. SUFFICES ASSUME d + (k + 1) <= Depth PROVE Hop(px, a)[d + (k + 1)] = Self
    OBVIOUS
  <2>2. d + k \in 0 .. Depth - 1 /\ d + (k + 1) = (d + k) + 1 /\ d + k <= Depth
    BY <1>0, <2>1
  <2>3. Hop(px, a)[d + k] = Self
    BY <2>2
  <2>4. Hop(px, a)[(d + k) + 1] = IF Hop(px, a)[d + k] = Self THEN Self ELSE px[Hop(px, a)[d + k]]
    BY <2>2, HopSteps
  <2> QED  BY <2>2, <2>3, <2>4
<1>3. N \in SUBSET Nat
  OBVIOUS
<1> HIDE DEF N
<1>4. N = Nat
  BY <1>1, <1>2, <1>3, NatSetInduction
<1> QED  BY <1>4 DEF N

\* No chain comes back.
Acyclic(px) == \A b \in Accounts : \A k \in 1 .. Depth : Hop(px, b)[k] # b

LEMMA OneDistance ==
  ASSUME NEW px \in Proxies, Acyclic(px), NEW a \in Accounts, NEW b \in Accounts,
         NEW k \in 0 .. Depth, Hop(px, a)[k] = b, NEW l \in 0 .. Depth, Hop(px, a)[l] = b
  PROVE  k = l
<1>0. Depth \in Nat
  BY VotingAssumption
<1>1. ASSUME NEW i \in 0 .. Depth, NEW j \in 0 .. Depth, Hop(px, a)[i] = b, Hop(px, a)[j] = b, i < j PROVE FALSE
  <2>1. PICK n \in Nat : n = j - i /\ n \in 1 .. Depth /\ i + n = j /\ i + n <= Depth /\ i \in Nat
    BY <1>0, <1>1
  <2>2. Hop(px, a)[i + n] = Hop(px, b)[n]
    BY <1>1, <2>1, HopAfter
  <2> QED  BY <1>1, <2>1, <2>2 DEF Acyclic
<1> QED  BY <1>0, <1>1

\* The chains when one account has no proxy any more.
Unproxied(p0, px, a) == p0 = [px EXCEPT ![a] = Self]

LEMMA HopWithout ==
  ASSUME NEW px \in Proxies, NEW a \in Accounts, NEW p0, Unproxied(p0, px, a),
         NEW x \in Accounts, NEW m \in Nat, m <= Depth
  PROVE  /\ p0 \in Proxies
         /\ Hop(p0, x)[m] = IF \E d \in 0 .. m - 1 : Hop(px, x)[d] = a THEN Self ELSE Hop(px, x)[m]
<1> DEFINE Via(k) == \E d \in 0 .. k - 1 : Hop(px, x)[d] = a
           N == {k \in Nat : k <= Depth => Hop(p0, x)[k] = IF Via(k) THEN Self ELSE Hop(px, x)[k]}
<1>0. Depth \in Nat
  BY VotingAssumption
<1>1. p0 \in Proxies /\ p0[a] = Self /\ \A y \in Accounts \ {a} : p0[y] = px[y]
  BY DEF Proxies, Ends, Unproxied
<1>2. 0 \in N
  BY <1>1, HopSteps
<1>3. ASSUME NEW k \in N PROVE k + 1 \in N
  <2>1. SUFFICES ASSUME k + 1 <= Depth PROVE Hop(p0, x)[k + 1] = IF Via(k + 1) THEN Self ELSE Hop(px, x)[k + 1]
    OBVIOUS
  <2>2. k \in 0 .. Depth - 1 /\ k <= Depth /\ k \in 0 .. Depth
    BY <1>0, <2>1
  <2>3. Hop(p0, x)[k] = IF Via(k) THEN Self ELSE Hop(px, x)[k]
    BY <2>2
  <2>4. Via(k + 1) <=> Via(k) \/ Hop(px, x)[k] = a
    OBVIOUS
  <2> HIDE DEF Via
  <2>5. Hop(px, x)[k + 1] = IF Hop(px, x)[k] = Self THEN Self ELSE px[Hop(px, x)[k]]
    BY <2>2, HopSteps
  <2>6. Hop(p0, x)[k + 1] = IF Hop(p0, x)[k] = Self THEN Self ELSE p0[Hop(p0, x)[k]]
    BY <1>1, <2>2, HopSteps
  <2>7. Hop(px, x)[k] \in Ends /\ a # Self
    BY <2>2, HopSteps, VotingAssumption
  <2>8. CASE Via(k)
    BY <2>3, <2>4, <2>6, <2>8
  <2>9. CASE ~ Via(k) /\ Hop(px, x)[k] = a
    BY <1>1, <2>3, <2>4, <2>6, <2>7, <2>9
  <2>10. CASE ~ Via(k) /\ Hop(px, x)[k] # a
    BY <1>1, <2>3, <2>4, <2>5, <2>6, <2>7, <2>10 DEF Ends
  <2> QED  BY <2>8, <2>9, <2>10
<1>4. N \in SUBSET Nat
  OBVIOUS
<1> HIDE DEF N
<1>5. N = Nat
  BY <1>2, <1>3, <1>4, NatSetInduction
<1> QED  BY <1>1, <1>5 DEF N

\* The accounts at a distance.
From(px, b, i) == {x \in Accounts : Hop(px, x)[i] = b}

\* When a has no proxy any more, those that came through a are left out at
\* b, and only they: they are at distance k less from a.
LEMMA FromSplit ==
  ASSUME NEW px \in Proxies, Acyclic(px), NEW a \in Accounts, NEW b \in Accounts, NEW j \in Levels,
         NEW p0, Unproxied(p0, px, a)
  PROVE  /\ \A k \in 1 .. j + 1 : Hop(px, a)[k] = b =>
              /\ From(px, b, j + 1) = From(p0, b, j + 1) \cup From(px, a, j + 1 - k)
              /\ From(p0, b, j + 1) \cap From(px, a, j + 1 - k) = {}
         /\ (~ \E k \in 1 .. j + 1 : Hop(px, a)[k] = b) => From(px, b, j + 1) = From(p0, b, j + 1)
<1>0. Depth \in Nat /\ j \in Nat /\ j + 1 <= Depth /\ j + 1 \in Nat /\ j + 1 \in 0 .. Depth /\ b # Self
  BY VotingAssumption DEF Levels
<1>1. ASSUME NEW x \in Accounts
      PROVE  Hop(p0, x)[j + 1] = IF \E d \in 0 .. j : Hop(px, x)[d] = a THEN Self ELSE Hop(px, x)[j + 1]
  <2>1. PICK m \in Nat : m = j + 1 /\ m <= Depth /\ m - 1 = j
    BY <1>0
  <2>2. Hop(p0, x)[m] = IF \E d \in 0 .. m - 1 : Hop(px, x)[d] = a THEN Self ELSE Hop(px, x)[m]
    BY <2>1, HopWithout
  <2> QED  BY <2>1, <2>2
<1>2. ASSUME NEW x \in Accounts, Hop(px, x)[j + 1] = b, NEW d \in 0 .. j, Hop(px, x)[d] = a
      PROVE  j + 1 - d \in 1 .. j + 1 /\ Hop(px, a)[j + 1 - d] = b
  <2>1. PICK n \in Nat : n = j + 1 - d /\ d \in Nat /\ d + n = j + 1 /\ n \in 1 .. j + 1
    BY <1>0
  <2>2. Hop(px, x)[d + n] = Hop(px, a)[n]
    BY <1>0, <1>2, <2>1, HopAfter
  <2> QED  BY <1>2, <2>1, <2>2
<1>3. ASSUME NEW k \in 1 .. j + 1, Hop(px, a)[k] = b
      PROVE  /\ From(px, b, j + 1) = From(p0, b, j + 1) \cup From(px, a, j + 1 - k)
             /\ From(p0, b, j + 1) \cap From(px, a, j + 1 - k) = {}
  <2>1. PICK e \in Nat : e = j + 1 - k /\ e \in 0 .. j /\ e + k = j + 1 /\ k \in Nat /\ k \in 0 .. Depth
    BY <1>0
  <2>2. ASSUME NEW x \in Accounts, Hop(px, x)[e] = a PROVE Hop(px, x)[j + 1] = b /\ Hop(p0, x)[j + 1] = Self
    <3>1. Hop(px, x)[e + k] = Hop(px, a)[k]
      BY <1>0, <2>1, <2>2, HopAfter
    <3> QED  BY <1>1, <1>3, <2>1, <2>2, <3>1
  <2>3. ASSUME NEW x \in Accounts, Hop(px, x)[j + 1] = b, Hop(px, x)[e] # a PROVE Hop(p0, x)[j + 1] = b
    <3>1. ASSUME NEW d \in 0 .. j, Hop(px, x)[d] = a PROVE FALSE
      <4>1. PICK n : n = j + 1 - d /\ n \in 1 .. j + 1 /\ Hop(px, a)[n] = b
        BY <1>2, <2>3, <3>1
      <4>2. n \in 0 .. Depth
        BY <1>0, <4>1
      <4>3. n = k
        BY <1>3, <2>1, <4>1, <4>2, OneDistance
      <4>4. d = e
        BY <1>0, <2>1, <4>1, <4>3
      <4> QED  BY <2>3, <3>1, <4>4
    <3> QED  BY <1>1, <2>3, <3>1
  <2>4. ASSUME NEW x \in Accounts, Hop(p0, x)[j + 1] = b PROVE Hop(px, x)[j + 1] = b
    BY <1>0, <1>1, <2>4
  <2>5. From(px, a, e) \cap From(p0, b, j + 1) = {} /\ From(px, a, e) \subseteq From(px, b, j + 1)
    BY ONLY <1>0, <2>2 DEF From
  <2>6. From(p0, b, j + 1) \subseteq From(px, b, j + 1)
    BY <2>4 DEF From
  <2>7. From(px, b, j + 1) \subseteq From(p0, b, j + 1) \cup From(px, a, e)
    BY <2>3 DEF From
  <2> QED  BY <2>1, <2>5, <2>6, <2>7
<1>4. ASSUME ~ \E k \in 1 .. j + 1 : Hop(px, a)[k] = b PROVE From(px, b, j + 1) = From(p0, b, j + 1)
  <2>1. ASSUME NEW x \in Accounts, Hop(px, x)[j + 1] = b PROVE Hop(p0, x)[j + 1] = b
    BY <1>1, <1>2, <1>4, <2>1
  <2>2. ASSUME NEW x \in Accounts, Hop(p0, x)[j + 1] = b PROVE Hop(px, x)[j + 1] = b
    BY <1>0, <1>1, <2>2
  <2> QED  BY <2>1, <2>2 DEF From
<1> QED  BY <1>3, <1>4

-----------------------------------------------------------------------------
(* Shares that move along a chain. *)

Deltas == [0 .. Depth -> Int]
Holdings == [Accounts -> Int]

\* What proxied_after adds at distance j + 1 from b.
Added(px, a, b, j, delta) ==
  Total([k \in 0 .. Depth |-> IF k <= j + 1 THEN delta[j + 1 - k] ELSE 0], Distance(px, a, b) \ {0})

LEMMA AddedAt ==
  ASSUME NEW px \in Proxies, Acyclic(px), NEW a \in Accounts, NEW b \in Accounts, NEW j \in Levels, NEW delta \in Deltas
  PROVE  /\ \A k \in 1 .. j + 1 : Hop(px, a)[k] = b => Added(px, a, b, j, delta) = delta[j + 1 - k]
         /\ (~ \E k \in 1 .. j + 1 : Hop(px, a)[k] = b) => Added(px, a, b, j, delta) = 0
         /\ Added(px, a, b, j, delta) \in Int
<1> DEFINE f == [k \in 0 .. Depth |-> IF k <= j + 1 THEN delta[j + 1 - k] ELSE 0]
           D == Distance(px, a, b) \ {0}
<1>0. Depth \in Nat /\ j \in Nat /\ j + 1 <= Depth
  BY VotingAssumption DEF Levels
<1>1. \A k \in 0 .. Depth : f[k] \in Int
  <2>1. \A k \in 0 .. Depth : k <= j + 1 => j + 1 - k \in 0 .. Depth
    BY <1>0
  <2> QED  BY <1>0, <2>1 DEF Deltas
<1>2. ASSUME NEW k \in D PROVE k \in 0 .. Depth /\ k # 0 /\ D = {k}
  <2>1. k \in 0 .. Depth /\ k # 0 /\ Hop(px, a)[k] = b
    BY DEF Distance
  <2>2. \A l \in D : l = k
    BY <2>1, OneDistance DEF Distance
  <2> QED  BY <2>1, <2>2
<1>3. Added(px, a, b, j, delta) = SumFunctionOnSet(f, D)
  BY DEF Added, Total
<1>4. ASSUME NEW k \in D PROVE SumFunctionOnSet(f, D) = f[k] /\ f[k] \in Int
  <2>1. D = {k} /\ f[k] \in Int
    BY <1>1, <1>2
  <2> HIDE DEF f, D
  <2> QED  BY <2>1, SumSingle
<1>5. ASSUME D = {} PROVE SumFunctionOnSet(f, D) = 0
  <2>1. f[0] \in Int
    BY <1>0, <1>1
  <2> HIDE DEF f, D
  <2> QED  BY <1>5, <2>1, SumSingle
<1>6. ASSUME NEW k \in 1 .. j + 1, Hop(px, a)[k] = b PROVE SumFunctionOnSet(f, D) = delta[j + 1 - k]
  <2>1. k \in D /\ k \in 0 .. Depth /\ k <= j + 1
    BY <1>0, <1>6 DEF Distance
  <2>2. f[k] = delta[j + 1 - k]
    BY <2>1
  <2> QED  BY <1>4, <2>1, <2>2
<1>7. ASSUME ~ \E k \in 1 .. j + 1 : Hop(px, a)[k] = b PROVE SumFunctionOnSet(f, D) = 0
  <2>1. CASE D = {}
    BY <1>5, <2>1
  <2>2. ASSUME NEW k \in D PROVE SumFunctionOnSet(f, D) = 0
    <3>1. k \in 0 .. Depth /\ k # 0 /\ Hop(px, a)[k] = b
      BY <2>2 DEF Distance
    <3>2. ~ (k <= j + 1)
      BY <1>0, <1>7, <3>1
    <3>3. f[k] = 0
      BY <3>1, <3>2
    <3> QED  BY <1>4, <2>2, <3>3
  <2> QED  BY <2>1, <2>2
<1>8. SumFunctionOnSet(f, D) \in Int
  <2>1. CASE D = {}
    BY <1>5, <2>1
  <2>2. ASSUME NEW k \in D PROVE SumFunctionOnSet(f, D) \in Int
    <3>1. SumFunctionOnSet(f, D) = f[k] /\ f[k] \in Int
      BY <1>4, <2>2
    <3> HIDE DEF f, D
    <3> QED  BY <3>1
  <2>3. D = {} \/ \E k \in D : TRUE
    OBVIOUS
  <2> HIDE DEF f, D
  <2> QED  BY <2>1, <2>2, <2>3
<1> QED  BY <1>3, <1>6, <1>7, <1>8

\* What is proxied when the accounts hold the shares sh.
Supplied(px, sh) == [b \in Accounts |-> [i \in Levels |-> Total(sh, From(px, b, i + 1))]]

\* What counts for an account, by distance.
Supply(px, sh, a) == [i \in 0 .. Depth |-> Total(sh, From(px, a, i))]

LEMMA FromSum ==
  ASSUME NEW px, NEW sh \in Holdings, NEW b, NEW i
  PROVE  IsFiniteSet(From(px, b, i)) /\ IntOn(sh, From(px, b, i)) /\ Total(sh, From(px, b, i)) \in Int
<1>1. From(px, b, i) \in SUBSET Accounts
  BY DEF From
<1>2. IsFiniteSet(From(px, b, i))
  BY <1>1, FS_Subset, VotingAssumption
<1>3. IntOn(sh, From(px, b, i))
  BY <1>1 DEF IntOn, Holdings
<1> QED  BY <1>2, <1>3, SumOnSet DEF Total

LEMMA SupplyDeltas ==
  ASSUME NEW px, NEW sh \in Holdings, NEW a
  PROVE  Supply(px, sh, a) \in Deltas
  BY FromSum DEF Supply, Deltas

\* Taking a's proxy away or giving it: what comes through a is all that
\* counts for a.
LEMMA ProxyMoves ==
  ASSUME NEW px \in Proxies, Acyclic(px), NEW a \in Accounts, NEW p0, Unproxied(p0, px, a), NEW sh \in Holdings,
         NEW b \in Accounts, NEW j \in Levels
  PROVE  Total(sh, From(px, b, j + 1)) = Total(sh, From(p0, b, j + 1)) + Added(px, a, b, j, Supply(px, sh, a))
<1>0. Depth \in Nat /\ j \in Nat /\ j + 1 <= Depth
  BY VotingAssumption DEF Levels
<1>1. Supply(px, sh, a) \in Deltas
  BY SupplyDeltas
<1>2. CASE \E k \in 1 .. j + 1 : Hop(px, a)[k] = b
  <2>1. PICK k \in 1 .. j + 1 : Hop(px, a)[k] = b
    BY <1>2
  <2>2. Added(px, a, b, j, Supply(px, sh, a)) = Supply(px, sh, a)[j + 1 - k]
    BY <1>1, <2>1, AddedAt
  <2>3. j + 1 - k \in 0 .. Depth
    BY <1>0
  <2>4. Supply(px, sh, a)[j + 1 - k] = Total(sh, From(px, a, j + 1 - k))
    BY <2>3 DEF Supply
  <2> DEFINE A == From(p0, b, j + 1)
             B == From(px, a, j + 1 - k)
  <2>5. From(px, b, j + 1) = A \cup B /\ A \cap B = {}
    BY <2>1, FromSplit
  <2>6. IsFiniteSet(A) /\ IsFiniteSet(B) /\ IntOn(sh, A) /\ IntOn(sh, B)
    BY FromSum
  <2> HIDE DEF A, B
  <2>7. IntOn(sh, A \cup B)
    BY <2>6 DEF IntOn
  <2>8. SumFunctionOnSet(sh, A \cup B) = SumFunctionOnSet(sh, A) + SumFunctionOnSet(sh, B)
    BY <2>5, <2>6, <2>7, SumDisjoint
  <2> QED  BY <2>2, <2>4, <2>5, <2>8 DEF A, B, Total
<1>3. CASE ~ \E k \in 1 .. j + 1 : Hop(px, a)[k] = b
  <2>1. Added(px, a, b, j, Supply(px, sh, a)) = 0
    BY <1>1, <1>3, AddedAt
  <2>2. From(px, b, j + 1) = From(p0, b, j + 1)
    BY <1>3, FromSplit
  <2>3. PICK t \in Int : t = Total(sh, From(p0, b, j + 1))
    BY FromSum
  <2>4. t = t + 0
    OBVIOUS
  <2> QED  BY <2>1, <2>2, <2>3, <2>4
<1> QED  BY <1>2, <1>3

\* proxied_after, entry by entry.
LEMMA ProxiedAfter ==
  ASSUME NEW px, NEW was, NEW a, NEW delta
  PROVE  proxied_after(px, was, a, delta) = [b \in Accounts |-> [j \in Levels |-> was[b][j] + Added(px, a, b, j, delta)]]
  BY DEF proxied_after, Added

\* Shares that are taken out move like shares that are put in.
Opposite(d, e) == \A i \in 0 .. Depth : e[i] = 0 - d[i]

LEMMA AddedOpposite ==
  ASSUME NEW px \in Proxies, Acyclic(px), NEW a \in Accounts, NEW b \in Accounts, NEW j \in Levels,
         NEW d \in Deltas, NEW e \in Deltas, Opposite(d, e)
  PROVE  /\ Added(px, a, b, j, d) \in Int
         /\ Added(px, a, b, j, e) = 0 - Added(px, a, b, j, d)
<1>0. Depth \in Nat /\ j \in Nat /\ j + 1 <= Depth
  BY VotingAssumption DEF Levels
<1>1. CASE \E k \in 1 .. j + 1 : Hop(px, a)[k] = b
  <2>1. PICK k \in 1 .. j + 1 : Hop(px, a)[k] = b
    BY <1>1
  <2>2. Added(px, a, b, j, d) = d[j + 1 - k] /\ Added(px, a, b, j, e) = e[j + 1 - k]
    BY <2>1, AddedAt
  <2>3. PICK i \in 0 .. Depth : i = j + 1 - k
    BY <1>0
  <2>4. d[i] \in Int /\ e[i] = 0 - d[i]
    BY DEF Deltas, Opposite
  <2> QED  BY <2>2, <2>3, <2>4
<1>2. CASE ~ \E k \in 1 .. j + 1 : Hop(px, a)[k] = b
  <2>1. Added(px, a, b, j, d) = 0 /\ Added(px, a, b, j, e) = 0
    BY <1>2, AddedAt
  <2> QED  BY <2>1
<1> QED  BY <1>1, <1>2

\* An account's shares enter the chain of its proxy, and leave it.
LEMMA ProxyGiven ==
  ASSUME NEW px \in Proxies, Acyclic(px), NEW a \in Accounts, NEW p0, Unproxied(p0, px, a), NEW sh \in Holdings
  PROVE  proxied_after(px, Supplied(p0, sh), a, Supply(px, sh, a)) = Supplied(px, sh)
<1> DEFINE d == Supply(px, sh, a)
           was == Supplied(p0, sh)
<1>1. ASSUME NEW b \in Accounts, NEW j \in Levels
      PROVE  was[b][j] + Added(px, a, b, j, d) = Total(sh, From(px, b, j + 1))
  <2>1. was[b][j] = Total(sh, From(p0, b, j + 1))
    BY DEF Supplied
  <2> QED  BY <2>1, ProxyMoves
<1>2. proxied_after(px, was, a, d) = [b \in Accounts |-> [j \in Levels |-> was[b][j] + Added(px, a, b, j, d)]]
  BY ProxiedAfter
<1> HIDE DEF d, was
<1>3. proxied_after(px, was, a, d) = [b \in Accounts |-> [j \in Levels |-> Total(sh, From(px, b, j + 1))]]
  BY <1>1, <1>2
<1> QED  BY <1>3 DEF Supplied, d, was

LEMMA ProxyTaken ==
  ASSUME NEW px \in Proxies, Acyclic(px), NEW a \in Accounts, NEW p0, Unproxied(p0, px, a), NEW sh \in Holdings,
         NEW e \in Deltas, Opposite(Supply(px, sh, a), e)
  PROVE  proxied_after(px, Supplied(px, sh), a, e) = Supplied(p0, sh)
<1> DEFINE d == Supply(px, sh, a)
           was == Supplied(px, sh)
<1>1. ASSUME NEW b \in Accounts, NEW j \in Levels
      PROVE  was[b][j] + Added(px, a, b, j, e) = Total(sh, From(p0, b, j + 1))
  <2>1. was[b][j] = Total(sh, From(px, b, j + 1))
    BY DEF Supplied
  <2>2. Total(sh, From(px, b, j + 1)) = Total(sh, From(p0, b, j + 1)) + Added(px, a, b, j, d)
    BY ProxyMoves
  <2>3. d \in Deltas
    BY SupplyDeltas
  <2> HIDE DEF d
  <2>4. PICK x \in Int : x = Added(px, a, b, j, d) /\ Added(px, a, b, j, e) = 0 - x
    BY <2>3, AddedOpposite DEF d
  <2>5. PICK y \in Int : y = Total(sh, From(p0, b, j + 1))
    BY FromSum
  <2>6. (y + x) + (0 - x) = y
    OBVIOUS
  <2> QED  BY <2>1, <2>2, <2>4, <2>5, <2>6
<1>2. proxied_after(px, was, a, e) = [b \in Accounts |-> [j \in Levels |-> was[b][j] + Added(px, a, b, j, e)]]
  BY ProxiedAfter
<1> HIDE DEF d, was
<1>3. proxied_after(px, was, a, e) = [b \in Accounts |-> [j \in Levels |-> Total(sh, From(p0, b, j + 1))]]
  BY <1>1, <1>2
<1> QED  BY <1>3 DEF Supplied, was

\* What counts for an account does not depend on its own proxy.
LEMMA SupplyWithout ==
  ASSUME NEW px \in Proxies, Acyclic(px), NEW a \in Accounts, NEW p0, Unproxied(p0, px, a), NEW sh
  PROVE  Supply(p0, sh, a) = Supply(px, sh, a)
<1>0. Depth \in Nat /\ a # Self
  BY VotingAssumption
<1>1. ASSUME NEW i \in 0 .. Depth PROVE From(p0, a, i) = From(px, a, i)
  <2>1. ASSUME NEW x \in Accounts PROVE Hop(p0, x)[i] = a <=> Hop(px, x)[i] = a
    <3>1. Hop(p0, x)[i] = IF \E d \in 0 .. i - 1 : Hop(px, x)[d] = a THEN Self ELSE Hop(px, x)[i]
      <4>1. i \in Nat /\ i <= Depth
        BY <1>0
      <4> QED  BY <4>1, HopWithout
    <3>2. ASSUME Hop(px, x)[i] = a, NEW d \in 0 .. i - 1, Hop(px, x)[d] = a PROVE FALSE
      <4>1. d \in 0 .. Depth /\ d # i
        BY <1>0
      <4> QED  BY <3>2, <4>1, OneDistance
    <3> QED  BY <1>0, <3>1, <3>2
  <2> QED  BY <2>1 DEF From
<1> QED  BY <1>1 DEF Supply

\* No chain comes back when an account gives up its proxy, or takes one
\* whose chain ends before it comes to the account.
LEMMA AcyclicWithout ==
  ASSUME NEW px \in Proxies, Acyclic(px), NEW a \in Accounts, NEW p0, Unproxied(p0, px, a)
  PROVE  p0 \in Proxies /\ Acyclic(p0)
<1>0. Depth \in Nat
  BY VotingAssumption
<1>1. p0 \in Proxies
  BY <1>0, HopWithout
<1>2. ASSUME NEW b \in Accounts, NEW k \in 1 .. Depth PROVE Hop(p0, b)[k] # b
  <2>1. k \in Nat /\ k <= Depth
    BY <1>0
  <2>2. Hop(p0, b)[k] = Self \/ Hop(p0, b)[k] = Hop(px, b)[k]
    BY <2>1, HopWithout
  <2> QED  BY <2>2, VotingAssumption DEF Acyclic
<1> QED  BY <1>1, <1>2 DEF Acyclic

\* The chain of new ends k accounts after it, and a is not in it.
EndsBefore(px, new, a, k) == /\ k \in Root(px, new)
                             /\ \A i \in 0 .. k : Hop(px, new)[i] # a

LEMMA RootEnds ==
  ASSUME NEW px \in Proxies, NEW a \in Accounts, NEW k \in Root(px, a), NEW m \in 0 .. Depth, k < m
  PROVE  Hop(px, a)[m] = Self
<1>0. Depth \in Nat
  BY VotingAssumption
<1>1. k \in 0 .. Depth /\ Hop(px, a)[k] # Self /\ px[Hop(px, a)[k]] = Self
  BY DEF Root
<1>2. PICK n \in Nat : k \in Nat /\ k + 1 \in Nat /\ (k + 1) + n = m /\ (k + 1) + n <= Depth /\ k \in 0 .. Depth - 1
  <2>1. m - (k + 1) \in Nat
    BY <1>0, <1>1
  <2> QED  BY <1>0, <1>1, <2>1
<1>3. Hop(px, a)[k + 1] = Self
  BY <1>1, <1>2, HopSteps
<1> QED  BY <1>2, <1>3, HopEnded

\* So a chain has one end.
LEMMA OneRoot ==
  ASSUME NEW px \in Proxies, NEW a \in Accounts, NEW k \in Root(px, a), NEW l \in Root(px, a)
  PROVE  k = l
<1>1. k \in 0 .. Depth /\ l \in 0 .. Depth /\ Depth \in Nat /\ Hop(px, a)[k] # Self /\ Hop(px, a)[l] # Self
  BY VotingAssumption DEF Root
<1>2. ~ (k < l) /\ ~ (l < k)
  BY <1>1, RootEnds
<1> QED  BY <1>1, <1>2

LEMMA AcyclicWith ==
  ASSUME NEW px \in Proxies, Acyclic(px), NEW a \in Accounts, NEW p0, Unproxied(p0, px, a),
         NEW new \in Accounts, NEW k, EndsBefore(px, new, a, k),
         NEW p1 \in Proxies, Unproxied(p0, p1, a), p1[a] = new
  PROVE  Acyclic(p1)
<1>0. Depth \in Nat /\ a # Self
  BY VotingAssumption
<1>1. p0 \in Proxies /\ Acyclic(p0)
  BY AcyclicWithout
<1>2. ASSUME NEW m \in Nat, m <= Depth, Hop(p1, new)[m] = a PROVE FALSE
  <2> DEFINE M == {i \in Nat : i <= Depth /\ Hop(p1, new)[i] = a}
  <2>1. M \in SUBSET Nat /\ M # {}
    BY <1>2
  <2>2. PICK f \in M : \A i \in M : f <= i
    <3> HIDE DEF M
    <3> QED  BY <2>1, LeastNumber
  <2>3. f \in Nat /\ f <= Depth /\ Hop(p1, new)[f] = a
    BY <2>2
  <2>4. ~ \E d \in 0 .. f - 1 : Hop(p1, new)[d] = a
    BY <1>0, <2>2, <2>3
  <2>5. Hop(p0, new)[f] = a
    BY <2>3, <2>4, HopWithout
  <2>6. Hop(px, new)[f] = a
    BY <1>0, <2>3, <2>5, HopWithout
  <2>7. k \in 0 .. Depth /\ k \in Root(px, new) /\ f \in 0 .. Depth
    BY <1>0, <2>3 DEF EndsBefore, Root
  <2>8. ~ (k < f)
    BY <1>0, <2>6, <2>7, RootEnds
  <2>9. f \in 0 .. k
    BY <1>0, <2>3, <2>7, <2>8
  <2> QED  BY <2>6, <2>9 DEF EndsBefore
<1>3. ASSUME NEW n \in 1 .. Depth, Hop(p1, a)[n] = a PROVE FALSE
  <2>1. PICK m \in Nat : n = 1 + m /\ 1 + m <= Depth /\ m <= Depth /\ 1 \in Nat
    <3>1. n - 1 \in Nat
      BY <1>0
    <3> QED  BY <1>0, <3>1
  <2>2. Hop(p1, a)[1] = new
    <3>1. 0 \in 0 .. Depth - 1 /\ 0 + 1 = 1
      BY <1>0, <2>1
    <3> QED  BY <1>0, <3>1, HopSteps
  <2>3. Hop(p1, a)[1 + m] = Hop(p1, new)[m]
    BY <2>1, <2>2, HopAfter
  <2> QED  BY <1>2, <1>3, <2>1, <2>3
<1>4. ASSUME NEW b \in Accounts, NEW n \in 1 .. Depth, Hop(p1, b)[n] = b PROVE FALSE
  <2>0. n \in Nat /\ n <= Depth
    BY <1>0
  <2>1. CASE \E d \in 0 .. n - 1 : Hop(p1, b)[d] = a
    <3>1. PICK d \in Nat : d <= n - 1 /\ Hop(p1, b)[d] = a
      BY <2>0, <2>1
    <3>2. PICK e \in Nat : d + e = n /\ e + d = n /\ d + e <= Depth /\ e + d <= Depth
      <4>1. n - d \in Nat
        BY <2>0, <3>1
      <4> QED  BY <2>0, <3>1, <4>1
    <3>3. Hop(p1, a)[e] = b
      <4>1. Hop(p1, b)[d + e] = Hop(p1, a)[e]
        BY <3>1, <3>2, HopAfter
      <4> QED  BY <1>4, <3>2, <4>1
    <3>4. Hop(p1, a)[e + d] = Hop(p1, b)[d]
      BY <3>2, <3>3, HopAfter
    <3> QED  BY <1>3, <3>1, <3>2, <3>4
  <2>2. CASE ~ \E d \in 0 .. n - 1 : Hop(p1, b)[d] = a
    <3>1. Hop(p0, b)[n] = b
      BY <1>4, <2>0, <2>2, HopWithout
    <3> QED  BY <1>1, <3>1 DEF Acyclic
  <2> QED  BY <2>1, <2>2
<1> QED  BY <1>4 DEF Acyclic

\* Shares that an account gains or loses count for those after it.
GainsAt(f, g, a, n) == \A x \in Accounts : g[x] = IF x = a THEN f[x] + n ELSE f[x]

LEMMA SharesMove ==
  ASSUME NEW px \in Proxies, Acyclic(px), NEW a \in Accounts, NEW sh \in Holdings, NEW n \in Int,
         NEW sh1 \in Holdings, GainsAt(sh, sh1, a, n)
  PROVE  proxied_after(px, Supplied(px, sh), a, Shares(n)) = Supplied(px, sh1)
<1>0. Depth \in Nat
  BY VotingAssumption
<1>1. Shares(n) \in Deltas
  BY DEF Shares, Deltas
<1>2. ASSUME NEW b \in Accounts, NEW j \in Levels
      PROVE  Total(sh, From(px, b, j + 1)) + Added(px, a, b, j, Shares(n)) = Total(sh1, From(px, b, j + 1))
  <2>0. j \in Nat /\ j + 1 <= Depth
    BY <1>0 DEF Levels
  <2> DEFINE F == From(px, b, j + 1)
  <2>1. IsFiniteSet(F) /\ IntOn(sh, F) /\ Total(sh, F) \in Int /\ F \subseteq Accounts
    <3>1. F \subseteq Accounts
      BY DEF From
    <3> QED  BY <3>1, FromSum
  <2>2. CASE Hop(px, a)[j + 1] = b
    <3>1. a \in F
      BY <2>2 DEF From
    <3>2. Added(px, a, b, j, Shares(n)) = n
      <4>1. j + 1 \in 1 .. j + 1 /\ j + 1 - (j + 1) = 0
        BY <2>0
      <4>2. Added(px, a, b, j, Shares(n)) = Shares(n)[j + 1 - (j + 1)]
        BY <1>1, <2>2, <4>1, AddedAt
      <4>3. Shares(n)[0] = n
        BY <1>0 DEF Shares
      <4> QED  BY <4>1, <4>2, <4>3
    <3> HIDE DEF F
    <3>3. ChangesAt(sh, sh1, F, a)
      BY <2>1 DEF ChangesAt, GainsAt, Holdings
    <3>4. /\ SumFunctionOnSet(sh1, F) = SumFunctionOnSet(sh, F) + (sh1[a] - sh[a])
          /\ SumFunctionOnSet(sh, F) \in Int
      BY <2>1, <3>1, <3>3, SumChange
    <3>5. sh1[a] - sh[a] = n
      <4>1. PICK s \in Int : s = sh[a]
        BY DEF Holdings
      <4>2. sh1[a] = s + n
        BY <4>1 DEF GainsAt
      <4>3. (s + n) - s = n
        OBVIOUS
      <4> QED  BY <4>1, <4>2, <4>3
    <3> QED  BY <3>2, <3>4, <3>5 DEF F, Total
  <2>3. CASE Hop(px, a)[j + 1] # b
    <3>1. a \notin F
      BY <2>3 DEF From
    <3>2. Added(px, a, b, j, Shares(n)) = 0
      <4>1. CASE \E k \in 1 .. j + 1 : Hop(px, a)[k] = b
        <5>1. PICK k \in 1 .. j + 1 : Hop(px, a)[k] = b
          BY <4>1
        <5>2. Added(px, a, b, j, Shares(n)) = Shares(n)[j + 1 - k]
          BY <1>1, <5>1, AddedAt
        <5>3. j + 1 - k \in 0 .. Depth /\ j + 1 - k # 0
          BY <1>0, <2>0, <2>3, <5>1
        <5> QED  BY <5>2, <5>3 DEF Shares
      <4>2. CASE ~ \E k \in 1 .. j + 1 : Hop(px, a)[k] = b
        BY <1>1, <4>2, AddedAt
      <4> QED  BY <4>1, <4>2
    <3> HIDE DEF F
    <3>3. \A x \in F : sh[x] = sh1[x]
      BY <2>1, <3>1 DEF GainsAt
    <3>4. SumFunctionOnSet(sh, F) = SumFunctionOnSet(sh1, F)
      BY <2>1, <3>3, SumEqual
    <3>5. PICK t \in Int : t = SumFunctionOnSet(sh, F)
      BY <2>1 DEF Total
    <3>6. t + 0 = t
      OBVIOUS
    <3> QED  BY <3>2, <3>4, <3>5, <3>6 DEF F, Total
  <2> QED  BY <2>2, <2>3
<1> DEFINE d == Shares(n)
           was == Supplied(px, sh)
<1>3. ASSUME NEW b \in Accounts, NEW j \in Levels
      PROVE  was[b][j] + Added(px, a, b, j, d) = Total(sh1, From(px, b, j + 1))
  <2>1. was[b][j] = Total(sh, From(px, b, j + 1))
    BY DEF Supplied
  <2> QED  BY <1>2, <2>1
<1>4. proxied_after(px, was, a, d) = [b \in Accounts |-> [j \in Levels |-> was[b][j] + Added(px, a, b, j, d)]]
  BY ProxiedAfter
<1> HIDE DEF d, was
<1>5. proxied_after(px, was, a, d) = [b \in Accounts |-> [j \in Levels |-> Total(sh1, From(px, b, j + 1))]]
  BY <1>3, <1>4
<1> QED  BY <1>5 DEF Supplied, d, was

-----------------------------------------------------------------------------
(* What reaches the voters. *)

\* How much of a difference comes k accounts further.
Reaching(delta) == [k \in 0 .. Depth |-> Total(delta, 0 .. Depth - k)]

LEMMA ReachingInt ==
  ASSUME NEW delta \in Deltas, NEW k \in 0 .. Depth
  PROVE  Reaching(delta)[k] = Total(delta, 0 .. Depth - k) /\ Reaching(delta)[k] \in Int
<1>0. Depth \in Nat
  BY VotingAssumption
<1>1. IsFiniteSet(0 .. Depth - k)
  <2>1. Depth - k \in Int /\ 0 \in Int
    BY <1>0
  <2> QED  BY <2>1, FS_Interval
<1>2. IntOn(delta, 0 .. Depth - k)
  <2>1. ASSUME NEW i \in 0 .. Depth - k PROVE delta[i] \in Int
    <3>1. i \in 0 .. Depth
      BY <1>0
    <3> QED  BY <3>1 DEF Deltas
  <2> QED  BY <2>1 DEF IntOn
<1>3. Total(delta, 0 .. Depth - k) \in Int
  BY <1>1, <1>2, SumOnSet DEF Total
<1> QED  BY <1>3 DEF Reaching

\* A sum over a set of at most one number.
LEMMA AtMostOne ==
  ASSUME NEW f, NEW D, \A k \in D : f[k] \in Int, \A k, l \in D : k = l
  PROVE  /\ Total(f, D) \in Int
         /\ \A k \in D : Total(f, D) = f[k]
         /\ D = {} => Total(f, D) = 0
<1>1. ASSUME NEW k \in D PROVE Total(f, D) = f[k] /\ f[k] \in Int
  <2>1. D = {k} /\ f[k] \in Int
    OBVIOUS
  <2> QED  BY <2>1, SumSingle DEF Total
<1>2. ASSUME D = {} PROVE Total(f, D) = 0
  <2>1. SumFunctionOnSet(f, {}) = 0
    BY SumOnSet, FS_EmptySet DEF IntOn
  <2> QED  BY <1>2, <2>1 DEF Total
<1>3. Total(f, D) \in Int
  <2>1. CASE D = {}
    BY <1>2, <2>1
  <2>2. ASSUME NEW k \in D PROVE Total(f, D) \in Int
    BY <1>1, <2>2
  <2> QED  BY <2>1, <2>2
<1> QED  BY <1>1, <1>2, <1>3

\* What is proxied to b grows by what comes as far as b.
Entries == [Accounts -> [Levels -> Int]]

LEMMA AddedSum ==
  ASSUME NEW px \in Proxies, Acyclic(px), NEW a \in Accounts, NEW b \in Accounts, NEW delta \in Deltas
  PROVE  /\ \A j \in Levels : Added(px, a, b, j, delta) \in Int
         /\ Total([j \in Levels |-> Added(px, a, b, j, delta)], Levels) = Total(Reaching(delta), Distance(px, a, b) \ {0})
         /\ Total(Reaching(delta), Distance(px, a, b) \ {0}) \in Int
<1> DEFINE D == Distance(px, a, b) \ {0}
           A == [j \in Levels |-> Added(px, a, b, j, delta)]
<1>0. Depth \in Nat
  BY VotingAssumption
<1>1. \A k \in D : k \in 1 .. Depth /\ k \in 0 .. Depth /\ Hop(px, a)[k] = b
  BY <1>0 DEF Distance
<1>2. \A k, l \in D : k = l
  BY <1>1, OneDistance
<1>3. \A k \in D : Reaching(delta)[k] \in Int
  BY <1>1, ReachingInt
<1>4. \A j \in Levels : A[j] = Added(px, a, b, j, delta) /\ A[j] \in Int
  BY AddedAt
<1>5. IsFiniteSet(Levels) /\ IntOn(A, Levels)
  <2>1. IsFiniteSet(Levels)
    <3>1. Depth - 1 \in Int /\ 0 \in Int
      BY <1>0
    <3> QED  BY <3>1, FS_Interval DEF Levels
  <2> QED  BY <1>4, <2>1 DEF IntOn
<1>6. CASE D = {}
  <2>1. ASSUME NEW j \in Levels PROVE A[j] = 0
    <3>1. ~ \E k \in 1 .. j + 1 : Hop(px, a)[k] = b
      BY <1>0, <1>6 DEF Distance, Levels
    <3> QED  BY <3>1, AddedAt
  <2> HIDE DEF A, D
  <2>2. {} \in SUBSET Levels
    OBVIOUS
  <2>3. \A x \in Levels \ {} : A[x] = 0
    BY <2>1
  <2>4. SumFunctionOnSet(A, Levels) = SumFunctionOnSet(A, {})
    BY <1>5, <2>2, <2>3, SumWithout
  <2>5. SumFunctionOnSet(A, {}) = 0
    BY SumOnSet, FS_EmptySet DEF IntOn
  <2>6. Total(Reaching(delta), D) = 0
    BY <1>2, <1>3, <1>6, AtMostOne
  <2> QED  BY <1>4, <2>4, <2>5, <2>6 DEF A, D, Total
<1>7. ASSUME NEW k \in D PROVE Total(A, Levels) = Total(Reaching(delta), D)
  <2>0. k \in 1 .. Depth /\ k \in 0 .. Depth /\ Hop(px, a)[k] = b
    BY <1>1, <1>7
  <2>1. Total(Reaching(delta), D) = Total(delta, 0 .. Depth - k)
    <3>1. Total(Reaching(delta), D) = Reaching(delta)[k]
      <4> HIDE DEF D
      <4> QED  BY <1>2, <1>3, <1>7, AtMostOne
    <3> QED  BY <2>0, <3>1, ReachingInt
  <2>2. ASSUME NEW j \in Levels, ~ (k <= j + 1) PROVE A[j] = 0
    <3>1. ASSUME NEW l \in 1 .. j + 1, Hop(px, a)[l] = b PROVE FALSE
      <4>1. l \in 0 .. Depth
        BY <1>0 DEF Levels
      <4>2. l = k
        BY <2>0, <3>1, <4>1, OneDistance
      <4> QED  BY <1>0, <2>0, <2>2, <3>1, <4>2 DEF Levels
    <3> QED  BY <3>1, AddedAt
  <2>3. ASSUME NEW i \in 0 .. Depth - k PROVE i + (k - 1) \in Levels /\ A[i + (k - 1)] = delta[i]
    <3>1. PICK j \in Levels : j = i + (k - 1)
      BY <1>0, <2>0 DEF Levels
    <3>2. k \in 1 .. j + 1 /\ j + 1 - k = i
      BY <1>0, <2>0, <3>1 DEF Levels
    <3>3. Added(px, a, b, j, delta) = delta[j + 1 - k]
      BY <2>0, <3>2, AddedAt
    <3> QED  BY <1>4, <3>1, <3>2, <3>3
  <2> DEFINE U == (0 + (k - 1)) .. ((Depth - k) + (k - 1))
  <2>4. U \in SUBSET Levels /\ \A j \in Levels \ U : ~ (k <= j + 1)
    BY <1>0, <2>0 DEF Levels
  <2>5. IntOn(delta, 0 .. Depth - k)
    <3>1. ASSUME NEW i \in 0 .. Depth - k PROVE delta[i] \in Int
      <4>1. i \in 0 .. Depth
        BY <1>0, <2>0
      <4> QED  BY <4>1 DEF Deltas
    <3> QED  BY <3>1 DEF IntOn
  <2> HIDE DEF A
  <2>6. SumFunctionOnSet(A, U) = SumFunctionOnSet(delta, 0 .. Depth - k)
    <3>1. PICK lo \in Int, hi \in Int, s \in Int : lo = 0 /\ hi = Depth - k /\ s = k - 1
      BY <1>0, <2>0
    <3>2. IntOn(delta, lo .. hi) /\ \A i \in lo .. hi : A[i + s] = delta[i]
      BY <2>3, <2>5, <3>1
    <3>3. SumFunctionOnSet(A, (lo + s) .. (hi + s)) = SumFunctionOnSet(delta, lo .. hi)
      BY ONLY <3>2, lo \in Int, hi \in Int, s \in Int, SumShifted
    <3> QED  BY <3>1, <3>3
  <2> HIDE DEF U
  <2>7. \A j \in Levels \ U : A[j] = 0
    BY <2>2, <2>4
  <2>8. SumFunctionOnSet(A, Levels) = SumFunctionOnSet(A, U)
    BY <1>5, <2>4, <2>7, SumWithout
  <2> QED  BY <2>1, <2>6, <2>8 DEF Total
<1>8. Total(A, Levels) = Total(Reaching(delta), D)
  <2>1. CASE D = {}
    BY <1>6, <2>1
  <2>2. ASSUME NEW k \in D PROVE Total(A, Levels) = Total(Reaching(delta), D)
    BY <1>7
  <2>3. D = {} \/ \E k \in D : TRUE
    OBVIOUS
  <2> HIDE DEF A, D
  <2> QED  BY <2>1, <2>2, <2>3
<1>9. Total(Reaching(delta), D) \in Int
  <2> HIDE DEF A, D
  <2> QED  BY <1>2, <1>3, AtMostOne
<1> QED  BY <1>4, <1>8, <1>9

\* The weight of every account.
Weigh(sh, pd) == [b \in Accounts |-> sh[b] + Total(pd[b], Levels)]

LEMMA LevelsSum ==
  ASSUME NEW pd \in Entries, NEW b \in Accounts
  PROVE  IsFiniteSet(Levels) /\ IntOn(pd[b], Levels) /\ Total(pd[b], Levels) \in Int
<1>0. Depth \in Nat
  BY VotingAssumption
<1>1. IsFiniteSet(Levels)
  <2>1. Depth - 1 \in Int /\ 0 \in Int
    BY <1>0
  <2> QED  BY <2>1, FS_Interval DEF Levels
<1>2. IntOn(pd[b], Levels)
  BY DEF IntOn, Entries
<1> QED  BY <1>1, <1>2, SumOnSet DEF Total

LEMMA WeighInt ==
  ASSUME NEW sh \in Holdings, NEW pd \in Entries
  PROVE  /\ Weigh(sh, pd) \in Holdings
         /\ \A b \in Accounts : Weigh(sh, pd)[b] = sh[b] + Total(pd[b], Levels)
<1>1. ASSUME NEW b \in Accounts PROVE sh[b] + Total(pd[b], Levels) \in Int
  <2>1. Total(pd[b], Levels) \in Int /\ sh[b] \in Int
    BY LevelsSum DEF Holdings
  <2> QED  BY <2>1
<1> QED  BY <1>1 DEF Weigh, Holdings

LEMMA WeightAfter ==
  ASSUME NEW px \in Proxies, Acyclic(px), NEW a \in Accounts, NEW delta \in Deltas, NEW was \in Entries,
         NEW b \in Accounts
  PROVE  /\ proxied_after(px, was, a, delta) \in Entries
         /\ Total(proxied_after(px, was, a, delta)[b], Levels)
              = Total(was[b], Levels) + Total(Reaching(delta), Distance(px, a, b) \ {0})
         /\ Total(Reaching(delta), Distance(px, a, b) \ {0}) \in Int
<1> DEFINE after == proxied_after(px, was, a, delta)
           A == [j \in Levels |-> Added(px, a, b, j, delta)]
<1>1. after = [x \in Accounts |-> [j \in Levels |-> was[x][j] + Added(px, a, x, j, delta)]]
  BY ProxiedAfter
<1>2. ASSUME NEW x \in Accounts, NEW j \in Levels PROVE was[x][j] + Added(px, a, x, j, delta) \in Int
  <2>1. was[x][j] \in Int /\ Added(px, a, x, j, delta) \in Int
    BY AddedSum DEF Entries
  <2> QED  BY <2>1
<1>3. after \in Entries
  BY <1>1, <1>2 DEF Entries
<1>4. IntOn(A, Levels) /\ \A j \in Levels : A[j] = Added(px, a, b, j, delta)
  BY AddedSum DEF IntOn
<1>5. \A j \in Levels : after[b][j] = was[b][j] + A[j]
  BY <1>1, <1>4
<1>6. /\ Total(A, Levels) = Total(Reaching(delta), Distance(px, a, b) \ {0})
      /\ Total(Reaching(delta), Distance(px, a, b) \ {0}) \in Int
  BY AddedSum
<1>7. IsFiniteSet(Levels) /\ IntOn(was[b], Levels)
  BY LevelsSum
<1> HIDE DEF A, after
<1>8. SumFunctionOnSet(after[b], Levels) = SumFunctionOnSet(was[b], Levels) + SumFunctionOnSet(A, Levels)
  BY <1>4, <1>5, <1>7, SumPlus
<1> QED  BY <1>3, <1>6, <1>8 DEF Total, after

\* So another account's weight changes by what comes to it.
LEMMA OthersFollow ==
  ASSUME NEW px \in Proxies, Acyclic(px), NEW a \in Accounts, NEW delta \in Deltas, NEW was \in Entries,
         NEW sh \in Holdings, NEW sh1 \in Holdings, NEW b \in Accounts, b # a, sh1[b] = sh[b]
  PROVE  Weigh(sh1, proxied_after(px, was, a, delta))[b] = Weigh(sh, was)[b] + Total(Reaching(delta), Distance(px, a, b))
<1> DEFINE after == proxied_after(px, was, a, delta)
<1>1. /\ after \in Entries
      /\ Total(after[b], Levels) = Total(was[b], Levels) + Total(Reaching(delta), Distance(px, a, b) \ {0})
      /\ Total(Reaching(delta), Distance(px, a, b) \ {0}) \in Int
  BY WeightAfter
<1>2. Distance(px, a, b) \ {0} = Distance(px, a, b)
  BY HopSteps DEF Distance
<1> HIDE DEF after
<1>3. Weigh(sh1, after)[b] = sh[b] + Total(after[b], Levels) /\ Weigh(sh, was)[b] = sh[b] + Total(was[b], Levels)
  BY <1>1, WeighInt
<1>4. PICK x \in Int, y \in Int, z \in Int :
        x = sh[b] /\ y = Total(was[b], Levels) /\ z = Total(Reaching(delta), Distance(px, a, b))
  <2>1. sh[b] \in Int /\ Total(was[b], Levels) \in Int
    BY LevelsSum DEF Holdings
  <2> QED  BY <1>1, <1>2, <2>1
<1>5. x + (y + z) = (x + y) + z
  OBVIOUS
<1> QED  BY <1>1, <1>2, <1>3, <1>4, <1>5 DEF after

\* The same for the account whose shares change.
LEMMA HolderFollows ==
  ASSUME NEW px \in Proxies, Acyclic(px), NEW a \in Accounts, NEW n \in Int, NEW was \in Entries,
         NEW sh \in Holdings, NEW sh1 \in Holdings, GainsAt(sh, sh1, a, n)
  PROVE  Weigh(sh1, proxied_after(px, was, a, Shares(n)))[a]
           = Weigh(sh, was)[a] + Total(Reaching(Shares(n)), Distance(px, a, a))
<1> DEFINE after == proxied_after(px, was, a, Shares(n))
<1>0. Depth \in Nat
  BY VotingAssumption
<1>1. Shares(n) \in Deltas
  BY DEF Shares, Deltas
<1>2. /\ after \in Entries
      /\ Total(after[a], Levels) = Total(was[a], Levels) + Total(Reaching(Shares(n)), Distance(px, a, a) \ {0})
  BY <1>1, WeightAfter
<1>3. Distance(px, a, a) = {0}
  BY <1>0, HopSteps DEF Distance, Acyclic
<1>4. Total(Reaching(Shares(n)), Distance(px, a, a) \ {0}) = 0
  <2>1. Distance(px, a, a) \ {0} = {}
    BY <1>3
  <2> QED  BY <2>1, AtMostOne
<1>5. Total(Reaching(Shares(n)), Distance(px, a, a)) = n
  <2>1. 0 \in 0 .. Depth /\ Depth - 0 = Depth
    BY <1>0
  <2>2. Reaching(Shares(n))[0] = Total(Shares(n), 0 .. Depth) /\ Reaching(Shares(n))[0] \in Int
    BY <1>1, <2>1, ReachingInt
  <2>3. Total(Reaching(Shares(n)), {0}) = Reaching(Shares(n))[0]
    BY <2>2, SumSingle DEF Total
  <2>4. IsFiniteSet(0 .. Depth) /\ IntOn(Shares(n), 0 .. Depth)
    <3>1. IsFiniteSet(0 .. Depth)
      <4>1. 0 \in Int /\ Depth \in Int
        BY <1>0
      <4> QED  BY <4>1, FS_Interval
    <3> QED  BY <1>1, <3>1 DEF IntOn, Deltas
  <2>5. {0} \in SUBSET (0 .. Depth) /\ \A i \in (0 .. Depth) \ {0} : Shares(n)[i] = 0
    BY <1>0 DEF Shares
  <2>6. Shares(n)[0] = n
    BY <1>0 DEF Shares
  <2>7. SumFunctionOnSet(Shares(n), 0 .. Depth) = SumFunctionOnSet(Shares(n), {0})
    BY <2>4, <2>5, SumWithout
  <2>8. SumFunctionOnSet(Shares(n), {0}) = n
    BY <2>6, SumSingle
  <2> QED  BY <1>3, <2>2, <2>3, <2>7, <2>8 DEF Total
<1> HIDE DEF after
<1>6. Weigh(sh1, after)[a] = sh1[a] + Total(after[a], Levels) /\ Weigh(sh, was)[a] = sh[a] + Total(was[a], Levels)
  BY <1>2, WeighInt
<1>7. PICK x \in Int, y \in Int : x = sh[a] /\ y = Total(was[a], Levels)
  BY LevelsSum DEF Holdings
<1>8. sh1[a] = x + n
  BY <1>7 DEF GainsAt
<1>9. (x + n) + (y + 0) = (x + y) + n
  OBVIOUS
<1> QED  BY <1>2, <1>4, <1>5, <1>6, <1>7, <1>8, <1>9 DEF after

\* Voters without a proxy are at the ends of chains, so what comes to them
\* is what comes to the end of a's chain, if that is a voter.
Direct(px, V) == \A b \in V : px[b] = Self
Follows(px, a, delta, V, w0, w1) == \A b \in V : w1[b] = w0[b] + Total(Reaching(delta), Distance(px, a, b))

LEMMA VotersFollow ==
  ASSUME NEW px \in Proxies, Acyclic(px), NEW a \in Accounts, NEW delta \in Deltas,
         NEW V \in SUBSET Accounts, Direct(px, V), NEW w0 \in Holdings, NEW w1 \in Holdings,
         Follows(px, a, delta, V, w0, w1)
  PROVE  /\ Total(w0, V) \in Int
         /\ Total(Reaching(delta), {k \in Root(px, a) : Hop(px, a)[k] \in V}) \in Int
         /\ Total(w1, V) = Total(w0, V) + Total(Reaching(delta), {k \in Root(px, a) : Hop(px, a)[k] \in V})
<1> DEFINE R == {k \in Root(px, a) : Hop(px, a)[k] \in V}
<1>0. Depth \in Nat
  BY VotingAssumption
<1>1. IsFiniteSet(V) /\ IntOn(w0, V) /\ IntOn(w1, V)
  <2>1. IsFiniteSet(V)
    BY FS_Subset, VotingAssumption
  <2> QED  BY <2>1 DEF IntOn, Holdings
<1>2. Total(w0, V) \in Int
  BY <1>1, SumOnSet DEF Total
<1>3. \A k \in R : k \in 0 .. Depth /\ k \in Root(px, a) /\ Hop(px, a)[k] \in V
  BY DEF Root
<1>4. \A k, l \in R : k = l
  BY <1>3, OneRoot
<1>5. \A k \in R : Reaching(delta)[k] \in Int
  BY <1>3, ReachingInt
<1>6. /\ Total(Reaching(delta), R) \in Int
      /\ \A k \in R : Total(Reaching(delta), R) = Reaching(delta)[k]
      /\ R = {} => Total(Reaching(delta), R) = 0
  <2> HIDE DEF R
  <2> QED  BY <1>4, <1>5, AtMostOne
<1>7. ASSUME NEW b \in V, NEW k \in Distance(px, a, b) PROVE k \in R /\ Hop(px, a)[k] = b
  <2>1. k \in 0 .. Depth /\ Hop(px, a)[k] = b /\ b # Self /\ px[b] = Self
    BY VotingAssumption DEF Distance, Direct
  <2> QED  BY <2>1 DEF Root
<1>8. ASSUME NEW b \in V, Distance(px, a, b) = {} PROVE w1[b] = w0[b]
  <2>1. Total(Reaching(delta), {}) = 0
    BY AtMostOne
  <2>2. w1[b] = w0[b] + 0
    BY <1>8, <2>1 DEF Follows
  <2>3. w0[b] \in Int
    BY DEF Holdings
  <2> QED  BY <2>2, <2>3
<1> HIDE DEF R
<1>9. CASE R = {}
  <2>1. \A b \in V : w0[b] = w1[b]
    BY <1>7, <1>8, <1>9
  <2>2. SumFunctionOnSet(w0, V) = SumFunctionOnSet(w1, V)
    BY <1>1, <2>1, SumEqual
  <2>3. PICK t \in Int : t = Total(w0, V)
    BY <1>2
  <2>4. t = t + 0
    OBVIOUS
  <2>5. Total(w1, V) = Total(w0, V) + Total(Reaching(delta), R)
    BY <1>6, <1>9, <2>2, <2>3, <2>4 DEF Total
  <2> QED  BY <1>2, <1>6, <2>5 DEF R
<1>10. ASSUME NEW k \in R PROVE Total(w1, V) = Total(w0, V) + Total(Reaching(delta), R)
  <2>1. PICK b \in V : Hop(px, a)[k] = b
    BY <1>3, <1>10
  <2>2. k \in Distance(px, a, b)
    BY <1>3, <1>10, <2>1 DEF Distance
  <2>3. Distance(px, a, b) = {k}
    <3>1. \A l \in Distance(px, a, b) : l = k
      BY <1>4, <1>7, <1>10
    <3> QED  BY <2>2, <3>1
  <2>4. Total(Reaching(delta), {k}) = Reaching(delta)[k]
    BY <1>5, <1>10, SumSingle DEF Total
  <2>5. w1[b] = w0[b] + Reaching(delta)[k]
    BY <2>3, <2>4 DEF Follows
  <2>6. ASSUME NEW c \in V \ {b} PROVE w1[c] = w0[c]
    <3>1. \A l \in Distance(px, a, c) : FALSE
      BY <1>4, <1>7, <1>10, <2>1
    <3> QED  BY <1>8, <3>1
  <2>7. ChangesAt(w0, w1, V, b)
    BY <2>6 DEF ChangesAt, Holdings
  <2>8. SumFunctionOnSet(w1, V) = SumFunctionOnSet(w0, V) + (w1[b] - w0[b])
    BY <1>1, <2>7, SumChange
  <2>9. PICK x \in Int, r \in Int : x = w0[b] /\ r = Reaching(delta)[k]
    BY <1>5, <1>10 DEF Holdings
  <2>10. (x + r) - x = r
    OBVIOUS
  <2> QED  BY <1>6, <1>10, <2>5, <2>8, <2>9, <2>10 DEF Total
<1> QED
  <2>1. R = {} \/ \E k \in R : TRUE
    OBVIOUS
  <2>2. Total(w1, V) = Total(w0, V) + Total(Reaching(delta), R)
    BY <1>9, <1>10, <2>1 DEF R
  <2> QED  BY <1>2, <1>6, <2>2 DEF R

\* Then a tally that is off from the sum over the voters stays off as much.
Voters(bs, c) == {b \in Accounts : <<b, c>> \in bs}

LEMMA OffKept ==
  ASSUME NEW px \in Proxies, Acyclic(px), NEW a \in Accounts, NEW delta \in Deltas,
         NEW bs, NEW c \in Candidates, Direct(px, Voters(bs, c)), NEW v \in [Candidates -> Int],
         NEW w0 \in Holdings, NEW w1 \in Holdings, Follows(px, a, delta, Voters(bs, c), w0, w1)
  PROVE  Off(c, votes_after(px, bs, v, a, delta), bs, w1) = Off(c, v, bs, w0)
<1> DEFINE V == Voters(bs, c)
           R == {k \in Root(px, a) : Hop(px, a)[k] \in V}
<1>1. V \in SUBSET Accounts
  BY DEF Voters
<1>2. {k \in Root(px, a) : <<Hop(px, a)[k], c>> \in bs} = R
  <2>1. ASSUME NEW k \in Root(px, a) PROVE Hop(px, a)[k] \in Accounts
    <3>1. k \in 0 .. Depth /\ Hop(px, a)[k] # Self
      BY DEF Root
    <3>2. Hop(px, a) \in [0 .. Depth -> Ends]
      BY HopSteps
    <3> QED  BY ONLY <3>1, <3>2 DEF Ends
  <2>2. ASSUME NEW k \in Root(px, a) PROVE <<Hop(px, a)[k], c>> \in bs <=> Hop(px, a)[k] \in V
    <3>1. PICK y \in Accounts : y = Hop(px, a)[k]
      BY <2>1
    <3>2. <<y, c>> \in bs <=> y \in V
      BY DEF Voters
    <3> QED  BY ONLY <3>1, <3>2
  <2> HIDE DEF V
  <2> QED  BY <2>2
<1>3. votes_after(px, bs, v, a, delta)[c] = v[c] + Total(Reaching(delta), R)
  <2>1. votes_after(px, bs, v, a, delta)[c]
          = v[c] + Total(Reaching(delta), {k \in Root(px, a) : <<Hop(px, a)[k], c>> \in bs})
    BY DEF votes_after, Reaching
  <2> QED  BY <1>2, <2>1
<1>4. Total(w0, V) \in Int /\ Total(Reaching(delta), R) \in Int /\ Total(w1, V) = Total(w0, V) + Total(Reaching(delta), R)
  <2>1. Direct(px, V) /\ Follows(px, a, delta, V, w0, w1)
    OBVIOUS
  <2> HIDE DEF V
  <2> QED  BY <1>1, <2>1, VotersFollow
<1>5. PICK x \in Int, y \in Int, z \in Int : x = v[c] /\ y = Total(w0, V) /\ z = Total(Reaching(delta), R)
  BY <1>4
<1>6. (x + z) - (y + z) = x - y
  OBVIOUS
<1> HIDE DEF R
<1>7. \A u, w : Off(c, u, bs, w) = u[c] - Total(w, V)
  BY DEF Off, Voters
<1> HIDE DEF V
<1> QED  BY <1>3, <1>4, <1>5, <1>6, <1>7

LEMMA SuppliedEntries ==
  ASSUME NEW px, NEW sh \in Holdings
  PROVE  Supplied(px, sh) \in Entries
  BY FromSum DEF Supplied, Entries

\* An account weighs all that counts for it.
LEMMA WeighSupply ==
  ASSUME NEW px \in Proxies, NEW sh \in Holdings, NEW b \in Accounts
  PROVE  /\ Weigh(sh, Supplied(px, sh))[b] = Total(Supply(px, sh, b), 0 .. Depth)
         /\ Supply(px, sh, b)[0] = sh[b]
<1> DEFINE S == Supply(px, sh, b)
           pd == Supplied(px, sh)
<1>0. Depth \in Nat
  BY VotingAssumption
<1>1. S \in Deltas /\ pd \in Entries
  BY SupplyDeltas, SuppliedEntries
<1>2. S[0] = sh[b]
  <2>1. From(px, b, 0) = {b}
    BY HopSteps DEF From
  <2>2. Total(sh, {b}) = sh[b]
    BY SumSingle DEF Total, Holdings
  <2> QED  BY <1>0, <2>1, <2>2 DEF Supply
<1>3. ASSUME NEW i \in 0 .. Depth - 1 PROVE S[i + 1] = pd[b][i]
  <2>1. i + 1 \in 0 .. Depth
    BY <1>0
  <2> QED  BY <2>1 DEF Supply, Supplied, Levels
<1> HIDE DEF S, pd
<1>4. SumFunctionOnSet(S, 1 .. Depth) = SumFunctionOnSet(pd[b], Levels)
  <2>1. PICK lo \in Int, hi \in Int, s \in Int : lo = 0 /\ hi = Depth - 1 /\ s = 1
    BY <1>0
  <2>2. IntOn(pd[b], lo .. hi)
    BY <1>1, <2>1, LevelsSum DEF Levels
  <2>3. \A i \in lo .. hi : S[i + s] = pd[b][i]
    BY <1>3, <2>1
  <2>4. SumFunctionOnSet(S, (lo + s) .. (hi + s)) = SumFunctionOnSet(pd[b], lo .. hi)
    BY ONLY <2>2, <2>3, lo \in Int, hi \in Int, s \in Int, SumShifted
  <2>5. lo + s = 1 /\ hi + s = Depth
    BY <1>0, <2>1
  <2> QED  BY <2>1, <2>4, <2>5 DEF Levels
<1>5. IsFiniteSet(0 .. Depth) /\ IntOn(S, 0 .. Depth) /\ 0 \in 0 .. Depth
  <2>1. IsFiniteSet(0 .. Depth)
    <3>1. 0 \in Int /\ Depth \in Int
      BY <1>0
    <3> QED  BY <3>1, FS_Interval
  <2> QED  BY <1>0, <1>1, <2>1 DEF IntOn, Deltas
<1>6. SumFunctionOnSet(S, 0 .. Depth) = S[0] + SumFunctionOnSet(S, (0 .. Depth) \ {0})
  BY <1>5, SumAdd
<1>7. (0 .. Depth) \ {0} = 1 .. Depth
  BY <1>0
<1>8. Weigh(sh, pd)[b] = sh[b] + Total(pd[b], Levels)
  BY <1>1, WeighInt
<1> QED  BY <1>2, <1>4, <1>6, <1>7, <1>8 DEF S, pd, Total

LEMMA OppositeSum ==
  ASSUME NEW d \in Deltas, NEW e \in Deltas, Opposite(d, e)
  PROVE  /\ Total(d, 0 .. Depth) \in Int
         /\ Reaching(e)[0] = 0 - Total(d, 0 .. Depth)
<1> DEFINE S == 0 .. Depth
           z == [i \in S |-> 0]
<1>0. Depth \in Nat
  BY VotingAssumption
<1>1. IsFiniteSet(S) /\ IntOn(d, S) /\ IntOn(e, S) /\ IntOn(z, S)
  <2>1. IsFiniteSet(S)
    <3>1. 0 \in Int /\ Depth \in Int
      BY <1>0
    <3> QED  BY <3>1, FS_Interval
  <2> QED  BY <2>1 DEF IntOn, Deltas
<1>2. ASSUME NEW i \in S PROVE z[i] = d[i] + e[i]
  <2>1. PICK x \in Int : x = d[i] /\ e[i] = 0 - x
    BY DEF Deltas, Opposite
  <2>2. x + (0 - x) = 0
    OBVIOUS
  <2> QED  BY <2>1, <2>2
<1>3. \A i \in S \ {} : z[i] = 0
  OBVIOUS
<1>4. Reaching(e)[0] = Total(e, S)
  <2>1. 0 \in 0 .. Depth /\ Depth - 0 = Depth
    BY <1>0
  <2> QED  BY <2>1, ReachingInt
<1> HIDE DEF S, z
<1>5. /\ SumFunctionOnSet(d, S) \in Int /\ SumFunctionOnSet(e, S) \in Int
      /\ SumFunctionOnSet(z, S) = SumFunctionOnSet(d, S) + SumFunctionOnSet(e, S)
  BY <1>1, <1>2, SumPlus
<1>6. SumFunctionOnSet(z, S) = 0
  <2>1. {} \in SUBSET S
    OBVIOUS
  <2>2. SumFunctionOnSet(z, S) = SumFunctionOnSet(z, {})
    BY <1>1, <1>3, <2>1, SumWithout
  <2>3. SumFunctionOnSet(z, {}) = 0
    BY SumOnSet, FS_EmptySet DEF IntOn
  <2> QED  BY <2>2, <2>3
<1>7. PICK x \in Int, y \in Int : x = Total(d, S) /\ y = Total(e, S)
  BY <1>5 DEF Total
<1>8. 0 = x + y
  BY <1>5, <1>6, <1>7 DEF Total
<1>9. y = 0 - x
  BY <1>8
<1> QED  BY <1>4, <1>7, <1>9 DEF S

\* When an account's shares are taken out and its ballots torn up, a tally
\* is as far from the sum over the other voters as it was from the sum over
\* all of them.
LEMMA OffRemoved ==
  ASSUME NEW px \in Proxies, Acyclic(px), NEW a \in Accounts, NEW sh \in Holdings,
         NEW e \in Deltas, Opposite(Supply(px, sh, a), e),
         NEW bs, NEW c \in Candidates, Direct(px, Voters(bs, c)), NEW v \in [Candidates -> Int],
         NEW bs1, Voters(bs1, c) = Voters(bs, c) \ {a}
  PROVE  Off(c, votes_after(px, bs, v, a, e), bs1, Weigh(sh, proxied_after(px, Supplied(px, sh), a, e)))
           = Off(c, v, bs, Weigh(sh, Supplied(px, sh)))
<1> DEFINE V == Voters(bs, c)
           pd == Supplied(px, sh)
           w0 == Weigh(sh, pd)
           w1 == Weigh(sh, proxied_after(px, pd, a, e))
           w == [b \in Accounts |-> IF b = a THEN 0 ELSE w1[b]]
<1>0. Depth \in Nat
  BY VotingAssumption
<1>1. V \in SUBSET Accounts /\ IsFiniteSet(V)
  <2>1. V \in SUBSET Accounts
    BY DEF Voters
  <2> QED  BY <2>1, FS_Subset, VotingAssumption
<1>2. pd \in Entries
  BY SuppliedEntries
<1> HIDE DEF pd
<1>3. w0 \in Holdings /\ w1 \in Holdings
  <2>1. proxied_after(px, pd, a, e) \in Entries
    BY <1>2, WeightAfter
  <2> QED  BY <1>2, <2>1, WeighInt
<1>4. ASSUME NEW b \in Accounts, b # a PROVE w[b] = w0[b] + Total(Reaching(e), Distance(px, a, b))
  BY <1>2, <1>4, OthersFollow
<1>5. w0[a] + Total(Reaching(e), Distance(px, a, a)) = 0
  <2>1. Distance(px, a, a) = {0}
    BY <1>0, HopSteps DEF Distance, Acyclic
  <2> DEFINE S == Supply(px, sh, a)
  <2>2. S \in Deltas
    BY SupplyDeltas
  <2>3. w0[a] = Total(S, 0 .. Depth)
    BY WeighSupply DEF pd
  <2> HIDE DEF S
  <2>4. Opposite(S, e)
    BY DEF S
  <2>5. Total(S, 0 .. Depth) \in Int /\ Reaching(e)[0] = 0 - Total(S, 0 .. Depth)
    BY <2>2, <2>4, OppositeSum
  <2>6. PICK x \in Int : x = Total(S, 0 .. Depth)
    BY <2>5
  <2>7. Reaching(e)[0] = 0 - x /\ 0 - x \in Int
    BY <2>5, <2>6
  <2>8. Total(Reaching(e), {0}) = Reaching(e)[0]
    BY <2>7, SumSingle DEF Total
  <2>9. x + (0 - x) = 0
    OBVIOUS
  <2> HIDE DEF w0
  <2> QED  BY <2>1, <2>3, <2>6, <2>7, <2>8, <2>9
<1>6. w \in Holdings /\ w[a] = 0
  <2> HIDE DEF w1
  <2> QED  BY <1>3 DEF Holdings
<1>7. Follows(px, a, e, V, w0, w)
  <2>1. ASSUME NEW b \in V PROVE w[b] = w0[b] + Total(Reaching(e), Distance(px, a, b))
    <3> HIDE DEF w, w0
    <3> QED  BY <1>1, <1>4, <1>5, <1>6
  <2> QED  BY <2>1 DEF Follows
<1> DEFINE u == votes_after(px, bs, v, a, e)
<1>8. Off(c, u, bs, w) = Off(c, v, bs, w0)
  <2> HIDE DEF w0, w
  <2> QED  BY <1>3, <1>6, <1>7, OffKept
<1>9. \A b \in V \ {a} : w[b] = w1[b]
  BY <1>1
<1> HIDE DEF w0, w1, w, u
<1>10. Total(w, V) = Total(w1, V \ {a})
  <2> DEFINE U == V \ {a}
  <2>1. U \in SUBSET V /\ IsFiniteSet(U) /\ IntOn(w, V) /\ IntOn(w, U) /\ \A x \in V \ U : w[x] = 0
    <3>1. IsFiniteSet(U)
      BY <1>1, FS_RemoveElement
    <3> QED  BY <1>1, <1>6, <3>1 DEF IntOn, Holdings
  <2>2. \A x \in U : w[x] = w1[x]
    BY <1>9
  <2> HIDE DEF U
  <2>3. SumFunctionOnSet(w, V) = SumFunctionOnSet(w, U)
    BY <1>1, <2>1, SumWithout
  <2>4. SumFunctionOnSet(w, U) = SumFunctionOnSet(w1, U)
    BY <2>1, <2>2, SumEqual
  <2> QED  BY <2>3, <2>4 DEF Total, U
<1>11. Off(c, u, bs, w) = u[c] - Total(w, V) /\ Off(c, u, bs1, w1) = u[c] - Total(w1, V \ {a})
  BY DEF Off, Voters
<1> QED  BY <1>8, <1>10, <1>11 DEF u, w0, w1, pd

-----------------------------------------------------------------------------
(* Where a share counts. *)

\* The accounts whose chains come to b.
Within(px, b) == {x \in Accounts : \E k \in 0 .. Depth : Hop(px, x)[k] = b}

LEMMA WithinSum ==
  ASSUME NEW px \in Proxies, Acyclic(px), NEW sh \in Holdings, NEW b \in Accounts
  PROVE  Total(Supply(px, sh, b), 0 .. Depth) = Total(sh, Within(px, b))
<1> DEFINE S == Within(px, b)
           T == 0 .. Depth
           f == [x \in S |-> CHOOSE k \in T : Hop(px, x)[k] = b]
           h == Supply(px, sh, b)
<1>0. Depth \in Nat
  BY VotingAssumption
<1>1. S \subseteq Accounts /\ IsFiniteSet(S) /\ IntOn(sh, S)
  <2>1. S \subseteq Accounts
    BY DEF Within
  <2>2. IsFiniteSet(S)
    BY <2>1, FS_Subset, VotingAssumption
  <2> QED  BY <2>1, <2>2 DEF IntOn, Holdings
<1>2. IsFiniteSet(T)
  <2>1. 0 \in Int /\ Depth \in Int
    BY <1>0
  <2> QED  BY <2>1, FS_Interval
<1>3. ASSUME NEW x \in S PROVE f[x] \in T /\ Hop(px, x)[f[x]] = b
  BY DEF Within
<1>4. f \in [S -> T]
  BY <1>3
<1>5. ASSUME NEW t \in T PROVE {x \in S : f[x] = t} = From(px, b, t)
  <2>1. ASSUME NEW x \in S, f[x] = t PROVE x \in From(px, b, t)
    <3> HIDE DEF f
    <3> QED  BY <1>1, <1>3, <2>1 DEF From
  <2>2. ASSUME NEW x \in From(px, b, t) PROVE x \in S /\ f[x] = t
    <3>1. x \in Accounts /\ Hop(px, x)[t] = b
      BY DEF From
    <3>2. x \in S
      BY <3>1 DEF Within
    <3>3. f[x] \in T /\ Hop(px, x)[f[x]] = b
      BY <1>3, <3>2
    <3> HIDE DEF f
    <3>4. f[x] = t
      BY <3>1, <3>3, OneDistance
    <3> QED  BY <3>2, <3>4
  <2> HIDE DEF f, S
  <2> QED  BY <2>1, <2>2
<1>6. ASSUME NEW t \in T PROVE h[t] = SumFunctionOnSet(sh, {x \in S : f[x] = t})
  <2>1. h[t] = Total(sh, From(px, b, t))
    BY DEF Supply
  <2> QED  BY <1>5, <2>1 DEF Total
<1> HIDE DEF S, T, f, h
<1>7. ClassSums(h, sh, f, S, T)
  BY <1>6 DEF ClassSums
<1>8. SumFunctionOnSet(h, T) = SumFunctionOnSet(sh, S)
  BY <1>1, <1>2, <1>4, <1>7, SumByClass
<1> QED  BY <1>8 DEF Total, S, T, h

\* The shares of x count for b: b is the end of x's chain, or as far away
\* from x as a share goes.
CountsFor(px, x, b) == IF px[b] = Self THEN x \in Within(px, b) ELSE Hop(px, x)[Depth] = b

LEMMA CountsSomewhere ==
  ASSUME NEW px \in Proxies, NEW x \in Accounts
  PROVE  \E b \in Accounts : CountsFor(px, x, b)
<1>0. Depth \in Nat
  BY VotingAssumption
<1>1. CASE Root(px, x) # {}
  <2>1. PICK k \in Root(px, x) : TRUE
    BY <1>1
  <2>2. k \in 0 .. Depth /\ Hop(px, x)[k] # Self /\ px[Hop(px, x)[k]] = Self
    BY DEF Root
  <2>3. Hop(px, x) \in [0 .. Depth -> Ends]
    BY HopSteps
  <2>4. PICK b \in Accounts : b = Hop(px, x)[k]
    BY <2>2, <2>3 DEF Ends
  <2> QED  BY <2>2, <2>4 DEF CountsFor, Within
<1>2. CASE Root(px, x) = {}
  <2> DEFINE N == {k \in Nat : k <= Depth => Hop(px, x)[k] \in Accounts}
  <2>1. 0 \in N
    BY HopSteps
  <2>2. ASSUME NEW k \in N PROVE k + 1 \in N
    <3>1. SUFFICES ASSUME k + 1 <= Depth PROVE Hop(px, x)[k + 1] \in Accounts
      OBVIOUS
    <3>2. k \in 0 .. Depth - 1 /\ k \in 0 .. Depth /\ k <= Depth
      BY <1>0, <3>1
    <3>3. PICK y \in Accounts : y = Hop(px, x)[k]
      BY <3>2
    <3>4. y # Self /\ px[y] # Self
      BY <1>2, <3>2, <3>3, VotingAssumption DEF Root
    <3>5. Hop(px, x)[k + 1] = px[y]
      BY <3>2, <3>3, <3>4, HopSteps
    <3> QED  BY <3>4, <3>5 DEF Proxies, Ends
  <2>3. N \in SUBSET Nat
    OBVIOUS
  <2> HIDE DEF N
  <2>4. N = Nat
    BY <2>1, <2>2, <2>3, NatSetInduction
  <2>5. PICK b \in Accounts : b = Hop(px, x)[Depth]
    BY <1>0, <2>4 DEF N
  <2>6. px[b] # Self
    BY <1>0, <1>2, <2>5, VotingAssumption DEF Root
  <2> QED  BY <2>5, <2>6 DEF CountsFor
<1> QED  BY <1>1, <1>2

LEMMA CountsOnce ==
  ASSUME NEW px \in Proxies, NEW x \in Accounts, NEW b \in Accounts, NEW c \in Accounts,
         CountsFor(px, x, b), CountsFor(px, x, c)
  PROVE  b = c
<1>0. Depth \in Nat /\ Depth \in 0 .. Depth /\ Self \notin Accounts
  BY VotingAssumption
<1>1. ASSUME NEW y \in Accounts, px[y] = Self, CountsFor(px, x, y)
      PROVE  \E k \in Root(px, x) : k \in 0 .. Depth /\ Hop(px, x)[k] = y
  <2>1. PICK k \in 0 .. Depth : Hop(px, x)[k] = y
    BY <1>1 DEF CountsFor, Within
  <2> QED  BY <1>0, <1>1, <2>1 DEF Root
<1>2. ASSUME NEW y \in Accounts, NEW z \in Accounts, px[y] = Self, px[z] # Self, CountsFor(px, x, y), CountsFor(px, x, z)
      PROVE  FALSE
  <2>1. PICK k \in Root(px, x) : k \in 0 .. Depth /\ Hop(px, x)[k] = y
    BY <1>1, <1>2
  <2>2. Hop(px, x)[Depth] = z
    BY <1>2 DEF CountsFor
  <2>3. ~ (k < Depth)
    BY <1>0, <2>2, RootEnds
  <2>4. k = Depth
    BY <1>0, <2>1, <2>3
  <2> QED  BY <1>2, <2>1, <2>2, <2>4
<1>3. CASE px[b] = Self /\ px[c] = Self
  <2>1. PICK k \in Root(px, x) : Hop(px, x)[k] = b
    BY <1>1, <1>3
  <2>2. PICK l \in Root(px, x) : Hop(px, x)[l] = c
    BY <1>1, <1>3
  <2>3. k = l
    BY OneRoot
  <2> QED  BY <2>1, <2>2, <2>3
<1>4. CASE px[b] # Self /\ px[c] # Self
  BY <1>4 DEF CountsFor
<1> QED  BY <1>2, <1>3, <1>4

LEMMA SharesWeighOnce ==
  ASSUME NEW px \in Proxies, Acyclic(px), NEW sh \in Holdings
  PROVE  Total([b \in Accounts |-> IF px[b] = Self THEN Weigh(sh, Supplied(px, sh))[b] ELSE Supplied(px, sh)[b][Depth - 1]],
               Accounts) = Total(sh, Accounts)
<1> DEFINE h == [b \in Accounts |-> IF px[b] = Self THEN Weigh(sh, Supplied(px, sh))[b] ELSE Supplied(px, sh)[b][Depth - 1]]
           f == [x \in Accounts |-> CHOOSE b \in Accounts : CountsFor(px, x, b)]
<1>0. Depth \in Nat \ {0} /\ IsFiniteSet(Accounts) /\ IntOn(sh, Accounts)
  BY VotingAssumption DEF IntOn, Holdings
<1>1. ASSUME NEW x \in Accounts PROVE f[x] \in Accounts /\ CountsFor(px, x, f[x])
  BY CountsSomewhere
<1>2. f \in [Accounts -> Accounts]
  BY <1>1
<1>3. ASSUME NEW b \in Accounts PROVE {x \in Accounts : f[x] = b} = {x \in Accounts : CountsFor(px, x, b)}
  <2>1. ASSUME NEW x \in Accounts PROVE f[x] = b <=> CountsFor(px, x, b)
    <3> HIDE DEF f
    <3> QED  BY <1>1, CountsOnce
  <2> HIDE DEF f
  <2> QED  BY <2>1
<1>4. ASSUME NEW b \in Accounts PROVE h[b] = Total(sh, {x \in Accounts : CountsFor(px, x, b)})
  <2>1. CASE px[b] = Self
    <3>1. {x \in Accounts : CountsFor(px, x, b)} = Within(px, b)
      BY <2>1 DEF CountsFor, Within
    <3>2. h[b] = Weigh(sh, Supplied(px, sh))[b]
      BY <2>1
    <3> HIDE DEF h
    <3> QED  BY <3>1, <3>2, WeighSupply, WithinSum, ZenonT(60)
  <2>2. CASE px[b] # Self
    <3>1. {x \in Accounts : CountsFor(px, x, b)} = From(px, b, Depth)
      BY <2>2 DEF CountsFor, From
    <3>2. Depth - 1 \in Levels /\ (Depth - 1) + 1 = Depth
      BY <1>0 DEF Levels
    <3>3. Supplied(px, sh)[b][Depth - 1] = Total(sh, From(px, b, (Depth - 1) + 1))
      BY <3>2 DEF Supplied
    <3>4. h[b] = Supplied(px, sh)[b][Depth - 1]
      BY <2>2
    <3> HIDE DEF h
    <3> QED  BY <3>1, <3>2, <3>3, <3>4
  <2> QED  BY <2>1, <2>2
<1> HIDE DEF h, f
<1>5. ClassSums(h, sh, f, Accounts, Accounts)
  BY <1>3, <1>4 DEF ClassSums, Total
<1>6. SumFunctionOnSet(h, Accounts) = SumFunctionOnSet(sh, Accounts)
  BY <1>0, <1>2, <1>5, SumByClass
<1> QED  BY <1>6 DEF Total, h

-----------------------------------------------------------------------------
(* The votes: the inductive invariant. *)

\* What the ballots of an account are for.
BallotsOf(bs, a, K) == {d \in K : <<a, d>> \in bs}

Counted(bs, counts) ==
  \A a \in Accounts : /\ counts[a]["witnesses"] = Cardinality(BallotsOf(bs, a, WitnessNames))
                      /\ counts[a]["platforms"] = Cardinality(BallotsOf(bs, a, Platforms))

Counts == [Accounts -> [{"witnesses", "platforms"} -> 0 .. MaxBallots]]

VotingShape ==
  /\ votingProfile \in VotingProfiles
  /\ vesting_shares \in [Accounts -> 0 .. MaxShares]
  /\ proxy \in Proxies
  /\ ballots \subseteq Accounts \X Candidates
  /\ voted_for \in Counts
  /\ tally \in [Candidates -> -MaxTally .. MaxTally]

\* The witnesses' voters have no proxy, so that their weights and the tallies
\* change together.
VotingInv ==
  /\ VotingShape
  /\ Acyclic(proxy)
  /\ proxied = Supplied(proxy, vesting_shares)
  /\ \A w \in WitnessNames : Direct(proxy, Voters(ballots, w)) /\ Off(w, tally, ballots, Weight) = 0
  /\ Counted(ballots, voted_for)

\* A step does not change how far the tally of a candidate is off from the
\* sum over its voters, if no voter has a proxy before it or after it.
TalliesFollow ==
  \A c \in Candidates : Direct(proxy, Voters(ballots, c)) /\ Direct(proxy', Voters(ballots', c)) =>
    Off(c, tally', ballots', Weight') = Off(c, tally, ballots, Weight)

LEMMA WeightIs ==
  /\ Weight = Weigh(vesting_shares, proxied)
  /\ Weight' = Weigh(vesting_shares', proxied')
  /\ \A a \in Accounts : witness_vote_weight(a) = Weight[a]
  BY DEF Weight, Weigh, witness_vote_weight

Votes == [Candidates -> Int]

LEMMA VotesInt ==
  ASSUME NEW px \in Proxies, NEW bs, NEW v \in Votes, NEW a \in Accounts, NEW delta \in Deltas
  PROVE  votes_after(px, bs, v, a, delta) \in Votes
<1>1. ASSUME NEW c \in Candidates
      PROVE  v[c] + Total(Reaching(delta), {k \in Root(px, a) : <<Hop(px, a)[k], c>> \in bs}) \in Int
  <2> DEFINE R == {k \in Root(px, a) : <<Hop(px, a)[k], c>> \in bs}
  <2>1. \A k \in R : k \in Root(px, a) /\ k \in 0 .. Depth
    BY DEF Root
  <2>2. \A k \in R : Reaching(delta)[k] \in Int
    BY <2>1, ReachingInt
  <2>3. \A k, l \in R : k = l
    BY <2>1, OneRoot
  <2> HIDE DEF R
  <2>4. Total(Reaching(delta), R) \in Int
    BY <2>2, <2>3, AtMostOne
  <2>5. v[c] \in Int
    BY DEF Votes
  <2> QED  BY <2>4, <2>5 DEF R
<1>2. votes_after(px, bs, v, a, delta)
        = [c \in Candidates |-> v[c] + Total(Reaching(delta), {k \in Root(px, a) : <<Hop(px, a)[k], c>> \in bs})]
  BY DEF votes_after, Reaching
<1> QED  BY <1>1, <1>2 DEF Votes

\* An account gains or loses shares.
LEMMA SharesStep ==
  ASSUME NEW px \in Proxies, Acyclic(px), NEW a \in Accounts, NEW n \in Int, NEW sh \in Holdings, NEW sh1 \in Holdings,
         GainsAt(sh, sh1, a, n), NEW bs, NEW v \in Votes
  PROVE  /\ proxied_after(px, Supplied(px, sh), a, Shares(n)) = Supplied(px, sh1)
         /\ votes_after(px, bs, v, a, Shares(n)) \in Votes
         /\ \A c \in Candidates : Direct(px, Voters(bs, c)) =>
              Off(c, votes_after(px, bs, v, a, Shares(n)), bs, Weigh(sh1, Supplied(px, sh1)))
                = Off(c, v, bs, Weigh(sh, Supplied(px, sh)))
<1> DEFINE pd == Supplied(px, sh)
           pd1 == proxied_after(px, pd, a, Shares(n))
           w0 == Weigh(sh, pd)
           w1 == Weigh(sh1, pd1)
<1>1. Shares(n) \in Deltas
  BY DEF Shares, Deltas
<1>2. pd1 = Supplied(px, sh1)
  BY SharesMove
<1>3. pd \in Entries /\ Supplied(px, sh1) \in Entries
  BY SuppliedEntries
<1>4. votes_after(px, bs, v, a, Shares(n)) \in Votes
  BY <1>1, VotesInt
<1> HIDE DEF pd
<1>5. w0 \in Holdings /\ w1 \in Holdings
  BY <1>2, <1>3, WeighInt
<1>6. ASSUME NEW b \in Accounts PROVE w1[b] = w0[b] + Total(Reaching(Shares(n)), Distance(px, a, b))
  <2>1. CASE b = a
    BY <1>3, <2>1, HolderFollows
  <2>2. CASE b # a
    <3>1. sh1[b] = sh[b]
      BY <2>2 DEF GainsAt
    <3> QED  BY <1>1, <1>3, <2>2, <3>1, OthersFollow
  <2> QED  BY <2>1, <2>2
<1> HIDE DEF w0, w1
<1>7. ASSUME NEW c \in Candidates, Direct(px, Voters(bs, c))
      PROVE  Off(c, votes_after(px, bs, v, a, Shares(n)), bs, w1) = Off(c, v, bs, w0)
  <2>1. Follows(px, a, Shares(n), Voters(bs, c), w0, w1)
    BY <1>6 DEF Follows, Voters
  <2>2. v \in [Candidates -> Int]
    BY DEF Votes
  <2> QED  BY <1>1, <1>5, <1>7, <2>1, <2>2, OffKept
<1>8. \A c \in Candidates : Direct(px, Voters(bs, c)) =>
        Off(c, votes_after(px, bs, v, a, Shares(n)), bs, Weigh(sh1, pd1)) = Off(c, v, bs, Weigh(sh, pd))
  BY <1>7 DEF w0, w1
<1> HIDE DEF pd1
<1> QED  BY <1>2, <1>4, <1>8 DEF pd, pd1

\* An account gives up its proxy.
LEMMA ClearStep ==
  ASSUME NEW px \in Proxies, Acyclic(px), NEW a \in Accounts, px[a] # Self, NEW p0, Unproxied(p0, px, a),
         NEW sh \in Holdings, NEW e \in Deltas, Opposite(Supply(px, sh, a), e), NEW bs, NEW v \in Votes
  PROVE  /\ proxied_after(px, Supplied(px, sh), a, e) = Supplied(p0, sh)
         /\ \A c \in Candidates : Direct(px, Voters(bs, c)) =>
              Off(c, votes_after(px, bs, v, a, e), bs, Weigh(sh, Supplied(p0, sh))) = Off(c, v, bs, Weigh(sh, Supplied(px, sh)))
<1>1. proxied_after(px, Supplied(px, sh), a, e) = Supplied(p0, sh)
  BY ProxyTaken
<1>2. ASSUME NEW c \in Candidates, Direct(px, Voters(bs, c))
      PROVE  Off(c, votes_after(px, bs, v, a, e), bs, Weigh(sh, proxied_after(px, Supplied(px, sh), a, e)))
               = Off(c, v, bs, Weigh(sh, Supplied(px, sh)))
  <2>1. Voters(bs, c) = Voters(bs, c) \ {a}
    BY <1>2 DEF Direct
  <2>2. v \in [Candidates -> Int]
    BY DEF Votes
  <2> QED  BY <1>2, <2>1, <2>2, OffRemoved
<1> QED  BY <1>1, <1>2

\* An account takes a proxy.
LEMMA ProxyStep ==
  ASSUME NEW px \in Proxies, Acyclic(px), NEW a \in Accounts, NEW p0, Unproxied(p0, px, a),
         NEW p1 \in Proxies, Acyclic(p1), Unproxied(p0, p1, a),
         NEW sh \in Holdings, NEW e \in Deltas, Opposite(Supply(px, sh, a), e),
         NEW bs, NEW bs1, \A c \in Candidates : Voters(bs1, c) = Voters(bs, c) \ {a}, NEW v \in Votes
  PROVE  /\ proxied_after(p1, proxied_after(px, Supplied(px, sh), a, e), a, Supply(px, sh, a)) = Supplied(p1, sh)
         /\ \A c \in Candidates : Direct(px, Voters(bs, c)) /\ Direct(p1, Voters(bs1, c)) =>
              Off(c, votes_after(p1, bs1, votes_after(px, bs, v, a, e), a, Supply(px, sh, a)), bs1, Weigh(sh, Supplied(p1, sh)))
                = Off(c, v, bs, Weigh(sh, Supplied(px, sh)))
<1> DEFINE d == Supply(px, sh, a)
           pd0 == Supplied(p0, sh)
           w0 == Weigh(sh, pd0)
           w1 == Weigh(sh, Supplied(p1, sh))
           u == votes_after(px, bs, v, a, e)
<1>1. proxied_after(px, Supplied(px, sh), a, e) = pd0
  BY ProxyTaken
<1>2. d = Supply(p1, sh, a) /\ d \in Deltas
  BY SupplyWithout, SupplyDeltas
<1>3. proxied_after(p1, pd0, a, d) = Supplied(p1, sh)
  BY <1>2, ProxyGiven
<1>4. pd0 \in Entries /\ Supplied(p1, sh) \in Entries
  BY SuppliedEntries
<1>5. w0 \in Holdings /\ w1 \in Holdings
  BY <1>4, WeighInt
<1>6. u \in Votes
  BY VotesInt
<1> HIDE DEF u, d, pd0
<1>7. ASSUME NEW b \in Accounts, b # a PROVE w1[b] = w0[b] + Total(Reaching(d), Distance(p1, a, b))
  <2>1. Weigh(sh, proxied_after(p1, pd0, a, d))[b] = Weigh(sh, pd0)[b] + Total(Reaching(d), Distance(p1, a, b))
    BY <1>2, <1>4, <1>7, OthersFollow
  <2> QED  BY <1>3, <2>1
<1> HIDE DEF w0, w1
<1>8. ASSUME NEW c \in Candidates, Direct(px, Voters(bs, c)), Direct(p1, Voters(bs1, c))
      PROVE  Off(c, votes_after(p1, bs1, u, a, d), bs1, w1) = Off(c, v, bs, Weigh(sh, Supplied(px, sh)))
  <2>1. Voters(bs1, c) = Voters(bs, c) \ {a}
    OBVIOUS
  <2>2. v \in [Candidates -> Int] /\ u \in [Candidates -> Int]
    BY <1>6 DEF Votes
  <2>3. Off(c, u, bs1, w0) = Off(c, v, bs, Weigh(sh, Supplied(px, sh)))
    <3>1. Off(c, votes_after(px, bs, v, a, e), bs1, Weigh(sh, proxied_after(px, Supplied(px, sh), a, e)))
            = Off(c, v, bs, Weigh(sh, Supplied(px, sh)))
      BY <1>8, <2>1, <2>2, OffRemoved
    <3> QED  BY <1>1, <3>1 DEF u, w0
  <2>4. Follows(p1, a, d, Voters(bs1, c), w0, w1)
    BY <1>7, <2>1 DEF Follows, Voters
  <2>5. Off(c, votes_after(p1, bs1, u, a, d), bs1, w1) = Off(c, u, bs1, w0)
    BY <1>2, <1>5, <1>8, <2>2, <2>4, OffKept
  <2> QED  BY <2>3, <2>5
<1> QED  BY <1>1, <1>3, <1>8 DEF u, d, w1

-----------------------------------------------------------------------------
(* Ballots and their numbers. *)

LEMMA BallotCounts ==
  ASSUME NEW bs, NEW a \in Accounts, NEW K \in {WitnessNames, Platforms}, NEW c \in K
  PROVE  /\ Cardinality(BallotsOf(bs, a, K)) \in Nat
         /\ <<a, c>> \notin bs =>
              Cardinality(BallotsOf(bs \cup {<<a, c>>}, a, K)) = Cardinality(BallotsOf(bs, a, K)) + 1
         /\ <<a, c>> \in bs =>
              /\ Cardinality(BallotsOf(bs \ {<<a, c>>}, a, K)) = Cardinality(BallotsOf(bs, a, K)) - 1
              /\ Cardinality(BallotsOf(bs, a, K)) >= 1
<1> DEFINE B == BallotsOf(bs, a, K)
<1>1. IsFiniteSet(B)
  <2>1. B \in SUBSET K /\ IsFiniteSet(K)
    BY VotingAssumption DEF BallotsOf
  <2> QED  BY <2>1, FS_Subset
<1>2. Cardinality(B) \in Nat
  BY <1>1, FS_CardinalityType
<1>3. ASSUME <<a, c>> \notin bs PROVE Cardinality(BallotsOf(bs \cup {<<a, c>>}, a, K)) = Cardinality(B) + 1
  <2>1. BallotsOf(bs \cup {<<a, c>>}, a, K) = B \cup {c} /\ c \notin B
    BY <1>3 DEF BallotsOf
  <2> HIDE DEF B
  <2> QED  BY <1>1, <2>1, FS_AddElement
<1>4. ASSUME <<a, c>> \in bs
      PROVE  Cardinality(BallotsOf(bs \ {<<a, c>>}, a, K)) = Cardinality(B) - 1 /\ Cardinality(B) >= 1
  <2>1. BallotsOf(bs \ {<<a, c>>}, a, K) = B \ {c} /\ c \in B
    BY <1>4 DEF BallotsOf
  <2> HIDE DEF B
  <2>2. Cardinality(B \ {c}) = Cardinality(B) - 1 /\ IsFiniteSet(B \ {c})
    BY <1>1, <2>1, FS_RemoveElement
  <2>3. Cardinality(B \ {c}) \in Nat
    BY <2>2, FS_CardinalityType
  <2>4. PICK m \in Nat, n \in Nat : m = Cardinality(B) /\ n = Cardinality(B \ {c})
    BY <1>2, <2>3
  <2>5. n = m - 1
    BY <2>2, <2>4
  <2>6. m >= 1
    BY ONLY <2>5, m \in Nat, n \in Nat
  <2> QED  BY <2>1, <2>2, <2>4, <2>6
<1> QED  BY <1>2, <1>3, <1>4

LEMMA OtherBallots ==
  ASSUME NEW bs, NEW a \in Accounts, NEW c, NEW x \in Accounts, NEW K, x # a \/ c \notin K
  PROVE  /\ BallotsOf(bs \cup {<<a, c>>}, x, K) = BallotsOf(bs, x, K)
         /\ BallotsOf(bs \ {<<a, c>>}, x, K) = BallotsOf(bs, x, K)
  BY DEF BallotsOf

LEMMA KindOf ==
  ASSUME NEW c \in Candidates
  PROVE  \/ c \in WitnessNames /\ c \notin Platforms /\ Kind(c) = "witnesses"
         \/ c \in Platforms /\ c \notin WitnessNames /\ Kind(c) = "platforms"
  BY VotingAssumption DEF Candidates, Kind

\* One ballot more, or one less, and the counter that says so.
LEMMA CountsMore ==
  ASSUME NEW bs, NEW counts \in Counts, Counted(bs, counts), NEW a \in Accounts, NEW c \in Candidates,
         <<a, c>> \notin bs, counts[a][Kind(c)] < MaxBallots,
         NEW counts1, counts1 = [counts EXCEPT ![a][Kind(c)] = @ + 1]
  PROVE  counts1 \in Counts /\ Counted(bs \cup {<<a, c>>}, counts1)
<1>0. MaxBallots \in Nat /\ Kind(c) \in {"witnesses", "platforms"}
  BY KindOf, VotingAssumption
<1>1. PICK n \in Nat : n = counts[a][Kind(c)] /\ n + 1 \in 0 .. MaxBallots
  BY <1>0 DEF Counts
<1>2. counts1 \in Counts
  BY <1>0, <1>1 DEF Counts
<1>3. /\ counts1[a][Kind(c)] = counts[a][Kind(c)] + 1
      /\ \A x \in Accounts, k \in {"witnesses", "platforms"} : x # a \/ k # Kind(c) => counts1[x][k] = counts[x][k]
  BY <1>0 DEF Counts
<1> DEFINE bs1 == bs \cup {<<a, c>>}
<1>4. ASSUME NEW x \in Accounts, NEW K \in {WitnessNames, Platforms}, NEW k \in {"witnesses", "platforms"},
             k = Kind(c) <=> c \in K, counts[x][k] = Cardinality(BallotsOf(bs, x, K))
      PROVE  counts1[x][k] = Cardinality(BallotsOf(bs1, x, K))
  <2>1. CASE x = a /\ c \in K
    <3>1. Cardinality(BallotsOf(bs1, a, K)) = Cardinality(BallotsOf(bs, a, K)) + 1
      BY <2>1, BallotCounts
    <3> QED  BY <1>3, <1>4, <2>1, <3>1
  <2>2. CASE x # a \/ c \notin K
    <3>1. BallotsOf(bs1, x, K) = BallotsOf(bs, x, K)
      BY <2>2, OtherBallots
    <3> QED  BY <1>3, <1>4, <2>2, <3>1
  <2> QED  BY <2>1, <2>2
<1>5. ("witnesses" = Kind(c) <=> c \in WitnessNames) /\ ("platforms" = Kind(c) <=> c \in Platforms)
  BY KindOf
<1> HIDE DEF bs1
<1>6. Counted(bs1, counts1)
  BY <1>4, <1>5 DEF Counted
<1> QED  BY <1>2, <1>6 DEF bs1

LEMMA CountsLess ==
  ASSUME NEW bs, NEW counts \in Counts, Counted(bs, counts), NEW a \in Accounts, NEW c \in Candidates,
         <<a, c>> \in bs, NEW counts1, counts1 = [counts EXCEPT ![a][Kind(c)] = @ - 1]
  PROVE  counts1 \in Counts /\ Counted(bs \ {<<a, c>>}, counts1)
<1>0. MaxBallots \in Nat /\ Kind(c) \in {"witnesses", "platforms"}
  BY KindOf, VotingAssumption
<1>1. counts[a][Kind(c)] >= 1
  <2>1. CASE c \in WitnessNames /\ Kind(c) = "witnesses"
    <3>1. Cardinality(BallotsOf(bs, a, WitnessNames)) >= 1
      BY <2>1, BallotCounts
    <3> QED  BY <2>1, <3>1 DEF Counted
  <2>2. CASE c \in Platforms /\ Kind(c) = "platforms"
    <3>1. Cardinality(BallotsOf(bs, a, Platforms)) >= 1
      BY <2>2, BallotCounts
    <3> QED  BY <2>2, <3>1 DEF Counted
  <2> QED  BY <2>1, <2>2, KindOf
<1>2. PICK n \in Nat : n = counts[a][Kind(c)] /\ n - 1 \in 0 .. MaxBallots
  BY <1>0, <1>1 DEF Counts
<1>3. counts1 \in Counts
  BY <1>0, <1>2 DEF Counts
<1>4. /\ counts1[a][Kind(c)] = counts[a][Kind(c)] - 1
      /\ \A x \in Accounts, k \in {"witnesses", "platforms"} : x # a \/ k # Kind(c) => counts1[x][k] = counts[x][k]
  BY <1>0 DEF Counts
<1> DEFINE bs1 == bs \ {<<a, c>>}
<1>5. ASSUME NEW x \in Accounts, NEW K \in {WitnessNames, Platforms}, NEW k \in {"witnesses", "platforms"},
             k = Kind(c) <=> c \in K, counts[x][k] = Cardinality(BallotsOf(bs, x, K))
      PROVE  counts1[x][k] = Cardinality(BallotsOf(bs1, x, K))
  <2>1. CASE x = a /\ c \in K
    <3>1. Cardinality(BallotsOf(bs1, a, K)) = Cardinality(BallotsOf(bs, a, K)) - 1
      BY <2>1, BallotCounts
    <3> QED  BY <1>4, <1>5, <2>1, <3>1
  <2>2. CASE x # a \/ c \notin K
    <3>1. BallotsOf(bs1, x, K) = BallotsOf(bs, x, K)
      BY <2>2, OtherBallots
    <3> QED  BY <1>4, <1>5, <2>2, <3>1
  <2> QED  BY <2>1, <2>2
<1>6. ("witnesses" = Kind(c) <=> c \in WitnessNames) /\ ("platforms" = Kind(c) <=> c \in Platforms)
  BY KindOf
<1> HIDE DEF bs1
<1>7. Counted(bs1, counts1)
  BY <1>5, <1>6 DEF Counted
<1> QED  BY <1>3, <1>7 DEF bs1

Cleared(counts, counts1, a) == counts1 = [counts EXCEPT ![a] = [k \in DOMAIN @ |-> 0]]

LEMMA CountsCleared ==
  ASSUME NEW bs, NEW counts \in Counts, Counted(bs, counts), NEW a \in Accounts,
         NEW counts1, Cleared(counts, counts1, a)
  PROVE  counts1 \in Counts /\ Counted({v \in bs : v[1] # a}, counts1)
<1> DEFINE bs1 == {v \in bs : v[1] # a}
<1>1. DOMAIN counts[a] = {"witnesses", "platforms"} /\ MaxBallots \in Nat
  BY VotingAssumption DEF Counts
<1>2. counts1 \in Counts
  BY <1>1 DEF Counts, Cleared
<1>3. /\ \A k \in {"witnesses", "platforms"} : counts1[a][k] = 0
      /\ \A x \in Accounts : x # a => counts1[x] = counts[x]
  BY <1>1 DEF Counts, Cleared
<1>4. ASSUME NEW x \in Accounts, NEW K PROVE BallotsOf(bs1, x, K) = IF x = a THEN {} ELSE BallotsOf(bs, x, K)
  BY DEF BallotsOf
<1>5. Cardinality({}) = 0
  BY FS_EmptySet
<1> HIDE DEF bs1
<1>6. ASSUME NEW x \in Accounts
      PROVE  /\ counts1[x]["witnesses"] = Cardinality(BallotsOf(bs1, x, WitnessNames))
             /\ counts1[x]["platforms"] = Cardinality(BallotsOf(bs1, x, Platforms))
  <2>1. CASE x = a
    BY <1>3, <1>4, <1>5, <2>1
  <2>2. CASE x # a
    BY <1>3, <1>4, <2>2 DEF Counted
  <2> QED  BY <2>1, <2>2
<1>7. Counted(bs1, counts1)
  BY <1>6 DEF Counted
<1> QED  BY <1>2, <1>7 DEF bs1

-----------------------------------------------------------------------------
(* The operations keep the invariant. *)

LEMMA VotingFacts ==
  ASSUME VotingInv
  PROVE  /\ vesting_shares \in Holdings /\ proxy \in Proxies /\ tally \in Votes
         /\ MaxShares \in Nat /\ MaxTally \in Nat
         /\ votingProfile.voters \subseteq Accounts /\ votingProfile.most \in 0 .. MaxShares
         /\ votingProfile.candidates \subseteq Candidates
         /\ proxied \in Entries /\ Weight \in Holdings
<1>1. MaxShares \in Nat /\ MaxTally \in Nat
  BY VotingAssumption
<1>2. votingProfile \in VotingProfile
  BY VotingAssumption DEF VotingInv, VotingShape
<1>3. vesting_shares \in Holdings
  BY <1>1 DEF VotingInv, VotingShape, Holdings
<1>4. tally \in Votes
  BY <1>1 DEF VotingInv, VotingShape, Votes
<1>5. proxied \in Entries
  BY <1>3, SuppliedEntries DEF VotingInv
<1>6. Weight \in Holdings
  BY <1>3, <1>5, WeightIs, WeighInt
<1> QED  BY <1>1, <1>2, <1>3, <1>4, <1>5, <1>6 DEF VotingInv, VotingShape, VotingProfile

\* What a step has to keep.
LEMMA VotingInvFrom ==
  ASSUME VotingInv, VotingShape', Acyclic(proxy'), proxied' = Supplied(proxy', vesting_shares'),
         \A w \in WitnessNames : Direct(proxy', Voters(ballots', w)), TalliesFollow, Counted(ballots', voted_for')
  PROVE  VotingInv'
<1>1. ASSUME NEW w \in WitnessNames PROVE Off(w, tally', ballots', Weight') = 0
  BY DEF VotingInv, TalliesFollow, Candidates
<1>2. \A w \in WitnessNames : Direct(proxy', Voters(ballots', w)) /\ Off(w, tally, ballots, Weight)' = 0
  BY <1>1 DEF Off
<1>3. Acyclic(proxy)' /\ (proxied = Supplied(proxy, vesting_shares))' /\ Counted(ballots, voted_for)'
  BY DEF Acyclic, Hop, Supplied, From, Counted, BallotsOf
<1>4. (\A w \in WitnessNames : Direct(proxy, Voters(ballots, w)) /\ Off(w, tally, ballots, Weight) = 0)'
  BY <1>2 DEF Direct, Voters
<1> QED  BY <1>3, <1>4 DEF VotingInv

Fits == \A c \in Candidates : tally'[c] \in -MaxTally .. MaxTally

\* The shape of a step that keeps most of it.
LEMMA TallyShape ==
  ASSUME Fits, DOMAIN tally' = Candidates, tally' = [c \in Candidates |-> tally'[c]]
  PROVE  tally' \in [Candidates -> -MaxTally .. MaxTally]
  BY DEF Fits

\* Shares are created for an account, or turned into BTCM.
LEMMA SharesKeep ==
  ASSUME VotingInv, UNCHANGED votingProfile, Fits, NEW a \in Accounts, NEW n \in Int,
         NEW sh1, vesting_shares' = sh1, sh1 \in [Accounts -> 0 .. MaxShares], GainsAt(vesting_shares, sh1, a, n),
         proxied' = proxied_after(proxy, proxied, a, Shares(n)),
         tally' = votes_after(proxy, ballots, tally, a, Shares(n)),
         UNCHANGED <<proxy, ballots, voted_for>>
  PROVE  VotingInv' /\ TalliesFollow
<1>1. vesting_shares \in Holdings /\ proxy \in Proxies /\ tally \in Votes /\ MaxShares \in Nat
  BY VotingFacts
<1>2. sh1 \in Holdings
  BY <1>1 DEF Holdings
<1>3. Acyclic(proxy) /\ proxied = Supplied(proxy, vesting_shares)
  BY DEF VotingInv
<1>4. PICK px, sh, bs, v, pd : px = proxy /\ sh = vesting_shares /\ bs = ballots /\ v = tally /\ pd = proxied
  OBVIOUS
<1>5. px \in Proxies /\ Acyclic(px) /\ sh \in Holdings /\ v \in Votes /\ GainsAt(sh, sh1, a, n) /\ pd = Supplied(px, sh)
  BY <1>1, <1>3, <1>4
<1>6. /\ proxied_after(px, Supplied(px, sh), a, Shares(n)) = Supplied(px, sh1)
      /\ \A c \in Candidates : Direct(px, Voters(bs, c)) =>
           Off(c, votes_after(px, bs, v, a, Shares(n)), bs, Weigh(sh1, Supplied(px, sh1)))
             = Off(c, v, bs, Weigh(sh, Supplied(px, sh)))
  BY ONLY <1>2, <1>5, a \in Accounts, n \in Int, SharesStep
<1>7. proxied' = Supplied(px, sh1)
  BY <1>4, <1>5, <1>6
<1>8. Weight = Weigh(sh, Supplied(px, sh)) /\ Weight' = Weigh(sh1, Supplied(px, sh1))
  BY <1>4, <1>5, <1>7, WeightIs
<1>9. TalliesFollow
  BY <1>4, <1>6, <1>8 DEF TalliesFollow
<1>10. tally' \in [Candidates -> -MaxTally .. MaxTally]
  <2>1. DOMAIN tally' = Candidates /\ tally' = [c \in Candidates |-> tally'[c]]
    BY DEF votes_after
  <2> QED  BY <2>1, TallyShape
<1>11. VotingShape'
  BY <1>10 DEF VotingShape, VotingInv
<1>12. \A w \in WitnessNames : Direct(proxy', Voters(ballots', w))
  BY DEF VotingInv
<1>13. Acyclic(proxy') /\ Counted(ballots', voted_for') /\ proxied' = Supplied(proxy', vesting_shares')
  BY <1>4, <1>7 DEF VotingInv
<1> QED  BY <1>9, <1>11, <1>12, <1>13, VotingInvFrom

LEMMA CreateKeeps ==
  ASSUME VotingInv, UNCHANGED votingProfile, Fits, NEW a \in Accounts, create_vesting(a, 1)
  PROVE  VotingInv' /\ TalliesFollow
<1>1. vesting_shares \in [Accounts -> 0 .. MaxShares] /\ MaxShares \in Nat /\ votingProfile.most \in 0 .. MaxShares
  BY VotingFacts DEF VotingInv, VotingShape
<1>2. vesting_shares[a] + 1 <= votingProfile.most
  BY DEF create_vesting
<1>3. PICK sh1 : vesting_shares' = sh1 /\ sh1 = [vesting_shares EXCEPT ![a] = @ + 1]
  BY DEF create_vesting
<1>4. sh1 \in [Accounts -> 0 .. MaxShares] /\ GainsAt(vesting_shares, sh1, a, 1)
  <2>1. vesting_shares[a] + 1 \in 0 .. MaxShares
    BY <1>1, <1>2
  <2> QED  BY <1>1, <1>3, <2>1 DEF GainsAt
<1>5. 1 \in Int
  OBVIOUS
<1>6. /\ proxied' = proxied_after(proxy, proxied, a, Shares(1))
      /\ tally' = votes_after(proxy, ballots, tally, a, Shares(1))
      /\ UNCHANGED <<proxy, ballots, voted_for>>
  BY DEF create_vesting, adjust_proxied_witness_votes
<1> QED  BY <1>3, <1>4, <1>5, <1>6, SharesKeep

LEMMA WithdrawKeeps ==
  ASSUME VotingInv, UNCHANGED votingProfile, Fits, NEW a \in Accounts, process_vesting_withdrawals(a, 1)
  PROVE  VotingInv' /\ TalliesFollow
<1>1. vesting_shares \in [Accounts -> 0 .. MaxShares] /\ MaxShares \in Nat
  BY VotingFacts DEF VotingInv, VotingShape
<1>2. 1 <= vesting_shares[a]
  BY DEF process_vesting_withdrawals
<1>3. PICK sh1 : vesting_shares' = sh1 /\ sh1 = [vesting_shares EXCEPT ![a] = @ - 1]
  BY DEF process_vesting_withdrawals
<1>4. PICK n \in Int : n = -1
  OBVIOUS
<1>5. sh1 \in [Accounts -> 0 .. MaxShares] /\ GainsAt(vesting_shares, sh1, a, n)
  <2>1. vesting_shares[a] - 1 \in 0 .. MaxShares /\ vesting_shares[a] - 1 = vesting_shares[a] + n
    BY <1>1, <1>2, <1>4
  <2> QED  BY <1>1, <1>3, <2>1 DEF GainsAt
<1>6. /\ proxied' = proxied_after(proxy, proxied, a, Shares(n))
      /\ tally' = votes_after(proxy, ballots, tally, a, Shares(n))
      /\ UNCHANGED <<proxy, ballots, voted_for>>
  BY <1>4 DEF process_vesting_withdrawals, adjust_proxied_witness_votes
<1> QED  BY <1>3, <1>5, <1>6, SharesKeep

\* A withdrawal with a route is a gain and then a loss.
LEMMA RoutedKeeps ==
  ASSUME VotingInv, UNCHANGED votingProfile, Fits, NEW a \in Accounts, NEW b \in Accounts,
         process_routed_withdrawal(a, b, 1)
  PROVE  VotingInv' /\ TalliesFollow
<1>1. vesting_shares \in [Accounts -> 0 .. MaxShares] /\ MaxShares \in Nat /\ votingProfile.most \in 0 .. MaxShares
  BY VotingFacts DEF VotingInv, VotingShape
<1>2. a # b /\ 1 <= vesting_shares[a] /\ vesting_shares[b] + 1 <= votingProfile.most
  BY DEF process_routed_withdrawal
<1>3. PICK n \in Int, m \in Int : n = -1 /\ m = 1
  OBVIOUS
<1>4. PICK sh1 : vesting_shares' = sh1 /\ sh1 = [vesting_shares EXCEPT ![a] = @ - 1, ![b] = @ + 1]
  BY DEF process_routed_withdrawal
<1>5. PICK px, sh, bs, v, pd : px = proxy /\ sh = vesting_shares /\ bs = ballots /\ v = tally /\ pd = proxied
  OBVIOUS
<1>6. px \in Proxies /\ Acyclic(px) /\ sh \in Holdings /\ v \in Votes /\ pd = Supplied(px, sh)
  BY <1>5, VotingFacts DEF VotingInv
<1>7. PICK shb : shb = [sh EXCEPT ![b] = @ + 1]
  OBVIOUS
<1>8. shb \in Holdings /\ GainsAt(sh, shb, b, m)
  <2>1. sh[b] + 1 \in Int /\ sh[b] + 1 = sh[b] + m
    BY <1>3, <1>6 DEF Holdings
  <2> QED  BY <1>6, <1>7, <2>1 DEF GainsAt, Holdings
<1>9. sh1 \in [Accounts -> 0 .. MaxShares] /\ sh1 \in Holdings /\ GainsAt(shb, sh1, a, n)
  <2>1. vesting_shares[a] - 1 \in 0 .. MaxShares /\ vesting_shares[b] + 1 \in 0 .. MaxShares
    BY <1>1, <1>2
  <2>2. vesting_shares[a] - 1 = vesting_shares[a] + n
    BY <1>1, <1>3
  <2>3. sh1 \in [Accounts -> 0 .. MaxShares]
    BY <1>1, <1>2, <1>4, <2>1
  <2>4. sh1 \in Holdings
    BY <1>1, <2>3 DEF Holdings
  <2>5. GainsAt(shb, sh1, a, n)
    BY <1>1, <1>2, <1>4, <1>5, <1>7, <2>2 DEF GainsAt
  <2> QED  BY <2>3, <2>4, <2>5
<1> DEFINE u == votes_after(px, bs, v, b, Shares(m))
<1>10. /\ proxied_after(px, Supplied(px, sh), b, Shares(m)) = Supplied(px, shb)
       /\ u \in Votes
       /\ \A c \in Candidates : Direct(px, Voters(bs, c)) =>
            Off(c, u, bs, Weigh(shb, Supplied(px, shb))) = Off(c, v, bs, Weigh(sh, Supplied(px, sh)))
  BY ONLY <1>6, <1>8, b \in Accounts, m \in Int, SharesStep
<1> HIDE DEF u
<1>11. /\ proxied_after(px, Supplied(px, shb), a, Shares(n)) = Supplied(px, sh1)
       /\ \A c \in Candidates : Direct(px, Voters(bs, c)) =>
            Off(c, votes_after(px, bs, u, a, Shares(n)), bs, Weigh(sh1, Supplied(px, sh1)))
              = Off(c, u, bs, Weigh(shb, Supplied(px, shb)))
  BY ONLY <1>6, <1>8, <1>9, <1>10, a \in Accounts, n \in Int, SharesStep
<1>12. /\ proxied' = proxied_after(px, proxied_after(px, pd, b, Shares(m)), a, Shares(n))
       /\ tally' = votes_after(px, bs, u, a, Shares(n))
       /\ UNCHANGED <<proxy, ballots, voted_for>>
  BY <1>3, <1>5 DEF process_routed_withdrawal, Deposited, u
<1>13. proxied' = Supplied(px, sh1)
  BY <1>6, <1>10, <1>11, <1>12
<1>14. Weight = Weigh(sh, Supplied(px, sh)) /\ Weight' = Weigh(sh1, Supplied(px, sh1))
  BY <1>4, <1>5, <1>6, <1>13, WeightIs
<1>15. TalliesFollow
  BY <1>5, <1>10, <1>11, <1>12, <1>14 DEF TalliesFollow
<1>16. tally' \in [Candidates -> -MaxTally .. MaxTally]
  <2>1. DOMAIN tally' = Candidates /\ tally' = [c \in Candidates |-> tally'[c]]
    BY <1>12 DEF votes_after
  <2> QED  BY <2>1, TallyShape
<1>17. VotingShape'
  BY <1>4, <1>9, <1>12, <1>16 DEF VotingShape, VotingInv
<1>18. \A w \in WitnessNames : Direct(proxy', Voters(ballots', w))
  BY <1>12 DEF VotingInv
<1>19. Acyclic(proxy') /\ Counted(ballots', voted_for') /\ proxied' = Supplied(proxy', vesting_shares')
  BY <1>4, <1>5, <1>12, <1>13 DEF VotingInv
<1> QED  BY <1>15, <1>17, <1>18, <1>19, VotingInvFrom

\* A ballot for c and the weight of the voter in c's tally.
BallotAdds(bs, bs1, v, v1, a, c, w) ==
  /\ a \notin Voters(bs, c) /\ Voters(bs1, c) = Voters(bs, c) \cup {a}
  /\ v1[c] = v[c] + w[a]
  /\ \A d \in Candidates \ {c} : Voters(bs1, d) = Voters(bs, d) /\ v1[d] = v[d]

LEMMA BallotExact ==
  ASSUME NEW bs, NEW bs1, NEW v \in Votes, NEW v1 \in Votes, NEW a \in Accounts, NEW c \in Candidates, NEW w \in Holdings,
         BallotAdds(bs, bs1, v, v1, a, c, w), NEW d \in Candidates
  PROVE  Off(d, v1, bs1, w) = Off(d, v, bs, w)
<1> DEFINE V == Voters(bs, c)
<1>0. \A u, x, y : Off(x, u, y, w) = u[x] - Total(w, Voters(y, x))
  BY DEF Off, Voters
<1>1. CASE d # c
  BY <1>0, <1>1 DEF BallotAdds
<1>2. CASE d = c
  <2>1. IsFiniteSet(V) /\ IntOn(w, V \cup {a}) /\ a \notin V
    <3>1. V \in SUBSET Accounts
      BY DEF Voters
    <3>2. IsFiniteSet(V)
      BY <3>1, FS_Subset, VotingAssumption
    <3> QED  BY <3>1, <3>2 DEF BallotAdds, IntOn, Holdings
  <2> HIDE DEF V
  <2>2. /\ SumFunctionOnSet(w, V) \in Int
        /\ SumFunctionOnSet(w, V \cup {a}) = w[a] + SumFunctionOnSet(w, V)
    BY <2>1, SumInsert
  <2>3. PICK x \in Int, y \in Int, z \in Int : x = v[c] /\ y = Total(w, V) /\ z = w[a]
    BY <2>2 DEF Total, Votes, Holdings
  <2>4. (x + z) - (z + y) = x - y
    OBVIOUS
  <2>5. v1[c] = x + z /\ Total(w, Voters(bs1, c)) = z + y
    BY <2>2, <2>3 DEF BallotAdds, Total, V
  <2>6. Off(c, v1, bs1, w) = (x + z) - (z + y)
    BY ONLY <1>0, <2>5
  <2>7. Off(c, v, bs, w) = x - y
    BY ONLY <1>0, <2>3 DEF V
  <2> QED  BY ONLY <1>2, <2>4, <2>6, <2>7
<1> QED  BY <1>1, <1>2

LEMMA ApproveKeeps ==
  ASSUME VotingInv, UNCHANGED votingProfile, Fits, NEW a \in Accounts, NEW c \in Candidates, approve(a, c),
         c \in WitnessNames => proxy[a] = Self, UNCHANGED <<vesting_shares, proxy, proxied>>
  PROVE  VotingInv' /\ TalliesFollow
<1>1. PICK bs, bs1, v, v1, w : bs = ballots /\ bs1 = ballots' /\ v = tally /\ v1 = tally' /\ w = Weight
  OBVIOUS
<1>2. v \in Votes /\ w \in Holdings /\ MaxTally \in Nat
  BY <1>1, VotingFacts
<1>3. bs1 = bs \cup {<<a, c>>} /\ <<a, c>> \notin bs /\ v1 = [v EXCEPT ![c] = @ + w[a]] /\ voted_for[a][Kind(c)] < MaxBallots
  BY <1>1, WeightIs DEF approve
<1>4. v1 \in [Candidates -> -MaxTally .. MaxTally] /\ v1 \in Votes
  <2>1. DOMAIN v1 = Candidates /\ v1 = [x \in Candidates |-> v1[x]]
    BY <1>2, <1>3 DEF Votes
  <2>2. v1 \in [Candidates -> -MaxTally .. MaxTally]
    BY <1>1, <2>1, TallyShape
  <2> QED  BY <1>2, <2>2 DEF Votes
<1>5. BallotAdds(bs, bs1, v, v1, a, c, w)
  <2>1. a \notin Voters(bs, c) /\ Voters(bs1, c) = Voters(bs, c) \cup {a}
    BY <1>3 DEF Voters
  <2>2. \A d \in Candidates \ {c} : Voters(bs1, d) = Voters(bs, d)
    BY <1>3 DEF Voters
  <2>3. v1[c] = v[c] + w[a] /\ \A d \in Candidates \ {c} : v1[d] = v[d]
    BY <1>2, <1>3 DEF Votes
  <2> QED  BY <2>1, <2>2, <2>3 DEF BallotAdds
<1>6. \A d \in Candidates : Off(d, v1, bs1, w) = Off(d, v, bs, w)
  BY <1>2, <1>4, <1>5, BallotExact
<1>7. Weight' = w
  BY <1>1, WeightIs
<1>8. TalliesFollow
  BY <1>1, <1>6, <1>7 DEF TalliesFollow
<1>9. voted_for' \in Counts /\ Counted(ballots', voted_for')
  <2>1. PICK n, n1 : n = voted_for /\ n1 = voted_for' /\ n1 = [n EXCEPT ![a][Kind(c)] = @ + 1]
    BY DEF approve
  <2>2. n \in Counts /\ Counted(bs, n) /\ n[a][Kind(c)] < MaxBallots
    BY <1>1, <1>3, <2>1 DEF VotingInv, VotingShape
  <2>3. n1 \in Counts /\ Counted(bs \cup {<<a, c>>}, n1)
    BY ONLY <1>3, <2>1, <2>2, a \in Accounts, c \in Candidates, CountsMore
  <2> QED  BY <1>1, <1>3, <2>1, <2>3
<1>10. VotingShape'
  BY <1>1, <1>3, <1>4, <1>9 DEF VotingShape, VotingInv
<1>11. \A x \in WitnessNames : Direct(proxy', Voters(ballots', x))
  <2>1. ASSUME NEW x \in WitnessNames, NEW b \in Voters(bs1, x) PROVE proxy[b] = Self
    <3>1. b \in Voters(bs, x) \/ (b = a /\ x = c)
      BY <1>3 DEF Voters
    <3> QED  BY <1>1, <3>1 DEF VotingInv, Direct
  <2> QED  BY <1>1, <2>1 DEF Direct
<1>12. Acyclic(proxy') /\ proxied' = Supplied(proxy', vesting_shares')
  BY DEF VotingInv
<1> QED  BY <1>8, <1>9, <1>10, <1>11, <1>12, VotingInvFrom

LEMMA RejectKeeps ==
  ASSUME VotingInv, UNCHANGED votingProfile, Fits, NEW a \in Accounts, NEW c \in Candidates, reject(a, c),
         UNCHANGED <<vesting_shares, proxy, proxied>>
  PROVE  VotingInv' /\ TalliesFollow
<1>1. PICK bs, bs1, v, v1, w : bs = ballots /\ bs1 = ballots' /\ v = tally /\ v1 = tally' /\ w = Weight
  OBVIOUS
<1>2. v \in Votes /\ w \in Holdings /\ MaxTally \in Nat
  BY <1>1, VotingFacts
<1>3. bs1 = bs \ {<<a, c>>} /\ <<a, c>> \in bs /\ v1 = [v EXCEPT ![c] = @ - w[a]]
  BY <1>1, WeightIs DEF reject
<1>4. v1 \in [Candidates -> -MaxTally .. MaxTally] /\ v1 \in Votes
  <2>1. DOMAIN v1 = Candidates /\ v1 = [x \in Candidates |-> v1[x]]
    BY <1>2, <1>3 DEF Votes
  <2>2. v1 \in [Candidates -> -MaxTally .. MaxTally]
    BY <1>1, <2>1, TallyShape
  <2> QED  BY <1>2, <2>2 DEF Votes
<1>5. BallotAdds(bs1, bs, v1, v, a, c, w)
  <2>1. a \notin Voters(bs1, c) /\ Voters(bs, c) = Voters(bs1, c) \cup {a}
    BY <1>3 DEF Voters
  <2>2. \A d \in Candidates \ {c} : Voters(bs, d) = Voters(bs1, d)
    BY <1>3 DEF Voters
  <2>3. v1[c] = v[c] - w[a] /\ \A d \in Candidates \ {c} : v1[d] = v[d]
    BY <1>2, <1>3 DEF Votes
  <2>4. v[c] = v1[c] + w[a]
    <3>1. v[c] \in Int /\ w[a] \in Int
      BY <1>2 DEF Votes, Holdings
    <3> QED  BY <2>3, <3>1
  <2> QED  BY <2>1, <2>2, <2>3, <2>4 DEF BallotAdds
<1>6. \A d \in Candidates : Off(d, v, bs, w) = Off(d, v1, bs1, w)
  BY <1>2, <1>4, <1>5, BallotExact
<1>7. Weight' = w
  BY <1>1, WeightIs
<1>8. TalliesFollow
  BY <1>1, <1>6, <1>7 DEF TalliesFollow
<1>9. voted_for' \in Counts /\ Counted(ballots', voted_for')
  <2>1. PICK n, n1 : n = voted_for /\ n1 = voted_for' /\ n1 = [n EXCEPT ![a][Kind(c)] = @ - 1]
    BY DEF reject
  <2>2. n \in Counts /\ Counted(bs, n)
    BY <1>1, <2>1 DEF VotingInv, VotingShape
  <2>3. n1 \in Counts /\ Counted(bs \ {<<a, c>>}, n1)
    BY ONLY <1>3, <2>1, <2>2, a \in Accounts, c \in Candidates, CountsLess
  <2> QED  BY <1>1, <1>3, <2>1, <2>3
<1>10. VotingShape'
  BY <1>1, <1>3, <1>4, <1>9 DEF VotingShape, VotingInv
<1>11. \A x \in WitnessNames : Direct(proxy', Voters(ballots', x))
  <2>1. ASSUME NEW x \in WitnessNames, NEW b \in Voters(bs1, x) PROVE proxy[b] = Self
    <3>1. b \in Voters(bs, x)
      BY <1>3 DEF Voters
    <3> QED  BY <1>1, <3>1 DEF VotingInv, Direct
  <2> QED  BY <1>1, <2>1 DEF Direct
<1>12. Acyclic(proxy') /\ proxied' = Supplied(proxy', vesting_shares')
  BY DEF VotingInv
<1> QED  BY <1>8, <1>9, <1>10, <1>11, <1>12, VotingInvFrom

\* Everything that counts for an account, signed.
LEMMA WeightsAre ==
  ASSUME VotingInv, NEW a \in Accounts
  PROVE  /\ Weights(a, 1) = Supply(proxy, vesting_shares, a)
         /\ Weights(a, -1) \in Deltas /\ Opposite(Supply(proxy, vesting_shares, a), Weights(a, -1))
<1> DEFINE S == Supply(proxy, vesting_shares, a)
           held(i) == IF i = 0 THEN vesting_shares[a] ELSE proxied[a][i - 1]
<1>0. Depth \in Nat /\ vesting_shares \in Holdings /\ proxy \in Proxies /\ proxied = Supplied(proxy, vesting_shares)
  BY VotingFacts, VotingAssumption DEF VotingInv
<1>1. S \in Deltas
  BY <1>0, SupplyDeltas
<1>2. ASSUME NEW i \in 0 .. Depth PROVE held(i) = S[i] /\ S[i] \in Int
  <2>1. S[i] \in Int
    BY <1>1 DEF Deltas
  <2>2. CASE i = 0
    BY <1>0, <2>1, <2>2, WeighSupply
  <2>3. CASE i # 0
    <3>1. i - 1 \in Levels /\ (i - 1) + 1 = i
      BY <1>0, <2>3 DEF Levels
    <3>2. proxied[a][i - 1] = Total(vesting_shares, From(proxy, a, (i - 1) + 1))
      BY <1>0, <3>1 DEF Supplied
    <3>3. S[i] = Total(vesting_shares, From(proxy, a, i))
      BY DEF Supply
    <3> HIDE DEF S
    <3> QED  BY <2>1, <2>3, <3>1, <3>2, <3>3
  <2> QED  BY <2>2, <2>3
<1>3. \A sign : Weights(a, sign) = [i \in 0 .. Depth |-> sign * held(i)]
  BY DEF Weights
<1>4. S = [i \in 0 .. Depth |-> S[i]]
  BY DEF Supply
<1> HIDE DEF S, held
<1>5. ASSUME NEW i \in 0 .. Depth PROVE 1 * held(i) = S[i] /\ (-1) * held(i) = 0 - S[i] /\ (-1) * held(i) \in Int
  <2>1. PICK x \in Int : x = S[i] /\ held(i) = x
    BY <1>2
  <2>2. 1 * x = x /\ (-1) * x = 0 - x /\ (-1) * x \in Int
    BY ONLY x \in Int
  <2> QED  BY <2>1, <2>2
<1>6. Weights(a, 1) = S
  BY <1>3, <1>4, <1>5
<1>7. Weights(a, -1) \in Deltas /\ Opposite(S, Weights(a, -1))
  BY <1>3, <1>5 DEF Deltas, Opposite
<1> QED  BY <1>6, <1>7 DEF S

LEMMA ClearKeeps ==
  ASSUME VotingInv, UNCHANGED votingProfile, Fits, NEW a \in Accounts, account_clear_proxy(a)
  PROVE  VotingInv' /\ TalliesFollow
<1>1. PICK px, p0, sh, bs, v, e : /\ px = proxy /\ p0 = proxy' /\ sh = vesting_shares /\ bs = ballots /\ v = tally
                                  /\ e = Weights(a, -1)
  OBVIOUS
<1>2. px \in Proxies /\ Acyclic(px) /\ sh \in Holdings /\ v \in Votes /\ proxied = Supplied(px, sh)
  BY <1>1, VotingFacts DEF VotingInv
<1>3. e \in Deltas /\ Opposite(Supply(px, sh, a), e)
  BY <1>1, WeightsAre
<1>4. px[a] # Self /\ Unproxied(p0, px, a)
  BY <1>1 DEF account_clear_proxy, Unproxied
<1>5. p0 \in Proxies /\ Acyclic(p0)
  BY <1>2, <1>4, AcyclicWithout
<1>6. /\ proxied' = proxied_after(px, Supplied(px, sh), a, e)
      /\ tally' = votes_after(px, bs, v, a, e)
      /\ UNCHANGED <<vesting_shares, ballots, voted_for>>
  BY <1>1, <1>2 DEF account_clear_proxy, Removed
<1>7. /\ proxied_after(px, Supplied(px, sh), a, e) = Supplied(p0, sh)
      /\ \A c \in Candidates : Direct(px, Voters(bs, c)) =>
           Off(c, votes_after(px, bs, v, a, e), bs, Weigh(sh, Supplied(p0, sh))) = Off(c, v, bs, Weigh(sh, Supplied(px, sh)))
  BY ONLY <1>2, <1>3, <1>4, a \in Accounts, ClearStep
<1>8. Weight = Weigh(sh, Supplied(px, sh)) /\ Weight' = Weigh(sh, Supplied(p0, sh))
  BY <1>1, <1>2, <1>6, <1>7, WeightIs
<1>9. TalliesFollow
  BY <1>1, <1>6, <1>7, <1>8 DEF TalliesFollow
<1>10. tally' \in [Candidates -> -MaxTally .. MaxTally]
  <2>1. DOMAIN tally' = Candidates /\ tally' = [c \in Candidates |-> tally'[c]]
    BY <1>6 DEF votes_after
  <2> QED  BY <2>1, TallyShape
<1>11. VotingShape'
  BY <1>1, <1>5, <1>6, <1>10 DEF VotingShape, VotingInv
<1>12. \A w \in WitnessNames : Direct(proxy', Voters(ballots', w))
  <2>1. ASSUME NEW w \in WitnessNames, NEW b \in Voters(bs, w) PROVE p0[b] = Self
    <3>1. px[b] = Self /\ b \in Accounts
      BY <1>1, <2>1 DEF VotingInv, Direct, Voters
    <3> QED  BY <1>2, <1>4, <3>1 DEF Unproxied, Proxies
  <2> QED  BY <1>1, <1>6, <2>1 DEF Direct
<1>13. Acyclic(proxy') /\ Counted(ballots', voted_for') /\ proxied' = Supplied(proxy', vesting_shares')
  BY <1>1, <1>5, <1>6, <1>7 DEF VotingInv
<1> QED  BY <1>9, <1>11, <1>12, <1>13, VotingInvFrom

LEMMA ProxyKeeps ==
  ASSUME VotingInv, UNCHANGED votingProfile, Fits, NEW a \in Accounts, NEW new \in Accounts, account_witness_proxy(a, new)
  PROVE  VotingInv' /\ TalliesFollow
<1>1. PICK px, p1, sh, bs, bs1, v, e : /\ px = proxy /\ p1 = proxy' /\ sh = vesting_shares
                                       /\ bs = ballots /\ bs1 = ballots' /\ v = tally /\ e = Weights(a, -1)
  OBVIOUS
<1>2. px \in Proxies /\ Acyclic(px) /\ sh \in Holdings /\ v \in Votes /\ proxied = Supplied(px, sh)
  BY <1>1, VotingFacts DEF VotingInv
<1>3. e \in Deltas /\ Opposite(Supply(px, sh, a), e) /\ Weights(a, 1) = Supply(px, sh, a)
  BY <1>1, WeightsAre
<1>4. PICK p0 : Unproxied(p0, px, a)
  BY DEF Unproxied
<1>5. p1 = [px EXCEPT ![a] = new]
  BY <1>1 DEF account_witness_proxy
<1>6. p1 \in Proxies /\ p1[a] = new /\ Unproxied(p0, p1, a)
  BY <1>2, <1>4, <1>5 DEF Unproxied, Proxies, Ends
<1>7. PICK k : EndsBefore(px, new, a, k)
  BY <1>1 DEF account_witness_proxy, MayProxy, EndsBefore
<1>8. Acyclic(p1)
  <2>1. px \in Proxies /\ Acyclic(px)
    BY <1>2
  <2> QED  BY ONLY <1>4, <1>6, <1>7, <2>1, a \in Accounts, new \in Accounts, AcyclicWith
<1>9. bs1 = {x \in bs : x[1] # a}
  BY <1>1 DEF account_witness_proxy, clear_votes
<1>10. \A c \in Candidates : Voters(bs1, c) = Voters(bs, c) \ {a}
  BY <1>9 DEF Voters
<1> DEFINE d == Supply(px, sh, a)
<1>11. /\ proxied' = proxied_after(p1, proxied_after(px, Supplied(px, sh), a, e), a, d)
       /\ tally' = votes_after(p1, bs1, votes_after(px, bs, v, a, e), a, d)
       /\ UNCHANGED vesting_shares
  <2> HIDE DEF d
  <2>1. Weights(a, 1) = d
    BY <1>3 DEF d
  <2> QED  BY <1>1, <1>2, <2>1 DEF account_witness_proxy, Removed
<1>12. /\ proxied_after(p1, proxied_after(px, Supplied(px, sh), a, e), a, d) = Supplied(p1, sh)
       /\ \A c \in Candidates : Direct(px, Voters(bs, c)) /\ Direct(p1, Voters(bs1, c)) =>
            Off(c, votes_after(p1, bs1, votes_after(px, bs, v, a, e), a, d), bs1, Weigh(sh, Supplied(p1, sh)))
              = Off(c, v, bs, Weigh(sh, Supplied(px, sh)))
  BY ONLY <1>2, <1>3, <1>4, <1>6, <1>8, <1>10, a \in Accounts, ProxyStep
<1> HIDE DEF d
<1>13. proxied' = Supplied(p1, sh)
  BY <1>11, <1>12
<1>14. Weight = Weigh(sh, Supplied(px, sh)) /\ Weight' = Weigh(sh, Supplied(p1, sh))
  BY <1>1, <1>2, <1>11, <1>13, WeightIs
<1>15. TalliesFollow
  BY <1>1, <1>11, <1>12, <1>14 DEF TalliesFollow
<1>16. tally' \in [Candidates -> -MaxTally .. MaxTally]
  <2>1. DOMAIN tally' = Candidates /\ tally' = [c \in Candidates |-> tally'[c]]
    BY <1>11 DEF votes_after
  <2> QED  BY <2>1, TallyShape
<1>17. voted_for' \in Counts /\ Counted(ballots', voted_for')
  <2>1. PICK n, n1 : n = voted_for /\ n1 = voted_for' /\ Cleared(n, n1, a)
    BY DEF account_witness_proxy, clear_votes, Cleared
  <2>2. n \in Counts /\ Counted(bs, n)
    BY <1>1, <2>1 DEF VotingInv, VotingShape
  <2>3. n1 \in Counts /\ Counted({x \in bs : x[1] # a}, n1)
    BY ONLY <2>1, <2>2, a \in Accounts, CountsCleared
  <2> QED  BY <1>1, <1>9, <2>1, <2>3
<1>18. VotingShape'
  BY <1>1, <1>6, <1>9, <1>11, <1>16, <1>17 DEF VotingShape, VotingInv
<1>19. \A w \in WitnessNames : Direct(proxy', Voters(ballots', w))
  <2>1. ASSUME NEW w \in WitnessNames, NEW b \in Voters(bs1, w) PROVE p1[b] = Self
    <3>1. b \in Voters(bs, w) /\ b # a /\ b \in Accounts
      BY <1>10 DEF Voters, Candidates
    <3>2. px[b] = Self
      BY <1>1, <3>1 DEF VotingInv, Direct
    <3> QED  BY <1>2, <1>5, <3>1, <3>2 DEF Proxies
  <2> QED  BY <1>1, <2>1 DEF Direct
<1>20. Acyclic(proxy') /\ proxied' = Supplied(proxy', vesting_shares')
  BY <1>1, <1>8, <1>11, <1>13
<1> QED  BY <1>15, <1>17, <1>18, <1>19, <1>20, VotingInvFrom

LEMMA VotingInitInv == VotingInit => VotingInv
<1> SUFFICES ASSUME VotingInit PROVE VotingInv
  OBVIOUS
<1>0. Depth \in Nat \ {0} /\ MaxShares \in Nat /\ MaxTally \in Nat /\ MaxBallots \in Nat /\ Self \notin Accounts
  BY VotingAssumption
<1>1. proxy \in Proxies /\ \A x \in Accounts : proxy[x] = Self
  BY DEF VotingInit, Proxies, Ends
<1>2. ASSUME NEW x \in Accounts, NEW k \in 1 .. Depth PROVE Hop(proxy, x)[k] = Self
  <2>1. 0 \in Root(proxy, x)
    BY <1>0, <1>1, HopSteps DEF Root
  <2>2. k \in 0 .. Depth /\ 0 < k
    BY <1>0
  <2> QED  BY <1>1, <2>1, <2>2, RootEnds
<1>3. Acyclic(proxy)
  BY <1>0, <1>2 DEF Acyclic
<1>4. proxied = Supplied(proxy, vesting_shares)
  <2>1. ASSUME NEW b \in Accounts, NEW i \in Levels PROVE Total(vesting_shares, From(proxy, b, i + 1)) = 0
    <3>1. i + 1 \in 1 .. Depth
      BY <1>0 DEF Levels
    <3>2. From(proxy, b, i + 1) = {}
      BY <1>0, <1>2, <3>1 DEF From
    <3>3. Total(vesting_shares, {}) = 0
      BY AtMostOne
    <3> QED  BY <3>2, <3>3
  <2> QED  BY <2>1 DEF VotingInit, Supplied
<1>5. VotingShape
  <2>1. tally \in [Candidates -> -MaxTally .. MaxTally]
    BY <1>0 DEF VotingInit
  <2>2. voted_for \in Counts
    BY <1>0 DEF VotingInit, Counts
  <2> QED  BY <1>0, <1>1, <2>1, <2>2 DEF VotingInit, VotingShape
<1>6. ASSUME NEW w \in WitnessNames PROVE Direct(proxy, Voters(ballots, w)) /\ Off(w, tally, ballots, Weight) = 0
  <2>1. {b \in Accounts : <<b, w>> \in ballots} = {}
    BY DEF VotingInit
  <2>2. Total(Weight, {}) = 0
    BY AtMostOne
  <2>3. tally[w] = 0
    BY DEF VotingInit, Candidates
  <2>4. Off(w, tally, ballots, Weight) = 0 - 0
    BY <2>1, <2>2, <2>3 DEF Off
  <2> QED  BY <2>1, <2>4 DEF Direct, Voters
<1>7. Counted(ballots, voted_for)
  <2>1. Cardinality({}) = 0
    BY FS_EmptySet
  <2>2. \A a, K : BallotsOf(ballots, a, K) = {}
    BY DEF VotingInit, BallotsOf
  <2> QED  BY <2>1, <2>2 DEF VotingInit, Counted
<1> QED  BY <1>3, <1>4, <1>5, <1>6, <1>7 DEF VotingInv

LEMMA VotingStutter ==
  ASSUME VotingInv, UNCHANGED votingVars
  PROVE  VotingInv' /\ TalliesFollow
<1>1. Weight' = Weight
  BY WeightIs DEF votingVars
<1>2. TalliesFollow
  BY <1>1 DEF TalliesFollow, votingVars
<1>3. VotingShape' /\ Acyclic(proxy') /\ proxied' = Supplied(proxy', vesting_shares') /\ Counted(ballots', voted_for')
  BY DEF VotingInv, VotingShape, votingVars
<1>4. \A w \in WitnessNames : Direct(proxy', Voters(ballots', w))
  BY DEF VotingInv, votingVars
<1> QED  BY <1>2, <1>3, <1>4, VotingInvFrom

LEMMA VotingStep ==
  ASSUME VotingInv, [VotingNext]_votingVars
  PROVE  VotingInv' /\ TalliesFollow
<1>1. CASE UNCHANGED votingVars
  BY <1>1, VotingStutter
<1>2. CASE VotingNext
  <2>1. UNCHANGED votingProfile /\ Fits
    BY <1>2 DEF VotingNext, Fits
  <2>2. votingProfile.voters \subseteq Accounts /\ votingProfile.candidates \subseteq Candidates
    BY VotingFacts
  <2>3. PICK a \in votingProfile.voters :
          \/ create_vesting(a, 1)
          \/ process_vesting_withdrawals(a, 1)
          \/ \E b \in votingProfile.voters : <<a, b>> \in votingProfile.routes /\ process_routed_withdrawal(a, b, 1)
          \/ \E c \in votingProfile.candidates : account_witness_vote(a, c) \/ account_streaming_platform_vote(a, c)
          \/ \E new \in votingProfile.voters : account_witness_proxy(a, new)
          \/ account_clear_proxy(a)
    BY <1>2 DEF VotingNext
  <2>4. a \in Accounts
    BY <2>2
  <2>5. CASE create_vesting(a, 1)
    BY <2>1, <2>4, <2>5, CreateKeeps
  <2>6. CASE process_vesting_withdrawals(a, 1)
    BY <2>1, <2>4, <2>6, WithdrawKeeps
  <2>7. ASSUME NEW b \in votingProfile.voters, process_routed_withdrawal(a, b, 1) PROVE VotingInv' /\ TalliesFollow
    BY <2>1, <2>2, <2>4, <2>7, RoutedKeeps
  <2>8. ASSUME NEW c \in votingProfile.candidates, account_witness_vote(a, c) PROVE VotingInv' /\ TalliesFollow
    <3>1. c \in Candidates /\ (c \in WitnessNames => proxy[a] = Self) /\ UNCHANGED <<vesting_shares, proxy, proxied>>
      BY <2>2, <2>8 DEF account_witness_vote
    <3>2. CASE approve(a, c)
      BY <2>1, <2>4, <3>1, <3>2, ApproveKeeps
    <3>3. CASE reject(a, c)
      BY <2>1, <2>4, <3>1, <3>3, RejectKeeps
    <3> QED  BY <2>8, <3>2, <3>3 DEF account_witness_vote
  <2>9. ASSUME NEW c \in votingProfile.candidates, account_streaming_platform_vote(a, c) PROVE VotingInv' /\ TalliesFollow
    <3>1. c \in Candidates /\ (c \in WitnessNames => proxy[a] = Self) /\ UNCHANGED <<vesting_shares, proxy, proxied>>
      BY <2>2, <2>9, KindOf DEF account_streaming_platform_vote
    <3>2. CASE approve(a, c)
      BY <2>1, <2>4, <3>1, <3>2, ApproveKeeps
    <3>3. CASE reject(a, c)
      BY <2>1, <2>4, <3>1, <3>3, RejectKeeps
    <3> QED  BY <2>9, <3>2, <3>3 DEF account_streaming_platform_vote
  <2>10. ASSUME NEW new \in votingProfile.voters, account_witness_proxy(a, new) PROVE VotingInv' /\ TalliesFollow
    BY <2>1, <2>2, <2>4, <2>10, ProxyKeeps
  <2>11. CASE account_clear_proxy(a)
    BY <2>1, <2>4, <2>11, ClearKeeps
  <2> QED  BY <2>3, <2>5, <2>6, <2>7, <2>8, <2>9, <2>10, <2>11
<1> QED  BY <1>1, <1>2

LEMMA VotingInvHolds == VotingSpec => []VotingInv
<1>1. VotingInit => VotingInv
  BY VotingInitInv
<1>2. VotingInv /\ [VotingNext]_votingVars => VotingInv'
  BY VotingStep
<1> QED  BY <1>1, <1>2, PTL DEF VotingSpec

LEMMA VotingInvSound == VotingInv => TalliesAddUp
<1> SUFFICES ASSUME VotingInv PROVE TalliesAddUp
  OBVIOUS
<1>0. /\ proxied = Supplied(proxy, vesting_shares) /\ Acyclic(proxy)
      /\ vesting_shares \in [Accounts -> 0 .. MaxShares] /\ proxy \in Proxies
  BY DEF VotingInv, VotingShape
<1>1. vesting_shares \in Holdings /\ tally \in Votes /\ Weight \in Holdings /\ proxied \in Entries
  BY VotingFacts
<1>2. ASSUME NEW b \in Accounts, NEW i \in Levels
      PROVE  /\ proxied[b][i] = Total(vesting_shares, From(proxy, b, i + 1))
             /\ proxied[b][i] \in Nat
  <2> DEFINE F == From(proxy, b, i + 1)
  <2>1. proxied[b][i] = Total(vesting_shares, F)
    BY <1>0 DEF Supplied
  <2>2. IsFiniteSet(F)
    BY <1>1, FromSum
  <2>3. \A x \in F : vesting_shares[x] \in Nat
    BY <1>0, VotingAssumption DEF From
  <2> HIDE DEF F
  <2>4. SumFunctionOnSet(vesting_shares, F) \in Nat
    BY <2>2, <2>3, SumNat
  <2> QED  BY <2>1, <2>4 DEF Total, F
<1>3. VotingTypeOK
  <2>1. proxied \in [Accounts -> [Levels -> Nat]]
    <3>1. proxied = [b \in Accounts |-> [i \in Levels |-> proxied[b][i]]]
      BY <1>1 DEF Entries
    <3> QED  BY <1>2, <3>1
  <2> QED  BY <1>0, <2>1 DEF VotingInv, VotingShape, VotingTypeOK, Proxies, Ends, Counts
<1>4. ProxiedAddsUp
  <2>1. ASSUME NEW b \in Accounts, NEW i \in Levels
        PROVE  {a \in Accounts : i + 1 \in Distance(proxy, a, b)} = From(proxy, b, i + 1)
    <3>1. i + 1 \in 0 .. Depth
      BY VotingAssumption DEF Levels
    <3> QED  BY <3>1 DEF From, Distance
  <2>2. ASSUME NEW b \in Accounts, NEW i \in Levels
        PROVE  proxied[b][i] = Total(vesting_shares, {a \in Accounts : i + 1 \in Distance(proxy, a, b)})
    BY <1>2, <2>1
  <2> QED  BY <1>0, <2>2 DEF ProxiedAddsUp, Acyclic
<1>5. WitnessVotesAddUp
  <2>1. ASSUME NEW w \in WitnessNames PROVE tally[w] = Total(Weight, Voters(ballots, w))
    <3> DEFINE V == Voters(ballots, w)
    <3>1. Off(w, tally, ballots, Weight) = 0 /\ Off(w, tally, ballots, Weight) = tally[w] - Total(Weight, V)
      BY DEF VotingInv, Off, Voters
    <3>2. IsFiniteSet(V) /\ IntOn(Weight, V)
      <4>1. V \in SUBSET Accounts
        BY DEF Voters
      <4>2. IsFiniteSet(V)
        BY <4>1, FS_Subset, VotingAssumption
      <4> QED  BY <1>1, <4>1, <4>2 DEF IntOn, Holdings
    <3> HIDE DEF V
    <3>3. PICK x \in Int, y \in Int : x = tally[w] /\ y = Total(Weight, V)
      <4>1. Total(Weight, V) \in Int
        BY <3>2, SumOnSet DEF Total
      <4> QED  BY <1>1, <4>1 DEF Votes, Candidates
    <3>4. x - y = 0
      BY <3>1, <3>3
    <3>5. x = y
      BY ONLY <3>4, x \in Int, y \in Int
    <3> QED  BY <3>3, <3>5 DEF V
  <2> QED  BY <2>1 DEF WitnessVotesAddUp, Voters, Weight
<1>6. CountersMatchBallots
  <2>1. ASSUME NEW a \in Accounts, NEW K \in {WitnessNames, Platforms}, NEW c \in K
        PROVE  voted_for[a][Kind(c)] = Cardinality({d \in K : <<a, d>> \in ballots})
    <3>1. c \in Candidates
      BY DEF Candidates
    <3>2. CASE K = WitnessNames
      <4>1. Kind(c) = "witnesses"
        BY <3>2 DEF Kind
      <4> QED  BY <3>2, <4>1 DEF VotingInv, Counted, BallotsOf
    <3>3. CASE K = Platforms
      <4>1. Kind(c) = "platforms"
        BY <3>1, <3>3, KindOf
      <4> QED  BY <3>3, <4>1 DEF VotingInv, Counted, BallotsOf
    <3> QED  BY <3>2, <3>3
  <2> QED  BY <2>1 DEF CountersMatchBallots
<1>7. EveryShareWeighsOnce
  <2>1. PICK px, sh : px = proxy /\ sh = vesting_shares
    OBVIOUS
  <2>2. Total([b \in Accounts |-> IF px[b] = Self THEN Weigh(sh, Supplied(px, sh))[b] ELSE Supplied(px, sh)[b][Depth - 1]],
              Accounts) = Total(sh, Accounts)
    <3>1. px \in Proxies /\ Acyclic(px) /\ sh \in Holdings
      BY <1>0, <1>1, <2>1
    <3> QED  BY ONLY <3>1, SharesWeighOnce
  <2>3. \A a \in Accounts : witness_vote_weight(a) = Weigh(sh, Supplied(px, sh))[a]
    BY <1>0, <2>1, WeightIs
  <2>4. [a \in Accounts |-> IF proxy[a] = Self THEN witness_vote_weight(a) ELSE proxied[a][Depth - 1]]
          = [b \in Accounts |-> IF px[b] = Self THEN Weigh(sh, Supplied(px, sh))[b] ELSE Supplied(px, sh)[b][Depth - 1]]
    BY <1>0, <2>1, <2>3
  <2> QED  BY <2>1, <2>2, <2>4 DEF EveryShareWeighsOnce, total_vesting_shares
<1> QED  BY <1>3, <1>4, <1>5, <1>6, <1>7 DEF TalliesAddUp

\* The tallies that elect the block producers are what the ballots and the
\* shares say, for every number of accounts, every depth of proxies and every
\* order of purchases, withdrawals, ballots and changes of proxies
\* (adjust_proxied_witness_votes, database.cpp 1351-1436, and the evaluators
\* that call it).
THEOREM TalliesCorrect == VotingSpec => []TalliesAddUp
<1>1. VotingInv => TalliesAddUp
  BY VotingInvSound
<1> QED  BY <1>1, VotingInvHolds, PTL

\* The tally of a platform leaves the sum over its voters only in a step
\* before or after which one of them has a proxy
\* (account_streaming_platform_vote, btcm_evaluator.cpp 288-318).
THEOREM PlatformsDrift == VotingSpec => PlatformVotesDriftOnlyByProxy
<1> DEFINE Drifts == \A p \in Platforms :
             Off(p, tally, ballots, Weight)' # Off(p, tally, ballots, Weight) =>
               \E a \in Accounts : \/ <<a, p>> \in ballots /\ proxy[a] # Self
                                   \/ <<a, p>> \in ballots' /\ proxy'[a] # Self
<1>1. VotingInv /\ [VotingNext]_votingVars => [Drifts]_votingVars
  <2> SUFFICES ASSUME VotingInv, [VotingNext]_votingVars, NEW p \in Platforms,
                      \A a \in Accounts : /\ <<a, p>> \in ballots => proxy[a] = Self
                                          /\ <<a, p>> \in ballots' => proxy'[a] = Self
               PROVE  Off(p, tally, ballots, Weight)' = Off(p, tally, ballots, Weight)
    OBVIOUS
  <2>1. Direct(proxy, Voters(ballots, p)) /\ Direct(proxy', Voters(ballots', p))
    BY DEF Direct, Voters
  <2>2. TalliesFollow
    BY VotingStep
  <2>3. Off(p, tally', ballots', Weight') = Off(p, tally, ballots, Weight)
    BY <2>1, <2>2 DEF TalliesFollow, Candidates
  <2>4. Off(p, tally, ballots, Weight)' = Off(p, tally', ballots', Weight')
    BY DEF Off
  <2> QED  BY <2>3, <2>4
<1>2. VotingSpec => [][Drifts]_votingVars
  <2> HIDE DEF Drifts
  <2> QED  BY <1>1, VotingInvHolds, PTL DEF VotingSpec
<1> QED  BY <1>2 DEF PlatformVotesDriftOnlyByProxy, Drifts

=============================================================================
