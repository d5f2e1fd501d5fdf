-------------------------- MODULE WitnessSchedule --------------------------
(***************************************************************************)
(* Who produces blocks: the witnesses with the most votes and, in the      *)
(* places that are left, the others in turns measured by a virtual time;   *)
(* slots, missed slots and the keys they cost; the medians and the hard    *)
(* forks the scheduled witnesses decide on.                                *)
(*                                                                         *)
(* A block is opened by its witness, holds operations that change votes,   *)
(* keys and properties, and is closed by the maintenance that ends         *)
(* _apply_block.  Witnesses are numbers, in the order of their ids and of  *)
(* their names.  Numbers of blocks and slots are kept modulo what they are *)
(* compared with.                                                          *)
(***************************************************************************)
EXTENDS Integers, FiniteSetsExt, SequencesExt

CONSTANTS
  Witnesses, Genesis,   \* ids of all witnesses, and of those that exist at first
  MaxVoted, MaxMiners,  \* BTCM_MAX_VOTED_WITNESSES, BTCM_MAX_MINERS
  Lap,                  \* VIRTUAL_SCHEDULE_LAP_LENGTH2, also the largest time
  Day,                  \* BTCM_BLOCKS_PER_DAY
  Required,             \* BTCM_HARDFORK_REQUIRED_WITNESSES
  NumHardforks,         \* BTCM_NUM_HARDFORKS of this node
  Window,               \* slots in recent_slots_filled
  Slots,                \* the absolute slot is kept modulo Slots
  MaxVotes,             \* bound on the votes of a witness
  ScheduleProfiles      \* what happens in a behaviour: see ScheduleProfile

\* The votes at first, whose votes and properties change, who comes and goes,
\* how many slots may be missed in a row, and how new the witnesses'
\* binaries get.
ScheduleProfile == [votes : [Witnesses -> 0 .. MaxVotes], voted : SUBSET Witnesses,
                    leaving : SUBSET Witnesses, fees : SUBSET Witnesses,
                    missed : Nat, newest : Nat]

ASSUME ScheduleAssumption ==
  /\ Witnesses \subseteq Nat /\ IsFiniteSet(Witnesses)
  /\ Genesis \subseteq Witnesses /\ Genesis # {}
  /\ MaxVoted \in Nat /\ MaxMiners \in Nat \ {0} /\ MaxVoted < MaxMiners
  /\ MaxVotes \in Nat /\ Lap \in Nat /\ Lap > MaxVotes
  /\ Day \in Nat /\ NumHardforks \in Nat
  /\ Required \in 1 .. MaxMiners /\ 2 * Required > MaxMiners
  /\ Window \in Nat \ {0} /\ Slots \in Nat \ {0}
  /\ \A n \in 1 .. MaxMiners : Slots % n = 0
  /\ ScheduleProfiles \subseteq ScheduleProfile
  \* a witness that does not exist yet has no votes
  /\ \A p \in ScheduleProfiles : \A w \in Witnesses \ Genesis : p.votes[w] = 0

NoOne == -1
ASSUME NoOneIsNoWitness == NoOne \notin Witnesses

VARIABLES
  scheduleProfile, settled,  \* settled: no votes, keys, binaries change any more, no slot is missed
  registered,        \* witnesses that exist
  votes,
  virtual,           \* virtual_position, virtual_last_update, virtual_scheduled_time
  keyed,             \* witnesses with a signing_key
  unconfirmed,       \* blocks since last_confirmed_block_num, at most Day + 1
  fee,               \* the witnesses' account_creation_fee
  running_version, hardfork_version_vote,
  binary,            \* the hard forks each witness's software knows of
  current_virtual_time, shuffled, median_fee,
  next_hardfork, last_hardfork,
  hardfork_due,      \* the next hard fork's time has come
  head,              \* head_block_num % BTCM_MAX_MINERS
  current_aslot, recent_slots_filled, participation_count,
  open               \* the block being applied: its witness and missed slots

witness == <<registered, votes, virtual, keyed, unconfirmed, fee>>
versions == <<running_version, hardfork_version_vote, binary>>
schedule == <<current_virtual_time, shuffled, median_fee>>
hardforks == <<next_hardfork, last_hardfork, hardfork_due>>
slots == <<head, current_aslot, recent_slots_filled, participation_count>>
scheduleVars == <<scheduleProfile, settled, witness, versions, schedule, hardforks, slots, open>>

Times == 0 .. Lap
Wrap(t) == t % (Lap + 1)
NoBlock == [witness |-> NoOne, missed |-> 0]
New == [position |-> 0, last_update |-> 0, scheduled |-> Lap]

\* The state after genesis, with the votes that were cast since; the initial
\* miner, which the genesis schedule names twice, is scheduled once.
ScheduleInit ==
  /\ scheduleProfile \in ScheduleProfiles /\ settled = FALSE
  /\ registered = Genesis /\ keyed = Genesis
  /\ votes = scheduleProfile.votes
  /\ virtual = [w \in Witnesses |-> [New EXCEPT !.scheduled = Lap \div (votes[w] + 1)]]
  /\ unconfirmed = [w \in Witnesses |-> IF w \in Genesis THEN 0 ELSE Day + 1]
  /\ fee = [w \in Witnesses |-> 0]
  /\ running_version = [w \in Witnesses |-> 0] /\ hardfork_version_vote = [w \in Witnesses |-> 0]
  /\ binary = [w \in Witnesses |-> 0]
  /\ current_virtual_time = 0 /\ shuffled = <<Min(Genesis)>> /\ median_fee = 0
  /\ next_hardfork = 0 /\ last_hardfork = 0 /\ hardfork_due = FALSE
  /\ head = 0 /\ current_aslot = 0
  /\ recent_slots_filled = [i \in 1 .. Window |-> 1] /\ participation_count = Window
  /\ open = NoBlock

-----------------------------------------------------------------------------
(* A block begins. *)

get_scheduled_witness(slot) == shuffled[1 + ((current_aslot + slot) % Len(shuffled))]

\* validate_block_header, and the extensions _generate_block puts in the
\* header and process_header_extensions takes out again: the witness's
\* version, and its vote for the next hard fork its binary knows of.
begin_block(missed) ==
  LET w == get_scheduled_witness(missed + 1)
  IN /\ open = NoBlock /\ Len(shuffled) > 0
     /\ w \in keyed
     /\ binary[w] >= last_hardfork
     /\ running_version' = [running_version EXCEPT ![w] = binary[w]]
     /\ hardfork_version_vote' =
          [hardfork_version_vote EXCEPT ![w] =
             IF binary[w] > last_hardfork THEN last_hardfork + 1
             ELSE IF @ > binary[w] THEN last_hardfork ELSE @]
     /\ open' = [witness |-> w, missed |-> missed]
     /\ UNCHANGED <<settled, witness, binary, schedule, hardforks, slots>>

-----------------------------------------------------------------------------
(* Operations in the block. *)

\* Mutant: the position is not advanced before the votes change.
advance_Stale(w) == virtual[w].position

\* Where a witness is in its lap now.
advance(w) == Wrap(virtual[w].position + votes[w] * Wrap(current_virtual_time - virtual[w].last_update))

\* The votes change, and with them the time at which the lap will be over.
adjust_witness_vote(w, delta) ==
  LET scheduled == Wrap(current_virtual_time + Wrap(Lap - advance(w)) \div (votes[w] + delta + 1))
  IN /\ votes[w] + delta \in 0 .. MaxVotes
     /\ votes' = [votes EXCEPT ![w] = @ + delta]
     /\ virtual' = [virtual EXCEPT ![w] =
          [position |-> advance(w), last_update |-> current_virtual_time,
           scheduled |-> IF scheduled < current_virtual_time THEN Lap ELSE scheduled]]
     /\ UNCHANGED <<registered, keyed, unconfirmed, fee>>

\* A witness announces itself, changes its properties or its key.
witness_update(w, key, new_fee) ==
  /\ registered' = registered \cup {w}
  /\ keyed' = IF key THEN keyed \cup {w} ELSE keyed \ {w}
  /\ fee' = [fee EXCEPT ![w] = new_fee]
  /\ UNCHANGED <<votes, virtual, unconfirmed>>

\* Assumed of the witnesses: the last one that is scheduled and alive does
\* not give up its key.
MayLeave(w) == \E x \in Range(shuffled) \cap keyed : x # w /\ unconfirmed[x] <= Day

Operation ==
  /\ open # NoBlock /\ ~ settled
  /\ \/ \E w \in scheduleProfile.voted \cap registered : \E delta \in {-1, 1} : adjust_witness_vote(w, delta)
     \/ \E w \in scheduleProfile.leaving :
          \/ witness_update(w, TRUE, fee[w])
          \/ w \in registered /\ MayLeave(w) /\ witness_update(w, FALSE, fee[w])
     \/ \E w \in scheduleProfile.fees \cap keyed : witness_update(w, TRUE, 1 - fee[w])
  /\ UNCHANGED <<settled, versions, schedule, hardforks, slots, open>>

\* The operator of a witness installs newer software.
Upgrade(w) ==
  /\ w \in registered /\ ~ settled /\ binary[w] < scheduleProfile.newest
  /\ binary' = [binary EXCEPT ![w] = @ + 1]
  /\ UNCHANGED <<settled, witness, running_version, hardfork_version_vote, schedule, hardforks, slots, open>>

\* Elections and upgrades come to rest and everyone produces.
Settle == /\ settled' = TRUE /\ ~ settled
          /\ UNCHANGED <<witness, versions, schedule, hardforks, slots, open>>

-----------------------------------------------------------------------------
(* The maintenance at the end of the block. *)

\* Mutant: the block's own witness may lose its key for an earlier slot.
idle_Own(missed) == {get_scheduled_witness(i) : i \in 1 .. missed}

\* Those who missed slots before this block and have produced nothing for a
\* day: they lose their keys, except the witness of this very block.
idle(missed) == {get_scheduled_witness(i) : i \in 1 .. missed} \ {open.witness}

StillKeyed == keyed \ {w \in idle(open.missed) : unconfirmed[w] > Day}

\* Mutant: missed slots are counted as filled.
FillSlots_NoDrop ==
  LET Shift(st, bit) == [recent |-> Append(Tail(st.recent), bit), count |-> st.count - Head(st.recent) + 1]
      filled == FoldLeft(Shift, [recent |-> recent_slots_filled, count |-> participation_count],
                         [i \in 1 .. open.missed + 1 |-> IF i = 1 THEN 1 ELSE 0])
  IN recent_slots_filled' = filled.recent /\ participation_count' = filled.count

\* A slot comes in and the oldest one goes.
shift_slot(st, bit) == [recent |-> Append(Tail(st.recent), bit), count |-> st.count - Head(st.recent) + bit]

\* recent_slots_filled and its number of ones: this block's slot comes in
\* before the slots that were missed, as in the code.
FillSlots ==
  LET filled == FoldLeft(shift_slot, [recent |-> recent_slots_filled, count |-> participation_count],
                         [i \in 1 .. open.missed + 1 |-> IF i = 1 THEN 1 ELSE 0])
  IN recent_slots_filled' = filled.recent /\ participation_count' = filled.count

update_global_dynamic_data ==
  /\ keyed' = StillKeyed
  /\ FillSlots
  /\ head' = (head + 1) % MaxMiners
  /\ current_aslot' = (current_aslot + open.missed + 1) % Slots

\* update_signing_witness
Confirm == unconfirmed' = [w \in Witnesses |-> IF w = open.witness THEN 0 ELSE Min({unconfirmed[w] + 1, Day + 1})]

\* by_vote_name and by_schedule_time.
MoreVotes(x, y) == votes[x] > votes[y] \/ (votes[x] = votes[y] /\ x < y)
Earlier(x, y) == \/ virtual[x].scheduled < virtual[y].scheduled
                 \/ virtual[x].scheduled = virtual[y].scheduled /\ x < y

\* The highest voted of the witnesses K that can sign.
Top(K) == {w \in K : Cardinality({x \in K : MoreVotes(x, w)}) < MaxVoted}

\* Mutant: one place too many.
Processed_OneMore(K, top) == {w \in registered : Cardinality(top) + Cardinality({x \in K \ top : Earlier(x, w)}) <= MaxMiners}

\* The witnesses the second loop of update_witness_schedule4 looks at, in
\* the order of their times until the places are taken.
Processed(K, top) == {w \in registered : Cardinality(top) + Cardinality({x \in K \ top : Earlier(x, w)}) < MaxMiners}

\* Everyone advances to the time of the last one looked at.
NewTime(processed) == Max({virtual[w].scheduled : w \in processed} \cup {current_virtual_time})

\* Mutant: everyone starts anew in every round.
Overflow_Always(processed, time) == time > 0

Overflow(processed, time) == \E w \in processed : Wrap(time + Lap \div (votes[w] + 1)) < time

\* The witnesses begin a new lap at a time.
NewLap(W, time) ==
  /\ current_virtual_time' = time
  /\ virtual' = [w \in Witnesses |->
       IF w \in W THEN [position |-> 0, last_update |-> time, scheduled |-> time + Lap \div (votes[w] + 1)]
       ELSE virtual[w]]

\* Mutant: after an overflow only those looked at begin anew.
update_virtual_times_NoReset(processed, time) ==
  IF Overflow(processed, time) THEN NewLap(processed, 0) ELSE NewLap(processed, time)

\* Those looked at begin a new lap; when that is beyond the largest time,
\* reset_virtual_schedule_time starts everyone anew.
update_virtual_times(processed, time) ==
  IF Overflow(processed, time) THEN NewLap(registered, 0) ELSE NewLap(processed, time)

\* The witnesses of the round that ends who vote for a hard fork.
VotesFor(v) == Cardinality({i \in 1 .. Len(shuffled) : hardfork_version_vote[shuffled[i]] = v})
\* Mutants: too few are enough; more than enough are needed.
Majority_Less == {v \in 0 .. NumHardforks + 1 : VotesFor(v) >= Required - 1 /\ v >= last_hardfork}
Majority_More == {v \in 0 .. NumHardforks + 1 : VotesFor(v) > Required}

Majority == {v \in 0 .. NumHardforks + 1 : VotesFor(v) >= Required}

count_hardfork_votes == next_hardfork' = IF Majority = {} THEN last_hardfork ELSE Min(Majority)

\* active[active.size() / 2] of the witnesses sorted by the property: at most
\* so many have less, and more have no more.
median(active) ==
  CHOOSE w \in active :
    /\ Cardinality({x \in active : fee[x] < fee[w]}) <= Cardinality(active) \div 2
    /\ Cardinality({x \in active : fee[x] <= fee[w]}) > Cardinality(active) \div 2

\* Mutant: the median of the round that ends.
update_median_witness_props_Old(active) == median_fee' = fee[median(Range(shuffled))]

update_median_witness_props(active) == median_fee' = fee[median(active)]

\* A new round: the shuffle is decided by the time of the block.
update_witness_schedule4(K) ==
  \E top \in {Top(K)} : \E processed \in {Processed(K, top)} : \E active \in {top \cup (processed \cap K)} :
    /\ \E order \in SetToSeqs(active) : shuffled' = order
    /\ update_virtual_times(processed, NewTime(processed))
    /\ count_hardfork_votes
    /\ update_median_witness_props(active)

update_witness_schedule ==
  IF head' = 0 THEN update_witness_schedule4(StillKeyed)
  ELSE UNCHANGED <<schedule, virtual, next_hardfork>>

\* process_hardforks: a node that does not know the hard fork stops.
process_hardforks ==
  /\ hardfork_due' \in IF scheduleProfile.newest = 0 THEN {FALSE} ELSE {hardfork_due, TRUE}
  /\ IF last_hardfork < next_hardfork' /\ hardfork_due'
       THEN last_hardfork < NumHardforks /\ last_hardfork' = last_hardfork + 1
     ELSE UNCHANGED last_hardfork

end_block ==
  /\ open # NoBlock
  /\ update_global_dynamic_data
  /\ Confirm
  /\ update_witness_schedule
  /\ process_hardforks
  /\ open' = NoBlock
  /\ UNCHANGED <<settled, registered, votes, fee, versions>>

-----------------------------------------------------------------------------
\* Once all is settled, only those miss their slots who cannot produce.
CanProduce(w) == w \in keyed /\ binary[w] >= last_hardfork
BeginBlock ==
  \E missed \in 0 .. (IF settled THEN MaxMiners ELSE scheduleProfile.missed) :
    /\ settled => \A i \in 1 .. missed : ~ CanProduce(get_scheduled_witness(i))
    /\ begin_block(missed)

ScheduleNext ==
  /\ UNCHANGED scheduleProfile
  /\ \/ BeginBlock
     \/ Operation
     \/ \E w \in Witnesses : Upgrade(w)
     \/ end_block
     \/ Settle

\* Blocks go on: some witness produces (the witness plugins try every slot),
\* and applying a block does not stop half way.
Fairness == WF_scheduleVars(ScheduleNext /\ BeginBlock) /\ WF_scheduleVars(ScheduleNext /\ end_block)
ScheduleSpec == ScheduleInit /\ [][ScheduleNext]_scheduleVars /\ Fairness

-----------------------------------------------------------------------------
(* Properties. *)

ScheduleTypeOK ==
  /\ registered \subseteq Witnesses /\ keyed \subseteq registered
  /\ votes \in [Witnesses -> 0 .. MaxVotes]
  /\ virtual \in [Witnesses -> [position : Times, last_update : Times, scheduled : Times]]
  /\ unconfirmed \in [Witnesses -> 0 .. Day + 1]
  /\ current_virtual_time \in Times
  /\ shuffled \in BoundedSeq(registered, MaxMiners) /\ IsInjective(shuffled)
  /\ last_hardfork \in 0 .. NumHardforks
  /\ head \in 0 .. MaxMiners - 1 /\ current_aslot \in 0 .. Slots - 1

\* Virtual times never run over: no witness's turn is in the past, and no
\* witness has run past the end of its lap, so that Lap - virtual_position
\* (database.cpp 1430) and the differences of 128-bit times never wrap, in
\* any order of votes, new witnesses, rounds and resets.
LapsNotOverrun ==
  \A w \in registered :
    /\ virtual[w].last_update <= current_virtual_time
    /\ current_virtual_time <= virtual[w].scheduled
    /\ virtual[w].position + votes[w] * (current_virtual_time - virtual[w].last_update) <= Lap

\* The code never takes the last key away: between blocks some scheduled
\* witness can sign the next one, although idle witnesses lose their keys in
\* the middle of a round (update_global_dynamic_data) and the schedule is
\* made only of witnesses that have one.
SomeoneCanSign == open = NoBlock => Range(shuffled) \cap keyed # {}

\* The participation the witness plugin consults is the number of filled
\* slots among the recent ones (database.cpp 2944-2949).
ParticipationCounts ==
  participation_count = Cardinality({i \in 1 .. Window : recent_slots_filled[i] = 1})

\* No minority of the scheduled witnesses decides on the fee: a value that
\* more than half of a new round agrees on is the median
\* (update_median_witness_props).
MedianOfMajority ==
  [][\A f \in {0, 1} :
       shuffled' # shuffled /\ 2 * Cardinality({w \in Range(shuffled') : fee'[w] = f}) > Len(shuffled')
         => median_fee' = f]_scheduleVars

\* A hard fork happens only when enough witnesses of the round that has just
\* been counted run it, so that they go on producing (BTCM_HARDFORK_REQUIRED_
\* WITNESSES; update_witness_schedule4, process_hardforks, _apply_block 2618).
HardforkHasProducers ==
  [][last_hardfork' # last_hardfork /\ head' = 0 =>
       Cardinality({w \in Range(shuffled) : running_version'[w] >= last_hardfork'}) >= Required]_scheduleVars

\* Once elections have come to rest, every witness with a key and a vote is
\* scheduled again and again: virtual time starves nobody, across overflows
\* and resets ("every one else takes turns being scheduled proportional to
\* their votes", witness_objects.hpp 48).
EveryoneHasATurn ==
  \A w \in Witnesses : settled /\ w \in keyed /\ votes[w] > 0 ~> w \in Range(shuffled)

\* When every witness runs the next hard fork and its time has come, it
\* happens: votes that were cast before are not lost in later rounds.
HardforkHappens ==
  settled /\ hardfork_due /\ NumHardforks = 1 /\ (\A w \in keyed : binary[w] = 1)
    /\ Cardinality(keyed) >= Required ~> last_hardfork = 1

\* What every round and every block keeps: virtual times within their laps, a
\* schedule somebody can sign for, and the count of filled slots.
ScheduleSound == ScheduleTypeOK /\ LapsNotOverrun /\ SomeoneCanSign /\ ParticipationCounts

\* What a new round decides, the fee or a hard fork, a majority of its
\* witnesses wants or runs.
MajorityDecides == MedianOfMajority /\ HardforkHasProducers

\* What has to happen in the end: everyone has a turn and a hard fork that all
\* are ready for takes place.
ScheduleProgresses == EveryoneHasATurn /\ HardforkHappens

=============================================================================
