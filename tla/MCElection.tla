----------------------------- MODULE MCElection -----------------------------
(***************************************************************************)
(* Who is elected and who produces blocks: the votes; given the votes, the *)
(* schedule; and given the schedule, when a node makes its blocks.  A      *)
(* behaviour is about one of the three.                                    *)
(***************************************************************************)
EXTENDS Voting, WitnessSchedule, WitnessPlugin

VARIABLE part   \* what this behaviour is about

\* Chains of proxies longer than the depth that counts.
Chains == [voters |-> {"a", "b", "c", "d"}, most |-> 1, candidates |-> {"w"}, routes |-> {}]

\* Several ballots for an account, up to the limit, of either kind.
Ballots == [voters |-> {"a", "b"}, most |-> 1, candidates |-> {"w", "x", "y", "p"}, routes |-> {}]

\* Platforms and proxies, shares that come and go.
Mixed == [voters |-> {"a", "b", "c"}, most |-> 1, candidates |-> {"p"}, routes |-> {}]

\* Withdrawals with routes.
Routed == [voters |-> {"a", "b", "c"}, most |-> 2, candidates |-> {"w"}, routes |-> {<<"a", "b">>}]

MCVotingProfiles == {Chains, Ballots, Mixed, Routed}

\* Votes change and a new witness comes: virtual times.
Election == [votes |-> <<1, 1, 0>>, voted |-> {2, 3}, leaving |-> {}, fees |-> {}, missed |-> 0, newest |-> 0]

\* A fourth witness registers and is voted for.
Arrival == [votes |-> <<2, 1, 0, 0>>, voted |-> {4}, leaving |-> {4}, fees |-> {}, missed |-> 0, newest |-> 0]

\* Slots are missed and keys are lost, given up and set again.
Absence == [votes |-> <<1, 1, 1>>, voted |-> {}, leaving |-> {1}, fees |-> {}, missed |-> 2, newest |-> 0]

\* The witnesses change their fees.
Fees == [votes |-> <<2, 1, 1>>, voted |-> {}, leaving |-> {}, fees |-> {1, 2, 3}, missed |-> 0, newest |-> 0]

\* The witnesses install new software.
Software == [votes |-> <<2, 1, 1>>, voted |-> {}, leaving |-> {}, fees |-> {}, missed |-> 0, newest |-> 1]

MCScheduleProfiles ==
    {[p EXCEPT !.votes = [w \in Witnesses |-> IF w \in DOMAIN @ THEN @[w] ELSE 0]] :
       p \in {Election, Arrival, Absence, Fees, Software}}

\* The task is started within half a second and is done before it should wake
\* up again, or it is not.
InTime == [late |-> 2, work |-> 2]
TooLate == [late |-> 3, work |-> 2]

MCPluginProfiles == {InTime, TooLate}

\* The parts a behaviour is not about stay as they begin.
MCInit ==
    /\ VotingInit /\ ScheduleInit /\ PluginInit
    /\ part \in {"votes", "schedule", "plugin"}
    /\ part # "votes" => votingProfile = Mixed
    /\ part # "schedule" => scheduleProfile.fees # {}
    /\ part # "plugin" => clock = 0 /\ enabled /\ pluginProfile = InTime

Scheduling(A) == part = "schedule" /\ A /\ UNCHANGED <<part, votingVars, pluginVars>>

\* The clock has come to its bound.
Over == part = "plugin" /\ ~ InBounds /\ UNCHANGED <<part, votingVars, scheduleVars, pluginVars>>

MCNext ==
    \/ part = "votes" /\ VotingNext /\ UNCHANGED <<part, scheduleVars, pluginVars>>
    \/ Scheduling(ScheduleNext)
    \/ part = "plugin" /\ PluginNext /\ UNCHANGED <<part, votingVars, scheduleVars>>
    \/ Over

MCVars == <<part, votingVars, scheduleVars, pluginVars>>

MCSpec ==
    /\ MCInit /\ [][MCNext]_MCVars
    /\ WF_MCVars(Scheduling(ScheduleNext /\ BeginBlock))
    /\ WF_MCVars(Scheduling(ScheduleNext /\ end_block))

=============================================================================
