----------------------------- MODULE MCLiveness -----------------------------
(***************************************************************************)
(* The liveness questions of two components, checked in one run: Init     *)
(* picks the scenario, and only that scenario's component then takes      *)
(* steps; the other one's variables keep a fixed idle value.              *)
(*   "forcing":  VotingSimulation, 4 nodes with 2 connections each and 2  *)
(*               Byzantine nodes voting +1 against the honest -1 votes;   *)
(*   "complete": VotingSimulation, 4 nodes with 3 connections each (all   *)
(*               pairs connected), no Byzantine node, no partition;       *)
(*   "joiner":   the fixed peer-lifecycle simulator on a 2-bit address   *)
(*               space, established peers {0, 1}, joining peer 2 told of  *)
(*               one of them, degree bound 1.                             *)
(* The voting scenarios start 2 nodes and have no partition.              *)
(***************************************************************************)
EXTENDS Naturals

CONSTANT None   \* a lookup without result (DiscoveryRouter)

VARIABLES conn, part, byz, active, committed, votes, stopped,
          rel, inbox, outbox, phase, cursor, maint,
          scenario   \* "forcing", "complete" or "joiner"

voteVars      == <<conn, part, byz, active, committed, votes, stopped>>
lifecycleVars == <<rel, inbox, outbox, phase, cursor, maint>>
vars          == <<voteVars, lifecycleVars, scenario>>

MCNodes == {0, 1, 2, 3}

Forcing == INSTANCE VoteSimulation
    WITH Nodes <- MCNodes, ConnectionsPerNode <- 2, StartingNodes <- 2,
         ByzantinePct <- 50, ReverseByzantine <- FALSE, IllegalResistance <- FALSE,
         PartitionMode <- "none", PartitionPct <- 50

Complete == INSTANCE VoteSimulation
    WITH Nodes <- MCNodes, ConnectionsPerNode <- 3, StartingNodes <- 2,
         ByzantinePct <- 0, ReverseByzantine <- FALSE, IllegalResistance <- FALSE,
         PartitionMode <- "none", PartitionPct <- 50

\* NetworkSimulator.peers iteration order of the joiner scenario.
JoinerOrder == <<1, 0, 2>>

Joiner == INSTANCE PeerLifecycle
    WITH Bits <- 2, Established <- {0, 1}, Joining <- {2}, Order <- JoinerOrder,
         MaxConnections <- 1, InitialIdentified <- 1, MaxHops <- 10

Scenarios == {"forcing", "complete", "joiner"}

\* The voting configuration of the scenario that runs.
ByScenario(f, c) == IF scenario = "forcing" THEN f ELSE c

\* The fixed values of the component that does not run.
VoteIdle ==
    /\ conn = [n \in MCNodes |-> {}] /\ part = [n \in MCNodes |-> 0]
    /\ byz = {} /\ active = {} /\ committed = {}
    /\ votes = [n \in MCNodes |-> [m \in MCNodes |-> 0]] /\ stopped = TRUE

LifecycleIdle ==
    /\ rel = [p \in Joiner!Peers |-> [q \in Joiner!Peers |-> Joiner!Unknown]]
    /\ inbox = [p \in Joiner!Peers |-> {}] /\ outbox = {}
    /\ phase = "discover" /\ cursor = 1 /\ maint = {}

Init ==
    /\ scenario \in Scenarios
    /\ IF scenario = "joiner" THEN Joiner!Init /\ VoteIdle
                              ELSE ByScenario(Forcing!Init, Complete!Init) /\ LifecycleIdle

Next ==
    /\ IF scenario = "joiner" THEN Joiner!Next /\ UNCHANGED voteVars
                              ELSE ByScenario(Forcing!Next, Complete!Next) /\ UNCHANGED lifecycleVars
    /\ UNCHANGED scenario

\* Weak fairness of the complete scenario's round, as VoteSimulation's
\* Fairness argues it from run_full_simulation's loop, and PeerLifecycle's
\* Fairness for the joiner scenario: weak fairness of the round and strong
\* fairness of each random target a peer of the pair may draw.  The forcing
\* scenario is checked for safety only, and needs no fairness.
FairSpec ==
    /\ Init /\ [][Next]_vars
    /\ WF_vars(scenario = "complete" /\ Next)
    /\ WF_vars(scenario = "joiner" /\ Next)
    /\ \A pt \in Joiner!FairTarget :
          SF_vars(scenario = "joiner" /\ JoinerOrder[cursor] = pt[1]
                  /\ Joiner!DiscoverFor(pt[2]) /\ UNCHANGED <<voteVars, scenario>>)

TypeOK ==
    /\ scenario \in Scenarios
    /\ scenario = "joiner" => Joiner!TypeOK
    /\ scenario # "joiner" => Forcing!TypeOK

(* Forcing attack: with 2 Byzantine nodes out of 4 voting +1, no node     *)
(* ever commits, in any setup graph (VoteSimulation!NoForcedCommit).      *)
NoForcedCommit == scenario = "forcing" => Forcing!NoForcedCommit

(* On the complete honest graph every node eventually commits, the late   *)
(* ones through the +1 of respond_to_vote (VoteSimulation!                *)
(* EventuallyAllCommit).                                                  *)
EventuallyAllCommit == scenario = "complete" => Complete!EventuallyAllCommit

(* A joining peer told of a peer other than 0 eventually holds a          *)
(* Connected record, through phase-1 discovery, invite and acceptance     *)
(* (PeerLifecycle!JoinerWithNonZeroConnects).                             *)
JoinerWithNonZeroConnects == scenario = "joiner" => Joiner!JoinerWithNonZeroConnects

(* Every Pending record of a peer other than 0 is eventually left: the    *)
(* other peer's discovery and invite come, though process_invites ignores *)
(* invites from Prospect senders and eviction is one-sided                *)
(* (PeerLifecycle!PendingResolves).                                       *)
PendingResolves == scenario = "joiner" => Joiner!PendingResolves

=============================================================================
