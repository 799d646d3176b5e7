------------------------------- MODULE MCRaft -------------------------------
(***************************************************************************)
(* Small instances of Raft for TLC.                                        *)
(***************************************************************************)
EXTENDS Raft, TLC

\* Peers that crash and apply alike, commands and goroutines are interchangeable.
Symmetry ==
    {f \in Permutations(Server) : \A s \in Server : /\ (s \in Crashing) = (f[s] \in Crashing)
                                                    /\ (s \in Applying) = (f[s] \in Applying)}
      \cup Permutations(Command) \cup Permutations(Goroutine)

(***************************************************************************)
(* nextIndex and matchIndex are read only while the peer is leader, and    *)
(* becomeLeaderLocked() sets them afresh; the votes counted are read only  *)
(* while it is candidate, and startElection() sets them afresh.  States    *)
(* that differ in what nobody reads are not told apart.                    *)
(***************************************************************************)
View ==
    <<persistentVars, state, commitIndex, applierVars, disk, networkVars,
      [s \in Server |-> IF state[s] = "Leader" THEN <<nextIndex[s], matchIndex[s]>> ELSE <<>>],
      [s \in Server |-> IF state[s] = "Candidate" THEN votes[s] ELSE {}]>>

\* bound: replicateToPeer() calls in flight at the same time are those of one leader to one peer.
CallsToOnePeer ==
    \A c, d \in appendCalls \cup snapCalls : c.from = d.from /\ c.to = d.to
=============================================================================
