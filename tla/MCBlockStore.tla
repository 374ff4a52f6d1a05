---------------------------- MODULE MCBlockStore ----------------------------
(***************************************************************************)
(* Instances of BlockStore: a chain of certified blocks, the last of them  *)
(* after a round that timed out, and a proposal on a fork that no quorum   *)
(* votes for.                                                              *)
(***************************************************************************)
EXTENDS BlockStore

CONSTANTS g0, a1, b2, c3, d5, f4

MCParent == [x \in {a1, b2, c3, d5, f4} |->
                CASE x = a1 -> g0 [] x = b2 -> a1 [] x = c3 -> b2 [] x = d5 -> c3 [] x = f4 -> a1]
\* The QC of c3, which commits b2, is on a fork.
MCParentFork == [MCParent EXCEPT ![d5] = b2]
MCRoundOf == [x \in Blocks |->
                CASE x = g0 -> 0 [] x = a1 -> 1 [] x = b2 -> 2 [] x = c3 -> 3 [] x = d5 -> 5
                  [] x = f4 -> 4]

\* What a peer has: its highest QC, what it ordered and what it committed.
Peer(hqc, hoc, hcc) == [hqc |-> hqc, hoc |-> hoc, hcc |-> hcc, tc |-> 0]
Votes(x) == [block |-> x, certified |-> None]
QC(x) == [block |-> commit_info[x], certified |-> x]

\* With order votes the second peer has ordered c3 before a child of it is
\* certified in the next round.
MCSyncInfos == {Peer(b2, Votes(a1), Votes(a1)), Peer(d5, Votes(c3), Votes(b2))}
MCSyncInfosShort == {Peer(b2, Votes(a1), Votes(a1)), Peer(c3, Votes(b2), Votes(b2))}
MCSyncInfosQC == {Peer(b2, QC(b2), QC(b2)), Peer(d5, QC(c3), QC(c3))}

=============================================================================
