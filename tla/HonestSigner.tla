----------------------------- MODULE HonestSigner -----------------------------
(***************************************************************************)
(* What SafetyRules promises, with nothing of how it keeps the promise: a  *)
(* validator that decides on one copy of its safety data, advances it with *)
(* every signature, and releases a signature only in the step that         *)
(* advances it, or not at all.  There is no cache, no key, no storage call *)
(* that fails and no restart; these are what module SafetyRules adds, and  *)
(* it implements this specification with safety_data being what is in the  *)
(* storage.  An honest validator of module TwoChain is this one, in one    *)
(* epoch.                                                                  *)
(***************************************************************************)
EXTENDS TwoChainRules

CONSTANTS Epochs, Proposals, None

VARIABLES safety_data, votes, timeouts, order_votes, proposals

vars == <<safety_data, votes, timeouts, order_votes, proposals>>

FreshSafetyData(epoch) ==
    [epoch |-> epoch, last_voted_round |-> 0, preferred_round |-> 0,
     one_chain_round |-> 0, highest_timeout_round |-> 0, last_vote |-> None]

Init ==
    /\ \E e \in Epochs : safety_data = FreshSafetyData(e)
    /\ votes = {}
    /\ timeouts = {}
    /\ order_votes = {}
    /\ proposals = {}

\* A later epoch starts with fresh safety data.
StartEpoch(epoch) ==
    /\ epoch > safety_data.epoch
    /\ safety_data' = FreshSafetyData(epoch)
    /\ UNCHANGED <<votes, timeouts, order_votes, proposals>>

\* A vote for a block of a round after every round voted or timed out in.
Vote(b) ==
    /\ b.epoch = safety_data.epoch
    /\ b.round > safety_data.last_voted_round
    /\ \E tc \in {NoTC} \cup Timeout : safe_to_vote(b.round, b.qc_round, tc)
    /\ safety_data' =
          observe_qc([safety_data EXCEPT !.last_voted_round = b.round, !.last_vote = b],
                     b.qc_round, b.qc_parent_round)
    /\ votes' \in {votes, votes \cup {b}}
    /\ UNCHANGED <<timeouts, order_votes, proposals>>

\* The last vote, released late or again.
RepeatVote ==
    /\ safety_data.last_vote # None
    /\ votes' = votes \cup {safety_data.last_vote}
    /\ UNCHANGED <<safety_data, timeouts, order_votes, proposals>>

SignTimeout(t) ==
    /\ t.round >= safety_data.last_voted_round
    /\ \E tc \in {NoTC} \cup Timeout :
          safe_to_timeout(t.round, t.hqc_round, tc, safety_data)
    /\ safety_data' =
          update_highest_timeout_round(
              [safety_data EXCEPT !.last_voted_round = t.round], t.round)
    /\ timeouts' \in {timeouts,
                      timeouts \cup {[epoch |-> safety_data.epoch, round |-> t.round,
                                      hqc_round |-> t.hqc_round]}}
    /\ UNCHANGED <<votes, order_votes, proposals>>

OrderVote(b) ==
    /\ b.epoch = safety_data.epoch
    /\ safe_for_order_vote(b.round, observe_qc(safety_data, b.round, b.qc_round))
    /\ safety_data' = observe_qc(safety_data, b.round, b.qc_round)
    /\ order_votes' \in {order_votes, order_votes \cup {b}}
    /\ UNCHANGED <<votes, timeouts, proposals>>

\* A proposal for a round after every round voted or timed out in, on a QC
\* no older than the preferred one.
Propose(b) ==
    /\ b.epoch = safety_data.epoch
    /\ b.round > safety_data.last_voted_round
    /\ b.qc_round >= safety_data.preferred_round
    /\ proposals' = proposals \cup {b}
    /\ UNCHANGED <<safety_data, votes, timeouts, order_votes>>

Next ==
    \/ \E epoch \in Epochs : StartEpoch(epoch)
    \/ \E b \in Proposals : Vote(b) \/ OrderVote(b) \/ Propose(b)
    \/ RepeatVote
    \/ \E t \in Timeout : SignTimeout(t)

Spec == Init /\ [][Next]_vars

=============================================================================
