------------------------------ MODULE RoundState ------------------------------
(***************************************************************************)
(* The pacemaker of one validator in one epoch: RoundState, the timer task *)
(* it schedules, the path the timer's event takes (timer task -> channel   *)
(* to the EpochManager -> bounded queue to the RoundManager), and the      *)
(* RoundManager handlers that drive it.  Handlers run one at a time; the   *)
(* timer and the EpochManager are tasks of their own, so an event can be   *)
(* under way while the round it belongs to ends.                           *)
(***************************************************************************)
EXTENDS Integers, Sequences

CONSTANTS
    LastRound,    \* bound: the highest round of a certificate
    QueueSize,    \* internal_per_key_channel_size
    None          \* Option::None

ASSUME RoundStateAssumption ==
    /\ LastRound \in Nat
    /\ QueueSize \in Nat \ {0}

VARIABLES
    current_round,
    highest_ordered_round,
    round_index,      \* how far the current deadline is backed off
    timer,            \* the round the scheduled task will send, or None
    timeout_channel,  \* timeout_sender: rounds sent and not yet forwarded
    event_queue,      \* LocalTimeout events for the RoundManager
    vote_sent,        \* [round, is_timeout], or None
    timeout_sent,     \* the round of the RoundTimeout sent, or None
    pending_rounds,   \* the rounds of the messages in pending_votes
    echo_timeout,     \* pending_votes has returned EchoTimeout
    sync_info,        \* the block store's highest certificates
    enable_round_timeout_msg  \* configured: timeouts are messages, else part of a vote

sent == <<vote_sent, timeout_sent>>
pending_votes == <<pending_rounds, echo_timeout>>
queues == <<timeout_channel, event_queue>>
vars == <<current_round, highest_ordered_round, round_index, timer, queues, sent,
          pending_votes, sync_info, enable_round_timeout_msg>>

\* SyncInfo: rounds of the highest QC, ordered block and TC (0: none).
SyncInfo == {si \in [certified : 0 .. LastRound, ordered : 0 .. LastRound,
                     timeout : 0 .. LastRound] : si.ordered <= si.certified}

highest_round(si) == IF si.certified > si.timeout THEN si.certified ELSE si.timeout

\* RoundState::new on a block store with any certificates.
Init ==
    /\ current_round = 0
    /\ highest_ordered_round = 0
    /\ round_index = 0
    /\ timer = None
    /\ timeout_channel = << >>
    /\ event_queue = << >>
    /\ vote_sent = None
    /\ timeout_sent = None
    /\ pending_rounds = {}
    /\ echo_timeout = FALSE
    /\ sync_info \in SyncInfo
    /\ enable_round_timeout_msg \in BOOLEAN

-----------------------------------------------------------------------------
(* RoundState.                                                             *)

\* Mutant: forgets that genesis is ordered in round 0.
deadline_index_no_genesis(round, ordered) == round - ordered - 3

\* setup_deadline: rounds since the one that ordered the highest block.
deadline_index(round, ordered) ==
    IF ordered = 0
    THEN round - 1
    ELSE IF round < ordered + 3 THEN 0 ELSE round - ordered - 3

\* setup_timeout: replaces the scheduled task by one for the current round.
setup_timeout(round, ordered) ==
    /\ round_index' = deadline_index(round, ordered)
    /\ timer' = round

new_round(si) == highest_round(si) + 1

\* Mutant: what was sent in the old round is kept.
process_certificates_keeps_sent(si) ==
    LET ordered == IF si.ordered > highest_ordered_round
                   THEN si.ordered ELSE highest_ordered_round
    IN  /\ highest_ordered_round' = ordered
        /\ IF new_round(si) > current_round
           THEN /\ current_round' = new_round(si)
                /\ pending_rounds' = {}
                /\ echo_timeout' = FALSE
                /\ setup_timeout(new_round(si), ordered)
                /\ UNCHANGED sent
           ELSE UNCHANGED <<current_round, pending_votes, sent, timer, round_index>>

\* process_certificates
process_certificates(si) ==
    LET ordered == IF si.ordered > highest_ordered_round
                   THEN si.ordered ELSE highest_ordered_round
    IN  /\ highest_ordered_round' = ordered
        /\ IF new_round(si) > current_round
           THEN /\ current_round' = new_round(si)
                /\ pending_rounds' = {}
                /\ echo_timeout' = FALSE
                /\ vote_sent' = None
                /\ timeout_sent' = None
                /\ setup_timeout(new_round(si), ordered)
           ELSE UNCHANGED <<current_round, pending_votes, sent, timer, round_index>>

is_timeout_sent ==
    \/ timeout_sent # None
    \/ vote_sent # None /\ vote_sent.is_timeout

record_vote(vote) ==
    vote_sent' = IF vote.round = current_round THEN vote ELSE vote_sent

-----------------------------------------------------------------------------
(* RoundManager.                                                           *)

\* init: jump start from the certificates in the store; the vote of the
\* round, if it is in the consensus database, is remembered.
Start(last_vote) ==
    /\ current_round = 0
    /\ current_round' = new_round(sync_info)
    /\ highest_ordered_round' = sync_info.ordered
    /\ setup_timeout(new_round(sync_info), sync_info.ordered)
    /\ vote_sent' = IF last_vote # None /\ last_vote.round = new_round(sync_info)
                    THEN last_vote ELSE None
    /\ UNCHANGED <<queues, timeout_sent, pending_votes, sync_info,
                   enable_round_timeout_msg>>

\* Mutant: the handler returns at the first certificate that fails, before it
\* calls process_certificates for those that were inserted.
NewCertificatesReturnsEarly(si) ==
    /\ current_round > 0
    /\ si.certified >= sync_info.certified
    /\ si.ordered >= sync_info.ordered
    /\ si.timeout >= sync_info.timeout
    /\ sync_info' = si
    /\ \/ process_certificates(si)
       \/ UNCHANGED <<current_round, highest_ordered_round, round_index, timer, sent,
                      pending_votes>>
    /\ UNCHANGED <<queues, enable_round_timeout_msg>>

\* Certificates reach the block store (all of a message's, or those before
\* the first that fails); process_certificates is called in either case.
NewCertificates(si) ==
    /\ current_round > 0
    /\ si.certified >= sync_info.certified
    /\ si.ordered >= sync_info.ordered
    /\ si.timeout >= sync_info.timeout
    /\ sync_info' = si
    /\ process_certificates(si)
    /\ UNCHANGED <<queues, enable_round_timeout_msg>>

\* The vote for a proposal (process_verified_proposal).  The proposal was of
\* the current round when it was received; it may have waited for its payload
\* or for back pressure since.  vote_block refuses when a vote was sent.
Vote(round) ==
    /\ round <= current_round
    /\ round > highest_round(sync_info)
    /\ vote_sent = None
    /\ record_vote([round |-> round, is_timeout |-> FALSE])
    /\ UNCHANGED <<current_round, highest_ordered_round, round_index, timer, queues,
                   timeout_sent, pending_votes, sync_info, enable_round_timeout_msg>>

\* What process_local_timeout does after the timer is set again: sign and
\* broadcast.  When sync_only is set, or SafetyRules or the storage refuses
\* (~signs), nothing is recorded.
SendTimeout(round, signs) ==
    IF enable_round_timeout_msg
    THEN /\ timeout_sent' = IF timeout_sent = None /\ signs THEN round ELSE timeout_sent
         /\ UNCHANGED vote_sent
    ELSE /\ IF signs
            THEN record_vote([round |-> round, is_timeout |-> TRUE])
            ELSE UNCHANGED vote_sent
         /\ UNCHANGED timeout_sent

\* Mutant: the timer is not set again.
process_local_timeout_once(round, signs) ==
    IF round = current_round
    THEN SendTimeout(round, signs) /\ UNCHANGED <<timer, round_index>>
    ELSE UNCHANGED <<sent, timer, round_index>>

\* process_local_timeout: an event of another round is ignored.
process_local_timeout(round, signs) ==
    IF round = current_round
    THEN SendTimeout(round, signs) /\ setup_timeout(round, highest_ordered_round)
    ELSE UNCHANGED <<sent, timer, round_index>>

\* The RoundManager takes a LocalTimeout event from its queue.
LocalTimeout(signs) ==
    /\ current_round > 0
    /\ event_queue # << >>
    /\ event_queue' = Tail(event_queue)
    /\ process_local_timeout(Head(event_queue), signs)
    /\ UNCHANGED <<current_round, highest_ordered_round, timeout_channel,
                   pending_votes, sync_info, enable_round_timeout_msg>>

\* A vote or timeout that is added and nothing more (insert_vote,
\* insert_round_timeout); one of another round is not added.
InsertMessage(round) ==
    /\ current_round > 0
    /\ pending_rounds' = IF round = current_round
                         THEN pending_rounds \cup {round} ELSE pending_rounds
    /\ UNCHANGED <<current_round, highest_ordered_round, round_index, timer, queues,
                   sent, echo_timeout, sync_info, enable_round_timeout_msg>>

\* One that makes pending_votes return EchoTimeout, once in a round.
EchoTimeout(signs) ==
    /\ current_round > 0
    /\ ~echo_timeout
    /\ echo_timeout' = TRUE
    /\ pending_rounds' = pending_rounds \cup {current_round}
    /\ IF is_timeout_sent
       THEN UNCHANGED <<sent, timer, round_index>>
       ELSE process_local_timeout(current_round, signs)
    /\ UNCHANGED <<current_round, highest_ordered_round, queues, sync_info,
                   enable_round_timeout_msg>>

-----------------------------------------------------------------------------
(* The other tasks.                                                        *)

\* The scheduled task runs out.
TimerFires ==
    /\ timer # None
    /\ timeout_channel' = Append(timeout_channel, timer)
    /\ timer' = None
    /\ UNCHANGED <<current_round, highest_ordered_round, round_index, event_queue,
                   sent, pending_votes, sync_info, enable_round_timeout_msg>>

\* Mutant: a full queue drops the newest event (QueueStyle::FIFO).
push_drop_newest(queue, event) ==
    IF Len(queue) >= QueueSize THEN queue ELSE Append(queue, event)

\* PerKeyQueue::push with QueueStyle::KLAST: a full queue drops the oldest.
push(queue, event) ==
    IF Len(queue) >= QueueSize THEN Append(Tail(queue), event) ELSE Append(queue, event)

\* EpochManager::process_local_timeout
Forward ==
    /\ timeout_channel # << >>
    /\ timeout_channel' = Tail(timeout_channel)
    /\ event_queue' = push(event_queue, Head(timeout_channel))
    /\ UNCHANGED <<current_round, highest_ordered_round, round_index, timer, sent,
                   pending_votes, sync_info, enable_round_timeout_msg>>

Rounds == 1 .. LastRound + 1

\* A vote as RoundState remembers it: its round, and whether it is also a
\* timeout.
VoteSent == [round : Rounds, is_timeout : BOOLEAN]

Next ==
    \/ \E last_vote \in {None} \cup VoteSent :
          Start(last_vote)
    \/ \E si \in SyncInfo : NewCertificates(si)
    \/ \E round \in Rounds : Vote(round) \/ InsertMessage(round)
    \/ \E signs \in BOOLEAN : LocalTimeout(signs) \/ EchoTimeout(signs)
    \/ TimerFires
    \/ Forward

\* The manager is started, timers run out, the EpochManager and the
\* RoundManager take events from their queues.
Fairness ==
    /\ WF_vars(\E last_vote \in {None} \cup VoteSent :
                  Start(last_vote))
    /\ WF_vars(TimerFires)
    /\ WF_vars(Forward)
    /\ WF_vars(\E signs \in BOOLEAN : LocalTimeout(signs))

Spec == Init /\ [][Next]_vars /\ Fairness

-----------------------------------------------------------------------------
(* Properties.                                                             *)

\* "Current round is max{highest_qc, highest_tc} + 1" whenever a handler has
\* ended, although certificates arrive one by one and some fail.
RoundFollowsCertificates ==
    current_round > 0 => current_round = highest_round(sync_info) + 1

\* The vote and the timeout that are remembered, and the votes collected,
\* are of the current round: a late event or a leftover of an old round
\* never makes the validator believe it has timed out of this one.
SentInCurrentRound ==
    /\ vote_sent # None => vote_sent.round = current_round
    /\ timeout_sent # None => timeout_sent = current_round
    /\ pending_rounds \subseteq {current_round}

\* The timer of the current round is never lost: it is running, or its event
\* is on its way and will not be dropped for an older one.
TimerNeverLost ==
    current_round > 0 =>
        \/ timer = current_round
        \/ \E i \in DOMAIN timeout_channel : timeout_channel[i] = current_round
        \/ \E i \in DOMAIN event_queue : event_queue[i] = current_round

\* The back-off is an index (usize): no subtraction goes below zero, and it
\* never exceeds the number of rounds since the ordered one.
BackoffInRange ==
    /\ round_index >= 0
    /\ current_round > 0 => round_index < current_round

TypeOK ==
    /\ current_round \in 0 .. LastRound + 1
    /\ highest_ordered_round \in 0 .. LastRound
    /\ round_index \in 0 .. LastRound
    /\ timer \in Rounds \cup {None}
    /\ timeout_channel \in Seq(Rounds)
    /\ event_queue \in Seq(Rounds)
    /\ vote_sent \in VoteSent \cup {None}
    /\ timeout_sent \in Rounds \cup {None}
    /\ pending_rounds \subseteq Rounds
    /\ echo_timeout \in BOOLEAN
    /\ sync_info \in SyncInfo
    /\ enable_round_timeout_msg \in BOOLEAN

\* Timer events travel in the order of their rounds: the scheduled task is of
\* the current round, no event is of a later one, and an event that the
\* EpochManager has yet to forward is not older than any in the queue it
\* pushes to.
EventsInOrder ==
    /\ timer # None => timer = current_round
    /\ \A i \in DOMAIN timeout_channel : timeout_channel[i] <= current_round
    /\ \A i \in DOMAIN event_queue : event_queue[i] <= current_round
    /\ \A i, j \in DOMAIN timeout_channel :
          i <= j => timeout_channel[i] <= timeout_channel[j]
    /\ \A i \in DOMAIN event_queue, j \in DOMAIN timeout_channel :
          event_queue[i] <= timeout_channel[j]

\* The invariant module RoundStateProofs shows to be inductive: dropping the
\* oldest event for a new one loses no timer because of EventsInOrder.
IInv ==
    /\ TypeOK
    /\ RoundFollowsCertificates
    /\ SentInCurrentRound
    /\ BackoffInRange
    /\ EventsInOrder
    /\ TimerNeverLost

\* A local timeout of the current round is handled.
TimesOut == event_queue # << >> /\ Head(event_queue) = current_round

\* "This local timeout is going to send the timeout events once in interval
\* until the new round starts": a validator that stays in a round times out
\* again and again, whatever late events its queues hold.
TimeoutsRecur ==
    \A round \in Rounds : <>[](current_round = round) => []<>TimesOut

=============================================================================
