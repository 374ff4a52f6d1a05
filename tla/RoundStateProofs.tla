--------------------------- MODULE RoundStateProofs ---------------------------
(***************************************************************************)
(* Safety of the pacemaker for every number of rounds and every size of    *)
(* the event queue: IInv is inductive.  Type correctness, the rounds and   *)
(* what is remembered of the current one are shown action by action; the   *)
(* timer's way through the channel and the queue is shown by a lemma for   *)
(* each operation on the two sequences.                                    *)
(***************************************************************************)
EXTENDS RoundState, TLAPS

-----------------------------------------------------------------------------
(* Facts about the operators of the model.                                 *)

LEMMA VoteSentFacts ==
    \A r \in Rounds :
        /\ [round |-> r, is_timeout |-> TRUE] \in VoteSent
        /\ [round |-> r, is_timeout |-> FALSE] \in VoteSent
        /\ [round |-> r, is_timeout |-> TRUE].round = r
        /\ [round |-> r, is_timeout |-> FALSE].round = r
<1>1. TRUE \in BOOLEAN /\ FALSE \in BOOLEAN
  BY Zenon
<1>2. \A r \in Rounds, t \in BOOLEAN :
         [round |-> r, is_timeout |-> t] \in VoteSent /\ [round |-> r, is_timeout |-> t].round = r
  BY Zenon DEF VoteSent
<1>3. QED
  BY <1>1, <1>2, Zenon

LEMMA SyncInfoFields ==
    \A si \in SyncInfo :
        /\ si.certified \in 0 .. LastRound /\ si.ordered \in 0 .. LastRound
        /\ si.timeout \in 0 .. LastRound
        /\ highest_round(si) \in 0 .. LastRound
        /\ new_round(si) = highest_round(si) + 1
        /\ new_round(si) \in Rounds
BY RoundStateAssumption DEF SyncInfo, highest_round, new_round, Rounds

\* The highest round of the certificates does not decrease.
LEMMA HighestRoundMonotone ==
    ASSUME NEW si \in SyncInfo, NEW sj \in SyncInfo,
           sj.certified >= si.certified, sj.timeout >= si.timeout
    PROVE  highest_round(sj) >= highest_round(si)
BY SyncInfoFields DEF highest_round

\* The back-off index is a natural number, less than the round: setup_deadline
\* subtracts only what it may.
LEMMA DeadlineIndexInRange ==
    ASSUME NEW round \in Rounds, NEW ordered \in 0 .. LastRound
    PROVE  /\ deadline_index(round, ordered) \in 0 .. LastRound
           /\ deadline_index(round, ordered) < round
BY RoundStateAssumption DEF deadline_index, Rounds

\* An event pushed to the queue is in it, whatever was dropped; and what else
\* is in it was there before.
LEMMA PushFacts ==
    ASSUME NEW queue \in Seq(Rounds), NEW event \in Rounds
    PROVE  /\ push(queue, event) \in Seq(Rounds)
           /\ \E i \in DOMAIN push(queue, event) : push(queue, event)[i] = event
           /\ \A i \in DOMAIN push(queue, event) :
                 \/ push(queue, event)[i] = event
                 \/ \E j \in DOMAIN queue : push(queue, event)[i] = queue[j]
           /\ \A j \in DOMAIN queue :
                 \/ \E i \in DOMAIN push(queue, event) : push(queue, event)[i] = queue[j]
                 \/ j = 1
<1>1. CASE Len(queue) >= QueueSize
  <2>1. Len(queue) >= 1
    BY <1>1, RoundStateAssumption
  <2>2. /\ Tail(queue) \in Seq(Rounds) /\ Len(Tail(queue)) = Len(queue) - 1
        /\ \A i \in 1 .. Len(queue) - 1 : Tail(queue)[i] = queue[i + 1]
    BY <2>1
  <2>3. /\ push(queue, event) = Append(Tail(queue), event)
        /\ push(queue, event) \in Seq(Rounds)
        /\ Len(push(queue, event)) = Len(queue)
        /\ push(queue, event)[Len(queue)] = event
        /\ \A i \in 1 .. Len(queue) - 1 : push(queue, event)[i] = queue[i + 1]
    BY <1>1, <2>1, <2>2 DEF push
  <2>4. DOMAIN queue = 1 .. Len(queue) /\ DOMAIN push(queue, event) = 1 .. Len(queue)
    BY <2>3
  <2>5. Len(queue) \in Nat /\ Len(queue) \in 1 .. Len(queue)
    BY <2>1
  <2>6. \A j \in 1 .. Len(queue) :
           j # 1 => j - 1 \in 1 .. Len(queue) /\ push(queue, event)[j - 1] = queue[j]
    BY <2>1, <2>3, <2>5
  <2>7. \A i \in 1 .. Len(queue) :
           i = Len(queue) \/ (i \in 1 .. Len(queue) - 1 /\ i + 1 \in 1 .. Len(queue))
    BY <2>5
  <2>8. QED
    BY <2>3, <2>4, <2>5, <2>6, <2>7
<1>2. CASE ~ (Len(queue) >= QueueSize)
  <2>1. /\ push(queue, event) = Append(queue, event)
        /\ push(queue, event) \in Seq(Rounds)
        /\ Len(push(queue, event)) = Len(queue) + 1
        /\ push(queue, event)[Len(queue) + 1] = event
        /\ \A i \in 1 .. Len(queue) : push(queue, event)[i] = queue[i]
    BY <1>2 DEF push
  <2>2. QED
    BY <2>1
<1>3. QED
  BY <1>1, <1>2

LEMMA TailFacts ==
    ASSUME NEW queue \in Seq(Rounds), queue # << >>
    PROVE  /\ Head(queue) = queue[1] /\ 1 \in DOMAIN queue /\ Head(queue) \in Rounds
           /\ Tail(queue) \in Seq(Rounds)
           /\ \A i \in DOMAIN Tail(queue) :
                 /\ i \in Nat /\ i >= 1
                 /\ i + 1 \in DOMAIN queue /\ Tail(queue)[i] = queue[i + 1]
           /\ \A j \in DOMAIN queue :
                 j # 1 => j - 1 \in DOMAIN Tail(queue) /\ Tail(queue)[j - 1] = queue[j]
OBVIOUS

-----------------------------------------------------------------------------
(* Type correctness, the round, and what is remembered of it.              *)

RoundInv == TypeOK /\ RoundFollowsCertificates /\ SentInCurrentRound /\ BackoffInRange

LEMMA RoundInvInit == Init => RoundInv
<1> SUFFICES ASSUME Init
             PROVE  RoundInv
  OBVIOUS
<1>1. echo_timeout \in BOOLEAN
  BY Zenon DEF Init
<1>2. /\ current_round = 0 /\ highest_ordered_round = 0 /\ round_index = 0
      /\ timer = None /\ timeout_channel = << >> /\ event_queue = << >>
      /\ vote_sent = None /\ timeout_sent = None /\ pending_rounds = {}
      /\ sync_info \in SyncInfo /\ enable_round_timeout_msg \in BOOLEAN
  BY DEF Init
<1>3. QED
  BY <1>1, <1>2, RoundStateAssumption
  DEF RoundInv, TypeOK, RoundFollowsCertificates, SentInCurrentRound, BackoffInRange

LEMMA StartRound ==
    ASSUME RoundInv, NEW last_vote \in {None} \cup VoteSent,
           Start(last_vote)
    PROVE  RoundInv'
<1>1. sync_info \in SyncInfo /\ sync_info' = sync_info
  BY DEF RoundInv, TypeOK, Start
<1>2. /\ current_round' = highest_round(sync_info) + 1
      /\ current_round' \in Rounds
      /\ highest_ordered_round' \in 0 .. LastRound
      /\ timer' = current_round'
  BY <1>1, SyncInfoFields DEF Start, setup_timeout
<1>3. round_index' \in 0 .. LastRound /\ round_index' < current_round'
  BY <1>1, SyncInfoFields, DeadlineIndexInRange DEF Start, setup_timeout
<1>4. /\ current_round = 0
      /\ UNCHANGED <<timeout_channel, event_queue, timeout_sent, pending_rounds,
                     echo_timeout, sync_info, enable_round_timeout_msg>>
  BY DEF Start, queues, pending_votes
<1>5. vote_sent' \in VoteSent \cup {None}
  BY DEF Start
<1>6. pending_rounds = {} /\ timeout_sent = None
  BY <1>4 DEF RoundInv, TypeOK, SentInCurrentRound, Rounds
<1>7. vote_sent' # None => vote_sent'.round = current_round'
  BY DEF Start
<1>8. TypeOK'
  BY <1>2, <1>3, <1>4, <1>5 DEF RoundInv, TypeOK, Rounds
<1>9. QED
  BY <1>1, <1>2, <1>3, <1>4, <1>6, <1>7, <1>8, RoundStateAssumption
  DEF RoundInv, RoundFollowsCertificates, SentInCurrentRound, BackoffInRange

LEMMA NewCertificatesRound ==
    ASSUME RoundInv, NEW si \in SyncInfo, NewCertificates(si)
    PROVE  /\ RoundInv'
           /\ current_round' >= current_round
           /\ \/ timer' = current_round'
              \/ UNCHANGED <<timer, current_round>>
<1> DEFINE ordered == IF si.ordered > highest_ordered_round
                      THEN si.ordered ELSE highest_ordered_round
<1>1. /\ current_round > 0 /\ sync_info' = si
      /\ si.certified >= sync_info.certified /\ si.timeout >= sync_info.timeout
      /\ UNCHANGED <<timeout_channel, event_queue, enable_round_timeout_msg>>
      /\ highest_ordered_round' = ordered
  BY DEF NewCertificates, process_certificates, queues
<1>2. /\ sync_info \in SyncInfo /\ current_round \in Nat
      /\ current_round = highest_round(sync_info) + 1
  BY <1>1 DEF RoundInv, TypeOK, RoundFollowsCertificates
<1>3. new_round(si) >= current_round /\ new_round(si) \in Rounds
      /\ new_round(si) = highest_round(si) + 1
  BY <1>1, <1>2, HighestRoundMonotone, SyncInfoFields
<1>4. ordered \in 0 .. LastRound
  BY SyncInfoFields DEF RoundInv, TypeOK
<1> HIDE DEF ordered
<1>5. CASE new_round(si) > current_round
  <2>1. echo_timeout' \in BOOLEAN
    BY <1>5, Zenon DEF NewCertificates, process_certificates
  <2>2. /\ current_round' = new_round(si)
        /\ pending_rounds' = {}
        /\ vote_sent' = None /\ timeout_sent' = None
        /\ timer' = new_round(si)
        /\ round_index' = deadline_index(new_round(si), ordered)
    BY <1>5 DEF NewCertificates, process_certificates, setup_timeout, ordered
  <2>3. round_index' \in 0 .. LastRound /\ round_index' < current_round'
    BY <1>3, <1>4, <2>2, DeadlineIndexInRange
  <2>4. TypeOK'
    BY <1>1, <1>3, <1>4, <2>1, <2>2, <2>3 DEF RoundInv, TypeOK, Rounds
  <2>5. QED
    BY <1>1, <1>2, <1>3, <1>5, <2>2, <2>3, <2>4
    DEF RoundInv, RoundFollowsCertificates, SentInCurrentRound, BackoffInRange
<1>6. CASE ~ (new_round(si) > current_round)
  <2>1. UNCHANGED <<current_round, pending_rounds, echo_timeout, vote_sent,
                    timeout_sent, timer, round_index>>
    BY <1>6 DEF NewCertificates, process_certificates, pending_votes, sent
  <2>2. new_round(si) = current_round
    BY <1>2, <1>3, <1>6 DEF Rounds
  <2>3. TypeOK'
    BY <1>1, <1>4, <2>1 DEF RoundInv, TypeOK
  <2>4. QED
    BY <1>1, <1>2, <1>3, <2>1, <2>2, <2>3
    DEF RoundInv, RoundFollowsCertificates, SentInCurrentRound, BackoffInRange
<1>7. QED
  BY <1>5, <1>6

\* Handling a timeout of any round: the timer is set again when it is of the
\* current round, and a vote or timeout is remembered only then.
LEMMA ProcessTimeoutFacts ==
    ASSUME RoundInv, current_round > 0, NEW round \in Rounds, NEW signs \in BOOLEAN,
           process_local_timeout(round, signs), UNCHANGED current_round
    PROVE  /\ round = current_round => timer' = current_round
           /\ round # current_round => timer' = timer
           /\ timer' \in Rounds \cup {None}
           /\ round_index' \in 0 .. LastRound /\ round_index' < current_round
           /\ vote_sent' \in VoteSent \cup {None}
           /\ timeout_sent' \in Rounds \cup {None}
           /\ vote_sent' # None => vote_sent'.round = current_round
           /\ timeout_sent' # None => timeout_sent' = current_round
<1>1. CASE round = current_round
  <2>1. /\ SendTimeout(round, signs)
        /\ round_index' = deadline_index(round, highest_ordered_round)
        /\ timer' = round
    BY <1>1 DEF process_local_timeout, setup_timeout
  <2>2. highest_ordered_round \in 0 .. LastRound
    BY DEF RoundInv, TypeOK
  <2>3. round_index' \in 0 .. LastRound /\ round_index' < current_round
    BY <1>1, <2>1, <2>2, DeadlineIndexInRange
  <2>4. /\ vote_sent' \in {vote_sent, [round |-> round, is_timeout |-> TRUE]}
        /\ timeout_sent' \in {timeout_sent, round}
    BY <2>1 DEF SendTimeout, record_vote
  <2>5. /\ [round |-> round, is_timeout |-> TRUE] \in VoteSent
        /\ [round |-> round, is_timeout |-> TRUE].round = round
    BY VoteSentFacts
  <2>6. QED
    BY <1>1, <2>1, <2>3, <2>4, <2>5 DEF RoundInv, TypeOK, SentInCurrentRound
<1>2. CASE round # current_round
  BY <1>2 DEF process_local_timeout, sent, RoundInv, TypeOK, SentInCurrentRound,
              BackoffInRange
<1>3. QED
  BY <1>1, <1>2

LEMMA LocalTimeoutRound ==
    ASSUME RoundInv, NEW signs \in BOOLEAN, LocalTimeout(signs)
    PROVE  RoundInv'
<1>1. /\ current_round > 0 /\ event_queue # << >> /\ event_queue' = Tail(event_queue)
      /\ process_local_timeout(Head(event_queue), signs)
      /\ UNCHANGED <<current_round, highest_ordered_round, timeout_channel,
                     pending_rounds, echo_timeout, sync_info, enable_round_timeout_msg>>
  BY DEF LocalTimeout, pending_votes
<1>2. /\ event_queue \in Seq(Rounds) /\ Head(event_queue) \in Rounds
      /\ Tail(event_queue) \in Seq(Rounds)
  BY <1>1, TailFacts DEF RoundInv, TypeOK
<1>3. /\ timer' \in Rounds \cup {None}
      /\ round_index' \in 0 .. LastRound /\ round_index' < current_round
      /\ vote_sent' \in VoteSent \cup {None}
      /\ timeout_sent' \in Rounds \cup {None}
      /\ vote_sent' # None => vote_sent'.round = current_round
      /\ timeout_sent' # None => timeout_sent' = current_round
  BY <1>1, <1>2, ProcessTimeoutFacts
<1>4. QED
  BY <1>1, <1>2, <1>3
  DEF RoundInv, TypeOK, RoundFollowsCertificates, SentInCurrentRound, BackoffInRange

LEMMA EchoTimeoutRound ==
    ASSUME RoundInv, NEW signs \in BOOLEAN, EchoTimeout(signs)
    PROVE  RoundInv' /\ (timer' = current_round \/ UNCHANGED timer)
<1>1. /\ current_round > 0 /\ echo_timeout' = TRUE
      /\ pending_rounds' = pending_rounds \cup {current_round}
      /\ UNCHANGED <<current_round, highest_ordered_round, timeout_channel, event_queue,
                     sync_info, enable_round_timeout_msg>>
  BY DEF EchoTimeout, queues
<1>2. current_round \in Rounds
  BY <1>1 DEF RoundInv, TypeOK, Rounds
<1>3. /\ timer' = current_round \/ UNCHANGED timer
      /\ timer' \in Rounds \cup {None}
      /\ round_index' \in 0 .. LastRound /\ round_index' < current_round
      /\ vote_sent' \in VoteSent \cup {None}
      /\ timeout_sent' \in Rounds \cup {None}
      /\ vote_sent' # None => vote_sent'.round = current_round
      /\ timeout_sent' # None => timeout_sent' = current_round
  <2>1. CASE is_timeout_sent
    BY <1>1, <2>1 DEF EchoTimeout, sent, RoundInv, TypeOK, SentInCurrentRound,
                      BackoffInRange
  <2>2. CASE ~ is_timeout_sent
    BY <1>1, <1>2, <2>2, ProcessTimeoutFacts DEF EchoTimeout
  <2>3. QED
    BY <2>1, <2>2
<1>4. QED
  BY <1>1, <1>2, <1>3
  DEF RoundInv, TypeOK, RoundFollowsCertificates, SentInCurrentRound, BackoffInRange

LEMMA VoteRound ==
    ASSUME RoundInv, NEW round \in Rounds, Vote(round)
    PROVE  RoundInv'
<1>1. vote_sent' \in {vote_sent, [round |-> round, is_timeout |-> FALSE]}
      /\ (vote_sent' # vote_sent => round = current_round)
  BY DEF Vote, record_vote
<1>2. /\ [round |-> round, is_timeout |-> FALSE] \in VoteSent
      /\ [round |-> round, is_timeout |-> FALSE].round = round
  BY VoteSentFacts
<1>3. QED
  BY <1>1, <1>2
  DEF Vote, queues, pending_votes, RoundInv, TypeOK, RoundFollowsCertificates,
      SentInCurrentRound, BackoffInRange

LEMMA RoundInvStep == RoundInv /\ [Next]_vars => RoundInv'
<1> SUFFICES ASSUME RoundInv, [Next]_vars
             PROVE  RoundInv'
  OBVIOUS
<1>1. CASE \E last_vote \in {None} \cup VoteSent :
              Start(last_vote)
  BY <1>1, StartRound
<1>2. CASE \E si \in SyncInfo : NewCertificates(si)
  BY <1>2, NewCertificatesRound
<1>3. CASE \E round \in Rounds : Vote(round)
  BY <1>3, VoteRound
<1>4. CASE \E round \in Rounds : InsertMessage(round)
  BY <1>4
  DEF InsertMessage, queues, sent, RoundInv, TypeOK, RoundFollowsCertificates,
      SentInCurrentRound, BackoffInRange
<1>5. CASE \E signs \in BOOLEAN : LocalTimeout(signs)
  BY <1>5, LocalTimeoutRound
<1>6. CASE \E signs \in BOOLEAN : EchoTimeout(signs)
  BY <1>6, EchoTimeoutRound
<1>7. CASE TimerFires
  BY <1>7
  DEF TimerFires, sent, pending_votes, RoundInv, TypeOK, RoundFollowsCertificates,
      SentInCurrentRound, BackoffInRange
<1>8. CASE Forward
  <2>1. /\ Head(timeout_channel) \in Rounds /\ timeout_channel' \in Seq(Rounds)
        /\ event_queue' \in Seq(Rounds)
    BY <1>8, TailFacts, PushFacts DEF Forward, RoundInv, TypeOK
  <2>2. QED
    BY <1>8, <2>1
    DEF Forward, sent, pending_votes, RoundInv, TypeOK, RoundFollowsCertificates,
        SentInCurrentRound, BackoffInRange
<1>9. CASE UNCHANGED vars
  BY <1>9
  DEF vars, queues, sent, pending_votes, RoundInv, TypeOK, RoundFollowsCertificates,
      SentInCurrentRound, BackoffInRange
<1>10. QED
  BY <1>1, <1>2, <1>3, <1>4, <1>5, <1>6, <1>7, <1>8, <1>9 DEF Next

-----------------------------------------------------------------------------
(* The timer and its events.                                               *)

TimerInv == EventsInOrder /\ TimerNeverLost

\* Nothing that concerns the timer changes.
LEMMA TimerKept ==
    ASSUME TimerInv, UNCHANGED <<current_round, timer, timeout_channel, event_queue>>
    PROVE  TimerInv'
BY DEF TimerInv, EventsInOrder, TimerNeverLost

\* The timer is set for the current round, which may be a new one.
LEMMA TimerSet ==
    ASSUME TypeOK, TimerInv, current_round' \in Nat, current_round' >= current_round,
           timer' = current_round', UNCHANGED <<timeout_channel, event_queue>>
    PROVE  TimerInv'
<1>1. /\ current_round \in Nat
      /\ \A i \in DOMAIN timeout_channel : timeout_channel[i] \in Nat
      /\ \A i \in DOMAIN event_queue : event_queue[i] \in Nat
  BY RoundStateAssumption DEF TypeOK, Rounds
<1>2. EventsInOrder'
  BY <1>1 DEF TimerInv, EventsInOrder
<1>3. QED
  BY <1>2 DEF TimerInv, TimerNeverLost

\* The timer fires: its event is the last in the channel, and of the latest
\* round.
LEMMA TimerFiresInOrder ==
    ASSUME TypeOK, TimerInv, TimerFires
    PROVE  TimerInv'
<1>1. /\ timer = current_round /\ timer \in Rounds
      /\ timeout_channel' = Append(timeout_channel, current_round)
      /\ timer' = None /\ UNCHANGED <<current_round, event_queue>>
  BY DEF TimerFires, TimerInv, EventsInOrder, TypeOK
<1>2. /\ Len(timeout_channel) \in Nat
      /\ timeout_channel \in Seq(Rounds)
      /\ DOMAIN timeout_channel = 1 .. Len(timeout_channel)
      /\ DOMAIN timeout_channel' = 1 .. Len(timeout_channel) + 1
      /\ timeout_channel'[Len(timeout_channel) + 1] = current_round
      /\ \A i \in 1 .. Len(timeout_channel) : timeout_channel'[i] = timeout_channel[i]
  BY <1>1 DEF TypeOK
<1>3. \A i \in DOMAIN timeout_channel' :
         \/ i = Len(timeout_channel) + 1
         \/ i \in DOMAIN timeout_channel /\ i <= Len(timeout_channel)
  BY <1>2
<1>4. current_round \in Nat
  BY DEF TypeOK
<1>5. EventsInOrder'
  BY <1>1, <1>2, <1>3, <1>4 DEF TimerInv, EventsInOrder
<1>6. Len(timeout_channel) + 1 \in DOMAIN timeout_channel'
  BY <1>2
<1>7. TimerNeverLost'
  BY <1>1, <1>2, <1>6 DEF TimerNeverLost
<1>8. QED
  BY <1>5, <1>7 DEF TimerInv

\* The EpochManager forwards the oldest event: it is not older than what a
\* full queue drops for it.
LEMMA ForwardInOrder ==
    ASSUME TypeOK, TimerInv, Forward
    PROVE  TimerInv'
<1> DEFINE event == Head(timeout_channel)
<1>1. /\ timeout_channel # << >> /\ timeout_channel' = Tail(timeout_channel)
      /\ event_queue' = push(event_queue, event)
      /\ UNCHANGED <<current_round, timer>>
  BY DEF Forward
<1>2. timeout_channel \in Seq(Rounds) /\ event_queue \in Seq(Rounds)
  BY DEF TypeOK
<1>3. /\ event = timeout_channel[1] /\ 1 \in DOMAIN timeout_channel /\ event \in Rounds
      /\ \A i \in DOMAIN timeout_channel' :
            /\ i \in Nat /\ i >= 1 /\ i + 1 \in DOMAIN timeout_channel
            /\ timeout_channel'[i] = timeout_channel[i + 1]
      /\ \A j \in DOMAIN timeout_channel :
            j # 1 => /\ j - 1 \in DOMAIN timeout_channel'
                     /\ timeout_channel'[j - 1] = timeout_channel[j]
  BY <1>1, <1>2, TailFacts
<1> HIDE DEF event
<1>4. /\ \E i \in DOMAIN event_queue' : event_queue'[i] = event
      /\ \A i \in DOMAIN event_queue' :
            \/ event_queue'[i] = event
            \/ \E j \in DOMAIN event_queue : event_queue'[i] = event_queue[j]
      /\ \A j \in DOMAIN event_queue :
            (\E i \in DOMAIN event_queue' : event_queue'[i] = event_queue[j]) \/ j = 1
  <2> DEFINE pushed == push(event_queue, event)
  <2>1. /\ \E i \in DOMAIN pushed : pushed[i] = event
        /\ \A i \in DOMAIN pushed :
              pushed[i] = event \/ \E j \in DOMAIN event_queue : pushed[i] = event_queue[j]
        /\ \A j \in DOMAIN event_queue :
              (\E i \in DOMAIN pushed : pushed[i] = event_queue[j]) \/ j = 1
    <3>1. event_queue \in Seq(Rounds) /\ event \in Rounds
      BY <1>2, <1>3
    <3>2. QED
      BY <3>1, PushFacts
  <2>2. event_queue' = pushed
    BY <1>1
  <2> HIDE DEF pushed
  <2>3. QED
    BY <2>1, <2>2
<1>5. /\ event \in Nat /\ event <= current_round /\ current_round \in Nat
      /\ \A j \in DOMAIN timeout_channel : event <= timeout_channel[j]
      /\ \A i \in DOMAIN event_queue : event_queue[i] <= event
  <2>1. event \in Nat /\ current_round \in Nat
    BY <1>3, RoundStateAssumption DEF TypeOK, Rounds
  <2>2. \A j \in DOMAIN timeout_channel : j \in Nat /\ 1 <= j
    BY <1>2
  <2>3. QED
    BY <1>3, <2>1, <2>2 DEF TimerInv, EventsInOrder
<1>6. EventsInOrder'
  <2>1. \A i \in DOMAIN event_queue' : event_queue'[i] <= current_round
    BY <1>4, <1>5 DEF TimerInv, EventsInOrder
  <2>2. \A i, j \in DOMAIN timeout_channel' :
           i <= j => timeout_channel'[i] <= timeout_channel'[j]
    BY <1>3 DEF TimerInv, EventsInOrder
  <2>3. \A i \in DOMAIN event_queue', j \in DOMAIN timeout_channel' :
           event_queue'[i] <= timeout_channel'[j]
    BY <1>3, <1>4, <1>5 DEF TimerInv, EventsInOrder
  <2>4. QED
    BY <1>1, <1>3, <2>1, <2>2, <2>3 DEF TimerInv, EventsInOrder
<1>7. TimerNeverLost'
  <2> SUFFICES ASSUME current_round > 0
               PROVE  TimerNeverLost'
    BY <1>1 DEF TimerNeverLost
  <2>1. CASE timer = current_round
    BY <1>1, <2>1 DEF TimerNeverLost
  <2>2. CASE \E i \in DOMAIN timeout_channel : timeout_channel[i] = current_round
    <3>1. PICK i \in DOMAIN timeout_channel : timeout_channel[i] = current_round
      BY <2>2
    <3>2. CASE i = 1
      BY <1>1, <1>3, <1>4, <3>1, <3>2 DEF TimerNeverLost
    <3>3. CASE i # 1
      BY <1>1, <1>3, <3>1, <3>3 DEF TimerNeverLost
    <3>4. QED
      BY <3>2, <3>3
  <2>3. CASE \E j \in DOMAIN event_queue : event_queue[j] = current_round
    <3>1. PICK j \in DOMAIN event_queue : event_queue[j] = current_round
      BY <2>3
    <3>2. event = current_round
      BY <1>5, <3>1
    <3>3. QED
      BY <1>1, <1>4, <3>2 DEF TimerNeverLost
  <2>4. QED
    BY <2>1, <2>2, <2>3 DEF TimerInv, TimerNeverLost
<1>8. QED
  BY <1>6, <1>7 DEF TimerInv

\* The RoundManager takes an event: if it is of the current round the timer
\* is set again, otherwise no event of the current round is taken.
LEMMA LocalTimeoutInOrder ==
    ASSUME RoundInv, TimerInv, NEW signs \in BOOLEAN, LocalTimeout(signs)
    PROVE  TimerInv'
<1>1. /\ current_round > 0 /\ event_queue # << >> /\ event_queue' = Tail(event_queue)
      /\ process_local_timeout(Head(event_queue), signs)
      /\ UNCHANGED <<current_round, timeout_channel>>
  BY DEF LocalTimeout
<1>2. /\ Head(event_queue) = event_queue[1] /\ Head(event_queue) \in Rounds
      /\ \A i \in DOMAIN event_queue' :
            i + 1 \in DOMAIN event_queue /\ event_queue'[i] = event_queue[i + 1]
      /\ \A j \in DOMAIN event_queue :
            j # 1 => j - 1 \in DOMAIN event_queue' /\ event_queue'[j - 1] = event_queue[j]
  BY <1>1, TailFacts DEF RoundInv, TypeOK
<1>3. /\ Head(event_queue) = current_round => timer' = current_round
      /\ Head(event_queue) # current_round => timer' = timer
  BY <1>1, <1>2, ProcessTimeoutFacts
<1>4. EventsInOrder'
  BY <1>1, <1>2, <1>3 DEF TimerInv, EventsInOrder
<1>5. TimerNeverLost'
  <2>1. CASE Head(event_queue) = current_round
    BY <1>1, <1>3, <2>1 DEF TimerNeverLost
  <2>2. CASE Head(event_queue) # current_round
    <3>1. \A j \in DOMAIN event_queue : event_queue[j] = current_round => j # 1
      BY <1>2, <2>2
    <3>2. (\E j \in DOMAIN event_queue : event_queue[j] = current_round)
             => \E i \in DOMAIN event_queue' : event_queue'[i] = current_round
      BY <1>2, <3>1, Zenon
    <3>3. QED
      BY <1>1, <1>3, <2>2, <3>2 DEF TimerInv, TimerNeverLost
  <2>3. QED
    BY <2>1, <2>2
<1>6. QED
  BY <1>4, <1>5 DEF TimerInv

LEMMA TimerInvStep == RoundInv /\ RoundInv' /\ TimerInv /\ [Next]_vars => TimerInv'
<1> SUFFICES ASSUME RoundInv, RoundInv', TimerInv, [Next]_vars
             PROVE  TimerInv'
  OBVIOUS
<1> TypeOK /\ current_round \in Nat /\ current_round' \in Nat
  BY DEF RoundInv, TypeOK
<1>1. CASE \E last_vote \in {None} \cup VoteSent : Start(last_vote)
  BY <1>1, TimerSet DEF Start, setup_timeout, queues
<1>2. CASE \E si \in SyncInfo : NewCertificates(si)
  <2>1. UNCHANGED <<timeout_channel, event_queue>>
    BY <1>2 DEF NewCertificates, queues
  <2>2. QED
    BY <1>2, <2>1, NewCertificatesRound, TimerSet, TimerKept
<1>3. CASE \E round \in Rounds : Vote(round) \/ InsertMessage(round)
  BY <1>3, TimerKept DEF Vote, InsertMessage, queues
<1>4. CASE \E signs \in BOOLEAN : LocalTimeout(signs)
  BY <1>4, LocalTimeoutInOrder
<1>5. CASE \E signs \in BOOLEAN : EchoTimeout(signs)
  <2>1. UNCHANGED <<current_round, timeout_channel, event_queue>>
    BY <1>5 DEF EchoTimeout, queues
  <2>2. QED
    BY <1>5, <2>1, EchoTimeoutRound, TimerSet, TimerKept
<1>6. CASE TimerFires
  BY <1>6, TimerFiresInOrder
<1>7. CASE Forward
  BY <1>7, ForwardInOrder
<1>8. CASE UNCHANGED vars
  BY <1>8, TimerKept DEF vars, queues
<1>9. QED
  BY <1>1, <1>2, <1>3, <1>4, <1>5, <1>6, <1>7, <1>8 DEF Next

LEMMA TimerInvInit == Init => TimerInv
BY DEF Init, TimerInv, EventsInOrder, TimerNeverLost

-----------------------------------------------------------------------------
(* The theorems.                                                           *)

\* IInv holds in every reachable state of the pacemaker, for every number of
\* rounds and every size of the event queue.
THEOREM InductiveInvariant == Spec => []IInv
<1>1. Init => RoundInv /\ TimerInv
  BY RoundInvInit, TimerInvInit
<1>2. (RoundInv /\ TimerInv) /\ [Next]_vars => (RoundInv /\ TimerInv)'
  BY RoundInvStep, TimerInvStep
<1>3. RoundInv /\ TimerInv => IInv
  BY DEF RoundInv, TimerInv, IInv
<1>4. QED
  BY <1>1, <1>2, <1>3, PTL DEF Spec

\* The current round is always one past the highest certificate.
THEOREM RoundIsDriven == Spec => []RoundFollowsCertificates
BY InductiveInvariant, PTL DEF IInv

\* What is remembered as sent and collected is of the current round, although
\* timer events outlive their rounds.
THEOREM NothingLeftOver == Spec => []SentInCurrentRound
BY InductiveInvariant, PTL DEF IInv

\* The current round's timer is running or its event is on its way: the
\* bounded queue never drops the last one.
THEOREM TimerKeepsRunning == Spec => []TimerNeverLost
BY InductiveInvariant, PTL DEF IInv

\* The back-off never underflows and stays below the round.
THEOREM BackoffIsIndex == Spec => []BackoffInRange
BY InductiveInvariant, PTL DEF IInv

=============================================================================
