-------------------------- MODULE BlockStoreProofs --------------------------
(***************************************************************************)
(* For every tree of blocks and certificates the network can make, every   *)
(* sequence of messages, commits, state syncs and crashes, and every limit *)
(* of the block store: IInv of BlockStore is inductive, so that the ledger *)
(* of a node moves along one branch, and with it the roots of the tree,    *)
(* and every path and every child is found.                                *)
(*                                                                         *)
(* StoredInv is inductive too: no assertion about paths, children and the  *)
(* window root fails, neither the block of the ledger nor the highest      *)
(* certificates are lost from the database, and the tree can be rebuilt    *)
(* after a state sync that reached its target.  Commit callbacks that      *)
(* outlive the tree of their block stop the process or change nothing.     *)
(*                                                                         *)
(* With order votes ReachInv is inductive too: a node that has dealt with  *)
(* the certificates of a peer has ordered what the peer had ordered.       *)
(*                                                                         *)
(* Ancestors is a recursive function.  What it computes is proved by       *)
(* taking a block of least round among the blocks that would refute it.    *)
(***************************************************************************)
EXTENDS BlockStore, FiniteSetTheorems, WellFoundedInduction, TLAPS

-----------------------------------------------------------------------------
(* Blocks and rounds.                                                      *)

LEMMA BlockFacts ==
    /\ Genesis \in Blocks /\ None \notin Blocks /\ RoundOf[Genesis] = 0
    /\ \A b \in Blocks : RoundOf[b] \in Nat
    /\ \A b \in Blocks \ {Genesis} : Parent[b] \in Blocks /\ RoundOf[Parent[b]] < RoundOf[b]
    /\ CertifiedBlocks \subseteq Blocks
    /\ \A b \in Blocks \ {Genesis} : Parent[b] \in Certified
    /\ OrderCertified \subseteq CertifiedBlocks
BY BlockStoreAssumption DEF Certified

\* Every set of blocks has one of least round.
LEMMA LeastRound ==
    ASSUME NEW S \in SUBSET Blocks, S # {}
    PROVE  \E b \in S : \A c \in S : RoundOf[b] <= RoundOf[c]
<1> DEFINE rounds == {RoundOf[b] : b \in S}
<1>1. rounds \subseteq Nat /\ rounds # {}
  BY BlockFacts
<1>2. \E r \in rounds : \A q \in rounds : ~ (<<q, r>> \in OpToRel(<, Nat))
  BY <1>1, NatLessThanWellFounded, WFMin
<1>3. PICK r \in rounds : \A q \in rounds : ~ (q < r)
  BY <1>1, <1>2 DEF OpToRel
<1>4. PICK b \in S : r = RoundOf[b]
  OBVIOUS
<1>5. \A c \in S : ~ (RoundOf[c] < RoundOf[b])
  BY <1>3, <1>4
<1>6. QED
  BY <1>5, BlockFacts

\* Induction along Parent, for a set of blocks.
LEMMA BlockInduction ==
    ASSUME NEW S \in SUBSET Blocks, Genesis \in S,
           \A b \in Blocks \ {Genesis} : Parent[b] \in S => b \in S
    PROVE  \A b \in Blocks : b \in S
<1>1. SUFFICES ASSUME Blocks \ S # {} PROVE FALSE
  OBVIOUS
<1>2. PICK b \in Blocks \ S : \A c \in Blocks \ S : RoundOf[b] <= RoundOf[c]
  BY <1>1, LeastRound
<1>3. Parent[b] \in Blocks \ S /\ RoundOf[Parent[b]] < RoundOf[b]
  BY <1>2, BlockFacts
<1>4. QED
  BY <1>2, <1>3, BlockFacts

\* The recursion of Ancestors has a solution: the least set with the block that
\* is closed under Parent.
LEMMA AncestorsDefined ==
    Ancestors = [b \in Blocks |-> IF b = Genesis THEN {Genesis}
                                  ELSE {b} \cup Ancestors[Parent[b]]]
<1> DEFINE Closed(S) == \A d \in S \ {Genesis} : Parent[d] \in S
           f == [b \in Blocks |-> {c \in Blocks :
                    \A S \in SUBSET Blocks : b \in S /\ Closed(S) => c \in S}]
<1>1. \A b \in Blocks : b \in f[b] /\ f[b] \in SUBSET Blocks /\ Closed(f[b])
  BY BlockFacts
<1>2. f[Genesis] = {Genesis}
  <2>1. {Genesis} \in SUBSET Blocks /\ Closed({Genesis})
    BY BlockFacts
  <2>2. f[Genesis] \subseteq {Genesis}
    BY <2>1, BlockFacts
  <2>3. QED
    BY <1>1, <2>2, BlockFacts
<1>3. \A b \in Blocks \ {Genesis} : f[b] = {b} \cup f[Parent[b]]
  <2>1. SUFFICES ASSUME NEW b \in Blocks \ {Genesis}
                 PROVE  f[b] = {b} \cup f[Parent[b]]
    OBVIOUS
  <2>2. Parent[b] \in Blocks
    BY BlockFacts
  <2>3. f[b] \subseteq {b} \cup f[Parent[b]]
    <3>1. /\ {b} \cup f[Parent[b]] \in SUBSET Blocks /\ b \in {b} \cup f[Parent[b]]
          /\ Closed({b} \cup f[Parent[b]])
      <4> HIDE DEF f
      <4>1. QED
        BY <1>1, <2>2
    <3>2. QED
      BY <3>1
  <2>4. {b} \cup f[Parent[b]] \subseteq f[b]
    <3>1. \A S \in SUBSET Blocks : b \in S /\ Closed(S) => Parent[b] \in S
      OBVIOUS
    <3>2. QED
      BY <2>2, <3>1
  <2>5. QED
    BY <2>3, <2>4
<1> HIDE DEF f
<1>4. f = [b \in Blocks |-> IF b = Genesis THEN {Genesis} ELSE {b} \cup f[Parent[b]]]
  <2>1. f = [b \in Blocks |-> f[b]]
    BY DEF f
  <2>2. QED
    BY <1>2, <1>3, <2>1
<1>5. QED
  BY <1>4 DEF Ancestors

\* One step up, and the type.
LEMMA AncestorsStep ==
    /\ Ancestors[Genesis] = {Genesis}
    /\ \A b \in Blocks \ {Genesis} : Ancestors[b] = {b} \cup Ancestors[Parent[b]]
    /\ \A b \in Blocks : b \in Ancestors[b] /\ Ancestors[b] \subseteq Blocks
<1>1. \A b \in Blocks : Ancestors[b] = IF b = Genesis THEN {Genesis}
                                       ELSE {b} \cup Ancestors[Parent[b]]
  BY AncestorsDefined
<1>2. \A b \in Blocks : b \in {c \in Blocks : Ancestors[c] \subseteq Blocks}
  <2> DEFINE S == {c \in Blocks : Ancestors[c] \subseteq Blocks}
  <2>1. Genesis \in S
    BY <1>1, BlockFacts
  <2>2. \A b \in Blocks \ {Genesis} : Parent[b] \in S => b \in S
    BY <1>1, BlockFacts
  <2> HIDE DEF S
  <2>3. \A b \in Blocks : b \in S
    BY <2>1, <2>2, BlockInduction DEF S
  <2>4. QED
    BY <2>3 DEF S
<1>3. QED
  BY <1>1, <1>2, BlockFacts

\* An ancestor is older; the ancestors of an ancestor are ancestors; all but
\* the block itself are certified; and of two ancestors of one block the older
\* is an ancestor of the younger.
LEMMA AncestorFacts ==
    ASSUME NEW b \in Blocks, NEW c \in Ancestors[b]
    PROVE  /\ c \in Blocks /\ RoundOf[c] <= RoundOf[b]
           /\ c # b => RoundOf[c] < RoundOf[b] /\ b # Genesis /\ c \in Ancestors[Parent[b]]
           /\ c # b => c \in Certified
           /\ Ancestors[c] \subseteq Ancestors[b]
           /\ \A d \in Ancestors[b] : RoundOf[c] <= RoundOf[d] => c \in Ancestors[d]
<1> DEFINE Older == {x \in Blocks : \A y \in Ancestors[x] :
                        /\ RoundOf[y] <= RoundOf[x]
                        /\ y # x => RoundOf[y] < RoundOf[x] /\ y \in Certified
                        /\ Ancestors[y] \subseteq Ancestors[x]}
           Linear == {x \in Blocks : \A y, z \in Ancestors[x] :
                        RoundOf[y] <= RoundOf[z] => y \in Ancestors[z]}
<1>1. \A x \in Blocks : x \in Older
  <2>1. Genesis \in Older
    BY AncestorsStep, BlockFacts
  <2>2. \A x \in Blocks \ {Genesis} : Parent[x] \in Older => x \in Older
    <3>1. SUFFICES ASSUME NEW x \in Blocks \ {Genesis}, Parent[x] \in Older,
                          NEW y \in Ancestors[x]
                   PROVE  /\ RoundOf[y] <= RoundOf[x]
                          /\ y # x => RoundOf[y] < RoundOf[x] /\ y \in Certified
                          /\ Ancestors[y] \subseteq Ancestors[x]
      OBVIOUS
    <3>2. /\ Parent[x] \in Blocks /\ RoundOf[Parent[x]] < RoundOf[x]
          /\ Parent[x] \in Certified
          /\ RoundOf[x] \in Nat /\ RoundOf[Parent[x]] \in Nat
          /\ Ancestors[x] = {x} \cup Ancestors[Parent[x]]
      BY AncestorsStep, BlockFacts
    <3>3. CASE y = x
      BY <3>2, <3>3
    <3>4. CASE y \in Ancestors[Parent[x]]
      <4>1. /\ RoundOf[y] <= RoundOf[Parent[x]] /\ Ancestors[y] \subseteq Ancestors[Parent[x]]
            /\ y # Parent[x] => y \in Certified
        BY <3>1, <3>4
      <4>2. RoundOf[y] \in Nat
        BY <3>2, <3>4, AncestorsStep, BlockFacts
      <4>3. QED
        BY <3>2, <4>1, <4>2
    <3>5. QED
      BY <3>1, <3>2, <3>3, <3>4
  <2> HIDE DEF Older
  <2>3. Older \in SUBSET Blocks
    BY DEF Older
  <2>4. QED
    BY <2>1, <2>2, <2>3, BlockInduction
<1>2. \A x \in Blocks : x \in Linear
  <2>1. Genesis \in Linear
    BY AncestorsStep, BlockFacts
  <2>2. \A x \in Blocks \ {Genesis} : Parent[x] \in Linear => x \in Linear
    <3>1. SUFFICES ASSUME NEW x \in Blocks \ {Genesis}, Parent[x] \in Linear,
                          NEW y \in Ancestors[x], NEW z \in Ancestors[x],
                          RoundOf[y] <= RoundOf[z]
                   PROVE  y \in Ancestors[z]
      OBVIOUS
    <3>2. Ancestors[x] = {x} \cup Ancestors[Parent[x]] /\ Parent[x] \in Blocks
      BY AncestorsStep, BlockFacts
    <3>3. CASE z = x
      BY <3>3
    <3>4. CASE z # x /\ y = x
      <4>1. RoundOf[z] < RoundOf[x] /\ RoundOf[z] \in Nat /\ RoundOf[x] \in Nat
        BY <1>1, <3>4, AncestorsStep, BlockFacts
      <4>2. QED
        BY <3>1, <3>4, <4>1
    <3>5. CASE z # x /\ y # x
      BY <3>1, <3>2, <3>5
    <3>6. QED
      BY <3>3, <3>4, <3>5
  <2> HIDE DEF Linear
  <2>3. Linear \in SUBSET Blocks
    BY DEF Linear
  <2>4. QED
    BY <2>1, <2>2, <2>3, BlockInduction
<1>3. c # b => b # Genesis /\ c \in Ancestors[Parent[b]]
  BY AncestorsStep
<1>4. c \in Blocks
  BY AncestorsStep
<1>5. QED
  BY <1>1, <1>2, <1>3, <1>4

-----------------------------------------------------------------------------
(* The chain.                                                              *)

\* An ordered block is certified or the genesis block.
LEMMA OrderedFacts ==
    /\ Ordered \subseteq Certified
    /\ Certified \subseteq Blocks
    /\ \A b \in Certified : commit_info[b] # None => commit_info[b] \in Decided
    /\ Chain \subseteq Blocks /\ Genesis \in Chain
    /\ Decided \subseteq Chain /\ Decided \subseteq Certified
<1>1. \A b \in Blocks : commit_info[b] # None => commit_info[b] \in Certified
  BY BlockFacts DEF commit_info, Certified
<1>2. Ordered \subseteq Certified
  <2>1. OrderCertified \subseteq Certified
    BY BlockFacts DEF Certified
  <2>2. \A b \in CertifiedBlocks : commit_info[b] # None => commit_info[b] \in Certified
    BY <1>1, BlockFacts
  <2>3. QED
    BY <2>1, <2>2 DEF Ordered
<1>3. Certified \subseteq Blocks
  BY BlockFacts DEF Certified
<1>4. /\ Chain \subseteq Blocks /\ Genesis \in Chain
      /\ Decided \subseteq Chain /\ Decided \subseteq Certified
  BY <1>2, <1>3, BlockFacts, AncestorsStep DEF Chain, Decided, Certified
<1>5. \A b \in Certified : commit_info[b] # None => commit_info[b] \in Decided
  <2>1. commit_info[Genesis] = Genesis
    BY BlockFacts DEF commit_info
  <2>2. \A b \in CertifiedBlocks : commit_info[b] # None => commit_info[b] \in Ordered
    BY DEF Ordered
  <2>3. QED
    BY <2>1, <2>2 DEF Certified, Decided
<1>6. QED
  BY <1>2, <1>3, <1>4, <1>5

\* It is one branch.
LEMMA ChainIsBranch ==
    ASSUME NEW a \in Chain, NEW b \in Chain, RoundOf[a] <= RoundOf[b]
    PROVE  a \in Ancestors[b]
<1>1. PICK x \in Ordered \cup {Genesis} : a \in Ancestors[x]
  BY DEF Chain
<1>2. PICK y \in Ordered \cup {Genesis} : b \in Ancestors[y]
  BY DEF Chain
<1>3. /\ x \in Blocks /\ y \in Blocks /\ RoundOf[x] \in Nat /\ RoundOf[y] \in Nat
      /\ x \in Certified /\ y \in Certified
  BY OrderedFacts, BlockFacts DEF Certified
<1>4. \A u, v \in Ordered \cup {Genesis} : RoundOf[u] <= RoundOf[v] => u \in Ancestors[v]
  <2>1. SUFFICES ASSUME NEW u \in Ordered \cup {Genesis}, NEW v \in Ordered \cup {Genesis},
                        RoundOf[u] <= RoundOf[v]
                 PROVE  u \in Ancestors[v]
    OBVIOUS
  <2>2. /\ u \in Blocks /\ v \in Certified /\ v \in Blocks
        /\ RoundOf[u] \in Nat /\ RoundOf[v] \in Nat
    BY OrderedFacts, BlockFacts DEF Certified
  <2>3. CASE u = Genesis
    <3>1. Genesis \in {c \in Blocks : Genesis \in Ancestors[c]}
      BY AncestorsStep, BlockFacts
    <3>2. \A c \in Blocks : c \in {d \in Blocks : Genesis \in Ancestors[d]}
      <4> DEFINE S == {d \in Blocks : Genesis \in Ancestors[d]}
      <4>1. \A d \in Blocks \ {Genesis} : Parent[d] \in S => d \in S
        BY AncestorsStep
      <4> HIDE DEF S
      <4>2. S \in SUBSET Blocks /\ Genesis \in S
        BY <3>1 DEF S
      <4>3. \A d \in Blocks : d \in S
        BY <4>1, <4>2, BlockInduction
      <4>4. QED
        BY <4>3 DEF S
    <3>3. QED
      BY <2>2, <2>3, <3>2
  <2>4. CASE u # Genesis /\ v = Genesis
    <3>1. RoundOf[Parent[u]] \in Nat /\ RoundOf[Parent[u]] < RoundOf[u]
      BY <2>2, <2>4, BlockFacts
    <3>2. QED
      BY <2>1, <2>2, <2>4, <3>1, BlockFacts
  <2>5. CASE u \in Ordered /\ v \in CertifiedBlocks
    BY <2>1, <2>2, <2>5, NetworkAssumption
  <2>6. QED
    BY <2>2, <2>3, <2>4, <2>5 DEF Certified
<1>5. CASE RoundOf[x] <= RoundOf[y]
  BY <1>1, <1>2, <1>3, <1>4, <1>5, AncestorFacts
<1>6. CASE RoundOf[y] <= RoundOf[x]
  BY <1>1, <1>2, <1>3, <1>4, <1>6, AncestorFacts
<1>7. QED
  BY <1>3, <1>5, <1>6

\* Ancestors of a block of the chain are on it.
LEMMA ChainIsClosed ==
    \A b \in Chain : Ancestors[b] \subseteq Chain /\ b \in Blocks /\ RoundOf[b] \in Nat
BY AncestorFacts, OrderedFacts, BlockFacts DEF Chain, Certified

-----------------------------------------------------------------------------
(* Handlers.                                                               *)

LEMMA OwnElements ==
    ASSUME NEW S, NEW s \in Seq(S)
    PROVE  s \in Seq(ToSet(s))
BY DEF ToSet

\* What is left after the first n steps.
LEMMA HandlerRest ==
    ASSUME NEW s, NEW p, Handler(s, p), NEW n \in 0 .. Len(s)
    PROVE  LET rest == SubSeq(s, n + 1, Len(s))
           IN  /\ Handler(rest, p)
               /\ rest # <<>> => n < Len(s) /\ rest[1] = s[n + 1]
<1> DEFINE S == ToSet(s)
           rest == SubSeq(s, n + 1, Len(s))
<1>1. s \in Seq(S) /\ Len(s) \in Nat
  BY DEF Handler
<1> HIDE DEF S
<1>2. /\ rest \in Seq(S) /\ Len(rest) = Len(s) - n
      /\ \A i \in 1 .. Len(rest) : rest[i] = s[i + n]
  BY <1>1
<1> HIDE DEF rest
<1>3. rest \in Seq(ToSet(rest))
  BY <1>2, OwnElements
<1>4. \A i \in 1 .. Len(rest) : StepOK(rest[i])
  BY <1>1, <1>2 DEF Handler
<1>5. \A i \in 1 .. Len(rest) - 1 : Follows(rest[i], rest[i + 1], p)
  <2>1. SUFFICES ASSUME NEW i \in 1 .. Len(rest) - 1
                 PROVE  Follows(rest[i], rest[i + 1], p)
    OBVIOUS
  <2>2. rest[i] = s[i + n] /\ rest[i + 1] = s[(i + n) + 1] /\ i + n \in 1 .. Len(s) - 1
    BY <1>1, <1>2, SMTT(30)
  <2>3. QED
    BY <2>2 DEF Handler
<1>6. rest # <<>> => MayEnd(rest[Len(rest)]) /\ n < Len(s) /\ rest[1] = s[n + 1]
  <2>1. SUFFICES ASSUME rest # <<>> PROVE MayEnd(rest[Len(rest)]) /\ n < Len(s)
                                          /\ rest[1] = s[n + 1]
    OBVIOUS
  <2>2. Len(rest) >= 1 /\ s # <<>>
    BY <1>1, <1>2, <2>1
  <2>3. rest[Len(rest)] = s[Len(s)] /\ n < Len(s) /\ rest[1] = s[n + 1]
    BY <1>1, <1>2, <2>2
  <2>4. QED
    BY <2>2, <2>3 DEF Handler
<1>7. QED
  BY <1>3, <1>4, <1>5, <1>6 DEF Handler, rest

\* A step that can come after any that may end a handler.
MayStart(step) ==
    step[1] \notin {"save_block", "tree_block", "tree_qc", "abort_pipeline", "sync",
                    "rebuild", "exit"}

\* One handler calls another.
LEMMA HandlerConcat ==
    ASSUME NEW s, NEW t, NEW p, Handler(s, p), s # <<>>, Handler(t, p),
           t # <<>> => MayStart(t[1])
    PROVE  Handler(s \o t, p) /\ s \o t # <<>> /\ (s \o t)[1] = s[1]
<1> DEFINE S == ToSet(s) \cup ToSet(t)
           u == s \o t
<1>1. s \in Seq(S) /\ t \in Seq(S) /\ Len(s) \in Nat /\ Len(t) \in Nat /\ Len(s) >= 1
  BY DEF Handler
<1> HIDE DEF S
<1>2. /\ u \in Seq(S) /\ Len(u) = Len(s) + Len(t)
      /\ \A i \in 1 .. Len(s) : u[i] = s[i]
      /\ \A i \in Len(s) + 1 .. Len(u) : u[i] = t[i - Len(s)]
  BY <1>1
<1> HIDE DEF u
<1>3. u \in Seq(ToSet(u))
  BY <1>2, OwnElements
<1>4. \A i \in 1 .. Len(u) : StepOK(u[i])
  <2>1. SUFFICES ASSUME NEW i \in 1 .. Len(u) PROVE StepOK(u[i])
    OBVIOUS
  <2>2. CASE i <= Len(s)
    BY <1>1, <1>2, <2>2 DEF Handler
  <2>3. CASE i > Len(s)
    <3>1. i - Len(s) \in 1 .. Len(t) /\ u[i] = t[i - Len(s)]
      BY <1>1, <1>2, <2>3
    <3>2. QED
      BY <3>1 DEF Handler
  <2>4. QED
    BY <1>1, <2>2, <2>3
<1>5. \A i \in 1 .. Len(u) - 1 : Follows(u[i], u[i + 1], p)
  <2>1. SUFFICES ASSUME NEW i \in 1 .. Len(u) - 1 PROVE Follows(u[i], u[i + 1], p)
    OBVIOUS
  <2>2. CASE i < Len(s)
    <3>1. u[i] = s[i] /\ u[i + 1] = s[i + 1] /\ i \in 1 .. Len(s) - 1
      BY <1>1, <1>2, <2>2
    <3>2. QED
      BY <3>1 DEF Handler
  <2>3. CASE i = Len(s)
    <3>1. u[i] = s[Len(s)] /\ u[i + 1] = t[1] /\ t # <<>>
      BY <1>1, <1>2, <2>3, SMTT(30)
    <3>2. MayEnd(s[Len(s)]) /\ MayStart(t[1])
      BY <3>1 DEF Handler
    <3>3. QED
      BY <3>1, <3>2 DEF MayEnd, MayStart, Follows
  <2>4. CASE i > Len(s)
    <3>1. u[i] = t[i - Len(s)] /\ u[i + 1] = t[(i - Len(s)) + 1]
          /\ i - Len(s) \in 1 .. Len(t) - 1
      BY <1>1, <1>2, <2>4
    <3>2. QED
      BY <3>1 DEF Handler
  <2>5. QED
    BY <1>1, <2>2, <2>3, <2>4
<1>6. MayEnd(u[Len(u)])
  <2>1. CASE t = <<>>
    <3>1. Len(u) = Len(s)
      BY <1>1, <1>2, <2>1
    <3>2. QED
      BY <1>1, <1>2, <3>1 DEF Handler
  <2>2. CASE t # <<>>
    <3>1. Len(t) >= 1 /\ u[Len(u)] = t[Len(t)]
      BY <1>1, <1>2, <2>2
    <3>2. QED
      BY <2>2, <3>1 DEF Handler
  <2>3. QED
    BY <2>1, <2>2
<1>7. u # <<>> /\ u[1] = s[1]
  BY <1>1, <1>2
<1>8. QED
  BY <1>3, <1>4, <1>5, <1>6, <1>7 DEF Handler, u

\* A handler that is not in the middle of an insertion or a state sync.
Quiet(steps, proc) == Handler(steps, proc) /\ (steps # <<>> => MayStart(steps[1]))

LEMMA QuietConcat ==
    ASSUME NEW s, NEW t, NEW p, Quiet(s, p), Quiet(t, p)
    PROVE  Quiet(s \o t, p)
<1>1. CASE s = <<>>
  <2>1. t \in Seq(ToSet(t))
    BY DEF Quiet, Handler
  <2>2. s \o t = t
    BY <1>1, <2>1
  <2>3. QED
    BY <2>2
<1>2. CASE s # <<>>
  BY <1>2, HandlerConcat DEF Quiet
<1>3. QED
  BY <1>1, <1>2

LEMMA QuietEmpty == \A p : Quiet(<<>>, p)
BY DEF Quiet, Handler, ToSet

\* One step by itself.
LEMMA QuietOne ==
    ASSUME NEW x, NEW p, StepOK(x), MayEnd(x), MayStart(x)
    PROVE  Quiet(<<x>>, p)
<1>1. <<x>> \in Seq(ToSet(<<x>>))
  BY DEF ToSet
<1>2. QED
  BY <1>1 DEF Quiet, Handler

\* The handlers of the round manager.
LEMMA InsertSingleQuorumCertSteps ==
    ASSUME NEW b \in Certified, NEW p
    PROVE  Quiet(InsertSingleQuorumCert(b), p)
<1> DEFINE s == InsertSingleQuorumCert(b)
<1>1. /\ Len(s) = 3 /\ s[1] = <<"get_qc_block", b>> /\ s[2] = <<"save_qc", b>>
      /\ s[3] = <<"tree_qc", b>> /\ s \in Seq(ToSet(s)) /\ s # <<>>
  BY DEF InsertSingleQuorumCert, ToSet
<1> HIDE DEF s
<1>2. \A i \in 1 .. 3 : StepOK(s[i])
  BY <1>1 DEF StepOK
<1>3. \A i \in 1 .. 2 : Follows(s[i], s[i + 1], p)
  BY <1>1 DEF Follows
<1>4. QED
  BY <1>1, <1>2, <1>3 DEF Quiet, Handler, MayStart, MayEnd, s

LEMMA InsertBlockSteps ==
    ASSUME NEW b \in Blocks \ {Genesis}, NEW p
    PROVE  Quiet(InsertBlock(b), p)
<1> DEFINE s == InsertBlock(b)
<1>1. /\ Len(s) = 3 /\ s[1] = <<"get_block", b>> /\ s[2] = <<"save_block", b>>
      /\ s[3] = <<"tree_block", b>> /\ s \in Seq(ToSet(s)) /\ s # <<>>
  BY DEF InsertBlock, ToSet
<1> HIDE DEF s
<1>2. \A i \in 1 .. 3 : StepOK(s[i])
  BY <1>1 DEF StepOK
<1>3. \A i \in 1 .. 2 : Follows(s[i], s[i + 1], p)
  BY <1>1 DEF Follows
<1>4. QED
  BY <1>1, <1>2, <1>3 DEF Quiet, Handler, MayStart, MayEnd, s

LEMMA InsertQuorumCertSteps ==
    ASSUME NEW b \in Certified, NEW p
    PROVE  Quiet(InsertQuorumCert(b), p)
<1> DEFINE s == InsertQuorumCert(b)
<1>1. /\ Len(s) = 2 /\ s[1] = <<"need_fetch", b>> /\ s[2] = <<"commit_qc", b>>
      /\ s \in Seq(ToSet(s)) /\ s # <<>>
  BY DEF InsertQuorumCert, ToSet
<1> HIDE DEF s
<1>2. \A i \in 1 .. 2 : StepOK(s[i])
  BY <1>1 DEF StepOK
<1>3. Follows(s[1], s[2], p)
  BY <1>1 DEF Follows
<1>4. QED
  BY <1>1, <1>2, <1>3 DEF Quiet, Handler, MayStart, MayEnd, s

LEMMA FetchQuorumCertSteps ==
    ASSUME NEW b \in Certified, NEW missing \in SUBSET (Blocks \ {Genesis}), NEW p
    PROVE  Quiet(FetchQuorumCert(b, missing), p)
<1>1. CASE missing = {}
  BY <1>1, InsertSingleQuorumCertSteps DEF FetchQuorumCert
<1>2. CASE missing # {}
  <2> DEFINE c == LowestOf(missing)
             x == <<"fetch", [qc |-> b, missing |-> missing \ {c}]>>
  <2>1. c \in missing
    BY <1>2, LeastRound DEF LowestOf
  <2> HIDE DEF c
  <2>2. Quiet(InsertSingleQuorumCert(Parent[c]), p) /\ Quiet(InsertBlock(c), p)
    BY <2>1, BlockFacts, InsertSingleQuorumCertSteps, InsertBlockSteps
  <2>3. Quiet(<<x>>, p)
    BY QuietOne DEF StepOK, MayEnd, MayStart
  <2>4. FetchQuorumCert(b, missing) = (InsertSingleQuorumCert(Parent[c]) \o InsertBlock(c)) \o <<x>>
    BY <1>2 DEF FetchQuorumCert, c
  <2> HIDE DEF x
  <2>5. QED
    BY <2>2, <2>3, <2>4, QuietConcat
<1>3. QED
  BY <1>1, <1>2

LEMMA AddCertsSteps ==
    ASSUME NEW si \in SyncInfos, NEW p
    PROVE  Quiet(AddCerts(si), p)
<1> DEFINE x == <<"need_sync", si>>
           y == IF order_vote_enabled THEN <<"order_cert", si.hoc>> ELSE <<"own_order_cert", si>>
           z == <<"add_tc", si>>
<1>1. /\ si.hqc \in Certified /\ si.hoc \in Cert
      /\ si.hoc.block \in Decided
  BY BlockStoreAssumption, NetworkAssumption DEF SyncInfo, Certified, Decided
<1>2. StepOK(x) /\ MayEnd(x) /\ MayStart(x)
  BY DEF StepOK, MayEnd, MayStart
<1>3. StepOK(z) /\ MayEnd(z) /\ MayStart(z)
  BY DEF StepOK, MayEnd, MayStart
<1>4. StepOK(y) /\ MayEnd(y) /\ MayStart(y)
  <2>1. CASE order_vote_enabled
    <3>1. si.hoc \in OrderingCert
      BY <1>1, <2>1 DEF OrderingCert
    <3>2. QED
      BY <2>1, <3>1 DEF StepOK, MayEnd, MayStart
  <2>2. CASE ~ order_vote_enabled
    BY <2>2 DEF StepOK, MayEnd, MayStart
  <2>3. QED
    BY <2>1, <2>2
<1>5. AddCerts(si) = ((<<x>> \o InsertQuorumCert(si.hqc)) \o <<y>>) \o <<z>>
  BY DEF AddCerts
<1> HIDE DEF x, y, z
<1>6. QED
  BY <1>1, <1>2, <1>3, <1>4, <1>5, QuietOne, QuietConcat, InsertQuorumCertSteps

LEMMA FastForwardSyncSteps ==
    ASSUME NEW si \in SyncInfos, NEW p
    PROVE  Quiet(FastForwardSync(si), p)
<1> DEFINE s == FastForwardSync(si)
<1>1. /\ Len(s) = 5 /\ s[1] = <<"resume", si>> /\ s[2] = <<"save_range", si>>
      /\ s[3] = <<"abort_pipeline", si>> /\ s[4] = <<"sync", si>> /\ s[5] = <<"rebuild", si>>
      /\ s \in Seq(ToSet(s)) /\ s # <<>>
  BY DEF FastForwardSync, ToSet
<1> HIDE DEF s
<1>2. \A i \in 1 .. 5 : StepOK(s[i])
  BY <1>1 DEF StepOK
<1>3. \A i \in 1 .. 4 : Follows(s[i], s[i + 1], p)
  BY <1>1 DEF Follows
<1>4. QED
  BY <1>1, <1>2, <1>3 DEF Quiet, Handler, MayStart, MayEnd, s

LEMMA TrySendSteps ==
    ASSUME NEW qcs \in SUBSET {b \in Certified : commit_info[b] # None}, NEW p
    PROVE  Quiet(TrySendForExecution(qcs), p)
<1>1. CASE qcs = {}
  BY <1>1, QuietEmpty DEF TrySendForExecution
<1>2. CASE qcs # {}
  <2> DEFINE b == LowestOf(qcs)
             x == <<"try_send", [block |-> commit_info[b], certified |-> b]>>
             y == <<"try_sends", qcs \ {b}>>
  <2>1. b \in qcs
    <3>1. qcs \in SUBSET Blocks
      BY OrderedFacts
    <3>2. QED
      BY <1>2, <3>1, LeastRound DEF LowestOf
  <2>2. TrySendForExecution(qcs) = <<x, y>>
    BY <1>2, Zenon DEF TrySendForExecution
  <2> HIDE DEF b
  <2>3. [block |-> commit_info[b], certified |-> b] \in OrderingCert
    BY <2>1, OrderedFacts DEF OrderingCert, Cert
  <2>4. StepOK(x) /\ MayStart(x)
    BY <2>3 DEF StepOK, MayStart
  <2>5. StepOK(y) /\ MayEnd(y) /\ Follows(x, y, p)
    BY <2>1 DEF StepOK, MayEnd, Follows
  <2> HIDE DEF x, y
  <2> DEFINE s == <<x, y>>
  <2>6. /\ Len(s) = 2 /\ s[1] = x /\ s[2] = y /\ s \in Seq(ToSet(s)) /\ s # <<>>
    BY DEF ToSet
  <2> HIDE DEF s
  <2>7. Quiet(s, p)
    BY <2>4, <2>5, <2>6 DEF Quiet, Handler
  <2>8. QED
    BY <2>2, <2>7 DEF s
<1>3. QED
  BY <1>1, <1>2

\* What is left after a step, if the next one does not depend on it.
LEMMA RestIsQuiet ==
    ASSUME NEW s, NEW p, Handler(s, p), NEW n \in 1 .. Len(s),
           s[n][1] \notin {"get_block", "save_block", "save_qc", "save_range", "abort_pipeline",
                           "sync"}
    PROVE  Quiet(SubSeq(s, n + 1, Len(s)), p)
<1> DEFINE rest == SubSeq(s, n + 1, Len(s))
<1>1. Len(s) \in Nat /\ n \in 0 .. Len(s)
  BY DEF Handler
<1>2. Handler(rest, p) /\ (rest # <<>> => n < Len(s) /\ rest[1] = s[n + 1])
  BY <1>1, HandlerRest
<1> HIDE DEF rest
<1>3. ASSUME rest # <<>> PROVE MayStart(rest[1])
  <2>1. n \in 1 .. Len(s) - 1 /\ rest[1] = s[n + 1]
    BY <1>1, <1>2, <1>3
  <2>2. Follows(s[n], s[n + 1], p)
    BY <2>1 DEF Handler
  <2>3. QED
    BY <2>1, <2>2 DEF Follows, MayStart
<1>4. QED
  BY <1>2, <1>3 DEF Quiet, rest

\* The ways in which a handler goes on.
LEMMA GoesOn ==
    ASSUME Handler(todo, process), todo # <<>>,
           todo[1][1] \notin {"get_block", "save_block", "save_qc", "save_range",
                              "abort_pipeline", "sync"}
    PROVE  /\ StepOK(todo[1])
           /\ Continue => Quiet(todo', process)
           /\ Fail => Quiet(todo', process)
           /\ \A steps : Quiet(steps, process) /\ ContinueWith(steps) => Quiet(todo', process)
<1>1. Len(todo) \in Nat /\ Len(todo) >= 1 /\ todo \in Seq(ToSet(todo))
  BY DEF Handler
<1>2. StepOK(todo[1])
  BY <1>1 DEF Handler
<1>3. Quiet(SubSeq(todo, 2, Len(todo)), process)
  BY <1>1, RestIsQuiet
<1>4. Tail(todo) = SubSeq(todo, 2, Len(todo))
  BY <1>1
<1>5. Continue <=> todo' = SubSeq(todo, 2, Len(todo))
  BY <1>1 DEF Continue, Skip
<1>6. \A steps : Quiet(steps, process) => Quiet(steps \o Tail(todo), process)
  BY <1>3, <1>4, QuietConcat
<1>7. QED
  BY <1>2, <1>3, <1>5, <1>6, QuietEmpty, Zenon DEF Fail, ContinueWith

-----------------------------------------------------------------------------
(* The invariant without the handler.                                      *)

TreeInv == TreeLinked /\ RootsInTree /\ PrunedInOrder

Core ==
    /\ TypeOK
    /\ TreeInv
    /\ ProofsOnChain
    /\ WrittenAhead
    /\ Running =>
          /\ \A b \in Blocks : b \in tree.id_to_block <=> stage[b] # "none"
          /\ PipelinesRun \/ PipelinesAborted

LEMMA CoreOfIInv ==
    IInv <=> Core /\ InsertsNewBlock /\ Handler(todo, process) /\ (Running => HandlerInStep)
BY DEF IInv, Core, TreeInv

\* It is enough for a step after which the handler does not insert a block or
\* call the state sync.
Calm(steps, proc) ==
    /\ Handler(steps, proc)
    /\ steps # <<>> => /\ steps[1][1] \notin {"save_block", "tree_block"}
                       /\ steps[1][1] = "sync" => proc # "running"

LEMMA CalmStep ==
    ASSUME Core', Calm(todo', process')
    PROVE  IInv'
<1>1. Handler(todo, process)'
  BY DEF Calm, Handler, StepOK, Follows, MayEnd, Cert, OrderingCert
<1>2. (Running => HandlerInStep)' /\ InsertsNewBlock'
  BY DEF Calm, Running, HandlerInStep, InsertsNewBlock
<1>3. QED
  BY <1>1, <1>2 DEF IInv, Core, TreeInv

LEMMA QuietIsCalm == \A steps, p : Quiet(steps, p) => Calm(steps, p)
BY DEF Quiet, Calm, MayStart

LEMMA QuietStep ==
    ASSUME Core', Quiet(todo', process')
    PROVE  IInv'
BY CalmStep, QuietIsCalm

\* What the invariant says of the tree is about its blocks and roots.
SameTree ==
    /\ tree'.id_to_block = tree.id_to_block /\ tree'.children = tree.children
    /\ tree'.window_root = tree.window_root /\ tree'.commit_root = tree.commit_root
    /\ tree'.ordered_root = tree.ordered_root
    /\ tree'.highest_commit_cert = tree.highest_commit_cert
    /\ tree'.pruned = tree.pruned

LEMMA TreeUnchanged ==
    ASSUME TreeInv, SameTree
    PROVE  TreeInv'
BY DEF TreeInv, SameTree, TreeLinked, RootsInTree, PrunedInOrder, AncestorsFirst

LEMMA TreeKept ==
    ASSUME TreeInv, UNCHANGED tree
    PROVE  TreeInv'
BY TreeUnchanged DEF SameTree

\* The pipelines see no more of the tree than its blocks and the ordered root.
LEMMA CoreUnchanged ==
    ASSUME Core, TypeOK', SameTree,
           UNCHANGED <<ledger, pre_committed, pipeline, process>>
    PROVE  Core'
<1>1. ProofsOnChain' /\ TreeInv'
  BY TreeUnchanged DEF Core, ProofsOnChain, pipeline, SameTree
<1>2. WrittenAhead'
  BY DEF Core, WrittenAhead, pipeline
<1>3. (Running => \A b \in Blocks : b \in tree.id_to_block <=> stage[b] # "none")'
  BY DEF Core, Running, pipeline, SameTree
<1>4. PipelinesRun => PipelinesRun'
  BY DEF PipelinesRun, Pending, pipeline, SameTree
<1>5. PipelinesAborted => PipelinesAborted'
  BY DEF PipelinesAborted, Pending, pipeline, SameTree
<1>6. QED
  BY <1>1, <1>2, <1>3, <1>4, <1>5 DEF Core, Running

\* A step that changes the handler, the database and what pre-commit may do.
LEMMA TodoStep ==
    ASSUME IInv, Calm(todo', process),
           db' \in [blocks : SUBSET Blocks, qcs : SUBSET Certified, tc : Nat],
           pre_commit_status' \in [round : Nat, paused : BOOLEAN],
           UNCHANGED <<tree, ledger, pre_committed, pipeline, latest_logical_time, process>>
    PROVE  IInv'
<1>1. TypeOK'
  BY DEF IInv, TypeOK, pipeline
<1>2. Core'
  BY <1>1, CoreOfIInv, CoreUnchanged DEF SameTree
<1>3. QED
  BY <1>2, CalmStep

\* ... or only the handler.
LEMMA OnlyTodoStep ==
    ASSUME IInv, Quiet(todo', process), OnlyTodo
    PROVE  IInv' /\ Quiet(todo', process)
<1>1. /\ db' \in [blocks : SUBSET Blocks, qcs : SUBSET Certified, tc : Nat]
      /\ pre_commit_status' \in [round : Nat, paused : BOOLEAN]
  BY DEF IInv, TypeOK, OnlyTodo, storage
<1>2. UNCHANGED <<tree, ledger, pre_committed, pipeline, latest_logical_time, process>>
  BY DEF OnlyTodo, storage, pipeline
<1>3. QED
  BY <1>1, <1>2, TodoStep, QuietIsCalm

-----------------------------------------------------------------------------
(* The actions that start a handler.                                       *)

LEMMA HandlerStarts ==
    ASSUME IInv,
           \/ \E b \in Blocks \ {Genesis} : ProcessProposal(b)
           \/ \E b \in CertifiedBlocks : NewQC(b)
           \/ \E b \in OrderCertified : NewOrderedCert(b)
           \/ \E si \in SyncInfos : SyncUp(si) \/ RecoverySyncUp(si)
    PROVE  IInv' /\ Quiet(todo', process)
<1>1. CASE \E b \in Blocks \ {Genesis} : ProcessProposal(b)
  BY <1>1, InsertBlockSteps, OnlyTodoStep DEF ProcessProposal
<1>2. CASE \E b \in CertifiedBlocks : NewQC(b)
  BY <1>2, InsertQuorumCertSteps, OnlyTodoStep DEF NewQC, Certified
<1>3. CASE \E b \in OrderCertified : NewOrderedCert(b)
  <2>1. PICK b \in OrderCertified : NewOrderedCert(b)
    BY <1>3
  <2> DEFINE x == <<"order_cert", [block |-> b, certified |-> None]>>
             steps == IF b \in tree.qcs THEN <<>> ELSE InsertQuorumCert(b)
  <2>2. b \in Certified /\ b \in Decided /\ b \in Blocks
    BY BlockFacts, OrderedFacts DEF Certified, Ordered, Decided
  <2>3. [block |-> b, certified |-> None] \in OrderingCert
    BY <2>1, <2>2 DEF OrderingCert, Cert, NewOrderedCert
  <2>4. Quiet(<<x>>, process)
    BY <2>3, QuietOne DEF StepOK, MayEnd, MayStart
  <2>5. Quiet(steps, process)
    BY <2>2, QuietEmpty, InsertQuorumCertSteps
  <2>6. todo' = steps \o <<x>> /\ OnlyTodo
    BY <2>1 DEF NewOrderedCert
  <2> HIDE DEF x, steps
  <2>7. QED
    BY <2>4, <2>5, <2>6, QuietConcat, OnlyTodoStep
<1>4. CASE \E si \in SyncInfos : SyncUp(si)
  BY <1>4, AddCertsSteps, OnlyTodoStep DEF SyncUp
<1>5. CASE \E si \in SyncInfos : RecoverySyncUp(si)
  <2>1. PICK si \in SyncInfos : RecoverySyncUp(si)
    BY <1>5
  <2> DEFINE s == <<<<"save_range", si>>, <<"sync", si>>, <<"exit", si>>>>
  <2>2. /\ Len(s) = 3 /\ s[1] = <<"save_range", si>> /\ s[2] = <<"sync", si>>
        /\ s[3] = <<"exit", si>> /\ s \in Seq(ToSet(s)) /\ s # <<>>
    BY DEF ToSet
  <2>3. todo' = s /\ OnlyTodo /\ process = "recovering"
    BY <2>1 DEF RecoverySyncUp
  <2> HIDE DEF s
  <2>4. \A i \in 1 .. 3 : StepOK(s[i])
    BY <2>2 DEF StepOK
  <2>5. \A i \in 1 .. 2 : Follows(s[i], s[i + 1], process)
    BY <2>2, <2>3 DEF Follows
  <2>6. Quiet(s, process)
    BY <2>2, <2>4, <2>5 DEF Quiet, Handler, MayStart, MayEnd
  <2>7. QED
    BY <2>3, <2>6, OnlyTodoStep
<1>6. QED
  BY <1>1, <1>2, <1>3, <1>4, <1>5

-----------------------------------------------------------------------------
(* The steps that read the tree or write the database.                     *)

LEMMA NeedFetchStep ==
    ASSUME IInv, NeedFetch
    PROVE  IInv' /\ Quiet(todo', process)
<1>1. /\ Handler(todo, process) /\ todo # <<>> /\ todo[1][1] = "need_fetch" /\ OnlyTodo
  BY DEF IInv, NeedFetch, Doing
<1>2. StepOK(todo[1]) /\ Arg \in Certified /\ Arg \in Blocks
  BY <1>1, GoesOn, OrderedFacts DEF StepOK, Arg
<1>3. CASE Continue \/ Fail
  BY <1>1, <1>3, GoesOn, OnlyTodoStep
<1>4. CASE Skip(2)
  <2>1. Len(todo) \in Nat /\ Len(todo) >= 2
    BY <1>1 DEF Handler, MayEnd
  <2>2. Follows(todo[1], todo[2], process)
    BY <1>1, <2>1 DEF Handler
  <2>3. Quiet(SubSeq(todo, 2 + 1, Len(todo)), process)
    BY <1>1, <2>1, <2>2, RestIsQuiet DEF Follows
  <2>4. QED
    BY <1>1, <1>4, <2>3, OnlyTodoStep DEF Skip
<1>5. CASE ContinueWith(InsertSingleQuorumCert(Arg))
  BY <1>1, <1>2, <1>5, InsertSingleQuorumCertSteps, GoesOn, OnlyTodoStep
<1>6. CASE /\ Ancestors[Arg] \cap tree.id_to_block # {}
           /\ ContinueWith(FetchQuorumCert(Arg, MissingBlocks(Arg)))
  <2>1. MissingBlocks(Arg) \in SUBSET (Blocks \ {Genesis})
    <3>1. PICK d \in Ancestors[Arg] \cap tree.id_to_block : TRUE
      BY <1>6
    <3>2. d \in Blocks /\ RoundOf[d] \in Nat
      BY <1>2, <3>1, AncestorFacts, BlockFacts
    <3>3. ~ (RoundOf[d] < RoundOf[Genesis])
      BY <3>2, BlockFacts
    <3>4. QED
      BY <1>2, <3>1, <3>3, AncestorFacts DEF MissingBlocks
  <2>2. Quiet(FetchQuorumCert(Arg, MissingBlocks(Arg)), process)
    BY <1>2, <2>1, FetchQuorumCertSteps
  <2>3. QED
    BY <1>1, <1>6, <2>2, GoesOn, OnlyTodoStep
<1>7. QED
  BY <1>3, <1>4, <1>5, <1>6 DEF NeedFetch

LEMMA ReadSteps ==
    ASSUME IInv,
           Fetch \/ GetQCBlock \/ CommitQC \/ OrderCert \/ OwnOrderCert \/ TrySendNext
    PROVE  IInv' /\ Quiet(todo', process)
<1>1. Handler(todo, process) /\ todo # <<>> /\ OnlyTodo
  BY DEF IInv, Fetch, GetQCBlock, CommitQC, OrderCert, OwnOrderCert, TrySendNext, Doing
<1>2. todo[1][1] \in {"fetch", "get_qc_block", "commit_qc", "order_cert", "own_order_cert",
                      "try_sends"}
  BY DEF Fetch, GetQCBlock, CommitQC, OrderCert, OwnOrderCert, TrySendNext, Doing
<1>3. /\ StepOK(todo[1])
      /\ Continue => Quiet(todo', process)
      /\ Fail => Quiet(todo', process)
      /\ \A steps : Quiet(steps, process) /\ ContinueWith(steps) => Quiet(todo', process)
  BY <1>1, <1>2, GoesOn
<1>4. CASE Fetch
  <2>1. Arg.qc \in Certified /\ Arg.missing \in SUBSET (Blocks \ {Genesis})
    BY <1>3, <1>4 DEF Fetch, Doing, StepOK, Arg
  <2>2. Quiet(FetchQuorumCert(Arg.qc, Arg.missing), process)
    BY <2>1, FetchQuorumCertSteps
  <2>3. QED
    BY <1>1, <1>3, <1>4, <2>2, OnlyTodoStep DEF Fetch
<1>5. CASE GetQCBlock
  BY <1>1, <1>3, <1>5, OnlyTodoStep DEF GetQCBlock
<1>6. CASE CommitQC
  <2>1. Arg \in Certified /\ Arg \in Blocks
    BY <1>3, <1>6, OrderedFacts DEF CommitQC, Doing, StepOK, Arg
  <2> DEFINE cert == [block |-> commit_info[Arg], certified |-> Arg]
  <2>2. CASE RoundOf[tree.ordered_root] < RoundOfInfo(commit_info[Arg])
    <3>1. RoundOf[tree.ordered_root] \in Nat
      BY OrderedFacts, BlockFacts DEF IInv, TypeOK
    <3>2. commit_info[Arg] # None
      BY <2>2, <3>1 DEF RoundOfInfo
    <3>3. cert \in OrderingCert
      BY <2>1, <3>2, OrderedFacts DEF OrderingCert, Cert
    <3> HIDE DEF cert
    <3>4. Quiet(<<<<"send", cert>>>>, process)
      BY <3>3, QuietOne DEF StepOK, MayEnd, MayStart
    <3>5. ContinueWith(<<<<"send", cert>>>>)
      BY <1>6, <2>2 DEF CommitQC, cert
    <3>6. QED
      BY <1>1, <1>3, <3>4, <3>5, OnlyTodoStep
  <2>3. CASE Continue
    BY <1>1, <1>3, <2>3, OnlyTodoStep
  <2>4. QED
    BY <1>6, <2>2, <2>3 DEF CommitQC
<1>7. CASE OrderCert
  <2>1. Arg \in OrderingCert
    BY <1>3, <1>7 DEF OrderCert, Doing, StepOK, Arg
  <2> DEFINE x == <<"send", Arg>>
  <2>2. Quiet(<<x>>, process)
    BY <2>1, QuietOne DEF StepOK, MayEnd, MayStart
  <2>3. ContinueWith(<<x>>) \/ Continue \/ Fail
    BY <1>7 DEF OrderCert
  <2> HIDE DEF x
  <2>4. QED
    BY <1>1, <1>3, <2>2, <2>3, OnlyTodoStep
<1>8. CASE OwnOrderCert
  <2>1. ~ order_vote_enabled
    BY <1>3, <1>8 DEF OwnOrderCert, Doing, StepOK
  <2>2. tree.highest_ordered_cert.certified \in Certified
    BY <2>1 DEF IInv, TypeOK, OrderingCert
  <2>3. QED
    BY <1>1, <1>3, <1>8, <2>2, InsertQuorumCertSteps, OnlyTodoStep DEF OwnOrderCert
<1>9. CASE TrySendNext
  <2>1. Arg \in SUBSET {b \in Certified : commit_info[b] # None}
    BY <1>3, <1>9 DEF TrySendNext, Doing, StepOK, Arg
  <2>2. QED
    BY <1>1, <1>3, <1>9, <2>1, TrySendSteps, OnlyTodoStep DEF TrySendNext
<1>10. QED
  BY <1>4, <1>5, <1>6, <1>7, <1>8, <1>9

LEMMA SyncSteps ==
    ASSUME IInv, NeedSync \/ Resume
    PROVE  IInv' /\ Quiet(todo', process)
<1>1. /\ Handler(todo, process) /\ todo # <<>>
      /\ todo[1][1] \in {"need_sync", "resume"}
  BY DEF IInv, NeedSync, Resume, Doing
<1>2. /\ StepOK(todo[1])
      /\ Continue => Quiet(todo', process)
      /\ Fail => Quiet(todo', process)
      /\ \A steps : Quiet(steps, process) /\ ContinueWith(steps) => Quiet(todo', process)
  BY <1>1, GoesOn
<1>3. /\ db \in [blocks : SUBSET Blocks, qcs : SUBSET Certified, tc : Nat]
      /\ pre_commit_status \in [round : Nat, paused : BOOLEAN]
  BY DEF IInv, TypeOK
<1>4. UNCHANGED <<tree, ledger, pre_committed, pipeline, latest_logical_time, process>>
  BY DEF NeedSync, Resume, storage, pipeline
<1>5. CASE NeedSync
  <2>1. Arg \in SyncInfos
    BY <1>2, <1>5 DEF NeedSync, Doing, StepOK, Arg
  <2>2. Continue \/ ContinueWith(FastForwardSync(Arg))
    BY <1>5 DEF NeedSync
  <2>3. Quiet(todo', process)
    BY <1>2, <2>1, <2>2, FastForwardSyncSteps
  <2>4. pre_commit_status' \in [round : Nat, paused : BOOLEAN]
    <3>1. \E x \in BOOLEAN : pre_commit_status' = [pre_commit_status EXCEPT !.paused = x]
      <4>1. CASE pre_commit_status' = [pre_commit_status EXCEPT !.paused = TRUE]
        BY <4>1
      <4>2. CASE pre_commit_status' = [pre_commit_status EXCEPT
                    !.paused = @ \/ RoundOf[tree.commit_root] + MAX_PRECOMMIT_GAP
                                          < pre_commit_status.round]
        BY <1>3, <4>2, Zenon
      <4>3. QED
        BY <1>5, <4>1, <4>2 DEF NeedSync
    <3>2. QED
      BY <1>3, <3>1
  <2>5. UNCHANGED db
    BY <1>5 DEF NeedSync, storage
  <2>6. QED
    BY <1>3, <1>4, <2>3, <2>4, <2>5, TodoStep, QuietIsCalm
<1>6. CASE Resume
  <2>1. pre_commit_status' \in [round : Nat, paused : BOOLEAN] /\ UNCHANGED db
    BY <1>3, <1>6 DEF Resume, storage
  <2>2. QED
    BY <1>2, <1>3, <1>4, <1>6, <2>1, TodoStep, QuietIsCalm DEF Resume
<1>7. QED
  BY <1>5, <1>6

\* The step after the next.
LEMMA NextStep ==
    ASSUME Handler(todo, process), todo # <<>>, Continue
    PROVE  /\ Handler(todo', process) /\ StepOK(todo[1])
           /\ todo' # <<>> => Follows(todo[1], todo'[1], process)
<1>1. Len(todo) \in Nat /\ Len(todo) >= 1 /\ todo \in Seq(ToSet(todo)) /\ StepOK(todo[1])
  BY DEF Handler
<1>2. todo' = SubSeq(todo, 1 + 1, Len(todo)) /\ 1 \in 0 .. Len(todo)
  BY <1>1 DEF Continue, Skip
<1>3. Handler(todo', process) /\ (todo' # <<>> => 1 < Len(todo) /\ todo'[1] = todo[1 + 1])
  BY <1>2, HandlerRest
<1>4. todo' # <<>> => Follows(todo[1], todo[1 + 1], process)
  BY <1>1, <1>3 DEF Handler
<1>5. QED
  BY <1>1, <1>3, <1>4

\* The writes of the database.
LEMMA SaveSteps ==
    ASSUME IInv, SaveRange \/ SaveQC
    PROVE  IInv'
<1>1. /\ Handler(todo, process) /\ todo # <<>>
      /\ todo[1][1] \in {"save_range", "save_qc"}
  BY DEF IInv, SaveRange, SaveQC, Doing
<1>2. Continue \/ Fail
  BY DEF SaveRange, SaveQC
<1>3. StepOK(todo[1]) /\ Calm(todo', process)
  <2>1. StepOK(todo[1])
    <3>1. 1 \in 1 .. Len(todo)
      BY <1>1 DEF Handler
    <3>2. QED
      BY <1>1, <3>1 DEF Handler
  <2>2. CASE Continue
    <3>1. /\ Handler(todo', process)
          /\ todo' # <<>> => Follows(todo[1], todo'[1], process)
      BY <1>1, <2>2, NextStep
    <3>2. QED
      BY <1>1, <2>1, <3>1 DEF Follows, Calm
  <2>3. CASE Fail
    BY <2>1, <2>3, QuietEmpty, QuietIsCalm DEF Fail
  <2>4. QED
    BY <1>2, <2>1, <2>2, <2>3
<1>4. /\ db \in [blocks : SUBSET Blocks, qcs : SUBSET Certified, tc : Nat]
      /\ pre_commit_status' \in [round : Nat, paused : BOOLEAN]
      /\ UNCHANGED <<tree, ledger, pre_committed, pipeline, latest_logical_time, process>>
  BY DEF IInv, TypeOK, SaveRange, SaveQC, pipeline
<1>5. CASE SaveRange
  <2>1. Arg \in SyncInfos
    BY <1>3, <1>5 DEF SaveRange, Doing, StepOK, Arg
  <2>2. /\ Arg.hqc \in Certified
        /\ ~ order_vote_enabled => Arg.hcc.certified \in Certified
    BY <2>1, BlockStoreAssumption, NetworkAssumption DEF SyncInfo, Certified
  <2>3. Ancestors[Arg.hqc] \subseteq Certified
    BY <2>2, OrderedFacts, AncestorFacts
  <2>4. SyncRange(Arg) \subseteq Certified /\ SyncRange(Arg) \subseteq Blocks
    BY <2>2, <2>3, OrderedFacts DEF SyncRange
  <2>5. db' \in [blocks : SUBSET Blocks, qcs : SUBSET Certified, tc : Nat]
    BY <1>4, <1>5, <2>4, ZenonT(40) DEF SaveRange
  <2>6. QED
    BY <1>3, <1>4, <2>5, TodoStep
<1>6. CASE SaveQC
  <2>1. Arg \in Certified
    BY <1>3, <1>6 DEF SaveQC, Doing, StepOK, Arg
  <2>2. db' \in [blocks : SUBSET Blocks, qcs : SUBSET Certified, tc : Nat]
    BY <1>4, <1>6, <2>1 DEF SaveQC
  <2>3. QED
    BY <1>3, <1>4, <2>2, TodoStep
<1>7. QED
  BY <1>5, <1>6

\* What is left of an insertion.
LEMMA NextOfInsertion ==
    ASSUME Handler(todo, process), todo # <<>>, Continue,
           todo[1][1] \in {"get_block", "save_block"}
    PROVE  /\ Handler(todo', process) /\ todo' # <<>>
           /\ todo'[1][2] = todo[1][2]
           /\ todo'[1][1] = IF todo[1][1] = "get_block" THEN "save_block" ELSE "tree_block"
<1>1. Len(todo) \in Nat /\ Len(todo) >= 2 /\ todo \in Seq(ToSet(todo))
  BY DEF Handler, MayEnd
<1>2. todo' = SubSeq(todo, 1 + 1, Len(todo)) /\ 1 \in 0 .. Len(todo)
  BY <1>1 DEF Continue, Skip
<1>3. todo' # <<>>
  <2> DEFINE S == ToSet(todo)
  <2>1. todo \in Seq(S)
    BY <1>1
  <2> HIDE DEF S
  <2>2. Len(SubSeq(todo, 1 + 1, Len(todo))) = Len(todo) - 1
    BY <1>1, <2>1
  <2>3. QED
    BY <1>1, <1>2, <2>2, SMTT(30)
<1>4. Handler(todo', process) /\ todo'[1] = todo[1 + 1]
  BY <1>2, <1>3, HandlerRest
<1>5. Follows(todo[1], todo[1 + 1], process)
  BY <1>1 DEF Handler
<1>6. todo'[1] = todo[2] /\ Follows(todo[1], todo[2], process)
  BY <1>4, <1>5
<1>7. QED
  BY <1>3, <1>4, <1>6 DEF Follows

\* The pipelines when only the handler and ConsensusDB change.
LEMMA PipelinesUnchanged ==
    ASSUME UNCHANGED <<tree, ledger, pipeline>>
    PROVE  (PipelinesRun => PipelinesRun') /\ (PipelinesAborted => PipelinesAborted')
BY DEF PipelinesRun, PipelinesAborted, Pending, pipeline

LEMMA InsertionSteps ==
    ASSUME IInv, GetBlock \/ SaveBlock
    PROVE  /\ IInv'
           /\ GetBlock /\ todo' # <<>> => Quiet(todo', process) \/ todo'[1][1] = "save_block"
<1>1. /\ Handler(todo, process) /\ todo # <<>>
      /\ todo[1][1] \in {"get_block", "save_block"}
  BY DEF IInv, GetBlock, SaveBlock, Doing
<1>2. Len(todo) \in Nat /\ Len(todo) >= 1 /\ StepOK(todo[1])
  BY <1>1 DEF Handler
<1>3. Arg \in Blocks
  BY <1>1, <1>2 DEF StepOK, Arg
<1>4. UNCHANGED <<tree, ledger, pre_committed, pipeline, pre_commit_status,
                  latest_logical_time, process>>
  BY DEF GetBlock, SaveBlock, OnlyTodo, storage, pipeline
<1>5. CASE (GetBlock /\ (Skip(3) \/ Fail)) \/ (SaveBlock /\ Fail /\ UNCHANGED db)
  <2>1. CASE Fail
    <3>1. OnlyTodo
      BY <1>4, <1>5 DEF GetBlock, OnlyTodo, storage
    <3>2. todo' = <<>>
      BY <2>1 DEF Fail
    <3>3. IInv' /\ Quiet(todo', process)
      BY <3>1, <3>2, QuietEmpty, OnlyTodoStep
    <3>4. QED
      BY <3>3
  <2>2. CASE GetBlock /\ Skip(3)
    <3>1. todo[1][1] = "get_block"
      BY <2>2 DEF GetBlock, Doing
    <3>2. Len(todo) >= 2
      BY <1>1, <1>2, <3>1 DEF Handler, MayEnd
    <3>3. Follows(todo[1], todo[2], process)
      BY <1>1, <1>2, <3>2 DEF Handler
    <3>4. todo[2][1] = "save_block"
      BY <3>1, <3>3 DEF Follows
    <3>5. Len(todo) >= 3
      BY <1>1, <1>2, <3>2, <3>4 DEF Handler, MayEnd
    <3>6. Follows(todo[2], todo[3], process)
      BY <1>1, <1>2, <3>5 DEF Handler
    <3>7. 3 \in 1 .. Len(todo) /\ todo[3][1] = "tree_block"
      BY <1>2, <3>4, <3>5, <3>6 DEF Follows
    <3>8. Quiet(SubSeq(todo, 3 + 1, Len(todo)), process)
      BY <1>1, <3>7, RestIsQuiet
    <3>9. QED
      BY <2>2, <3>8, OnlyTodoStep DEF GetBlock, Skip
  <2>3. QED
    BY <1>5, <2>1, <2>2
<1>6. CASE \/ /\ GetBlock /\ Continue /\ Arg \notin tree.id_to_block
              /\ RoundOf[tree.ordered_root] < RoundOf[Arg]
              /\ Parent[Arg] \in tree.id_to_block \ aborted
           \/ SaveBlock /\ Continue /\ db' = [db EXCEPT !.blocks = @ \cup {Arg}]
  <2>1. /\ Handler(todo', process) /\ todo' # <<>> /\ todo'[1][2] = Arg
        /\ todo'[1][1] \in {"save_block", "tree_block"}
    BY <1>1, <1>6, NextOfInsertion DEF SaveBlock, Arg
  <2>2. Handler(todo, process)'
    BY <1>4, <2>1 DEF Handler, StepOK, Follows, MayEnd, Cert, OrderingCert
  <2>3. Running => PipelinesRun /\ RoundOf[Arg] > RoundOf[tree.ordered_root]
    <3>1. CASE SaveBlock
      BY <1>1, <3>1 DEF SaveBlock, Doing, IInv, HandlerInStep, Arg
    <3>2. CASE /\ RoundOf[tree.ordered_root] < RoundOf[Arg]
               /\ Parent[Arg] \in tree.id_to_block \ aborted
      <4>1. ~ PipelinesAborted
        BY <3>2 DEF PipelinesAborted
      <4>2. RoundOf[tree.ordered_root] \in Nat /\ RoundOf[Arg] \in Nat
        BY <1>3, OrderedFacts, BlockFacts DEF IInv, TypeOK
      <4>3. QED
        BY <3>2, <4>1, <4>2 DEF IInv
    <3>3. QED
      BY <1>6, <3>1, <3>2
  <2>4. (Running => HandlerInStep)'
    <3>1. ASSUME Running' PROVE HandlerInStep'
      <4>1. PipelinesRun' /\ RoundOf[Arg] > RoundOf[tree'.ordered_root]
        BY <1>4, <2>3, <3>1, PipelinesUnchanged DEF Running
      <4>2. QED
        BY <2>1, <4>1 DEF HandlerInStep
    <3>2. QED
      BY <3>1
  <2>5. db' \in [blocks : SUBSET Blocks, qcs : SUBSET Certified, tc : Nat]
    BY <1>3, <1>6 DEF IInv, TypeOK, GetBlock, OnlyTodo, storage, SaveBlock
  <2>6. TypeOK'
    BY <1>4, <2>5 DEF IInv, TypeOK, pipeline
  <2>7. Core'
    BY <1>4, <2>6, CoreOfIInv, CoreUnchanged DEF SameTree
  <2>8. InsertsNewBlock'
    <3>1. Arg \notin tree.id_to_block
      BY <1>1, <1>6 DEF IInv, InsertsNewBlock, SaveBlock, Doing, Arg
    <3>2. QED
      BY <1>4, <2>1, <3>1 DEF InsertsNewBlock
  <2>9. IInv'
    BY <2>2, <2>4, <2>7, <2>8 DEF IInv, Core, TreeInv
  <2>10. GetBlock => todo'[1][1] = "save_block"
    BY <1>1, <1>6, NextOfInsertion DEF GetBlock, SaveBlock, Doing
  <2>11. QED
    BY <2>9, <2>10
<1>7. QED
  BY <1>5, <1>6 DEF GetBlock, SaveBlock

\* The process stops.
LEMMA StopStep ==
    ASSUME IInv, ~ Running',
           db' \in [blocks : SUBSET Blocks, qcs : SUBSET Certified, tc : Nat],
           UNCHANGED <<tree, ledger, pre_committed, pipeline, pre_commit_status,
                       latest_logical_time, todo>>
    PROVE  IInv'
<1>1. TypeOK' /\ ProofsOnChain' /\ WrittenAhead' /\ InsertsNewBlock'
  BY DEF IInv, TypeOK, ProofsOnChain, WrittenAhead, InsertsNewBlock, pipeline
<1>2. Handler(todo, process)'
  BY DEF IInv, Handler, StepOK, Follows, MayEnd, Cert, OrderingCert, Running
<1>3. TreeInv'
  BY TreeKept DEF IInv, TreeInv
<1>4. QED
  BY <1>1, <1>2, <1>3 DEF IInv, TreeInv

\* A panic.
LEMMA PanicStep ==
    ASSUME IInv, NEW reason, reason # "running", Panic(reason)
    PROVE  IInv'
<1>1. db' \in [blocks : SUBSET Blocks, qcs : SUBSET Certified, tc : Nat] /\ ~ Running'
  BY DEF Panic, IInv, TypeOK, Running, storage
<1>2. QED
  BY <1>1, StopStep DEF Panic, storage

-----------------------------------------------------------------------------
(* The steps that write the tree.                                          *)

LEMMA TreeQCStep ==
    ASSUME IInv, TreeQC
    PROVE  IInv' /\ Quiet(todo', process)
<1>1. /\ Handler(todo, process) /\ todo # <<>> /\ todo[1][1] = "tree_qc"
      /\ UNCHANGED <<db, ledger, pre_committed, pipeline, pre_commit_status,
                     latest_logical_time, process>>
  BY DEF IInv, TreeQC, Doing, storage
<1>2. /\ Arg \in Certified /\ Arg \in Blocks
      /\ Continue => Quiet(todo', process)
      /\ Fail => Quiet(todo', process)
  BY <1>1, GoesOn, OrderedFacts DEF StepOK, Arg
<1>3. CASE tree' = insert_quorum_cert(Arg) /\ Continue
  <2> DEFINE old == tree.highest_ordered_cert
             new == [block |-> commit_info[Arg], certified |-> Arg]
             best == IF RoundOf[old.block] < RoundOfInfo(commit_info[Arg]) THEN new ELSE old
             top == IF RoundOf[Arg] > RoundOf[tree.highest_certified] THEN Arg
                    ELSE tree.highest_certified
  <2>1. best \in OrderingCert
    <3>1. old \in OrderingCert /\ RoundOf[old.block] \in Nat
      BY OrderedFacts, BlockFacts DEF IInv, TypeOK, OrderingCert
    <3>2. CASE RoundOf[old.block] < RoundOfInfo(commit_info[Arg])
      <4>1. commit_info[Arg] # None
        BY <3>1, <3>2 DEF RoundOfInfo
      <4>2. new \in OrderingCert
        BY <1>2, <4>1, OrderedFacts DEF OrderingCert, Cert
      <4>3. QED
        BY <3>2, <4>2
    <3>3. QED
      BY <3>1, <3>2
  <2>2. top \in Certified
    BY <1>2 DEF IInv, TypeOK
  <2>3. tree' = [tree EXCEPT !.highest_certified = top, !.qcs = @ \cup {Arg},
                             !.highest_ordered_cert = best]
    BY <1>3 DEF insert_quorum_cert
  <2> HIDE DEF best, top
  <2>4. TypeOK'
    BY <1>1, <1>2, <2>1, <2>2, <2>3 DEF IInv, TypeOK, pipeline
  <2>5. SameTree
    BY <2>3 DEF IInv, TypeOK, SameTree
  <2>6. Core'
    BY <1>1, <2>4, <2>5, CoreOfIInv, CoreUnchanged
  <2>7. QED
    BY <1>1, <1>2, <1>3, <2>6, QuietStep
<1>4. CASE Fail /\ UNCHANGED tree
  BY <1>1, <1>2, <1>4, OnlyTodoStep DEF OnlyTodo, storage
<1>5. QED
  BY <1>3, <1>4 DEF TreeQC

LEMMA TimeoutCertSteps ==
    ASSUME IInv, AddTC \/ NewTC
    PROVE  IInv' /\ Quiet(todo', process)
<1>0. CASE Fail /\ OnlyTodo
  BY <1>0, QuietEmpty, OnlyTodoStep DEF Fail
<1> SUFFICES ASSUME \/ NewTC
                    \/ AddTC /\ insert_2chain_timeout_certificate(Arg.tc) /\ Continue
             PROVE  IInv' /\ Quiet(todo', process)
  BY <1>0 DEF AddTC
<1>1. PICK round \in Nat : insert_2chain_timeout_certificate(round)
  <2>1. CASE AddTC /\ insert_2chain_timeout_certificate(Arg.tc)
    <3>1. todo # <<>> /\ todo[1][1] = "add_tc" /\ Handler(todo, process)
      BY <2>1 DEF AddTC, Doing, IInv
    <3>2. Arg \in SyncInfos
      BY <3>1, GoesOn DEF StepOK, Arg
    <3>3. Arg.tc \in Nat
      BY <3>2, BlockStoreAssumption DEF SyncInfo
    <3>4. QED
      BY <2>1, <3>3
  <2>2. CASE NewTC
    BY <2>2, BlockStoreAssumption DEF NewTC
  <2>3. QED
    BY <2>1, <2>2
<1>2. UNCHANGED <<ledger, pre_committed, pipeline, pre_commit_status, latest_logical_time,
                  process>>
  BY <1>1 DEF insert_2chain_timeout_certificate
<1>3. TypeOK' /\ SameTree
  <2>1. CASE UNCHANGED <<tree, db>>
    BY <1>2, <2>1 DEF IInv, TypeOK, pipeline, SameTree
  <2>2. CASE /\ tree' = [tree EXCEPT !.highest_tc = round]
             /\ db' = [db EXCEPT !.tc = round]
    BY <1>2, <2>2 DEF IInv, TypeOK, pipeline, SameTree
  <2>3. QED
    BY <1>1, <2>1, <2>2 DEF insert_2chain_timeout_certificate
<1>4. Core'
  BY <1>2, <1>3, CoreOfIInv, CoreUnchanged
<1>5. Quiet(todo', process)
  <2>1. CASE AddTC /\ Continue
    <3>1. todo # <<>> /\ todo[1][1] = "add_tc" /\ Handler(todo, process) /\ Continue
      BY <2>1 DEF AddTC, Doing, IInv
    <3>2. QED
      BY <3>1, GoesOn
  <2>2. CASE NewTC
    BY <2>2, QuietEmpty DEF NewTC, Idle
  <2>3. QED
    BY <2>1, <2>2
<1>6. QED
  BY <1>2, <1>4, <1>5, QuietStep

\* Rounds of what the invariant is about.
LEMMA Rounds ==
    ASSUME TypeOK
    PROVE  /\ tree.id_to_block \subseteq Blocks
           /\ ledger \in Chain /\ ledger \in Blocks /\ RoundOf[ledger] \in Nat
           /\ pre_committed \in Chain /\ RoundOf[pre_committed] \in Nat
           /\ tree.ordered_root \in Chain /\ RoundOf[tree.ordered_root] \in Nat
           /\ late \subseteq Blocks
BY ChainIsClosed, OrderedFacts DEF TypeOK

\* A new block with its parent in the tree is a leaf.
LEMMA InsertedTree ==
    ASSUME TypeOK, TreeInv, NEW new \in Blocks \ {Genesis}, new \notin tree.id_to_block,
           Parent[new] \in tree.id_to_block,
           tree'.id_to_block = tree.id_to_block \cup {new},
           tree'.children = [c \in tree.id_to_block \cup {new} |->
              {d \in (tree.id_to_block \cup {new}) \ {Genesis} : Parent[d] = c}],
           tree'.window_root = tree.window_root, tree'.commit_root = tree.commit_root,
           tree'.ordered_root = tree.ordered_root,
           tree'.highest_commit_cert = tree.highest_commit_cert,
           tree'.pruned = tree.pruned
    PROVE  TreeInv'
<1> DEFINE id == tree.id_to_block
<1>1. id \subseteq Blocks /\ TreeLinked /\ RootsInTree /\ PrunedInOrder
  BY Rounds DEF TreeInv
<1>2. /\ Ancestors[new] = {new} \cup Ancestors[Parent[new]]
      /\ Parent[new] \in Ancestors[new] /\ Parent[new] \in Blocks
  BY <1>1, AncestorsStep
<1>3. \A b \in id : new \notin Ancestors[b]
  BY <1>2 DEF TreeLinked, TreeInv
<1>4. TreeLinked'
  <2>1. ASSUME NEW b \in id \cup {new}, NEW c \in Ancestors[b],
               NEW d \in Ancestors[c] \cap (id \cup {new})
        PROVE  c \in id \cup {new}
    <3>1. b \in Blocks /\ c \in Blocks /\ Ancestors[c] \subseteq Ancestors[b]
      BY <1>1, <2>1, AncestorFacts
    <3>2. CASE b \in id
      <4>1. d \in id
        BY <1>3, <2>1, <3>1, <3>2
      <4>2. QED
        BY <1>1, <2>1, <3>2, <4>1 DEF TreeLinked
    <3>3. CASE b = new /\ c # new
      <4>1. c \in Ancestors[Parent[new]] /\ Ancestors[c] \subseteq Ancestors[Parent[new]]
        BY <1>2, <2>1, <3>3, AncestorFacts
      <4>2. d \in id
        BY <1>3, <2>1, <4>1
      <4>3. QED
        BY <1>1, <2>1, <4>1, <4>2 DEF TreeLinked
    <3>4. QED
      BY <2>1, <3>2, <3>3
  <2>2. QED
    BY <2>1 DEF TreeLinked
<1>5. RootsInTree'
  BY <1>1 DEF RootsInTree
<1>6. PrunedInOrder'
  <2>1. new \notin Ancestors[tree.window_root]
    BY <1>1, <1>3 DEF RootsInTree
  <2>2. ASSUME NEW i \in 1 .. Len(tree.pruned), new \in Ancestors[tree.pruned[i]] PROVE FALSE
    <3>1. tree.pruned[i] \in Blocks
      BY DEF TypeOK
    <3>2. Parent[new] \in Ancestors[tree.pruned[i]]
      BY <1>2, <2>2, <3>1, AncestorFacts
    <3>3. tree.pruned[i] \in id
      BY <1>1, <3>2 DEF PrunedInOrder, AncestorsFirst
    <3>4. QED
      BY <1>3, <2>2, <3>3
  <2>3. QED
    BY <1>1, <2>1, <2>2 DEF PrunedInOrder, AncestorsFirst
<1>7. QED
  BY <1>4, <1>5, <1>6 DEF TreeInv

LEMMA TreeBlockStep ==
    ASSUME IInv, TreeBlock
    PROVE  IInv' /\ Quiet(todo', process)
<1>1. /\ Handler(todo, process) /\ todo # <<>> /\ todo[1][1] = "tree_block"
      /\ UNCHANGED <<db, ledger, pre_committed, aborted, order_proof, commit_proof, late,
                     pre_commit_status, latest_logical_time, process>>
  BY DEF IInv, TreeBlock, Doing, storage
<1>2. /\ Arg \in Blocks \ {Genesis}
      /\ Continue => Quiet(todo', process)
      /\ Fail => Quiet(todo', process)
  BY <1>1, GoesOn DEF StepOK, Arg
<1>3. CASE Fail /\ UNCHANGED <<tree, stage>>
  BY <1>1, <1>2, <1>3, OnlyTodoStep DEF OnlyTodo, storage, pipeline
<1>4. CASE /\ Parent[Arg] \in tree.id_to_block
           /\ tree' = insert_block(Arg)
           /\ stage' = [stage EXCEPT ![Arg] = "live"]
           /\ Continue
  <2> DEFINE new == Arg
  <2>1. new \in Blocks /\ RoundOf[new] \in Nat /\ RoundOf[Parent[new]] \in Nat
        /\ RoundOf[Parent[new]] < RoundOf[new] /\ Parent[new] \in tree.id_to_block
    BY <1>2, <1>4, BlockFacts
  <2>2. /\ tree'.id_to_block = tree.id_to_block \cup {new}
        /\ tree'.ordered_root = tree.ordered_root /\ tree'.pruned = tree.pruned
    BY <1>4 DEF insert_block, IInv, TypeOK
  <2>3. /\ \A b \in Blocks : stage'[b] = IF b = new THEN "live" ELSE stage[b]
        /\ stage' \in [Blocks -> {"none", "live", "pre_committed", "committed", "finished"}]
    BY <1>4, <2>1 DEF IInv, TypeOK
  <2>4. Running => PipelinesRun /\ RoundOf[new] > RoundOf[tree.ordered_root]
    BY <1>1 DEF IInv, HandlerInStep, Arg
  <2> DEFINE kids == [c \in (DOMAIN tree.children) \cup {new} |->
                        IF c = new THEN {} ELSE IF c = Parent[new] THEN tree.children[c] \cup {new}
                        ELSE tree.children[c]]
  <2>5. kids \in [tree.id_to_block \cup {new} -> SUBSET Blocks]
    BY <2>1 DEF IInv, TypeOK
  <2>6. tree' = [tree EXCEPT !.id_to_block = @ \cup {new}, !.children = kids]
    BY <1>4 DEF insert_block
  <2> HIDE DEF kids, new
  <2>7. TypeOK'
    BY <1>1, <2>1, <2>3, <2>5, <2>6 DEF IInv, TypeOK
  <2>8. TypeOK /\ ProofsOnChain /\ WrittenAhead
    BY DEF IInv
  <2>9. ProofsOnChain'
    <3>1. \A b \in late : \A c \in tree'.id_to_block : RoundOf[b] <= RoundOf[c]
      <4>1. \A b \in late : RoundOf[b] \in Nat /\ RoundOf[b] <= RoundOf[Parent[new]]
        BY <2>1, <2>8, Rounds, BlockFacts DEF ProofsOnChain
      <4>2. QED
        BY <2>1, <2>2, <2>8, <4>1 DEF ProofsOnChain
    <3>2. QED
      BY <1>1, <2>2, <2>3, <2>8, <3>1 DEF ProofsOnChain
  <2>10. WrittenAhead'
    BY <1>1, <2>3, <2>8 DEF WrittenAhead
  <2>11. ASSUME Running'
         PROVE  /\ \A b \in Blocks : b \in tree'.id_to_block <=> stage'[b] # "none"
                /\ PipelinesRun'
    <3>1. Running
      BY <1>1, <2>11 DEF Running
    <3>2. \A b \in Blocks : b \in tree.id_to_block <=> stage[b] # "none"
      BY <3>1 DEF IInv
    <3>3. PipelinesRun /\ RoundOf[new] > RoundOf[tree.ordered_root]
      BY <2>4, <3>1
    <3>4. \A b \in Chain : Pending(b)' => RoundOf[b] > RoundOf[ledger]
      BY <2>1, <2>3, <2>8, <3>3, Rounds, ChainIsClosed DEF PipelinesRun, Pending
    <3>5. ASSUME NEW b \in Blocks, NEW c \in Ancestors[b],
                 stage'[b] \in {"pre_committed", "committed", "finished"}
          PROVE  c # new
      <4>1. stage[b] = stage'[b]
        BY <2>3, <3>5
      <4>2. RoundOf[b] <= RoundOf[tree.ordered_root] /\ b \in Chain
        BY <2>8, <3>5, <4>1 DEF ProofsOnChain
      <4>3. RoundOf[c] <= RoundOf[b] /\ RoundOf[b] \in Nat /\ RoundOf[c] \in Nat
        BY AncestorFacts, BlockFacts
      <4>4. QED
        BY <2>1, <2>8, <3>3, <4>2, <4>3, Rounds
    <3>6. \A b \in Blocks : \A c \in Ancestors[b] :
            /\ stage'[b] \in {"pre_committed", "committed", "finished"} => stage'[c] # "live"
            /\ stage'[b] \in {"committed", "finished"} => ~ Pending(c)'
      <4>1. SUFFICES ASSUME NEW b \in Blocks, NEW c \in Ancestors[b],
                            stage'[b] \in {"pre_committed", "committed", "finished"}
                     PROVE  /\ stage'[c] # "live"
                            /\ stage'[b] \in {"committed", "finished"} => ~ Pending(c)'
        OBVIOUS
      <4>2. c \in Blocks /\ c # new /\ b # new
        BY <2>3, <3>5, <4>1, AncestorFacts
      <4>3. QED
        BY <2>3, <3>3, <4>1, <4>2 DEF PipelinesRun, Pending
    <3>7. PipelinesRun'
      BY <1>1, <2>2, <2>3, <3>3, <3>4, <3>6, ChainIsClosed DEF PipelinesRun
    <3>8. QED
      BY <2>2, <2>3, <3>2, <3>7
  <2>12. TreeInv'
    <3>1. new \notin tree.id_to_block
      BY <1>1 DEF IInv, InsertsNewBlock, Arg, new
    <3>2. /\ tree'.children = kids /\ tree'.window_root = tree.window_root
          /\ tree'.commit_root = tree.commit_root
          /\ tree'.highest_commit_cert = tree.highest_commit_cert
      BY <2>6, <2>8 DEF TypeOK
    <3>3. tree.children = [c \in tree.id_to_block |->
                             {d \in tree.id_to_block \ {Genesis} : Parent[d] = c}]
      BY DEF IInv, TreeLinked
    <3>4. kids = [c \in tree.id_to_block \cup {new} |->
                    {d \in (tree.id_to_block \cup {new}) \ {Genesis} : Parent[d] = c}]
      <4>1. \A d \in tree.id_to_block \ {Genesis} : Parent[d] # new
        <5>1. SUFFICES ASSUME NEW d \in tree.id_to_block \ {Genesis}, Parent[d] = new
                       PROVE  FALSE
          OBVIOUS
        <5>2. d \in Blocks /\ new \in Ancestors[d] /\ Parent[new] \in Ancestors[new]
          BY <1>2, <2>1, <2>8, <5>1, Rounds, AncestorsStep DEF new
        <5>3. QED
          BY <2>1, <3>1, <5>1, <5>2 DEF IInv, TreeLinked
      <4>2. new # Genesis /\ Parent[new] # new
        BY <1>2, <2>1 DEF new
      <4>3. QED
        BY <2>1, <3>1, <3>3, <4>1, <4>2 DEF kids
    <3>5. TreeInv
      BY DEF IInv, TreeInv
    <3>6. new \in Blocks \ {Genesis}
      BY <1>2 DEF new
    <3>7. QED
      BY <2>1, <2>2, <2>8, <3>1, <3>2, <3>4, <3>5, <3>6, InsertedTree
  <2>13. Core'
    BY <2>7, <2>9, <2>10, <2>11, <2>12 DEF Core
  <2>14. QED
    BY <1>1, <1>2, <1>4, <2>13, QuietStep
<1>5. QED
  BY <1>3, <1>4 DEF TreeBlock

\* What is sent for execution is in the tree and new, and makes the chain of
\* pipelines longer, without a gap.
LEMMA SendForExecutionCore ==
    ASSUME Core, NEW cert \in OrderingCert, cert.block \in tree.id_to_block,
           RoundOf[cert.block] > RoundOf[tree.ordered_root],
           HasPathFromOrderedRoot(cert.block),
           tree' = [tree EXCEPT
                    !.ordered_root = cert.block,
                    !.highest_ordered_cert =
                        IF RoundOf[cert.block] > RoundOf[@.block] THEN cert ELSE @],
           order_proof' = [b \in Blocks |-> IF b \in PathFromOrderedRoot(cert.block)
                                            THEN cert.block ELSE order_proof[b]],
           UNCHANGED <<db, ledger, pre_committed, stage, aborted, commit_proof, late,
                       pre_commit_status, latest_logical_time, process>>
    PROVE  Core'
<1> DEFINE new == cert.block
           path == PathFromOrderedRoot(new)
           best == IF RoundOf[new] > RoundOf[tree.highest_ordered_cert.block] THEN cert
                   ELSE tree.highest_ordered_cert
<1>1. TypeOK /\ ProofsOnChain /\ WrittenAhead
  BY DEF Core
<1>2. /\ new \in Decided /\ new \in Chain /\ new \in Blocks
      /\ RoundOf[new] \in Nat /\ new # None
  BY ChainIsClosed, OrderedFacts, BlockFacts DEF OrderingCert
<1>3. /\ \A b \in path : /\ b \in Ancestors[new] /\ b \in Chain /\ b \in Blocks
                         /\ RoundOf[b] \in Nat /\ RoundOf[b] <= RoundOf[new]
                         /\ RoundOf[b] > RoundOf[tree.ordered_root]
      /\ path \subseteq tree.id_to_block
  BY <1>2, AncestorFacts, ChainIsClosed, BlockFacts DEF PathFromOrderedRoot, HasPathFromOrderedRoot
<1>4. \A b \in Ancestors[new] : RoundOf[b] > RoundOf[tree.ordered_root] => b \in path
  BY DEF PathFromOrderedRoot
<1>5. best \in OrderingCert
  BY DEF Core, TypeOK
<1>6. tree' = [tree EXCEPT !.ordered_root = new, !.highest_ordered_cert = best]
  OBVIOUS
<1>7. /\ tree'.id_to_block = tree.id_to_block /\ tree'.pruned = tree.pruned
      /\ tree'.ordered_root = new
  BY <1>1 DEF TypeOK
<1>8. /\ \A b \in Blocks : order_proof'[b] = IF b \in path THEN new ELSE order_proof[b]
      /\ order_proof' \in [Blocks -> Decided \cup {None}]
  BY <1>1, <1>2 DEF TypeOK
<1> HIDE DEF path, best, new
<1>9. TypeOK'
  BY <1>1, <1>2, <1>5, <1>6, <1>8 DEF TypeOK
<1>10. RoundOf[tree.ordered_root] \in Nat /\ RoundOf[ledger] \in Nat
       /\ RoundOf[tree.ordered_root] < RoundOf[new]
  BY <1>1, <1>2, Rounds DEF new
<1>11. \A b \in Blocks : RoundOf[b] \in Nat
  BY BlockFacts
<1>12. ProofsOnChain'
  <2>1. ASSUME NEW b \in Blocks, order_proof'[b] # None
        PROVE  /\ b \in Chain /\ RoundOf[b] <= RoundOf[new]
               /\ b \notin tree.id_to_block => commit_proof[b] # None
    <3>1. CASE b \in path
      BY <1>3, <3>1
    <3>2. CASE b \notin path
      <4>1. order_proof[b] # None
        BY <1>8, <2>1, <3>2
      <4>2. /\ b \in Chain /\ RoundOf[b] <= RoundOf[tree.ordered_root]
            /\ b \notin tree.id_to_block => commit_proof[b] # None
        BY <1>1, <4>1 DEF ProofsOnChain
      <4>3. QED
        BY <1>2, <1>10, <1>11, <4>2
    <3>3. QED
      BY <3>1, <3>2
  <2>2. ASSUME NEW b \in Blocks, commit_proof[b] # None
        PROVE  /\ order_proof'[b] # None
               /\ \A c \in Ancestors[b] : order_proof'[c] # None => commit_proof[c] # None
    <3>1. /\ order_proof[b] # None /\ RoundOf[b] <= RoundOf[tree.ordered_root]
          /\ \A c \in Ancestors[b] : order_proof[c] # None => commit_proof[c] # None
      BY <1>1, <2>2 DEF ProofsOnChain
    <3>2. \A c \in Ancestors[b] : c \in Blocks /\ c \notin path
      BY <1>3, <1>10, <1>11, <3>1, AncestorFacts
    <3>3. QED
      BY <1>2, <1>8, <3>1, <3>2
  <2>3. \A b \in Blocks : RoundOf[b] <= RoundOf[tree.ordered_root] => RoundOf[b] <= RoundOf[new]
    BY <1>2, <1>10, <1>11
  <2>4. \A b \in Blocks :
            /\ stage[b] \in {"pre_committed", "committed", "finished"} =>
                  b \in Chain /\ RoundOf[b] <= RoundOf[new]
            /\ stage[b] = "committed" =>
                  /\ commit_proof[b] # None
                  /\ commit_proof[b] = b => RoundOf[b] <= RoundOf[ledger]
    BY <1>1, <2>3 DEF ProofsOnChain
  <2>5. \A b \in late :
            /\ b \in Chain
            /\ RoundOf[b] <= RoundOf[ledger] /\ RoundOf[b] <= RoundOf[new]
            /\ \A c \in tree.id_to_block : RoundOf[b] <= RoundOf[c]
    BY <1>1, <2>3, Rounds DEF ProofsOnChain
  <2>6. QED
    BY <1>7, <2>1, <2>2, <2>4, <2>5 DEF ProofsOnChain
<1>13. WrittenAhead'
  BY <1>1 DEF WrittenAhead
<1>14. (Running => \A b \in Blocks : b \in tree.id_to_block <=> stage[b] # "none")'
  BY <1>7 DEF Core, Running
<1>15. ASSUME Running, PipelinesRun PROVE PipelinesRun'
  <2>1. ASSUME NEW b \in Chain, RoundOf[b] > RoundOf[ledger], RoundOf[b] <= RoundOf[new]
        PROVE  stage[b] # "none"
    <3>1. CASE RoundOf[b] <= RoundOf[tree.ordered_root]
      BY <1>15, <2>1, <3>1 DEF PipelinesRun
    <3>2. CASE RoundOf[b] > RoundOf[tree.ordered_root]
      <4>1. b \in Ancestors[new]
        BY <1>2, <2>1, ChainIsBranch
      <4>2. b \in tree.id_to_block /\ b \in Blocks
        BY <1>3, <1>4, <3>2, <4>1
      <4>3. QED
        BY <1>15, <4>2 DEF Core
    <3>3. QED
      BY <1>10, <3>1, <3>2, ChainIsClosed
  <2>2. RoundOf[ledger] <= RoundOf[new]
    BY <1>2, <1>10, <1>15 DEF PipelinesRun
  <2>3. QED
    BY <1>7, <1>15, <2>1, <2>2 DEF PipelinesRun, Pending
<1>16. ASSUME PipelinesAborted PROVE PipelinesAborted'
  BY <1>3, <1>7, <1>8, <1>16 DEF PipelinesAborted, Pending
<1>17. TreeInv'
  <2>1. TreeLinked /\ RootsInTree /\ PrunedInOrder
    BY DEF Core, TreeInv
  <2>2. /\ tree'.children = tree.children /\ tree'.window_root = tree.window_root
        /\ tree'.commit_root = tree.commit_root
        /\ tree'.highest_commit_cert = tree.highest_commit_cert
    BY <1>1, <1>6 DEF TypeOK
  <2>3. TreeLinked' /\ PrunedInOrder'
    BY <1>7, <2>1, <2>2 DEF TreeLinked, PrunedInOrder, AncestorsFirst
  <2>4. new \in tree.id_to_block
    BY DEF new
  <2>5. RoundOf[tree.commit_root] <= RoundOf[new]
    <3>1. RoundOf[tree.commit_root] \in Nat
      BY <1>1, <1>11 DEF TypeOK
    <3>2. RoundOf[tree.commit_root] <= RoundOf[tree.ordered_root]
      BY <2>1 DEF RootsInTree
    <3>3. QED
      BY <1>2, <1>10, <3>1, <3>2
  <2>6. RootsInTree'
    BY <1>2, <1>7, <2>1, <2>2, <2>4, <2>5 DEF RootsInTree
  <2>7. QED
    BY <2>3, <2>6 DEF TreeInv
<1>18. QED
  BY <1>9, <1>12, <1>13, <1>14, <1>15, <1>16, <1>17 DEF Core, Running

\* path_from_ordered_root finds every block of the chain that is in the tree:
\* the tree has no gap between the ordered root and the block.
LEMMA PathExists ==
    ASSUME TypeOK, TreeInv, NEW b \in tree.id_to_block \cap Chain,
           RoundOf[b] > RoundOf[tree.ordered_root]
    PROVE  HasPathFromOrderedRoot(b) /\ PathFromOrderedRoot(b) # {}
<1> DEFINE root == tree.ordered_root
<1>1. /\ root \in Chain /\ root \in Blocks /\ RoundOf[root] \in Nat /\ root \in tree.id_to_block
      /\ b \in Blocks /\ RoundOf[b] \in Nat
  BY ChainIsClosed DEF TreeInv, RootsInTree
<1>2. root \in Ancestors[b]
  BY <1>1, ChainIsBranch
<1>3. ASSUME NEW c \in Ancestors[b], RoundOf[c] > RoundOf[root]
      PROVE  c \in tree.id_to_block
  <2>1. c \in Blocks /\ RoundOf[c] \in Nat
    BY <1>1, <1>3, AncestorFacts, BlockFacts
  <2>2. root \in Ancestors[c]
    BY <1>1, <1>2, <1>3, <2>1, AncestorFacts
  <2>3. QED
    BY <1>1, <1>3, <2>2 DEF TreeInv, TreeLinked
<1>4. b \in PathFromOrderedRoot(b)
  BY <1>1, AncestorsStep DEF PathFromOrderedRoot
<1>5. QED
  BY <1>2, <1>3, <1>4 DEF HasPathFromOrderedRoot, PathFromOrderedRoot

LEMMA SendStep ==
    ASSUME IInv, Send
    PROVE  IInv' /\ (UNCHANGED todo \/ Quiet(todo', process))
<1>1. /\ Handler(todo, process) /\ todo # <<>> /\ todo[1][1] \in {"send", "try_send"}
  BY DEF IInv, Send, Doing
<1>2. /\ Arg \in OrderingCert
      /\ Continue => Quiet(todo', process)
      /\ Fail => Quiet(todo', process)
  BY <1>1, GoesOn DEF StepOK, Arg
<1>3. CASE Fail \/ Continue
  <2>1. CASE OnlyTodo
    BY <1>2, <1>3, <2>1, OnlyTodoStep
  <2>2. CASE /\ Arg.block \in tree.id_to_block
             /\ RoundOf[Arg.block] > RoundOf[tree.ordered_root]
             /\ SendForExecution(Arg)
    <3>1. CASE HasPathFromOrderedRoot(Arg.block) /\ PathFromOrderedRoot(Arg.block) # {}
      <4>1. Core /\ UNCHANGED process
        BY <2>2, <3>1, CoreOfIInv DEF SendForExecution
      <4>2. Core'
        BY <1>2, <2>2, <3>1, <4>1, SendForExecutionCore DEF SendForExecution, storage
      <4>3. QED
        BY <1>2, <1>3, <4>1, <4>2, QuietStep
    <3>2. CASE Panic("path")
      BY <3>2, PanicStep DEF Panic
    <3>3. QED
      BY <2>2, <3>1, <3>2 DEF SendForExecution
  <2>3. QED
    BY <2>1, <2>2 DEF Send
<1>4. CASE Panic("path")
  BY <1>4, PanicStep DEF Panic
<1>5. QED
  BY <1>3, <1>4 DEF Send, SendForExecution

-----------------------------------------------------------------------------
(* State sync.                                                             *)

\* Nothing of the tree is left that could write.
LEMMA AbortStep ==
    ASSUME IInv, AbortPipelines
    PROVE  IInv'
<1>1. /\ Handler(todo, process) /\ todo # <<>> /\ todo[1][1] = "abort_pipeline" /\ Continue
      /\ UNCHANGED <<tree, storage, stage, order_proof, commit_proof, late,
                     pre_commit_status, latest_logical_time, process>>
      /\ aborted' = aborted \cup tree.id_to_block
  BY DEF IInv, AbortPipelines, Doing
<1>2. TypeOK /\ ProofsOnChain /\ WrittenAhead
  BY DEF IInv
<1>3. TypeOK'
  BY <1>1, <1>2, Rounds DEF TypeOK, storage
<1>4. ProofsOnChain' /\ WrittenAhead' /\ TreeInv'
  BY <1>1, <1>2, TreeKept DEF ProofsOnChain, WrittenAhead, storage, IInv, TreeInv
<1>5. ASSUME Running' PROVE PipelinesAborted'
  <2>1. \A b \in Blocks : b \in tree.id_to_block <=> stage[b] # "none"
    BY <1>1, <1>5 DEF IInv, Running
  <2>2. \A b \in Blocks : Pending(b) => b \in tree.id_to_block /\ commit_proof[b] = None
    BY <2>1 DEF AbortPipelines, Pending
  <2>3. \A b \in Blocks : order_proof[b] # None /\ commit_proof[b] = None => b \in tree.id_to_block
    BY <1>2 DEF ProofsOnChain
  <2>4. QED
    BY <1>1, <2>2, <2>3 DEF PipelinesAborted, Pending
<1>6. (Running => \A b \in Blocks : b \in tree.id_to_block <=> stage[b] # "none")'
  BY <1>1 DEF IInv, Running
<1>7. Len(todo) \in Nat /\ Len(todo) >= 1 /\ todo' = SubSeq(todo, 1 + 1, Len(todo))
  BY <1>1 DEF Handler, Continue, Skip
<1>8. /\ Handler(todo', process)
      /\ todo' # <<>> => 1 < Len(todo) /\ todo'[1] = todo[1 + 1]
  <2>1. 1 \in 0 .. Len(todo)
    BY <1>7
  <2>2. QED
    BY <1>1, <1>7, <2>1, HandlerRest
<1>9. todo' # <<>> => todo'[1][1] \notin {"save_block", "tree_block"}
  <2>1. ASSUME todo' # <<>> PROVE Follows(todo[1], todo'[1], process)
    BY <1>1, <1>7, <1>8, <2>1 DEF Handler
  <2>2. QED
    BY <1>1, <2>1 DEF Follows
<1>10. (Running => HandlerInStep)' /\ InsertsNewBlock'
  BY <1>5, <1>9 DEF HandlerInStep, InsertsNewBlock
<1>11. Handler(todo, process)'
  BY <1>1, <1>8 DEF Handler, StepOK, Follows, MayEnd, Cert, OrderingCert
<1>12. QED
  BY <1>3, <1>4, <1>5, <1>6, <1>10, <1>11 DEF IInv, TreeInv

\* The driver never takes the ledger back.
LEMMA SyncStep ==
    ASSUME IInv, SyncToTarget
    PROVE  /\ IInv'
           /\ RoundOf[ledger] <= RoundOf[ledger']
<1>1. /\ Handler(todo, process) /\ todo # <<>> /\ todo[1][1] = "sync"
      /\ UNCHANGED <<tree, db, pipeline, pre_commit_status, process>>
  BY DEF IInv, SyncToTarget, Doing
<1>2. Arg \in SyncInfos
  <2>1. 1 \in 1 .. Len(todo)
    BY <1>1 DEF Handler
  <2>2. QED
    BY <1>1, <2>1 DEF Handler, StepOK, Arg
<1>3. TypeOK /\ ProofsOnChain /\ WrittenAhead
  BY DEF IInv
<1> DEFINE target == Arg.hcc.block
<1>4. target \in Decided /\ target \in Chain /\ target \in Blocks /\ RoundOf[target] \in Nat
  <2>1. target \in Decided
    BY <1>2, NetworkAssumption DEF Decided
  <2>2. QED
    BY <2>1, OrderedFacts, ChainIsClosed
<1>5. Calm(todo', process)
  <2>1. CASE Fail
    BY <2>1, QuietEmpty, QuietIsCalm DEF Fail
  <2>2. CASE Continue
    BY <1>1, <2>2, NextStep DEF Calm, Follows
  <2>3. QED
    BY <2>1, <2>2 DEF SyncToTarget
<1>6. /\ ledger' \in Decided /\ pre_committed' \in Chain /\ latest_logical_time' \in Int
      /\ RoundOf[ledger] <= RoundOf[ledger']
      /\ RoundOf[ledger'] <= RoundOf[pre_committed']
      /\ RoundOf[pre_committed] <= RoundOf[pre_committed']
  <2>1. CASE UNCHANGED <<ledger, pre_committed>>
    BY <1>3, <1>4, <2>1, Rounds DEF SyncToTarget, WrittenAhead, TypeOK
  <2>2. CASE /\ ~ (RoundOf[target] < RoundOf[ledger])
             /\ ~ (RoundOf[target] < RoundOf[pre_committed])
             /\ ledger' = target
             /\ pre_committed' = IF target = ledger THEN pre_committed ELSE target
             /\ latest_logical_time' = RoundOf[target]
    BY <1>3, <1>4, <2>2, Rounds DEF WrittenAhead
  <2>3. QED
    BY <2>1, <2>2 DEF SyncToTarget
<1> HIDE DEF target
<1>7. TypeOK'
  BY <1>1, <1>3, <1>6 DEF TypeOK, pipeline
<1>8. RoundOf[ledger] \in Nat /\ RoundOf[ledger'] \in Nat
      /\ RoundOf[pre_committed] \in Nat /\ RoundOf[pre_committed'] \in Nat
  BY <1>3, <1>6, ChainIsClosed, OrderedFacts, Rounds
<1>9. \A b \in Blocks : RoundOf[b] <= RoundOf[ledger] => RoundOf[b] <= RoundOf[ledger']
  BY <1>6, <1>8, BlockFacts
<1>10. ProofsOnChain'
  <2>1. UNCHANGED <<tree, stage, order_proof, commit_proof, late>>
    BY <1>1 DEF pipeline
  <2>2. Chain \subseteq Blocks
    BY OrderedFacts
  <2>3. QED
    BY <1>3, <1>9, <2>1, <2>2 DEF ProofsOnChain
<1>11. WrittenAhead'
  BY <1>1, <1>3, <1>6, <1>8, BlockFacts DEF WrittenAhead, pipeline
<1>12. ASSUME Running'
       PROVE  /\ \A b \in Blocks : b \in tree'.id_to_block <=> stage'[b] # "none"
              /\ PipelinesAborted'
  <2>1. Running
    BY <1>1, <1>12 DEF Running
  <2>2. PipelinesAborted
    BY <1>1, <2>1 DEF IInv, HandlerInStep
  <2>3. QED
    BY <1>1, <2>1, <2>2 DEF IInv, PipelinesAborted, Pending, pipeline
<1>13. TreeInv'
  BY <1>1, TreeKept DEF IInv, TreeInv
<1>14. Core'
  BY <1>7, <1>10, <1>11, <1>12, <1>13 DEF Core
<1>15. QED
  BY <1>1, <1>5, <1>6, <1>14, CalmStep

-----------------------------------------------------------------------------
(* Recovery.                                                               *)

\* There are finitely many blocks: every set of them has one of highest round.
LEMMA HighestRound ==
    ASSUME NEW S \in SUBSET Blocks, S # {}
    PROVE  HighestOf(S) \in S /\ \A c \in S : RoundOf[c] <= RoundOf[HighestOf(S)]
<1> DEFINE HasHighest(T) == \E b \in T : \A c \in T : RoundOf[c] <= RoundOf[b]
           bad == {T \in SUBSET Blocks : T # {} /\ ~ HasHighest(T)}
           sizes == {Cardinality(T) : T \in bad}
<1>1. \A T \in SUBSET Blocks : IsFiniteSet(T) /\ Cardinality(T) \in Nat
  BY BlockStoreAssumption, FS_Subset, FS_CardinalityType
<1>2. bad = {}
  <2>1. SUFFICES ASSUME bad # {} PROVE FALSE
    OBVIOUS
  <2>2. sizes \subseteq Nat /\ sizes # {}
    BY <1>1, <2>1
  <2>3. \E n \in sizes : \A m \in sizes : ~ (<<m, n>> \in OpToRel(<, Nat))
    BY <2>2, NatLessThanWellFounded, WFMin
  <2>4. PICK n \in sizes : \A m \in sizes : ~ (m < n)
    BY <2>2, <2>3 DEF OpToRel
  <2>5. PICK T \in bad : n = Cardinality(T)
    BY <2>4
  <2>6. PICK x \in T : TRUE
    BY <2>5
  <2>7. T \in SUBSET Blocks /\ IsFiniteSet(T) /\ Cardinality(T) \in Nat /\ ~ HasHighest(T)
    BY <1>1, <2>5
  <2>8. T \ {x} \in SUBSET Blocks /\ Cardinality(T \ {x}) = Cardinality(T) - 1
    BY <2>6, <2>7, FS_RemoveElement
  <2>9. T \ {x} \notin bad
    <3> HIDE DEF bad
    <3>1. SUFFICES ASSUME T \ {x} \in bad PROVE FALSE
      OBVIOUS
    <3>2. Cardinality(T \ {x}) \in sizes
      BY <3>1
    <3>3. ~ (Cardinality(T \ {x}) < Cardinality(T))
      BY <2>4, <2>5, <3>2
    <3>4. QED
      BY <2>7, <2>8, <3>3
  <2> HIDE DEF sizes
  <2>10. CASE T \ {x} = {}
    <3>1. \A c \in T : c = x
      BY <2>10
    <3>2. QED
      BY <2>6, <2>7, <3>1, BlockFacts
  <2>11. CASE T \ {x} # {}
    <3>1. PICK y \in T \ {x} : \A c \in T \ {x} : RoundOf[c] <= RoundOf[y]
      BY <2>8, <2>9, <2>11
    <3>2. RoundOf[x] \in Nat /\ RoundOf[y] \in Nat /\ \A c \in T : RoundOf[c] \in Nat
      BY <2>6, <2>7, <3>1, BlockFacts
    <3>3. CASE RoundOf[x] <= RoundOf[y]
      <4>1. \A c \in T : RoundOf[c] <= RoundOf[y]
        BY <3>1, <3>3
      <4>2. QED
        BY <2>7, <3>1, <4>1
    <3>4. CASE RoundOf[y] <= RoundOf[x]
      <4>1. \A c \in T : RoundOf[c] <= RoundOf[x]
        BY <3>1, <3>2, <3>4
      <4>2. QED
        BY <2>6, <2>7, <4>1
    <3>5. QED
      BY <3>2, <3>3, <3>4
  <2>12. QED
    BY <2>10, <2>11
<1>3. HasHighest(S)
  BY <1>2
<1>4. QED
  BY <1>3 DEF HighestOf

TreeOK(t) ==
    t \in [id_to_block : SUBSET Blocks, children : [t.id_to_block -> SUBSET Blocks],
           qcs : SUBSET Certified,
           ordered_root : Chain, commit_root : Blocks, window_root : Blocks,
           highest_certified : Certified, highest_ordered_cert : OrderingCert,
           highest_commit_cert : Blocks, highest_tc : Nat, pruned : Seq(Blocks)]

TreeBuilt(t, root, blocks) ==
    /\ TreeOK(t)
    /\ t.id_to_block = {root} \cup blocks
    /\ t.children = [b \in {root} \cup blocks |-> {c \in blocks : Parent[c] = b}]
    /\ t.ordered_root = root /\ t.commit_root = root /\ t.window_root = root
    /\ t.highest_commit_cert = root /\ t.pruned = <<>>

\* The tree that is built.
LEMMA BuildTreeFacts ==
    ASSUME NEW cert \in OrderingCert, cert.block \in Certified,
           NEW blocks \in SUBSET Blocks, NEW qcs \in SUBSET Certified, NEW tc \in Nat
    PROVE  TreeBuilt(BuildTree(cert, blocks, qcs, tc), cert.block, blocks)
<1> DEFINE t == BuildTree(cert, blocks, qcs, tc)
<1> DEFINE root == cert.block
           in_tree == {root} \cup blocks
           kids == [b \in in_tree |-> {c \in blocks : Parent[c] = b}]
           certs == {root} \cup qcs
           infos == ({root} \cup {commit_info[b] : b \in qcs}) \ {None}
           best == HighestOf(infos)
           hoc == IF best = root THEN cert
                  ELSE [block |-> best, certified |-> CHOOSE b \in qcs : commit_info[b] = best]
<1>1. root \in Blocks /\ root \in Decided /\ root \in Chain /\ root # None
  BY ChainIsClosed, OrderedFacts, BlockFacts DEF OrderingCert
<1>2. infos \in SUBSET Decided /\ infos \in SUBSET Chain /\ infos # {}
  BY <1>1, OrderedFacts
<1>3. best \in infos
  BY <1>2, HighestRound, OrderedFacts
<1>4. HighestOf(certs) \in Certified
  <2>1. certs \in SUBSET Blocks /\ certs \in SUBSET Certified /\ certs # {}
    BY OrderedFacts
  <2> HIDE DEF certs
  <2>2. QED
    BY <2>1, HighestRound
<1>5. hoc \in OrderingCert
  <2>1. CASE best = root
    BY <2>1
  <2>2. CASE best # root
    <3>1. \E b \in qcs : commit_info[b] = best
      BY <1>3, <2>2
    <3> DEFINE by == CHOOSE b \in qcs : commit_info[b] = best
    <3>2. by \in qcs
      BY <3>1
    <3>3. best \in Decided /\ best \in Blocks
      BY <1>2, <1>3, OrderedFacts
    <3>4. hoc = [block |-> best, certified |-> by]
      BY <2>2
    <3> HIDE DEF by, hoc, best
    <3>5. QED
      BY <3>2, <3>3, <3>4, OrderedFacts DEF OrderingCert, Cert
  <2>3. QED
    BY <2>1, <2>2
<1>6. t = [id_to_block |-> in_tree, children |-> kids, qcs |-> certs,
           ordered_root |-> root, commit_root |-> root, window_root |-> root,
           highest_certified |-> HighestOf(certs), highest_ordered_cert |-> hoc,
           highest_commit_cert |-> root, highest_tc |-> tc, pruned |-> <<>>]
  BY DEF BuildTree
<1>7. /\ in_tree \in SUBSET Blocks /\ kids \in [in_tree -> SUBSET Blocks]
      /\ certs \in SUBSET Certified
  BY <1>1
<1> HIDE DEF root, kids, certs, hoc, t
<1>8. /\ t.id_to_block = in_tree /\ t.ordered_root = root /\ t.pruned = <<>>
      /\ t.children = kids /\ t.commit_root = root /\ t.window_root = root
      /\ t.highest_commit_cert = root
      /\ t \in [id_to_block : SUBSET Blocks, children : [in_tree -> SUBSET Blocks],
                qcs : SUBSET Certified,
                ordered_root : Chain, commit_root : Blocks, window_root : Blocks,
                highest_certified : Certified, highest_ordered_cert : OrderingCert,
                highest_commit_cert : Blocks, highest_tc : Nat, pruned : Seq(Blocks)]
  BY <1>1, <1>4, <1>5, <1>6, <1>7
<1>9. QED
  BY <1>8 DEF root, kids, t, TreeOK, TreeBuilt

\* The blocks that are recovered hang together.
LEMMA BuiltTree ==
    ASSUME NEW t, NEW root \in Chain, NEW blocks \in SUBSET Blocks,
           \A b \in blocks : /\ root \in Ancestors[b] /\ root # b
                             /\ \A c \in Ancestors[b] :
                                   RoundOf[c] > RoundOf[root] => c \in blocks,
           TreeBuilt(t, root, blocks), tree' = t
    PROVE  TreeInv'
<1>1. root \in Blocks /\ RoundOf[root] \in Nat /\ \A b \in Blocks : RoundOf[b] \in Nat
  BY ChainIsClosed, BlockFacts
<1>2. /\ tree'.id_to_block = {root} \cup blocks
      /\ tree'.children = [b \in {root} \cup blocks |-> {c \in blocks : Parent[c] = b}]
      /\ tree'.ordered_root = root /\ tree'.commit_root = root /\ tree'.window_root = root
      /\ tree'.highest_commit_cert = root /\ tree'.pruned = <<>>
  BY DEF TreeBuilt
<1>3. \A b \in blocks : b # Genesis /\ RoundOf[root] < RoundOf[b]
  BY <1>1, AncestorFacts
<1>4. \A b \in {root} \cup blocks : \A c \in Ancestors[b] :
        Ancestors[c] \cap ({root} \cup blocks) # {} => c \in {root} \cup blocks
  <2>1. SUFFICES ASSUME NEW b \in {root} \cup blocks, NEW c \in Ancestors[b],
                        NEW d \in Ancestors[c] \cap ({root} \cup blocks)
                 PROVE  c \in {root} \cup blocks
    OBVIOUS
  <2>2. /\ b \in Blocks /\ c \in Blocks /\ d \in Blocks
        /\ RoundOf[d] <= RoundOf[c] /\ RoundOf[c] <= RoundOf[b] /\ root \in Ancestors[b]
    BY <1>1, AncestorFacts, AncestorsStep
  <2>3. RoundOf[root] <= RoundOf[d]
    BY <1>1, <1>3, <2>1
  <2>4. RoundOf[root] <= RoundOf[c]
    BY <1>1, <2>2, <2>3
  <2>5. CASE RoundOf[c] > RoundOf[root]
    <3>1. b \in blocks
      BY <1>1, <2>1, <2>2, <2>5
    <3>2. QED
      BY <2>1, <2>5, <3>1
  <2>6. CASE RoundOf[c] = RoundOf[root]
    <3>1. root \in Ancestors[c]
      BY <1>1, <2>1, <2>2, <2>6, AncestorFacts
    <3>2. root = c
      BY <1>1, <2>2, <2>6, <3>1, AncestorFacts
    <3>3. QED
      BY <3>2
  <2>7. QED
    BY <1>1, <2>2, <2>4, <2>5, <2>6
<1>5. tree'.children = [b \in {root} \cup blocks |->
                          {c \in ({root} \cup blocks) \ {Genesis} : Parent[c] = b}]
  <2>1. ASSUME NEW b \in {root} \cup blocks, root # Genesis, Parent[root] = b PROVE FALSE
    <3>1. RoundOf[b] < RoundOf[root] /\ b \in Blocks
      BY <1>1, <2>1, BlockFacts
    <3>2. QED
      BY <1>1, <1>3, <2>1, <3>1
  <2>2. \A b \in {root} \cup blocks :
          {c \in ({root} \cup blocks) \ {Genesis} : Parent[c] = b} = {c \in blocks : Parent[c] = b}
    BY <1>3, <2>1
  <2>3. QED
    BY <1>2, <2>2
<1>6. TreeLinked'
  BY <1>2, <1>4, <1>5 DEF TreeLinked
<1>7. RootsInTree'
  BY <1>1, <1>2 DEF RootsInTree
<1>8. PrunedInOrder'
  <2>1. ASSUME NEW c \in Ancestors[root] \cap ({root} \cup blocks), c # root PROVE FALSE
    <3>1. RoundOf[c] < RoundOf[root] /\ c \in blocks
      BY <1>1, <2>1, AncestorFacts
    <3>2. QED
      BY <1>1, <1>3, <3>1
  <2>2. AncestorsFirst(tree.pruned, tree.id_to_block)'
    BY <1>2 DEF AncestorsFirst
  <2>3. QED
    BY <1>2, <2>1, <2>2 DEF PrunedInOrder
<1>9. QED
  BY <1>6, <1>7, <1>8 DEF TreeInv

\* What is recovered.
LEMMA RecoveredFacts ==
    ASSUME TypeOK
    PROVE  /\ StoredQCs \in SUBSET Certified
           /\ Connected \in SUBSET Blocks
           /\ \A b \in Connected : RoundOf[b] > RoundOf[ledger]
           /\ RecoveredQCs \in SUBSET Certified
           /\ RecoveredDB \in [blocks : SUBSET Blocks, qcs : SUBSET Certified, tc : Nat]
<1>1. StoredQCs \in SUBSET Certified
  BY DEF StoredQCs, TypeOK, Certified
<1>2. Connected \in SUBSET Blocks
  BY DEF Connected, TypeOK
<1>3. \A b \in Connected : RoundOf[b] > RoundOf[ledger]
  <2>1. SUFFICES ASSUME NEW b \in Connected PROVE RoundOf[b] > RoundOf[ledger]
    OBVIOUS
  <2>2. b \in Blocks /\ ledger \in Ancestors[b] /\ ledger # b
    BY <1>2 DEF Connected
  <2>3. RoundOf[ledger] < RoundOf[b] /\ RoundOf[b] \in Nat /\ RoundOf[ledger] \in Nat
    BY <2>2, AncestorFacts, BlockFacts
  <2>4. QED
    BY <2>3
<1>4. RecoveredQCs \in SUBSET Certified
  BY <1>1 DEF RecoveredQCs
<1>5. ledger \in Blocks
  BY Rounds
<1>6. RecoveredDB \in [blocks : SUBSET Blocks, qcs : SUBSET Certified, tc : Nat]
  BY <1>2, <1>4, <1>5 DEF RecoveredDB, TypeOK
<1>7. QED
  BY <1>1, <1>2, <1>3, <1>4, <1>6

LEMMA TrySendsQuiet ==
    ASSUME TypeOK, NEW p
    PROVE  Quiet(TrySends, p)
<1> DEFINE qcs == {b \in RecoveredQCs : RoundOfInfo(commit_info[b]) > RoundOf[ledger]}
<1>1. RoundOf[ledger] \in Nat
  BY Rounds
<1>2. qcs \in SUBSET {b \in Certified : commit_info[b] # None}
  BY <1>1, RecoveredFacts DEF RoundOfInfo
<1> HIDE DEF qcs
<1>3. QED
  BY <1>2, TrySendSteps DEF TrySends, qcs

\* A tree that is built at the ledger has pipelines that run.
LEMMA BuildCore ==
    ASSUME TypeOK, CanFindRoot, NEW tc \in Nat, Build(tc), UNCHANGED ledger,
           pre_committed' \in Chain, RoundOf[ledger] <= RoundOf[pre_committed'],
           late' \in SUBSET {b \in Chain : RoundOf[b] <= RoundOf[ledger]},
           pre_commit_status' \in [round : Nat, paused : BOOLEAN],
           latest_logical_time' \in Int
    PROVE  Core'
<1>1. RootCert \in OrderingCert /\ RootCert.block = ledger
  <2>1. RootCert = [block |-> ledger, certified |-> RootCert.certified]
        /\ RootCert.block = ledger
    BY DEF RootCert
  <2>2. ledger \in Blocks /\ ledger \in Decided
    BY Rounds DEF TypeOK
  <2>3. CASE order_vote_enabled
    <3>1. RootCert.certified = None
      BY <2>3 DEF RootCert
    <3>2. QED
      BY <2>1, <2>2, <2>3, <3>1 DEF OrderingCert, Cert
  <2>4. CASE ~ order_vote_enabled
    <3>1. RootCert.certified = CHOOSE b \in StoredQCs : commit_info[b] = ledger
      BY <2>4 DEF RootCert
    <3>2. \E b \in StoredQCs : commit_info[b] = ledger
      BY <2>4 DEF CanFindRoot
    <3>3. RootCert.certified \in StoredQCs
      BY <3>1, <3>2
    <3>4. RootCert.certified \in Certified /\ RootCert.certified \in Blocks
      BY <3>3, RecoveredFacts, OrderedFacts
    <3>5. QED
      BY <2>1, <2>2, <3>4 DEF OrderingCert, Cert
  <2>5. QED
    BY <2>3, <2>4
<1>2. ledger \in Certified /\ ledger \in Blocks /\ ledger \in Chain /\ RoundOf[ledger] \in Nat
  BY RecoveredFacts, Rounds DEF CanFindRoot
<1>3. /\ Connected \in SUBSET Blocks /\ RecoveredQCs \in SUBSET Certified
      /\ \A b \in Connected : RoundOf[b] > RoundOf[ledger]
      /\ RecoveredDB \in [blocks : SUBSET Blocks, qcs : SUBSET Certified, tc : Nat]
  BY RecoveredFacts
<1>4. /\ TreeOK(tree') /\ tree'.id_to_block = {ledger} \cup Connected
      /\ tree'.ordered_root = ledger /\ TreeInv'
  <2>1. tree' = BuildTree(RootCert, Connected, RecoveredQCs, tc)
    BY DEF Build
  <2>2. RootCert.block \in Certified
    BY <1>1, <1>2
  <2>3. TreeBuilt(tree', RootCert.block, Connected)
    BY <1>1, <1>3, <2>1, <2>2, BuildTreeFacts
  <2>4. TreeBuilt(tree', ledger, Connected)
    BY <1>1, <2>3
  <2>5. \A b \in Connected : /\ ledger \in Ancestors[b] /\ ledger # b
                             /\ \A c \in Ancestors[b] :
                                   RoundOf[c] > RoundOf[ledger] => c \in Connected
    <3>1. SUFFICES ASSUME NEW b \in Connected, NEW c \in Ancestors[b],
                          RoundOf[c] > RoundOf[ledger]
                   PROVE  c \in Connected
      BY DEF Connected
    <3>2. /\ b \in Blocks /\ c \in Blocks /\ ledger \in Ancestors[b] /\ c \in db.blocks
          /\ {d \in Ancestors[b] : RoundOf[d] > RoundOf[ledger]} \subseteq db.blocks
      BY <1>3, <3>1, AncestorFacts DEF Connected
    <3>3. RoundOf[c] \in Nat /\ RoundOf[ledger] <= RoundOf[c] /\ c # ledger
      BY <1>2, <3>1, <3>2, BlockFacts
    <3>4. ledger \in Ancestors[c] /\ Ancestors[c] \subseteq Ancestors[b]
      BY <3>1, <3>2, <3>3, AncestorFacts
    <3>5. QED
      BY <3>2, <3>3, <3>4 DEF Connected
  <2>6. TreeInv'
    BY <1>2, <1>3, <2>4, <2>5, BuiltTree
  <2>7. QED
    BY <2>4, <2>6 DEF TreeBuilt
<1>5. /\ \A b \in Blocks : stage'[b] = IF b = ledger THEN "finished"
                                       ELSE IF b \in Connected THEN "live" ELSE "none"
      /\ stage' \in [Blocks -> {"none", "live", "pre_committed", "committed", "finished"}]
      /\ \A b \in Blocks : order_proof'[b] = None /\ commit_proof'[b] = None
      /\ order_proof' \in [Blocks -> Blocks \cup {None}]
      /\ commit_proof' \in [Blocks -> Blocks \cup {None}]
      /\ aborted' = {} /\ db' = RecoveredDB
  BY DEF Build
<1>6. TypeOK'
  <2>1. late' \subseteq Blocks
    BY OrderedFacts
  <2>2. QED
    BY <1>2, <1>3, <1>4, <1>5, <2>1 DEF TypeOK, TreeOK
<1>7. ProofsOnChain'
  <2>1. \A b \in late' : \A c \in tree'.id_to_block : RoundOf[b] <= RoundOf[c]
    BY <1>2, <1>3, <1>4, ChainIsClosed, BlockFacts
  <2>2. QED
    BY <1>2, <1>4, <1>5, <2>1 DEF ProofsOnChain
<1>8. WrittenAhead'
  BY <1>5 DEF WrittenAhead
<1>9. \A b \in Blocks : b \in tree'.id_to_block <=> stage'[b] # "none"
  BY <1>4, <1>5
<1>10. PipelinesRun'
  <2>1. \A b \in Chain : b \in Blocks /\ RoundOf[b] \in Nat
    BY ChainIsClosed
  <2>2. \A b \in Chain : Pending(b)' => RoundOf[b] > RoundOf[ledger]
    BY <1>3, <1>5, <2>1 DEF Pending
  <2>3. \A b \in Blocks : \A c \in Ancestors[b] :
          stage'[b] \in {"pre_committed", "committed", "finished"} => ~ Pending(c)'
    <3>1. SUFFICES ASSUME NEW c \in Ancestors[ledger] PROVE ~ Pending(c)'
      BY <1>5
    <3>2. c \in Blocks /\ RoundOf[c] <= RoundOf[ledger] /\ RoundOf[c] \in Nat
      BY <1>2, AncestorFacts, BlockFacts
    <3>3. QED
      BY <1>2, <1>3, <1>5, <3>2 DEF Pending
  <2>4. QED
    BY <1>2, <1>4, <2>1, <2>2, <2>3 DEF PipelinesRun, Pending
<1>11. QED
  BY <1>4, <1>6, <1>7, <1>8, <1>9, <1>10 DEF Core

LEMMA RebuildStep ==
    ASSUME IInv, Rebuild
    PROVE  /\ IInv' /\ UNCHANGED <<ledger, pre_committed>>
           /\ CanFindRoot => Quiet(todo', process)
<1>1. /\ Handler(todo, process) /\ todo # <<>> /\ todo[1][1] = "rebuild"
      /\ TypeOK /\ ProofsOnChain /\ WrittenAhead
  BY DEF IInv, Rebuild, Doing
<1>2. CASE CanFindRoot
  <2>1. /\ Build(tree.highest_tc) /\ ContinueWith(TrySends)
        /\ UNCHANGED <<ledger, pre_committed, latest_logical_time, process>>
        /\ late' = late \cup {b \in Blocks : stage[b] = "committed" /\ commit_proof[b] = b}
        /\ pre_commit_status' = [pre_commit_status EXCEPT
                    !.round = IF RoundOf[ledger] > @ THEN RoundOf[ledger] ELSE @]
    BY <1>2 DEF Rebuild
  <2>2. late' \in SUBSET {b \in Chain : RoundOf[b] <= RoundOf[ledger]}
    BY <1>1, <2>1 DEF ProofsOnChain
  <2>3. /\ pre_commit_status' \in [round : Nat, paused : BOOLEAN]
        /\ pre_committed' \in Chain /\ RoundOf[ledger] <= RoundOf[pre_committed']
        /\ latest_logical_time' \in Int /\ tree.highest_tc \in Nat
    BY <1>1, <2>1, Rounds DEF TypeOK, WrittenAhead
  <2>4. Core'
    BY <1>1, <1>2, <2>1, <2>2, <2>3, BuildCore
  <2>5. Quiet(todo', process)
    BY <1>1, <2>1, TrySendsQuiet, GoesOn
  <2>6. QED
    BY <2>1, <2>4, <2>5, QuietStep
<1>3. CASE ~ CanFindRoot /\ Panic("recovery")
  BY <1>3, PanicStep DEF Panic, storage
<1>4. QED
  BY <1>2, <1>3 DEF Rebuild

LEMMA RestartStep ==
    ASSUME IInv, Restart
    PROVE  IInv'
<1>1. TypeOK
  BY DEF IInv
<1>2. /\ CanFindRoot /\ Build(db.tc) /\ pre_committed' = ledger /\ late' = {}
      /\ pre_commit_status' = [round |-> RoundOf[ledger], paused |-> FALSE]
      /\ latest_logical_time' = -1 /\ todo' = TrySends /\ UNCHANGED ledger
  BY DEF Restart
<1>3. /\ pre_commit_status' \in [round : Nat, paused : BOOLEAN]
      /\ pre_committed' \in Chain /\ RoundOf[ledger] <= RoundOf[pre_committed']
      /\ latest_logical_time' \in Int /\ db.tc \in Nat
      /\ late' \in SUBSET {b \in Chain : RoundOf[b] <= RoundOf[ledger]}
  BY <1>1, <1>2, Rounds DEF TypeOK
<1>4. Core'
  BY <1>1, <1>2, <1>3, BuildCore
<1>5. Quiet(todo', process')
  BY <1>1, <1>2, TrySendsQuiet
<1>6. QED
  BY <1>4, <1>5, QuietStep

LEMMA RestartToRecoverStep ==
    ASSUME IInv, RestartToRecover
    PROVE  IInv'
<1>1. TypeOK /\ ProofsOnChain
  BY DEF IInv
<1>2. /\ UNCHANGED <<tree, db, ledger>> /\ pre_committed' = ledger
      /\ \A b \in Blocks : stage'[b] = "none" /\ order_proof'[b] = None /\ commit_proof'[b] = None
      /\ stage' \in [Blocks -> {"none", "live", "pre_committed", "committed", "finished"}]
      /\ order_proof' \in [Blocks -> Blocks \cup {None}]
      /\ commit_proof' \in [Blocks -> Blocks \cup {None}]
      /\ late' = {} /\ aborted' = {} /\ latest_logical_time' = -1
      /\ pre_commit_status' = [round |-> RoundOf[ledger], paused |-> FALSE]
      /\ todo' = <<>> /\ process' = "recovering"
  BY DEF RestartToRecover
<1>3. TypeOK'
  BY <1>1, <1>2, Rounds DEF TypeOK
<1>4. ProofsOnChain'
  BY <1>1, <1>2, OrderedFacts DEF ProofsOnChain
<1>5. WrittenAhead'
  BY <1>1, <1>2, Rounds DEF WrittenAhead
<1>6. TreeInv'
  BY <1>2, TreeKept DEF IInv, TreeInv
<1>7. Core'
  BY <1>2, <1>3, <1>4, <1>5, <1>6 DEF Core, Running
<1>8. QED
  BY <1>2, <1>7, QuietEmpty, QuietStep

LEMMA ExitStep ==
    ASSUME IInv, ExitRecovered
    PROVE  IInv' /\ UNCHANGED <<ledger, pre_committed>>
<1>1. CASE /\ db' = RecoveredDB /\ process' = "stopped" /\ todo' = <<>>
           /\ UNCHANGED <<tree, ledger, pre_committed, pipeline, pre_commit_status,
                          latest_logical_time>>
  <2>1. TypeOK /\ ProofsOnChain /\ WrittenAhead
    BY DEF IInv
  <2>2. db' \in [blocks : SUBSET Blocks, qcs : SUBSET Certified, tc : Nat]
    BY <1>1, <2>1, RecoveredFacts
  <2>3. TypeOK'
    BY <1>1, <2>1, <2>2 DEF TypeOK, pipeline
  <2>4. ProofsOnChain' /\ WrittenAhead' /\ TreeInv'
    BY <1>1, <2>1, TreeKept DEF ProofsOnChain, WrittenAhead, pipeline, IInv, TreeInv
  <2>5. Core'
    BY <1>1, <2>3, <2>4 DEF Core, Running
  <2>6. QED
    BY <1>1, <2>5, QuietEmpty, QuietStep
<1>2. CASE Panic("recovery")
  BY <1>2, PanicStep DEF Panic, storage
<1>3. QED
  BY <1>1, <1>2 DEF ExitRecovered

-----------------------------------------------------------------------------
(* The pipelines.                                                          *)

\* A pipeline that can write has not been aborted; then all of them run, and
\* no state sync is about to start.
LEMMA NotAborted ==
    ASSUME IInv, Running, NEW b \in Blocks,
           \/ Pending(b) /\ (b \notin aborted \/ commit_proof[b] # None)
           \/ order_proof[b] # None /\ commit_proof[b] = None /\ b \notin aborted
    PROVE  /\ PipelinesRun
           /\ todo # <<>> => todo[1][1] # "sync"
<1>1. ~ PipelinesAborted
  BY DEF PipelinesAborted
<1>2. QED
  BY <1>1 DEF IInv, HandlerInStep

\* A step of a pipeline that leaves all of them running.
LEMMA RunningStep ==
    ASSUME IInv, TypeOK', ProofsOnChain', WrittenAhead', PipelinesRun',
           todo # <<>> => todo[1][1] # "sync",
           \A b \in Blocks : stage'[b] = "none" <=> stage[b] = "none",
           Running, UNCHANGED <<tree, todo, process>>
    PROVE  IInv'
<1>1. Handler(todo, process)'
  <2>1. Handler(todo, process)
    BY DEF IInv
  <2>2. QED
    BY <2>1 DEF Handler, StepOK, Follows, MayEnd, Cert, OrderingCert
<1>2. \A b \in Blocks : b \in tree'.id_to_block <=> stage'[b] # "none"
  BY DEF IInv
<1>3. HandlerInStep' /\ InsertsNewBlock'
  BY DEF IInv, HandlerInStep, InsertsNewBlock
<1>4. TreeInv'
  BY TreeKept DEF IInv, TreeInv
<1>5. QED
  BY <1>1, <1>2, <1>3, <1>4 DEF IInv, TreeInv

LEMMA PreCommitStep ==
    ASSUME IInv, NEW b \in Blocks \ {Genesis}, PreCommit(b)
    PROVE  IInv'
<1>1. /\ Running /\ stage[b] = "live" /\ b \notin aborted /\ stage[Parent[b]] # "live"
      /\ order_proof[b] # None
      /\ stage' = [stage EXCEPT ![b] = "pre_committed"] /\ pre_committed' = b
      /\ UNCHANGED <<tree, db, ledger, aborted, order_proof, commit_proof, late,
                     latest_logical_time, todo, process>>
      /\ pre_commit_status' = [pre_commit_status EXCEPT
                                 !.round = IF RoundOf[b] > @ THEN RoundOf[b] ELSE @]
  BY DEF PreCommit
<1>2. TypeOK /\ ProofsOnChain /\ WrittenAhead
  BY DEF IInv
<1>3. PipelinesRun /\ (todo # <<>> => todo[1][1] # "sync")
  BY <1>1, NotAborted DEF Pending
<1>4. b \in Chain /\ RoundOf[b] <= RoundOf[tree.ordered_root] /\ RoundOf[b] > RoundOf[ledger]
  BY <1>1, <1>2, <1>3 DEF ProofsOnChain, PipelinesRun, Pending
<1>5. /\ \A c \in Blocks : stage'[c] = IF c = b THEN "pre_committed" ELSE stage[c]
      /\ stage' \in [Blocks -> {"none", "live", "pre_committed", "committed", "finished"}]
  BY <1>1, <1>2 DEF TypeOK
<1>6. /\ RoundOf[b] \in Nat /\ RoundOf[ledger] \in Nat /\ RoundOf[tree.ordered_root] \in Nat
      /\ \A c \in Blocks : RoundOf[c] \in Nat
  BY <1>2, Rounds, BlockFacts
<1>7. TypeOK'
  <2>1. pre_commit_status' \in [round : Nat, paused : BOOLEAN]
    BY <1>1, <1>2, <1>6 DEF TypeOK
  <2>2. QED
    BY <1>1, <1>2, <1>4, <1>5, <2>1 DEF TypeOK
<1>8. ProofsOnChain'
  BY <1>1, <1>2, <1>4, <1>5 DEF ProofsOnChain
<1>9. \A c \in Ancestors[b] : c # b => stage[c] # "live"
  <2>1. SUFFICES ASSUME NEW c \in Ancestors[b], c # b, stage[c] = "live" PROVE FALSE
    OBVIOUS
  <2>2. /\ c \in Blocks /\ c \in Ancestors[Parent[b]] /\ c \in Chain
        /\ Parent[b] \in Blocks /\ RoundOf[Parent[b]] < RoundOf[b]
        /\ Parent[b] \in Ancestors[b] /\ Parent[b] \in Chain
    BY <1>4, <2>1, AncestorFacts, AncestorsStep, BlockFacts, ChainIsClosed
  <2>3. RoundOf[c] > RoundOf[ledger] /\ RoundOf[c] <= RoundOf[Parent[b]]
    BY <1>3, <2>1, <2>2, AncestorFacts DEF PipelinesRun, Pending
  <2>4. RoundOf[Parent[b]] > RoundOf[ledger] /\ RoundOf[Parent[b]] <= RoundOf[tree.ordered_root]
    BY <1>4, <1>6, <2>2, <2>3
  <2>5. stage[Parent[b]] # "none"
    BY <1>3, <2>2, <2>4 DEF PipelinesRun
  <2>6. stage[Parent[b]] \in {"pre_committed", "committed", "finished"}
    BY <1>1, <1>2, <2>2, <2>5 DEF TypeOK
  <2>7. QED
    BY <1>3, <2>1, <2>2, <2>6 DEF PipelinesRun
<1>10. WrittenAhead'
  <2>1. \A c \in Blocks : stage[c] = "pre_committed" => RoundOf[c] <= RoundOf[b]
    <3>1. SUFFICES ASSUME NEW c \in Blocks, stage[c] = "pre_committed",
                          ~ (RoundOf[c] <= RoundOf[b])
                   PROVE  FALSE
      OBVIOUS
    <3>2. c \in Chain /\ RoundOf[b] <= RoundOf[c]
      BY <1>2, <1>6, <3>1 DEF ProofsOnChain
    <3>3. b \in Ancestors[c]
      BY <1>4, <3>2, ChainIsBranch
    <3>4. QED
      BY <1>1, <1>3, <3>1, <3>3 DEF PipelinesRun
  <2>2. QED
    BY <1>1, <1>4, <1>5, <1>6, <2>1 DEF WrittenAhead
<1>11. PipelinesRun'
  <2>1. ASSUME NEW x \in Blocks, NEW c \in Ancestors[x]
        PROVE  /\ stage'[x] \in {"pre_committed", "committed", "finished"} => stage'[c] # "live"
               /\ stage'[x] \in {"committed", "finished"} => ~ Pending(c)'
    <3>1. c \in Blocks
      BY AncestorFacts
    <3>2. CASE x = b
      BY <1>5, <1>9, <3>1, <3>2
    <3>3. CASE x # b
      BY <1>1, <1>3, <1>5, <3>1, <3>3 DEF PipelinesRun, Pending
    <3>4. QED
      BY <3>2, <3>3
  <2>2. \A c \in Chain : c \in Blocks
    BY OrderedFacts
  <2>3. QED
    BY <1>1, <1>3, <1>4, <1>5, <2>1, <2>2 DEF PipelinesRun, Pending
<1>12. \A c \in Blocks : stage'[c] = "none" <=> stage[c] = "none"
  BY <1>1, <1>5
<1>13. QED
  BY <1>1, <1>3, <1>7, <1>8, <1>10, <1>11, <1>12, RunningStep

LEMMA CommitProofStep ==
    ASSUME IInv, NEW b \in Blocks, CommitProof(b)
    PROVE  IInv'
<1>1. /\ Running /\ order_proof[b] = b /\ b \notin aborted /\ commit_proof[b] = None
      /\ commit_proof' = [c \in Blocks |->
            IF order_proof[c] # None /\ commit_proof[c] = None /\ c \in Ancestors[b]
            THEN b ELSE commit_proof[c]]
      /\ UNCHANGED <<tree, storage, stage, aborted, order_proof, late, pre_commit_status,
                     latest_logical_time, todo, process>>
  BY DEF CommitProof
<1>2. TypeOK /\ ProofsOnChain /\ WrittenAhead /\ b # None
  BY BlockFacts DEF IInv
<1>3. PipelinesRun /\ (todo # <<>> => todo[1][1] # "sync")
  BY <1>1, <1>2, NotAborted
<1>4. /\ \A c \in Blocks : commit_proof'[c] =
            IF order_proof[c] # None /\ commit_proof[c] = None /\ c \in Ancestors[b]
            THEN b ELSE commit_proof[c]
      /\ commit_proof' \in [Blocks -> Decided \cup {None}]
  BY <1>1, <1>2 DEF TypeOK
<1>5. TypeOK' /\ WrittenAhead'
  BY <1>1, <1>2, <1>4 DEF TypeOK, WrittenAhead, storage
<1>6. \A c \in Blocks : commit_proof[c] # None => commit_proof'[c] = commit_proof[c]
  BY <1>4
<1>7. ProofsOnChain'
  <2>1. ASSUME NEW c \in Blocks, commit_proof'[c] # None
        PROVE  /\ order_proof[c] # None
               /\ \A d \in Ancestors[c] : order_proof[d] # None => commit_proof'[d] # None
    <3>1. CASE commit_proof[c] # None
      <4>1. \A d \in Ancestors[c] : d \in Blocks
        BY AncestorFacts
      <4>2. QED
        BY <1>2, <1>6, <3>1, <4>1 DEF ProofsOnChain
    <3>2. CASE commit_proof[c] = None
      <4>1. order_proof[c] # None /\ c \in Ancestors[b]
        BY <1>4, <2>1, <3>2
      <4>2. \A d \in Ancestors[c] : d \in Blocks /\ d \in Ancestors[b]
        BY <4>1, AncestorFacts
      <4>3. QED
        BY <1>2, <1>4, <4>1, <4>2
    <3>3. QED
      BY <3>1, <3>2
  <2>2. ASSUME NEW c \in Blocks, stage[c] = "committed"
        PROVE  /\ commit_proof'[c] # None
               /\ commit_proof'[c] = c => RoundOf[c] <= RoundOf[ledger]
    BY <1>2, <1>6, <2>2 DEF ProofsOnChain
  <2>3. \A c \in Blocks : order_proof[c] # None /\ c \notin tree.id_to_block =>
            commit_proof'[c] # None
    BY <1>2, <1>6 DEF ProofsOnChain
  <2>4. QED
    BY <1>1, <1>2, <2>1, <2>2, <2>3 DEF ProofsOnChain, storage
<1>8. PipelinesRun'
  BY <1>1, <1>3 DEF PipelinesRun, Pending, storage
<1>9. QED
  BY <1>1, <1>3, <1>5, <1>7, <1>8, RunningStep

\* A block is committed when it is next, so the ledger moves up.
LEMMA CommitLedgerStep ==
    ASSUME IInv, NEW b \in Blocks \ {Genesis}, CommitLedger(b)
    PROVE  IInv' /\ RoundOf[ledger] <= RoundOf[ledger']
<1>1. /\ Running /\ stage[b] = "pre_committed" /\ commit_proof[b] # None
      /\ stage[Parent[b]] \notin {"live", "pre_committed"}
      /\ stage' = [stage EXCEPT ![b] = "committed"]
      /\ ledger' = IF commit_proof[b] = b THEN b ELSE ledger
      /\ UNCHANGED <<tree, db, pre_committed, aborted, order_proof, commit_proof, late,
                     pre_commit_status, latest_logical_time, todo, process>>
  BY DEF CommitLedger
<1>2. TypeOK /\ ProofsOnChain /\ WrittenAhead
  BY DEF IInv
<1>3. PipelinesRun /\ (todo # <<>> => todo[1][1] # "sync")
  BY <1>1, NotAborted DEF Pending
<1>4. /\ b \in Chain /\ RoundOf[b] <= RoundOf[tree.ordered_root]
      /\ RoundOf[b] > RoundOf[ledger] /\ RoundOf[b] <= RoundOf[pre_committed]
  BY <1>1, <1>2, <1>3 DEF ProofsOnChain, PipelinesRun, WrittenAhead, Pending
<1>5. /\ \A c \in Blocks : stage'[c] = IF c = b THEN "committed" ELSE stage[c]
      /\ stage' \in [Blocks -> {"none", "live", "pre_committed", "committed", "finished"}]
  BY <1>1, <1>2 DEF TypeOK
<1>6. /\ RoundOf[b] \in Nat /\ RoundOf[ledger] \in Nat /\ RoundOf[tree.ordered_root] \in Nat
      /\ RoundOf[pre_committed] \in Nat
      /\ \A c \in Blocks : RoundOf[c] \in Nat
  BY <1>2, Rounds, BlockFacts
<1>7. /\ ledger' \in Chain /\ RoundOf[ledger'] \in Nat /\ RoundOf[ledger] <= RoundOf[ledger']
      /\ RoundOf[ledger'] <= RoundOf[b] /\ RoundOf[ledger'] <= RoundOf[pre_committed]
      /\ RoundOf[ledger'] <= RoundOf[tree.ordered_root]
      /\ commit_proof[b] = b => ledger' = b
  <2>1. ledger \in Chain /\ RoundOf[ledger] <= RoundOf[pre_committed]
        /\ RoundOf[ledger] <= RoundOf[tree.ordered_root]
    BY <1>2, <1>3, Rounds DEF WrittenAhead, PipelinesRun
  <2>2. QED
    BY <1>1, <1>4, <1>6, <2>1
<1>8. TypeOK'
  BY <1>1, <1>2, <1>5, <1>7 DEF TypeOK
<1>9. \A c \in Blocks : RoundOf[c] <= RoundOf[ledger] => RoundOf[c] <= RoundOf[ledger']
  BY <1>6, <1>7
<1>10. ProofsOnChain'
  <2>1. \A c \in Blocks : stage'[c] = "committed" =>
            /\ commit_proof[c] # None
            /\ commit_proof[c] = c => RoundOf[c] <= RoundOf[ledger']
    <3>1. SUFFICES ASSUME NEW c \in Blocks, stage'[c] = "committed"
                   PROVE  /\ commit_proof[c] # None
                          /\ commit_proof[c] = c => RoundOf[c] <= RoundOf[ledger']
      OBVIOUS
    <3>2. CASE c = b
      BY <1>1, <1>6, <1>7, <3>2
    <3>3. CASE c # b
      BY <1>2, <1>5, <1>9, <3>1, <3>3 DEF ProofsOnChain
    <3>4. QED
      BY <3>2, <3>3
  <2>2. \A c \in late :
            /\ c \in Chain
            /\ RoundOf[c] <= RoundOf[ledger'] /\ RoundOf[c] <= RoundOf[tree.ordered_root]
            /\ \A d \in tree.id_to_block : RoundOf[c] <= RoundOf[d]
    BY <1>2, <1>9, OrderedFacts DEF ProofsOnChain
  <2>3. \A c \in Blocks : stage'[c] \in {"pre_committed", "committed", "finished"} =>
            c \in Chain /\ RoundOf[c] <= RoundOf[tree.ordered_root]
    BY <1>2, <1>4, <1>5 DEF ProofsOnChain
  <2>4. QED
    BY <1>1, <1>2, <2>1, <2>2, <2>3 DEF ProofsOnChain
<1>11. WrittenAhead'
  BY <1>1, <1>2, <1>5, <1>7 DEF WrittenAhead
<1>12. \A c \in Ancestors[b] : c # b => ~ Pending(c)
  <2>1. SUFFICES ASSUME NEW c \in Ancestors[b], c # b, Pending(c) PROVE FALSE
    OBVIOUS
  <2>2. /\ c \in Blocks /\ c \in Ancestors[Parent[b]] /\ c \in Chain
        /\ Parent[b] \in Blocks /\ RoundOf[Parent[b]] < RoundOf[b]
        /\ Parent[b] \in Ancestors[b] /\ Parent[b] \in Chain
    BY <1>4, <2>1, AncestorFacts, AncestorsStep, BlockFacts, ChainIsClosed
  <2>3. RoundOf[c] > RoundOf[ledger] /\ RoundOf[c] <= RoundOf[Parent[b]]
    BY <1>3, <2>1, <2>2, AncestorFacts DEF PipelinesRun
  <2>4. RoundOf[Parent[b]] > RoundOf[ledger] /\ RoundOf[Parent[b]] <= RoundOf[tree.ordered_root]
    BY <1>4, <1>6, <2>2, <2>3
  <2>5. stage[Parent[b]] # "none"
    BY <1>3, <2>2, <2>4 DEF PipelinesRun
  <2>6. stage[Parent[b]] \in {"committed", "finished"}
    BY <1>1, <1>2, <2>2, <2>5 DEF TypeOK
  <2>7. QED
    BY <1>3, <2>1, <2>2, <2>6 DEF PipelinesRun
<1>13. \A c \in Chain : Pending(c)' => RoundOf[c] > RoundOf[ledger']
  <2>1. SUFFICES ASSUME NEW c \in Chain, Pending(c)', ~ (RoundOf[c] > RoundOf[ledger'])
                 PROVE  FALSE
    OBVIOUS
  <2>2. c \in Blocks /\ RoundOf[c] \in Nat
    BY <1>6, OrderedFacts
  <2>3. c # b /\ Pending(c)
    BY <1>5, <2>1, <2>2 DEF Pending
  <2>4. RoundOf[c] <= RoundOf[b]
    BY <1>6, <1>7, <2>1, <2>2
  <2>5. c \in Ancestors[b]
    BY <1>4, <2>4, ChainIsBranch
  <2>6. QED
    BY <1>12, <2>3, <2>5
<1>14. PipelinesRun'
  <2>1. ASSUME NEW x \in Blocks, NEW c \in Ancestors[x]
        PROVE  /\ stage'[x] \in {"pre_committed", "committed", "finished"} => stage'[c] # "live"
               /\ stage'[x] \in {"committed", "finished"} => ~ Pending(c)'
    <3>1. c \in Blocks
      BY AncestorFacts
    <3>2. CASE x = b
      BY <1>5, <1>12, <3>1, <3>2 DEF Pending
    <3>3. CASE x # b
      BY <1>1, <1>3, <1>5, <3>1, <3>3 DEF PipelinesRun, Pending
    <3>4. QED
      BY <3>2, <3>3
  <2>2. \A c \in Chain :
            RoundOf[c] > RoundOf[ledger'] /\ RoundOf[c] <= RoundOf[tree.ordered_root] =>
                stage'[c] # "none"
    <3>1. SUFFICES ASSUME NEW c \in Chain, RoundOf[c] > RoundOf[ledger'],
                          RoundOf[c] <= RoundOf[tree.ordered_root]
                   PROVE  stage'[c] # "none"
      OBVIOUS
    <3>2. c \in Blocks /\ RoundOf[c] > RoundOf[ledger]
      BY <1>6, <1>7, <3>1, OrderedFacts
    <3>3. QED
      BY <1>3, <1>5, <3>1, <3>2 DEF PipelinesRun
  <2>3. QED
    BY <1>1, <1>7, <1>13, <2>1, <2>2 DEF PipelinesRun
<1>15. \A c \in Blocks : stage'[c] = "none" <=> stage[c] = "none"
  BY <1>1, <1>5
<1>16. QED
  BY <1>1, <1>3, <1>7, <1>8, <1>10, <1>11, <1>14, <1>15, RunningStep

-----------------------------------------------------------------------------
(* Pruning.                                                                *)

\* The first e blocks of a list, and the others.
LEMMA Cut ==
    ASSUME NEW s \in Seq(Blocks), NEW e \in 0 .. Len(s)
    PROVE  /\ \A x : x \in ToSet(SubSeq(s, 1, e)) <=> \E i \in 1 .. e : s[i] = x
           /\ SubSeq(s, e + 1, Len(s)) \in Seq(Blocks)
           /\ Len(SubSeq(s, e + 1, Len(s))) = Len(s) - e
           /\ \A i \in 1 .. Len(s) - e : SubSeq(s, e + 1, Len(s))[i] = s[i + e]
           /\ \A x : x \in ToSet(SubSeq(s, e + 1, Len(s))) <=>
                       \E i \in e + 1 .. Len(s) : s[i] = x
<1> DEFINE first == SubSeq(s, 1, e)
           rest == SubSeq(s, e + 1, Len(s))
<1>1. Len(s) \in Nat /\ e \in Nat /\ e <= Len(s)
  OBVIOUS
<1>2. /\ first \in Seq(Blocks) /\ Len(first) = e /\ \A i \in 1 .. e : first[i] = s[i]
      /\ DOMAIN first = 1 .. e
  BY <1>1
<1>3. /\ rest \in Seq(Blocks) /\ Len(rest) = Len(s) - e
      /\ \A i \in 1 .. Len(s) - e : rest[i] = s[i + e]
      /\ DOMAIN rest = 1 .. Len(s) - e
  BY <1>1
<1> HIDE DEF first, rest
<1>4. \A x : x \in ToSet(first) <=> \E i \in 1 .. e : s[i] = x
  BY <1>2 DEF ToSet
<1>5. ASSUME NEW x PROVE x \in ToSet(rest) <=> \E i \in e + 1 .. Len(s) : s[i] = x
  <2>1. x \in ToSet(rest) <=> \E i \in 1 .. Len(s) - e : s[i + e] = x
    BY <1>3 DEF ToSet
  <2>2. ASSUME NEW i \in 1 .. Len(s) - e, s[i + e] = x
        PROVE  \E k \in e + 1 .. Len(s) : s[k] = x
    <3>1. i + e \in e + 1 .. Len(s)
      BY <1>1
    <3>2. QED
      BY <2>2, <3>1
  <2>3. ASSUME NEW k \in e + 1 .. Len(s), s[k] = x
        PROVE  \E i \in 1 .. Len(s) - e : s[i + e] = x
    <3>1. k - e \in 1 .. Len(s) - e /\ (k - e) + e = k
      BY <1>1
    <3>2. QED
      BY <2>3, <3>1
  <2>4. QED
    BY <2>1, <2>2, <2>3
<1>6. QED
  BY <1>3, <1>4, <1>5 DEF first, rest

\* If the ancestors come first, and the first e blocks leave, then with a block
\* its ancestors leave, and the ancestors come first in the others.
LEMMA CutInOrder ==
    ASSUME NEW s \in Seq(Blocks), NEW S, AncestorsFirst(s, S), NEW e \in 0 .. Len(s)
    PROVE  LET gone == ToSet(SubSeq(s, 1, e))
               left == SubSeq(s, e + 1, Len(s))
           IN  /\ \A x \in gone : Ancestors[x] \cap S \subseteq gone
               /\ AncestorsFirst(left, S \ gone)
               /\ ToSet(s) \ gone \subseteq ToSet(left)
               /\ gone \subseteq ToSet(s) /\ ToSet(left) \subseteq ToSet(s)
<1> DEFINE gone == ToSet(SubSeq(s, 1, e))
           left == SubSeq(s, e + 1, Len(s))
<1>1. Len(s) \in Nat /\ e \in Nat /\ e <= Len(s) /\ DOMAIN s = 1 .. Len(s)
  OBVIOUS
<1>2. /\ \A x : x \in gone <=> \E i \in 1 .. e : s[i] = x
      /\ Len(left) = Len(s) - e
      /\ \A i \in 1 .. Len(s) - e : left[i] = s[i + e]
      /\ \A x : x \in ToSet(left) <=> \E i \in e + 1 .. Len(s) : s[i] = x
  BY Cut, Zenon
<1> HIDE DEF gone, left
<1>3. \A i \in 1 .. Len(s) : \A c \in Ancestors[s[i]] \cap S :
          s[i] \in S /\ \E j \in 1 .. i : s[j] = c
  BY DEF AncestorsFirst
<1>4. ASSUME NEW x \in gone, NEW c \in Ancestors[x] \cap S PROVE c \in gone
  <2>1. PICK i \in 1 .. e : s[i] = x
    BY <1>2
  <2>2. i \in 1 .. Len(s)
    BY <1>1
  <2>3. PICK j \in 1 .. i : s[j] = c
    BY <1>3, <2>1, <2>2
  <2>4. j \in 1 .. e
    BY <1>1, <2>1
  <2>5. QED
    BY <1>2, <2>3, <2>4
<1>5. ASSUME NEW i \in 1 .. Len(left), NEW c \in Ancestors[left[i]] \cap (S \ gone)
      PROVE  left[i] \in S \ gone /\ \E j \in 1 .. i : left[j] = c
  <2>1. i \in 1 .. Len(s) - e /\ i + e \in 1 .. Len(s) /\ left[i] = s[i + e]
    BY <1>1, <1>2
  <2>2. s[i + e] \in S /\ \E j \in 1 .. i + e : s[j] = c
    BY <1>3, <1>5, <2>1
  <2>3. PICK j \in 1 .. i + e : s[j] = c
    BY <2>2
  <2>4. ~ (j \in 1 .. e)
    BY <1>2, <1>5, <2>3
  <2>5. j - e \in 1 .. i /\ j - e \in 1 .. Len(s) - e /\ (j - e) + e = j
    BY <1>1, <2>1, <2>4
  <2>6. left[j - e] = c
    BY <1>2, <2>3, <2>5
  <2>7. left[i] \notin gone
    BY <1>4, <1>5
  <2>8. QED
    BY <2>1, <2>2, <2>5, <2>6, <2>7
<1>6. ToSet(s) \ gone \subseteq ToSet(left)
  <2>1. SUFFICES ASSUME NEW i \in 1 .. Len(s), s[i] \notin gone PROVE s[i] \in ToSet(left)
    BY <1>1 DEF ToSet
  <2>2. ~ (i \in 1 .. e)
    BY <1>2, <2>1
  <2>3. i \in e + 1 .. Len(s)
    BY <1>1, <2>2
  <2>4. QED
    BY <1>2, <2>3
<1>7. gone \subseteq ToSet(s) /\ ToSet(left) \subseteq ToSet(s)
  <2>1. \A i \in 1 .. e : i \in 1 .. Len(s)
    BY <1>1
  <2>2. \A i \in e + 1 .. Len(s) : i \in 1 .. Len(s)
    BY <1>1
  <2>3. QED
    BY <1>1, <1>2, <2>1, <2>2 DEF ToSet
<1>8. QED
  BY <1>4, <1>5, <1>6, <1>7 DEF AncestorsFirst, gone, left

\* find_blocks_to_prune lists every block on its way once.
LEMMA PruneList ==
    ASSUME TypeOK, NEW b \in Blocks, NEW ids \in find_blocks_to_prune(b)
    PROVE  LET below == IF b = tree.window_root THEN {} ELSE BlocksBelow(b)
           IN  /\ ids \in Seq(Blocks) /\ ToSet(ids) = below
               /\ \A i, j \in 1 .. Len(ids) : i < j => ids[j] \notin Ancestors[ids[i]]
<1> DEFINE below == IF b = tree.window_root THEN {} ELSE BlocksBelow(b)
<1>1. below \in SUBSET Blocks
  BY Rounds DEF BlocksBelow
<1>2. /\ ids \in [1 .. Cardinality(below) -> below]
      /\ \A i, j \in DOMAIN ids : i < j => ids[j] \notin Ancestors[ids[i]]
  BY DEF find_blocks_to_prune
<1> HIDE DEF below
<1>3. IsFiniteSet(below) /\ Cardinality(below) \in Nat
  BY <1>1, BlockStoreAssumption, FS_Subset, FS_CardinalityType
<1>4. PICK n \in Nat : n = Cardinality(below)
  BY <1>3
<1>5. /\ ids \in [1 .. n -> below] /\ DOMAIN ids = 1 .. n
      /\ \A i, j \in 1 .. n : i < j => ids[j] \notin Ancestors[ids[i]]
  BY <1>2, <1>4
<1>6. ids \in Seq(Blocks) /\ Len(ids) = n
  BY <1>1, <1>5
<1>7. ids \in Injection(1 .. n, below)
  <2>1. ASSUME NEW i \in 1 .. n, NEW j \in 1 .. n, i < j PROVE ids[i] # ids[j]
    <3>1. ids[j] \notin Ancestors[ids[i]] /\ ids[i] \in Ancestors[ids[i]]
      BY <1>1, <1>5, <2>1, AncestorsStep
    <3>2. QED
      BY <3>1
  <2>2. \A i, j \in 1 .. n : ids[i] = ids[j] => i = j
    BY <2>1
  <2>3. QED
    BY <1>5, <2>2 DEF Injection, IsInjective
<1>8. Cardinality(1 .. n) = n
  <2>1. Cardinality(1 .. n) = IF 1 > n THEN 0 ELSE n - 1 + 1
    BY FS_Interval
  <2>2. QED
    BY <2>1
<1>9. ids \in Surjection(1 .. n, below)
  BY <1>3, <1>4, <1>7, <1>8, FS_Injection
<1>10. \A c \in below : \E i \in 1 .. n : ids[i] = c
  BY <1>9 DEF Surjection
<1>11. ToSet(ids) = below
  BY <1>5, <1>10 DEF ToSet
<1>12. QED
  BY <1>5, <1>6, <1>11 DEF below

\* In the blocks pruned before and now, the ancestors come first, and what is
\* below the new root is among them.
LEMMA PrunedList ==
    ASSUME TypeOK, TreeInv, NEW b \in tree.id_to_block \cap Chain,
           NEW ids \in find_blocks_to_prune(b)
    PROVE  LET pruned == tree.pruned \o ids
           IN  /\ pruned \in Seq(Blocks)
               /\ AncestorsFirst(pruned, tree.id_to_block)
               /\ ToSet(pruned) = ToSet(tree.pruned) \cup ToSet(ids)
               /\ (Ancestors[b] \cap tree.id_to_block) \ {b} \subseteq ToSet(pruned)
               /\ ToSet(ids) \subseteq tree.id_to_block
<1> DEFINE id == tree.id_to_block
           w == tree.window_root
           old == tree.pruned
           below == IF b = w THEN {} ELSE BlocksBelow(b)
           pruned == old \o ids
<1>1. /\ id \subseteq Blocks /\ b \in Blocks /\ w \in id \cap Chain /\ w \in Blocks
      /\ old \in Seq(Blocks) /\ TreeLinked /\ PrunedInOrder
  BY Rounds DEF TypeOK, TreeInv, RootsInTree
<1>2. /\ ids \in Seq(Blocks) /\ ToSet(ids) = below
      /\ \A i, j \in 1 .. Len(ids) : i < j => ids[j] \notin Ancestors[ids[i]]
  BY <1>1, PruneList
<1>3. \A c \in below : c \in id /\ w \in Ancestors[c]
  BY DEF BlocksBelow
<1>4. \A c \in id : /\ b # w /\ w \in Ancestors[c]
                    /\ b \notin Ancestors[c] \/ b \in Ancestors[w]
                    => c \in below
  BY DEF BlocksBelow
<1>5. \A c \in below : b \notin Ancestors[c] \/ b \in Ancestors[w]
  BY DEF BlocksBelow
<1>6. \A c \in below : b # w
  OBVIOUS
<1>7. /\ Len(old) \in Nat /\ Len(ids) \in Nat
      /\ DOMAIN old = 1 .. Len(old) /\ DOMAIN ids = 1 .. Len(ids)
  BY <1>1, <1>2
<1>8. /\ pruned \in Seq(Blocks) /\ Len(pruned) = Len(old) + Len(ids)
      /\ DOMAIN pruned = 1 .. Len(old) + Len(ids)
      /\ \A i \in 1 .. Len(old) : pruned[i] = old[i]
      /\ \A i \in 1 .. Len(ids) : pruned[Len(old) + i] = ids[i]
  BY <1>1, <1>2
<1> HIDE DEF pruned, below, old, id, w
<1>9. \A c : c \in ToSet(old) <=> \E i \in 1 .. Len(old) : old[i] = c
  BY <1>7 DEF ToSet
<1>10. \A c : c \in ToSet(ids) <=> \E i \in 1 .. Len(ids) : ids[i] = c
  BY <1>7 DEF ToSet
<1>11. \A i \in 1 .. Len(pruned) :
          i \in 1 .. Len(old) \/ \E k \in 1 .. Len(ids) : i = Len(old) + k
  <2>1. SUFFICES ASSUME NEW i \in 1 .. Len(pruned), ~ (i \in 1 .. Len(old))
                 PROVE  \E k \in 1 .. Len(ids) : i = Len(old) + k
    OBVIOUS
  <2>2. i - Len(old) \in 1 .. Len(ids) /\ i = Len(old) + (i - Len(old))
    BY <1>7, <1>8, <2>1
  <2>3. QED
    BY <2>2
<1>12. ToSet(pruned) = ToSet(old) \cup ToSet(ids)
  <2>1. \A c : c \in ToSet(pruned) <=> \E i \in 1 .. Len(pruned) : pruned[i] = c
    BY <1>8 DEF ToSet
  <2>2. \A i \in 1 .. Len(old) : i \in 1 .. Len(pruned)
    BY <1>7, <1>8
  <2>3. \A i \in 1 .. Len(ids) : Len(old) + i \in 1 .. Len(pruned)
    BY <1>7, <1>8
  <2>4. ASSUME NEW c \in ToSet(pruned) PROVE c \in ToSet(old) \cup ToSet(ids)
    <3>1. PICK i \in 1 .. Len(pruned) : pruned[i] = c
      BY <2>1
    <3>2. CASE i \in 1 .. Len(old)
      BY <1>8, <1>9, <3>1, <3>2
    <3>3. ASSUME NEW k \in 1 .. Len(ids), i = Len(old) + k PROVE c \in ToSet(ids)
      BY <1>8, <1>10, <3>1, <3>3
    <3>4. QED
      BY <1>11, <3>2, <3>3
  <2>5. ToSet(old) \subseteq ToSet(pruned)
    BY <1>8, <1>9, <2>1, <2>2
  <2>6. ToSet(ids) \subseteq ToSet(pruned)
    BY <1>8, <1>10, <2>1, <2>3
  <2>7. QED
    BY <2>4, <2>5, <2>6
<1>13. (Ancestors[w] \cap id) \ {w} \subseteq ToSet(old)
  BY <1>1 DEF PrunedInOrder, id, w, old
<1>14. \A x \in Blocks : RoundOf[x] \in Nat
  BY BlockFacts
\* An ancestor of a block on the way is on the way, or was pruned before.
<1>15. ASSUME NEW x \in below, NEW c \in Ancestors[x] \cap id
       PROVE  c \in below \/ c \in ToSet(old)
  <2>1. /\ x \in Blocks /\ c \in Blocks /\ w \in Ancestors[x]
        /\ Ancestors[c] \subseteq Ancestors[x]
    BY <1>1, <1>3, AncestorFacts
  <2>2. CASE RoundOf[w] <= RoundOf[c]
    <3>1. w \in Ancestors[c]
      BY <1>15, <2>1, <2>2, AncestorFacts
    <3>2. QED
      BY <1>4, <1>5, <1>6, <1>15, <2>1, <3>1
  <2>3. CASE RoundOf[c] < RoundOf[w]
    <3>1. c \in Ancestors[w] /\ c # w
      BY <1>1, <1>14, <1>15, <2>1, <2>3, AncestorFacts
    <3>2. QED
      BY <1>13, <1>15, <3>1
  <2>4. QED
    BY <1>1, <1>14, <2>1, <2>2, <2>3
<1>16. ASSUME NEW i \in 1 .. Len(pruned), NEW c \in Ancestors[pruned[i]] \cap id
       PROVE  pruned[i] \in id /\ \E j \in 1 .. i : pruned[j] = c
  <2>1. CASE i \in 1 .. Len(old)
    <3>1. c \in Ancestors[old[i]] \cap id /\ pruned[i] = old[i]
      BY <1>8, <1>16, <2>1
    <3>2. old[i] \in id /\ \E j \in 1 .. i : old[j] = c
      BY <1>1, <2>1, <3>1 DEF PrunedInOrder, AncestorsFirst, old, id
    <3>3. PICK j \in 1 .. i : old[j] = c
      BY <3>2
    <3>4. j \in 1 .. Len(old)
      BY <1>7, <2>1
    <3>5. QED
      BY <1>8, <3>1, <3>2, <3>3, <3>4
  <2>2. ASSUME NEW k \in 1 .. Len(ids), i = Len(old) + k
        PROVE  pruned[i] \in id /\ \E j \in 1 .. i : pruned[j] = c
    <3>1. pruned[i] = ids[k] /\ ids[k] \in below /\ ids[k] \in id
      BY <1>2, <1>3, <1>8, <1>10, <2>2
    <3>2. CASE c \in ToSet(old)
      <4>1. PICK j \in 1 .. Len(old) : old[j] = c
        BY <1>9, <3>2
      <4>2. j \in 1 .. i /\ pruned[j] = c
        BY <1>7, <1>8, <2>2, <4>1
      <4>3. QED
        BY <3>1, <4>2
    <3>3. CASE c \in below
      <4>1. PICK j \in 1 .. Len(ids) : ids[j] = c
        BY <1>2, <1>10, <3>3
      <4>2. ~ (k < j)
        <5>1. ids[j] \in Ancestors[ids[k]]
          BY <1>16, <3>1, <4>1
        <5>2. QED
          BY <1>2, <5>1
      <4>3. Len(old) + j \in 1 .. i
        BY <1>7, <2>2, <4>2
      <4>4. pruned[Len(old) + j] = c
        BY <1>8, <4>1
      <4>5. QED
        BY <3>1, <4>3, <4>4
    <3>4. QED
      BY <1>15, <1>16, <3>1, <3>2, <3>3
  <2>3. QED
    BY <1>11, <2>1, <2>2
<1>17. ASSUME NEW c \in Ancestors[b] \cap id, c # b PROVE c \in ToSet(pruned)
  <2>1. c \in Blocks /\ RoundOf[c] < RoundOf[b] /\ c \in Chain
    BY <1>1, <1>17, AncestorFacts, ChainIsClosed
  <2>2. CASE RoundOf[c] < RoundOf[w]
    <3>1. c \in Ancestors[w] /\ c # w
      BY <1>1, <1>14, <2>1, <2>2, ChainIsBranch
    <3>2. QED
      BY <1>12, <1>13, <1>17, <3>1
  <2>3. CASE RoundOf[w] <= RoundOf[c]
    <3>1. w \in Ancestors[c]
      BY <1>1, <2>1, <2>3, ChainIsBranch
    <3>2. b # w
      BY <1>1, <1>14, <2>1, <2>3
    <3>3. b \notin Ancestors[c]
      <4>1. ~ (RoundOf[b] <= RoundOf[c])
        BY <1>1, <1>14, <2>1
      <4>2. QED
        BY <2>1, <4>1, AncestorFacts
    <3>4. QED
      BY <1>2, <1>4, <1>12, <1>17, <3>1, <3>2, <3>3
  <2>4. QED
    BY <1>1, <1>14, <2>1, <2>2, <2>3
<1>18. ToSet(ids) \subseteq id
  BY <1>2, <1>3
<1>19. QED
  BY <1>8, <1>12, <1>16, <1>17, <1>18 DEF AncestorsFirst, pruned, old, id

\* What is removed.
LEMMA RemovedFacts ==
    ASSUME TypeOK, TreeInv, NEW b \in tree.id_to_block \cap Chain,
           NEW ids \in find_blocks_to_prune(b)
    PROVE  LET pruned == tree.pruned \o ids
               excess == NumBlocksToRemove(pruned)
               removed == ToSet(SubSeq(pruned, 1, excess))
               left == SubSeq(pruned, excess + 1, Len(pruned))
           IN  /\ left \in Seq(Blocks)
               /\ \A x \in removed : Ancestors[x] \cap tree.id_to_block \subseteq removed
               /\ AncestorsFirst(left, tree.id_to_block \ removed)
               /\ ToSet(pruned) \ removed \subseteq ToSet(left)
               /\ removed \subseteq ToSet(pruned) /\ ToSet(left) \subseteq ToSet(pruned)
<1>1. PICK pruned : pruned = tree.pruned \o ids
  OBVIOUS
<1>2. pruned \in Seq(Blocks) /\ AncestorsFirst(pruned, tree.id_to_block)
  BY <1>1, PrunedList
<1>3. PICK e : e = NumBlocksToRemove(pruned)
  OBVIOUS
<1>4. e \in 0 .. Len(pruned)
  <2>1. Len(pruned) \in Nat /\ max_pruned_blocks_in_mem \in Nat
    BY <1>2, BlockStoreAssumption
  <2>2. QED
    BY <1>3, <2>1 DEF NumBlocksToRemove, Monus
<1>5. SubSeq(pruned, e + 1, Len(pruned)) \in Seq(Blocks)
  BY <1>2, <1>4, Cut, Zenon
<1>6. LET removed == ToSet(SubSeq(pruned, 1, e))
          left == SubSeq(pruned, e + 1, Len(pruned))
      IN  /\ \A x \in removed : Ancestors[x] \cap tree.id_to_block \subseteq removed
          /\ AncestorsFirst(left, tree.id_to_block \ removed)
          /\ ToSet(pruned) \ removed \subseteq ToSet(left)
          /\ removed \subseteq ToSet(pruned) /\ ToSet(left) \subseteq ToSet(pruned)
  BY <1>2, <1>4, CutInOrder, Zenon
<1>7. QED
  BY <1>1, <1>3, <1>5, <1>6, Zenon

\* The tree without what is removed, if the new root is not: whatever is removed
\* takes its ancestors with it.
LEMMA PrunedTree ==
    ASSUME TypeOK, TreeInv, NEW b \in tree.id_to_block \cap Chain,
           RoundOf[b] <= RoundOf[tree.ordered_root],
           NEW removed, NEW left \in Seq(Blocks), b \notin removed,
           \A x \in removed : Ancestors[x] \cap tree.id_to_block \subseteq removed,
           AncestorsFirst(left, tree.id_to_block \ removed),
           ((Ancestors[b] \cap tree.id_to_block) \ {b}) \ removed \subseteq ToSet(left),
           tree'.id_to_block = tree.id_to_block \ removed,
           tree'.children = [c \in tree.id_to_block \ removed |-> tree.children[c]],
           tree'.pruned = left, tree'.window_root = b,
           tree'.ordered_root = tree.ordered_root,
           tree'.commit_root = IF RoundOf[b] > RoundOf[tree.highest_commit_cert] THEN b
                               ELSE tree.commit_root,
           tree'.highest_commit_cert =
               IF RoundOf[b] > RoundOf[tree.highest_commit_cert] THEN b
               ELSE tree.highest_commit_cert
    PROVE  /\ TreeInv'
           /\ \A c \in removed \cap tree.id_to_block : b \notin Ancestors[c]
<1> DEFINE id == tree.id_to_block
<1>1. /\ id \subseteq Blocks /\ b \in Blocks /\ TreeLinked /\ RootsInTree
      /\ \A c \in Blocks : RoundOf[c] \in Nat
  BY Rounds, BlockFacts DEF TreeInv
<1>2. \A c \in removed \cap id : b \notin Ancestors[c]
  OBVIOUS
<1>3. \A c \in id \cap Chain : RoundOf[b] <= RoundOf[c] => c \notin removed
  BY <1>2, ChainIsBranch
<1>4. TreeLinked'
  <2>1. ASSUME NEW x \in id \ removed, NEW c \in Ancestors[x],
               NEW d \in Ancestors[c] \cap (id \ removed)
        PROVE  c \in id \ removed
    <3>1. c \in id
      BY <1>1, <2>1 DEF TreeLinked
    <3>2. QED
      BY <2>1, <3>1
  <2>2. ASSUME NEW c \in id \ removed
        PROVE  tree.children[c] = {x \in (id \ removed) \ {Genesis} : Parent[x] = c}
    <3>1. tree.children[c] = {x \in id \ {Genesis} : Parent[x] = c}
      BY <1>1, <2>2 DEF TreeLinked
    <3>2. ASSUME NEW x \in id \ {Genesis}, Parent[x] = c PROVE x \notin removed
      <4>1. c \in Ancestors[x]
        BY <1>1, <3>2, AncestorsStep, BlockFacts
      <4>2. QED
        BY <2>2, <4>1
    <3>3. QED
      BY <3>1, <3>2
  <2>3. QED
    BY <2>1, <2>2 DEF TreeLinked
<1>5. RootsInTree'
  <2>1. /\ tree.commit_root \in id \cap Chain /\ tree.ordered_root \in id \cap Chain
        /\ tree.highest_commit_cert = tree.commit_root
        /\ RoundOf[tree.commit_root] <= RoundOf[tree.ordered_root]
        /\ RoundOf[tree.commit_root] \in Nat /\ RoundOf[b] \in Nat
    BY <1>1 DEF RootsInTree
  <2>2. tree.ordered_root \notin removed
    BY <1>3, <2>1
  <2>3. CASE RoundOf[b] > RoundOf[tree.commit_root]
    BY <2>1, <2>2, <2>3 DEF RootsInTree
  <2>4. CASE RoundOf[b] <= RoundOf[tree.commit_root]
    <3>1. tree.commit_root \notin removed
      BY <1>3, <2>1, <2>4
    <3>2. tree'.commit_root = tree.commit_root
          /\ tree'.highest_commit_cert = tree.commit_root
      BY <2>1, <2>4
    <3>3. QED
      BY <2>1, <2>2, <2>4, <3>1, <3>2 DEF RootsInTree
  <2>5. QED
    BY <2>1, <2>3, <2>4
<1>6. PrunedInOrder'
  BY DEF PrunedInOrder, AncestorsFirst
<1>7. QED
  BY <1>2, <1>4, <1>5, <1>6 DEF TreeInv

\* The children that find_blocks_to_prune looks up are in the tree.
LEMMA ChildrenFound ==
    ASSUME TypeOK, TreeInv
    PROVE  \A b : ChildrenExist(b)
<1>1. \A b : BlocksBelow(b) \subseteq tree.id_to_block
  BY DEF BlocksBelow
<1>2. \A c \in tree.id_to_block : tree.children[c] \subseteq tree.id_to_block
  BY DEF TreeInv, TreeLinked
<1>3. QED
  BY <1>1, <1>2 DEF ChildrenExist

\* What the pruned blocks of the chain have in common.
Dispensable(c) ==
    /\ RoundOf[c] <= RoundOf[ledger] /\ RoundOf[c] <= RoundOf[tree.ordered_root]
    /\ order_proof[c] # None => commit_proof[c] # None

\* The stages after a post-commit.
Posted(stages) ==
    /\ stages \in [Blocks -> {"none", "live", "pre_committed", "committed", "finished"}]
    /\ \A c \in Blocks : \/ stages[c] = stage[c]
                         \/ stage[c] = "committed" /\ stages[c] = "finished"

LEMMA PostedPipelines ==
    ASSUME IInv, NEW stages, Posted(stages), NEW removed, NEW ids,
           stage' = [c \in Blocks |-> IF c \in removed THEN "none" ELSE stages[c]],
           Running, \A c \in (removed \cap tree.id_to_block) \cap Chain : Dispensable(c),
           tree'.id_to_block = tree.id_to_block \ removed,
           tree'.ordered_root = tree.ordered_root,
           aborted' = (aborted \cup ids) \ removed,
           UNCHANGED <<ledger, order_proof, commit_proof>>
    PROVE  (PipelinesRun => PipelinesRun') /\ (PipelinesAborted => PipelinesAborted')
<1>1. TypeOK /\ ProofsOnChain
  BY DEF IInv
<1>2. \A c \in Blocks : /\ stage'[c] = IF c \in removed THEN "none" ELSE stages[c]
                        /\ Pending(c)' => Pending(c) /\ c \notin removed
                        /\ stage'[c] = "live" => stage[c] = "live"
                        /\ stage'[c] \in {"committed", "finished"} =>
                              stage[c] \in {"committed", "finished"}
                        /\ stage'[c] = "pre_committed" => stage[c] = "pre_committed"
                        /\ stage[c] # "none" /\ c \notin removed => stage'[c] # "none"
  BY DEF Posted, Pending
<1>3. ASSUME PipelinesRun PROVE PipelinesRun'
  <2>1. ASSUME NEW b \in Chain, RoundOf[b] > RoundOf[ledger],
               RoundOf[b] <= RoundOf[tree.ordered_root]
        PROVE  stage'[b] # "none"
    <3>1. b \in Blocks /\ RoundOf[b] \in Nat /\ RoundOf[ledger] \in Nat
      BY <1>1, Rounds, ChainIsClosed
    <3>2. stage[b] # "none" /\ b \in tree.id_to_block
      BY <1>3, <2>1, <3>1 DEF PipelinesRun, IInv
    <3>3. b \notin removed
      BY <2>1, <3>1, <3>2 DEF Dispensable
    <3>4. QED
      BY <1>2, <3>1, <3>2, <3>3
  <2>2. ASSUME NEW b \in Blocks, NEW c \in Ancestors[b]
        PROVE  /\ stage'[b] \in {"pre_committed", "committed", "finished"} => stage'[c] # "live"
               /\ stage'[b] \in {"committed", "finished"} => ~ Pending(c)'
    <3>1. c \in Blocks
      BY AncestorFacts
    <3>2. QED
      BY <1>2, <1>3, <3>1 DEF PipelinesRun
  <2>3. \A b \in Chain : Pending(b)' => RoundOf[b] > RoundOf[ledger]
    BY <1>2, <1>3, OrderedFacts DEF PipelinesRun
  <2>4. QED
    BY <1>3, <2>1, <2>2, <2>3 DEF PipelinesRun
<1>4. ASSUME PipelinesAborted PROVE PipelinesAborted'
  <2>1. tree'.id_to_block \subseteq aborted'
    BY <1>4 DEF PipelinesAborted
  <2>2. \A b \in Blocks : Pending(b)' => b \in aborted' /\ commit_proof[b] = None
    BY <1>2, <1>4 DEF PipelinesAborted
  <2>3. ASSUME NEW b \in Blocks, order_proof[b] # None, commit_proof[b] = None
        PROVE  b \in aborted'
    <3>1. b \in aborted /\ b \in Chain /\ b \in tree.id_to_block
      BY <1>1, <1>4, <2>3 DEF PipelinesAborted, ProofsOnChain
    <3>2. b \notin removed
      BY <2>3, <3>1 DEF Dispensable
    <3>3. QED
      BY <3>1, <3>2
  <2>4. QED
    BY <2>1, <2>2, <2>3 DEF PipelinesAborted
<1>5. QED
  BY <1>3, <1>4

\* What commit_callback does if it does not panic.
CallbackDone(b, stages, ids) ==
    LET pruned == tree.pruned \o ids
        excess == NumBlocksToRemove(pruned)
        removed == ToSet(SubSeq(pruned, 1, excess))
        kept == tree.id_to_block \ removed
        is_newer == RoundOf[b] > RoundOf[tree.highest_commit_cert]
    IN  /\ b \notin removed
        /\ \/ db' = [db EXCEPT !.blocks = @ \ ToSet(ids), !.qcs = @ \ ToSet(ids)]
           \/ UNCHANGED db
        /\ tree' = [tree EXCEPT
                        !.id_to_block = kept,
                        !.children = [c \in kept |-> @[c]],
                        !.qcs = @ \ removed,
                        !.pruned = SubSeq(pruned, excess + 1, Len(pruned)),
                        !.window_root = b,
                        !.highest_commit_cert = IF is_newer THEN b ELSE @,
                        !.commit_root = IF is_newer THEN b ELSE @]
        /\ stage' = [c \in Blocks |-> IF c \in removed THEN "none" ELSE stages[c]]
        /\ aborted' = (aborted \cup ToSet(ids)) \ removed
        /\ UNCHANGED process

\* The root is among what is removed.
CallbackFails(b, ids) ==
    /\ b \in ToSet(SubSeq(tree.pruned \o ids, 1, NumBlocksToRemove(tree.pruned \o ids)))
    /\ process' = "root"
    /\ UNCHANGED <<tree, stage, aborted>>

\* The ways in which commit_callback can end.
LEMMA CallbackCases ==
    ASSUME IInv, NEW b \in Blocks, NEW stages, CommitCallback(b, stages)
    PROVE  \/ Panic("callback")
           \/ /\ b \in tree.id_to_block /\ FindsWindowRoot(b)
              /\ db' \in [blocks : SUBSET Blocks, qcs : SUBSET Certified, tc : Nat]
              /\ \E ids \in find_blocks_to_prune(b) :
                    CallbackDone(b, stages, ids) \/ CallbackFails(b, ids)
<1>1. CASE ~FindsWindowRoot(b)
  BY <1>1 DEF CommitCallback
<1>2. CASE FindsWindowRoot(b)
  <2>0. b \in tree.id_to_block
    BY <1>2 DEF FindsWindowRoot
  <2>1. ChildrenExist(b)
    BY <2>0, ChildrenFound DEF IInv, TreeInv
  <2>2. PICK ids \in find_blocks_to_prune(b) :
          LET pruned == tree.pruned \o ids
              excess == NumBlocksToRemove(pruned)
              removed == ToSet(SubSeq(pruned, 1, excess))
              kept == tree.id_to_block \ removed
              is_newer == RoundOf[b] > RoundOf[tree.highest_commit_cert]
          IN  /\ \/ db' = [db EXCEPT !.blocks = @ \ ToSet(ids), !.qcs = @ \ ToSet(ids)]
                 \/ UNCHANGED db
              /\ IF b \in removed
                 THEN process' = "root" /\ UNCHANGED <<tree, stage, aborted>>
                 ELSE /\ tree' = [tree EXCEPT
                             !.id_to_block = kept,
                             !.children = [c \in kept |-> @[c]],
                             !.qcs = @ \ removed,
                             !.pruned = SubSeq(pruned, excess + 1, Len(pruned)),
                             !.window_root = b,
                             !.highest_commit_cert = IF is_newer THEN b ELSE @,
                             !.commit_root = IF is_newer THEN b ELSE @]
                      /\ stage' = [c \in Blocks |-> IF c \in removed THEN "none" ELSE stages[c]]
                      /\ aborted' = (aborted \cup ToSet(ids)) \ removed
                      /\ UNCHANGED process
    BY <1>2, <2>1, Zenon DEF CommitCallback
  <2>3. CallbackDone(b, stages, ids) \/ CallbackFails(b, ids)
    BY <2>2, Zenon DEF CallbackDone, CallbackFails
  <2>4. db' \in [blocks : SUBSET Blocks, qcs : SUBSET Certified, tc : Nat]
    <3>1. db \in [blocks : SUBSET Blocks, qcs : SUBSET Certified, tc : Nat]
      BY DEF IInv, TypeOK
    <3>2. \A S : [db EXCEPT !.blocks = @ \ S, !.qcs = @ \ S]
                    \in [blocks : SUBSET Blocks, qcs : SUBSET Certified, tc : Nat]
      BY <3>1
    <3>3. db' = [db EXCEPT !.blocks = @ \ ToSet(ids), !.qcs = @ \ ToSet(ids)] \/ UNCHANGED db
      BY <2>2
    <3>4. QED
      BY <3>1, <3>2, <3>3, Zenon
  <2>5. QED
    BY <1>2, <2>0, <2>3, <2>4, Zenon
<1>3. QED
  BY <1>1, <1>2

\* commit_callback removes nothing of the chain that is not committed.
LEMMA CallbackStep ==
    ASSUME IInv, Running, NEW b \in Chain, NEW stages, Posted(stages),
           CommitCallback(b, stages), RoundOf[b] <= RoundOf[tree.ordered_root],
           \A c \in tree.id_to_block \cap Chain : b \notin Ancestors[c] => Dispensable(c),
           late' \subseteq late, process' = process \/ UNCHANGED late,
           UNCHANGED <<ledger, pre_committed, order_proof, commit_proof, pre_commit_status,
                       latest_logical_time, todo>>
    PROVE  IInv'
<1>1. TypeOK /\ TreeInv /\ ProofsOnChain /\ WrittenAhead /\ b \in Blocks
  BY OrderedFacts DEF IInv, TreeInv
<1>2. CASE Panic("callback")
  BY <1>2, PanicStep
<1>3. CASE /\ b \in tree.id_to_block
           /\ db' \in [blocks : SUBSET Blocks, qcs : SUBSET Certified, tc : Nat]
           /\ \E ids \in find_blocks_to_prune(b) : CallbackFails(b, ids)
  <2>1. process' = "root" /\ UNCHANGED <<tree, stage, aborted>>
    BY <1>3, Zenon DEF CallbackFails
  <2>2. ~ Running' /\ UNCHANGED late
    BY <2>1 DEF Running
  <2>3. QED
    BY <1>3, <2>1, <2>2, StopStep DEF pipeline
<1>4. CASE /\ b \in tree.id_to_block
           /\ db' \in [blocks : SUBSET Blocks, qcs : SUBSET Certified, tc : Nat]
           /\ \E ids \in find_blocks_to_prune(b) : CallbackDone(b, stages, ids)
  <2>1. PICK ids \in find_blocks_to_prune(b) : CallbackDone(b, stages, ids)
    BY <1>4, Zenon
  <2>2. PICK pruned : pruned = tree.pruned \o ids
    OBVIOUS
  <2>3. PICK removed, left :
          /\ removed = ToSet(SubSeq(pruned, 1, NumBlocksToRemove(pruned)))
          /\ left = SubSeq(pruned, NumBlocksToRemove(pruned) + 1, Len(pruned))
    BY Zenon
  <2> DEFINE kept == tree.id_to_block \ removed
             kids == [c \in kept |-> tree.children[c]]
             newest(c) == IF RoundOf[b] > RoundOf[tree.highest_commit_cert] THEN b ELSE c
  <2>4. /\ b \notin removed
        /\ tree' = [tree EXCEPT
                      !.id_to_block = kept, !.children = kids, !.qcs = @ \ removed,
                      !.pruned = left, !.window_root = b,
                      !.highest_commit_cert = newest(@), !.commit_root = newest(@)]
        /\ stage' = [c \in Blocks |-> IF c \in removed THEN "none" ELSE stages[c]]
        /\ aborted' = (aborted \cup ToSet(ids)) \ removed
        /\ UNCHANGED process
    BY <2>1, <2>2, <2>3, Zenon DEF CallbackDone
  <2>5. /\ left \in Seq(Blocks)
        /\ \A x \in removed : Ancestors[x] \cap tree.id_to_block \subseteq removed
        /\ AncestorsFirst(left, tree.id_to_block \ removed)
        /\ ToSet(pruned) \ removed \subseteq ToSet(left)
    BY <1>1, <1>4, <2>2, <2>3, RemovedFacts, Zenon
  <2>6. /\ ToSet(ids) \subseteq tree.id_to_block
        /\ (Ancestors[b] \cap tree.id_to_block) \ {b} \subseteq ToSet(pruned)
    BY <1>1, <1>4, <2>2, PrunedList
  <2>7. newest(tree.highest_commit_cert) \in Blocks /\ newest(tree.commit_root) \in Blocks
    BY <1>1 DEF TypeOK
  <2>8. kept \in SUBSET Blocks /\ kids \in [kept -> SUBSET Blocks]
    BY <1>1 DEF TypeOK
  <2>9. /\ tree'.id_to_block = tree.id_to_block \ removed
        /\ tree'.children = kids /\ tree'.window_root = b
        /\ tree'.commit_root = newest(tree.commit_root)
        /\ tree'.highest_commit_cert = newest(tree.highest_commit_cert)
        /\ tree'.ordered_root = tree.ordered_root /\ tree'.pruned = left
    <3> HIDE DEF kids, newest
    <3>1. QED
      BY <1>1, <2>4 DEF TypeOK
  <2>10. TreeInv' /\ \A c \in removed \cap tree.id_to_block : b \notin Ancestors[c]
    BY <1>1, <1>4, <2>4, <2>5, <2>6, <2>9, PrunedTree
  <2> HIDE DEF kids, newest
  <2>11. \A c \in (removed \cap tree.id_to_block) \cap Chain : Dispensable(c)
    BY <2>10
  <2>12. /\ \A c \in Blocks : stage'[c] = IF c \in removed THEN "none" ELSE stages[c]
         /\ stage' \in [Blocks -> {"none", "live", "pre_committed", "committed", "finished"}]
    BY <2>4 DEF Posted
  <2>13. TypeOK'
    <3>1. TreeOK(tree')
      BY <1>1, <2>4, <2>5, <2>7, <2>8 DEF TypeOK, TreeOK
    <3>2. aborted' \subseteq Blocks /\ late' \subseteq Blocks
      BY <1>1, <2>4, <2>6 DEF TypeOK
    <3>3. QED
      BY <1>1, <1>4, <2>12, <3>1, <3>2 DEF TypeOK, TreeOK
  <2>14. ProofsOnChain'
    <3>1. \A c \in Blocks :
            order_proof[c] # None /\ c \notin tree'.id_to_block => commit_proof[c] # None
      BY <1>1, <2>9, <2>11 DEF ProofsOnChain, Dispensable
    <3>2. \A c \in Blocks :
            /\ stage'[c] \in {"pre_committed", "committed", "finished"} =>
                  stage[c] \in {"pre_committed", "committed", "finished"}
            /\ stage'[c] = "committed" => stage[c] = "committed"
      BY <2>12 DEF Posted
    <3>3. \A c \in late' :
            /\ c \in Chain
            /\ RoundOf[c] <= RoundOf[ledger] /\ RoundOf[c] <= RoundOf[tree.ordered_root]
            /\ \A d \in tree'.id_to_block : RoundOf[c] <= RoundOf[d]
      BY <1>1, <2>9 DEF ProofsOnChain
    <3>4. QED
      BY <1>1, <2>9, <3>1, <3>2, <3>3 DEF ProofsOnChain
  <2>15. WrittenAhead'
    BY <1>1, <2>12 DEF WrittenAhead, Posted
  <2>16. (PipelinesRun => PipelinesRun') /\ (PipelinesAborted => PipelinesAborted')
    BY <2>4, <2>9, <2>11, PostedPipelines
  <2>17. \A c \in Blocks : c \in tree'.id_to_block <=> stage'[c] # "none"
    BY <2>9, <2>12 DEF IInv, Posted
  <2>18. Handler(todo, process)'
    BY <2>4 DEF IInv, Handler, StepOK, Follows, MayEnd, Cert, OrderingCert
  <2>19. HandlerInStep' /\ InsertsNewBlock'
    BY <2>9, <2>16 DEF IInv, HandlerInStep, InsertsNewBlock
  <2>20. QED
    BY <2>10, <2>13, <2>14, <2>15, <2>16, <2>17, <2>18, <2>19 DEF IInv, TreeInv
<1>5. QED
  BY <1>1, <1>2, <1>3, <1>4, CallbackCases, Zenon

LEMMA PostCommitStep ==
    ASSUME IInv, NEW b \in Blocks, PostCommit(b)
    PROVE  IInv'
<1> DEFINE stages == [stage EXCEPT ![b] = "finished"]
<1>1. /\ Running /\ stage[b] = "committed"
      /\ UNCHANGED <<ledger, pre_committed, order_proof, commit_proof, late,
                     pre_commit_status, latest_logical_time, todo>>
  BY DEF PostCommit, storage
<1>2. TypeOK /\ ProofsOnChain /\ WrittenAhead
  BY DEF IInv
<1>3. Posted(stages)
  BY <1>1, <1>2 DEF Posted, TypeOK
<1> HIDE DEF stages
<1>4. CASE commit_proof[b] = b
  <2>1. CommitCallback(b, stages)
    BY <1>4, Zenon DEF PostCommit, stages
  <2>2. /\ b \in Chain /\ RoundOf[b] <= RoundOf[tree.ordered_root]
        /\ RoundOf[b] <= RoundOf[ledger]
        /\ \A d \in Ancestors[b] : order_proof[d] # None => commit_proof[d] # None
    BY <1>1, <1>2, <1>4 DEF ProofsOnChain
  <2>3. ASSUME NEW c \in tree.id_to_block \cap Chain, b \notin Ancestors[c]
        PROVE  Dispensable(c)
    <3>1. /\ b \in Chain /\ RoundOf[b] <= RoundOf[tree.ordered_root]
          /\ RoundOf[b] <= RoundOf[ledger]
          /\ \A d \in Ancestors[b] : order_proof[d] # None => commit_proof[d] # None
      BY <2>2
    <3>2. /\ RoundOf[b] \in Nat /\ RoundOf[c] \in Nat /\ RoundOf[ledger] \in Nat
          /\ RoundOf[tree.ordered_root] \in Nat
      BY <1>2, <3>1, ChainIsClosed, Rounds
    <3>3. ~ (RoundOf[b] <= RoundOf[c])
      BY <2>3, <3>1, ChainIsBranch
    <3>4. RoundOf[c] <= RoundOf[b]
      BY <3>2, <3>3
    <3>5. c \in Ancestors[b]
      BY <3>1, <3>4, ChainIsBranch
    <3>6. QED
      BY <3>1, <3>2, <3>4, <3>5 DEF Dispensable
  <2>4. QED
    BY <1>1, <1>3, <2>1, <2>2, <2>3, CallbackStep
<1>5. CASE commit_proof[b] # b
  <2>1. stage' = stages /\ UNCHANGED <<tree, storage, aborted, process>>
    BY <1>5 DEF PostCommit, stages
  <2>2. \A c \in Blocks : \/ stage'[c] = stage[c]
                          \/ stage[c] = "committed" /\ stage'[c] = "finished"
    BY <1>3, <2>1 DEF Posted
  <2>3. TypeOK'
    BY <1>1, <1>2, <1>3, <2>1 DEF TypeOK, storage, Posted
  <2>4. ProofsOnChain'
    BY <1>1, <1>2, <2>1, <2>2 DEF ProofsOnChain, storage
  <2>5. WrittenAhead'
    BY <1>1, <1>2, <2>1, <2>2 DEF WrittenAhead, storage
  <2>6. (PipelinesRun => PipelinesRun') /\ (PipelinesAborted => PipelinesAborted')
    <3>1. PICK removed, ids : removed = {} /\ ids = {}
      OBVIOUS
    <3>2. stage' = [c \in Blocks |-> IF c \in removed THEN "none" ELSE stages[c]]
      BY <1>3, <2>1, <3>1 DEF Posted
    <3>3. /\ tree'.id_to_block = tree.id_to_block \ removed
          /\ aborted' = (aborted \cup ids) \ removed
          /\ tree'.ordered_root = tree.ordered_root
          /\ \A c \in (removed \cap tree.id_to_block) \cap Chain : Dispensable(c)
      BY <2>1, <3>1
    <3>4. QED
      BY <1>1, <1>3, <3>1, <3>2, <3>3, PostedPipelines
  <2>7. \A c \in Blocks : c \in tree'.id_to_block <=> stage'[c] # "none"
    BY <1>1, <2>1, <2>2 DEF IInv
  <2>8. Handler(todo, process)'
    BY <1>1, <2>1 DEF IInv, Handler, StepOK, Follows, MayEnd, Cert, OrderingCert
  <2>9. HandlerInStep' /\ InsertsNewBlock' /\ TreeInv'
    BY <1>1, <2>1, <2>6, TreeKept DEF IInv, HandlerInStep, InsertsNewBlock, TreeInv
  <2>10. QED
    BY <1>1, <2>3, <2>4, <2>5, <2>6, <2>7, <2>8, <2>9 DEF IInv, TreeInv
<1>6. QED
  BY <1>4, <1>5

\* A late post-commit runs the callback of one of the blocks whose tree was
\* replaced.
LEMMA LateBlock ==
    ASSUME TypeOK, LatePostCommit
    PROVE  \E b \in late : CommitCallback(b, stage)
<1>1. late # {} /\ late \in SUBSET Blocks
  BY DEF LatePostCommit, TypeOK
<1> DEFINE b == CHOOSE c \in late : \A d \in late : RoundOf[c] <= RoundOf[d]
<1>2. b \in late
  BY <1>1, LeastRound
<1>3. CommitCallback(b, stage)
  BY DEF LatePostCommit
<1> HIDE DEF b
<1>4. QED
  BY <1>2, <1>3

LEMMA LatePostCommitStep ==
    ASSUME IInv, LatePostCommit
    PROVE  IInv'
<1>1. TypeOK /\ ProofsOnChain /\ Running /\ late # {} /\ late \in SUBSET Blocks
  BY DEF IInv, LatePostCommit, TypeOK
<1> DEFINE b == CHOOSE c \in late : \A d \in late : RoundOf[c] <= RoundOf[d]
<1>2. b \in late
  BY <1>1, LeastRound
<1>3. /\ CommitCallback(b, stage) /\ late' \subseteq late
      /\ process' = process \/ UNCHANGED late
      /\ UNCHANGED <<ledger, pre_committed, order_proof, commit_proof, pre_commit_status,
                     latest_logical_time, todo>>
  BY <1>1 DEF LatePostCommit, Running
<1> HIDE DEF b
<1>4. /\ b \in Blocks /\ b \in Chain /\ RoundOf[b] <= RoundOf[tree.ordered_root]
      /\ \A c \in tree.id_to_block : RoundOf[b] <= RoundOf[c]
  BY <1>1, <1>2 DEF ProofsOnChain
<1>5. \A c \in tree.id_to_block \cap Chain : b \in Ancestors[c]
  BY <1>4, ChainIsBranch
<1>6. Posted(stage)
  BY <1>1 DEF TypeOK, Posted
<1>7. QED
  BY <1>1, <1>3, <1>4, <1>5, <1>6, CallbackStep

-----------------------------------------------------------------------------
(* The invariant.                                                          *)

LEMMA InitIInv == Init => IInv
<1>1. SUFFICES ASSUME Init PROVE IInv
  OBVIOUS
<1> DEFINE cert == [block |-> Genesis,
                    certified |-> IF order_vote_enabled THEN None ELSE Genesis]
<1>2. cert \in OrderingCert /\ cert.block = Genesis /\ Genesis \in Certified
  <2>1. cert = [block |-> Genesis, certified |-> cert.certified] /\ cert.block = Genesis
    OBVIOUS
  <2>2. order_vote_enabled => cert.certified = None
    OBVIOUS
  <2>3. ~ order_vote_enabled => cert.certified = Genesis
    OBVIOUS
  <2> HIDE DEF cert
  <2>4. cert \in OrderingCert
    BY <2>1, <2>2, <2>3, BlockFacts DEF OrderingCert, Cert, Certified, Decided
  <2>5. QED
    BY <2>1, <2>4 DEF Certified
<1>3. tree = BuildTree(cert, {}, {}, 0)
  BY <1>1 DEF Init
<1> HIDE DEF cert
<1>4. TreeBuilt(tree, Genesis, {})
  BY <1>2, <1>3, BuildTreeFacts
<1>5. /\ TreeOK(tree) /\ tree.id_to_block = {Genesis} /\ tree.ordered_root = Genesis
      /\ tree.pruned = <<>> /\ tree.children = [b \in {Genesis} |-> {}]
      /\ tree.window_root = Genesis /\ tree.commit_root = Genesis
      /\ tree.highest_commit_cert = Genesis
  BY <1>4 DEF TreeBuilt
<1>6. /\ stage \in [Blocks -> {"none", "live", "pre_committed", "committed", "finished"}]
      /\ \A b \in Blocks : stage[b] = IF b = Genesis THEN "finished" ELSE "none"
      /\ order_proof \in [Blocks -> Decided \cup {None}]
      /\ commit_proof \in [Blocks -> Decided \cup {None}]
      /\ \A b \in Blocks : order_proof[b] = None /\ commit_proof[b] = None
      /\ ledger = Genesis /\ pre_committed = Genesis /\ late = {} /\ aborted = {}
      /\ todo = <<>>
  BY <1>1 DEF Init
<1>7. TypeOK
  BY <1>1, <1>5, <1>6, OrderedFacts DEF TypeOK, TreeOK, Init, Decided
<1>8. ProofsOnChain /\ WrittenAhead
  BY <1>5, <1>6, OrderedFacts, BlockFacts DEF ProofsOnChain, WrittenAhead
<1>9. \A b \in Blocks : b \in tree.id_to_block <=> stage[b] # "none"
  BY <1>5, <1>6
<1>10. PipelinesRun
  <2>1. \A b \in Blocks : ~ Pending(b)
    BY <1>6 DEF Pending
  <2>2. \A b \in Blocks : \A c \in Ancestors[b] : ~ Pending(c)
    BY <2>1, AncestorsStep
  <2>3. \A b \in Chain : b \in Blocks /\ RoundOf[b] \in Nat
    BY ChainIsClosed
  <2>4. QED
    BY <1>5, <1>6, <2>1, <2>2, <2>3, BlockFacts DEF PipelinesRun, Pending
<1>11. Handler(todo, process) /\ HandlerInStep /\ InsertsNewBlock
  BY <1>6, QuietEmpty DEF Quiet, HandlerInStep, InsertsNewBlock
<1>12. TreeLinked
  BY <1>5, AncestorsStep DEF TreeLinked
<1>13. RootsInTree
  BY <1>5, OrderedFacts, BlockFacts DEF RootsInTree
<1>14. PrunedInOrder
  BY <1>5, AncestorsStep DEF PrunedInOrder, AncestorsFirst
<1>15. QED
  BY <1>7, <1>8, <1>9, <1>10, <1>11, <1>12, <1>13, <1>14 DEF IInv

LEMMA NextIInv == IInv /\ [Next]_vars => IInv'
<1>1. SUFFICES ASSUME IInv, [Next]_vars PROVE IInv'
  OBVIOUS
<1>2. CASE UNCHANGED vars
  <2>1. UNCHANGED <<tree, db, ledger, pre_committed, pipeline, pre_commit_status,
                    latest_logical_time, todo, process>>
    BY <1>2 DEF vars, storage, pipeline
  <2>2. TypeOK'
    BY <1>1, <2>1 DEF IInv, TypeOK, pipeline
  <2>3. Core'
    BY <1>1, <2>1, <2>2, CoreOfIInv, CoreUnchanged DEF SameTree
  <2>4. Handler(todo, process)'
    BY <1>1, <2>1 DEF IInv, Handler, StepOK, Follows, MayEnd, Cert, OrderingCert
  <2>5. (PipelinesRun => PipelinesRun') /\ (PipelinesAborted => PipelinesAborted')
    BY <2>1, PipelinesUnchanged
  <2>6. (Running => HandlerInStep)' /\ InsertsNewBlock'
    BY <1>1, <2>1, <2>5 DEF IInv, HandlerInStep, InsertsNewBlock, Running
  <2>7. QED
    BY <2>3, <2>4, <2>6 DEF IInv, Core, TreeInv
<1>3. CASE \/ \E b \in Blocks \ {Genesis} : ProcessProposal(b)
           \/ \E b \in CertifiedBlocks : NewQC(b)
           \/ \E b \in OrderCertified : NewOrderedCert(b)
           \/ \E si \in SyncInfos : SyncUp(si) \/ RecoverySyncUp(si)
  BY <1>1, <1>3, HandlerStarts
<1>4. CASE \E b \in Blocks \ {Genesis} : PipelineStep(b)
  BY <1>1, <1>4, PreCommitStep, CommitProofStep, CommitLedgerStep, PostCommitStep
     DEF PipelineStep
<1>5. CASE NewTC \/ LatePostCommit \/ Restart \/ RestartToRecover
  BY <1>1, <1>5, TimeoutCertSteps, LatePostCommitStep, RestartStep, RestartToRecoverStep
<1>6. CASE RoundManagerStep
  BY <1>1, <1>6, NeedFetchStep, ReadSteps, SyncSteps, SaveSteps, TreeQCStep,
     InsertionSteps, TreeBlockStep, SendStep, TimeoutCertSteps, AbortStep,
     SyncStep, RebuildStep, ExitStep
     DEF RoundManagerStep
<1>7. QED
  BY <1>1, <1>2, <1>3, <1>4, <1>5, <1>6 DEF Next, Work

\* The round of the ledger never goes back: only a commit and a state sync
\* write it, and neither below what is there.
LEMMA LedgerRises ==
    ASSUME IInv, [Next]_vars
    PROVE  RoundOf[ledger] <= RoundOf[ledger']
<1>1. RoundOf[ledger] \in Nat
  BY Rounds DEF IInv
<1>2. CASE UNCHANGED ledger
  BY <1>1, <1>2
<1>3. CASE SyncToTarget
  BY <1>3, SyncStep
<1>4. CASE \E b \in Blocks \ {Genesis} : CommitLedger(b)
  BY <1>4, CommitLedgerStep
<1>5. CASE UNCHANGED vars
  BY <1>1, <1>5 DEF vars, storage
<1>6. CASE \/ \E b \in Blocks \ {Genesis} : ProcessProposal(b)
           \/ \E b \in CertifiedBlocks : NewQC(b)
           \/ \E b \in OrderCertified : NewOrderedCert(b)
           \/ \E si \in SyncInfos : SyncUp(si) \/ RecoverySyncUp(si)
  <2>1. OnlyTodo
    BY <1>6, Zenon DEF ProcessProposal, NewQC, NewOrderedCert, SyncUp, RecoverySyncUp
  <2>2. QED
    BY <1>1, <2>1 DEF OnlyTodo, storage
<1>7. CASE \E b \in Blocks \ {Genesis} : PreCommit(b) \/ CommitProof(b) \/ PostCommit(b)
  BY <1>1, <1>7 DEF PreCommit, CommitProof, PostCommit, storage
<1>8. CASE NewTC \/ LatePostCommit \/ Restart \/ RestartToRecover
  BY <1>1, <1>8 DEF NewTC, insert_2chain_timeout_certificate, LatePostCommit, Restart,
     RestartToRecover
<1>9. CASE \/ NeedFetch \/ Fetch \/ GetQCBlock \/ SaveQC \/ TreeQC
           \/ GetBlock \/ SaveBlock \/ TreeBlock
           \/ CommitQC \/ OrderCert \/ OwnOrderCert \/ TrySendNext \/ AddTC
           \/ NeedSync \/ Resume \/ SaveRange \/ AbortPipelines
  BY <1>1, <1>9 DEF NeedFetch, Fetch, GetQCBlock, SaveQC, TreeQC, GetBlock, SaveBlock, TreeBlock,
     CommitQC, OrderCert, OwnOrderCert, TrySendNext, AddTC, NeedSync, Resume, SaveRange,
     AbortPipelines, insert_2chain_timeout_certificate, OnlyTodo, storage
<1>10. CASE Send
  BY <1>1, <1>10 DEF Send, SendForExecution, Panic, OnlyTodo, storage
<1>11. CASE Rebuild \/ ExitRecovered
  BY <1>1, <1>11, RebuildStep, ExitStep
<1>12. QED
  BY <1>3, <1>4, <1>5, <1>6, <1>7, <1>8, <1>9, <1>10, <1>11
     DEF Next, Work, RoundManagerStep, PipelineStep

\* The inductive invariant: what is ordered, executed ahead or pruned lies on
\* one chain of blocks, on which the pipelines are complete from the ledger to
\* the ordered root (PipelinesRun) unless a state sync has aborted all of them
\* (PipelinesAborted), whatever messages, commits and crashes come in between.
THEOREM InductiveInvariant == Spec => []IInv
<1>1. Init => IInv
  BY InitIInv
<1>2. IInv /\ [Next]_vars => IInv'
  BY NextIInv
<1>3. QED
  BY <1>1, <1>2, PTL DEF Spec

\* commit_ledger, sync_to_target and a restart move the ledger of AptosDB along
\* one branch only, and never back, and what is pre-committed extends it, for
\* every block tree, every peer and every limit of the block store.
THEOREM LedgerMovesAlongOneBranch == Spec => LedgerExtends
<1> DEFINE A == /\ ledger \in Ancestors[ledger']
                /\ ledger' \in Ancestors[pre_committed']
<1>1. IInv /\ IInv' /\ [Next]_vars => [A]_vars
  <2>1. SUFFICES ASSUME IInv, IInv', [Next]_vars PROVE A
    OBVIOUS
  <2>2. /\ ledger \in Chain /\ ledger' \in Chain /\ pre_committed' \in Chain
        /\ RoundOf[ledger'] <= RoundOf[pre_committed']
    BY <2>1, OrderedFacts DEF IInv, TypeOK, WrittenAhead
  <2>3. RoundOf[ledger] <= RoundOf[ledger']
    BY <2>1, LedgerRises
  <2>4. QED
    BY <2>2, <2>3, ChainIsBranch
<1>2. QED
  BY <1>1, InductiveInvariant, PTL DEF Spec, LedgerExtends

-----------------------------------------------------------------------------
(* The assertions.                                                         *)

\* The window root, the commit root and the ordered root of the tree lie on one
\* branch, and the subtree of the window root is complete and linked, however
\* inserts, commits, prunings, state syncs and restarts are interleaved.
THEOREM RootsStayOnOneBranch == Spec => []RootsOnOneBranch
<1>1. IInv => RootsOnOneBranch
  <2>1. SUFFICES ASSUME IInv PROVE RootsOnOneBranch
    OBVIOUS
  <2>2. /\ TypeOK /\ TreeLinked /\ tree.id_to_block \subseteq Blocks
        /\ {tree.window_root, tree.commit_root, tree.ordered_root}
              \subseteq tree.id_to_block \cap Chain
        /\ RoundOf[tree.window_root] <= RoundOf[tree.commit_root]
        /\ RoundOf[tree.commit_root] <= RoundOf[tree.ordered_root]
    BY <2>1, Rounds DEF IInv, RootsInTree
  <2>3. /\ tree.window_root \in Ancestors[tree.commit_root]
        /\ tree.commit_root \in Ancestors[tree.ordered_root]
    BY <2>2, ChainIsBranch
  <2>4. ASSUME NEW b \in tree.id_to_block \ {tree.window_root},
               tree.window_root \in Ancestors[b]
        PROVE  Parent[b] \in tree.id_to_block /\ b \in tree.children[Parent[b]]
    <3>1. b \in Blocks /\ b # Genesis /\ tree.window_root \in Ancestors[Parent[b]]
      BY <2>2, <2>4, AncestorFacts
    <3>2. Parent[b] \in Ancestors[b]
      BY <3>1, AncestorsStep, BlockFacts
    <3>3. Parent[b] \in tree.id_to_block
      BY <2>2, <3>1, <3>2 DEF TreeLinked
    <3>4. QED
      BY <2>2, <3>1, <3>3 DEF TreeLinked
  <2>5. QED
    BY <2>2, <2>3, <2>4 DEF RootsOnOneBranch
<1>2. QED
  BY <1>1, InductiveInvariant, PTL

\* A step that leaves the pipelines and the pruned blocks alone.
Quiescent ==
    /\ UNCHANGED stage /\ tree'.pruned = tree.pruned /\ tree'.window_root = tree.window_root
    /\ process' \in {process, "recovery"}

LEMMA QuiescentSteps ==
    ASSUME IInv,
           \/ \E b \in Blocks \ {Genesis} : ProcessProposal(b) \/ CommitProof(b)
           \/ \E b \in CertifiedBlocks : NewQC(b)
           \/ \E b \in OrderCertified : NewOrderedCert(b)
           \/ \E si \in SyncInfos : SyncUp(si) \/ RecoverySyncUp(si)
           \/ NewTC
           \/ NeedFetch \/ Fetch \/ GetQCBlock \/ SaveQC \/ TreeQC
           \/ GetBlock \/ SaveBlock
           \/ CommitQC \/ OrderCert \/ OwnOrderCert \/ Send \/ TrySendNext \/ AddTC
           \/ NeedSync \/ Resume \/ SaveRange \/ AbortPipelines \/ SyncToTarget
    PROVE  Quiescent
<1>1. CASE OnlyTodo
  BY <1>1 DEF OnlyTodo, pipeline, Quiescent
<1>2. CASE \/ \E b \in Blocks \ {Genesis} : ProcessProposal(b)
           \/ \E b \in CertifiedBlocks : NewQC(b)
           \/ \E b \in OrderCertified : NewOrderedCert(b)
           \/ \E si \in SyncInfos : SyncUp(si) \/ RecoverySyncUp(si)
  <2>1. OnlyTodo
    BY <1>2, Zenon DEF ProcessProposal, NewQC, NewOrderedCert, SyncUp, RecoverySyncUp
  <2>2. QED
    BY <1>1, <2>1
<1>3. CASE \E b \in Blocks \ {Genesis} : CommitProof(b)
  BY <1>3 DEF CommitProof, Quiescent
<1>4. CASE NewTC \/ AddTC
  <2>1. CASE \E round : insert_2chain_timeout_certificate(round)
    BY <2>1 DEF insert_2chain_timeout_certificate, Quiescent, pipeline, IInv, TypeOK
  <2>2. QED
    BY <1>1, <1>4, <2>1, Zenon DEF NewTC, AddTC
<1>5. CASE \/ NeedFetch \/ Fetch \/ GetQCBlock \/ GetBlock
           \/ CommitQC \/ OrderCert \/ OwnOrderCert \/ TrySendNext
  <2>1. OnlyTodo
    BY <1>5 DEF NeedFetch, Fetch, GetQCBlock, GetBlock, CommitQC, OrderCert, OwnOrderCert,
       TrySendNext
  <2>2. QED
    BY <1>1, <2>1
<1>6. CASE \/ SaveQC \/ SaveBlock \/ NeedSync \/ Resume \/ SaveRange \/ AbortPipelines
           \/ SyncToTarget
  BY <1>6 DEF SaveQC, SaveBlock, NeedSync, Resume, SaveRange, AbortPipelines, SyncToTarget,
     pipeline, Quiescent
<1>7. CASE TreeQC
  <2>1. UNCHANGED <<stage, process>>
    BY <1>7 DEF TreeQC, pipeline
  <2>2. tree'.pruned = tree.pruned /\ tree'.window_root = tree.window_root
    BY <1>7 DEF TreeQC, insert_quorum_cert, IInv, TypeOK
  <2>3. QED
    BY <2>1, <2>2 DEF Quiescent
<1>8. CASE Send
  <2>1. CASE OnlyTodo
    BY <1>1, <2>1
  <2>2. CASE /\ Arg.block \in tree.id_to_block
             /\ RoundOf[Arg.block] > RoundOf[tree.ordered_root]
             /\ SendForExecution(Arg)
    <3>1. /\ Handler(todo, process) /\ todo # <<>> /\ todo[1][1] \in {"send", "try_send"}
      BY <1>8 DEF IInv, Send, Doing
    <3>2. Arg.block \in Chain
      BY <3>1, GoesOn, OrderedFacts DEF StepOK, Arg, OrderingCert
    <3>3. HasPathFromOrderedRoot(Arg.block) /\ PathFromOrderedRoot(Arg.block) # {}
      BY <2>2, <3>2, PathExists DEF IInv, TreeInv
    <3>4. /\ tree' = [tree EXCEPT
                    !.ordered_root = Arg.block,
                    !.highest_ordered_cert =
                        IF RoundOf[Arg.block] > RoundOf[@.block] THEN Arg ELSE @]
          /\ UNCHANGED <<stage, process>>
      BY <2>2, <3>3 DEF SendForExecution
    <3>5. QED
      BY <3>4 DEF Quiescent, IInv, TypeOK
  <2>3. QED
    BY <1>8, <2>1, <2>2 DEF Send
<1>9. QED
  BY <1>2, <1>3, <1>4, <1>5, <1>6, <1>7, <1>8

\* How the process can go on or end.
LEMMA ProcessSteps ==
    ASSUME IInv, [Next]_vars
    PROVE  \/ process' \in {process, "running", "recovering", "stopped", "recovery", "callback"}
           \/ /\ process' = "root"
              /\ \/ LatePostCommit
                 \/ \E b \in Blocks \ {Genesis} :
                      /\ PostCommit(b) /\ commit_proof[b] = b /\ b \in tree.id_to_block
                      /\ \E ids \in find_blocks_to_prune(b) : CallbackFails(b, ids)
<1>1. CASE UNCHANGED vars
  BY <1>1 DEF vars
<1>2. CASE \/ \E b \in Blocks \ {Genesis} : ProcessProposal(b) \/ CommitProof(b)
           \/ \E b \in CertifiedBlocks : NewQC(b)
           \/ \E b \in OrderCertified : NewOrderedCert(b)
           \/ \E si \in SyncInfos : SyncUp(si) \/ RecoverySyncUp(si)
           \/ NewTC
           \/ NeedFetch \/ Fetch \/ GetQCBlock \/ SaveQC \/ TreeQC
           \/ GetBlock \/ SaveBlock
           \/ CommitQC \/ OrderCert \/ OwnOrderCert \/ Send \/ TrySendNext \/ AddTC
           \/ NeedSync \/ Resume \/ SaveRange \/ AbortPipelines \/ SyncToTarget
  <2>1. Quiescent
    BY <1>2, QuiescentSteps
  <2>2. QED
    BY <2>1 DEF Quiescent
<1>3. CASE \/ \E b \in Blocks \ {Genesis} : PreCommit(b) \/ CommitLedger(b)
           \/ TreeBlock
  BY <1>3 DEF PreCommit, CommitLedger, TreeBlock
<1>4. CASE Rebuild \/ ExitRecovered \/ Restart \/ RestartToRecover
  BY <1>4 DEF Rebuild, ExitRecovered, Restart, RestartToRecover, Panic
<1>5. CASE \E b \in Blocks \ {Genesis} : PostCommit(b)
  <2>1. PICK b \in Blocks \ {Genesis} : PostCommit(b)
    BY <1>5
  <2>2. CASE commit_proof[b] # b
    BY <2>1, <2>2 DEF PostCommit
  <2>3. CASE commit_proof[b] = b
    <3>1. PICK stages : CommitCallback(b, stages)
      BY <2>1, <2>3, Zenon DEF PostCommit
    <3>2. CASE Panic("callback")
      BY <3>2 DEF Panic
    <3>3. CASE /\ b \in tree.id_to_block
               /\ \E ids \in find_blocks_to_prune(b) : CallbackDone(b, stages, ids)
      <4>1. UNCHANGED process
        BY <3>3, Zenon DEF CallbackDone
      <4>2. QED
        BY <4>1
    <3>4. CASE /\ b \in tree.id_to_block
               /\ \E ids \in find_blocks_to_prune(b) : CallbackFails(b, ids)
      <4>1. process' = "root"
        BY <3>4, Zenon DEF CallbackFails
      <4>2. QED
        BY <2>1, <2>3, <3>4, <4>1, Zenon
    <3>5. QED
      BY <3>1, <3>2, <3>3, <3>4, CallbackCases, Zenon
  <2>4. QED
    BY <2>2, <2>3
<1>6. CASE LatePostCommit
  <2>1. late # {} /\ late \in SUBSET Blocks
    BY <1>6 DEF LatePostCommit, IInv, TypeOK
  <2>2. PICK b \in Blocks : CommitCallback(b, stage)
    <3> DEFINE b == CHOOSE c \in late : \A d \in late : RoundOf[c] <= RoundOf[d]
    <3>1. b \in late
      BY <2>1, LeastRound
    <3>2. CommitCallback(b, stage)
      BY <1>6 DEF LatePostCommit
    <3> HIDE DEF b
    <3>3. QED
      BY <2>1, <3>1, <3>2
  <2>3. CASE Panic("callback")
    BY <2>3 DEF Panic
  <2>4. CASE \E ids \in find_blocks_to_prune(b) : CallbackDone(b, stage, ids)
    <3>1. UNCHANGED process
      BY <2>4, Zenon DEF CallbackDone
    <3>2. QED
      BY <3>1
  <2>5. CASE \E ids \in find_blocks_to_prune(b) : CallbackFails(b, ids)
    <3>1. process' = "root"
      BY <2>5, Zenon DEF CallbackFails
    <3>2. QED
      BY <1>6, <3>1
  <2>6. QED
    BY <2>2, <2>3, <2>4, <2>5, CallbackCases, Zenon
<1>7. QED
  BY <1>1, <1>2, <1>3, <1>4, <1>5, <1>6 DEF Next, Work, RoundManagerStep, PipelineStep

\* path_from_ordered_root always finds the path of a block that is sent for
\* execution, and find_blocks_to_prune every child, so that the assertions of
\* send_for_execution ("path") and of the block tree ("child") never fail.
THEOREM PathsAndChildrenAreFound == Spec => [](process \notin {"path", "child"})
<1>1. Init => process \notin {"path", "child"}
  BY DEF Init
<1>2. IInv /\ [Next]_vars /\ process \notin {"path", "child"} => (process \notin {"path", "child"})'
  <2>1. SUFFICES ASSUME IInv, [Next]_vars, process \notin {"path", "child"}
                 PROVE  process' \notin {"path", "child"}
    OBVIOUS
  <2>2. process' \in {process, "running", "recovering", "stopped", "recovery", "callback", "root"}
    BY <2>1, ProcessSteps
  <2>3. QED
    BY <2>1, <2>2
<1>3. QED
  BY <1>1, <1>2, InductiveInvariant, PTL DEF Spec

-----------------------------------------------------------------------------
(* The assertion of update_window_root.                                    *)

\* Blocks are called back in order.
FinishedInOrder(stages) ==
    \A b \in Blocks : \A c \in Ancestors[b] :
        stages[b] = "finished" => stages[c] \in {"none", "finished"}

\* A block that goes on to a stage before the last.
LEMMA StageMoves ==
    ASSUME IInv, PrunedIsBehind, NEW b \in Blocks, NEW s, s # "finished",
           stage[b] \notin {"none", "finished"}, stage' = [stage EXCEPT ![b] = s],
           UNCHANGED tree
    PROVE  PrunedIsBehind'
<1>1. stage \in [Blocks -> {"none", "live", "pre_committed", "committed", "finished"}]
  BY DEF IInv, TypeOK
<1>2. tree.window_root \in Blocks /\ tree.window_root # b
  BY DEF IInv, TypeOK, PrunedIsBehind
<1>3. \A c \in Blocks : stage'[c] = (IF c = b THEN s ELSE stage[c])
  BY <1>1
<1>4. \A x \in Blocks : Ancestors[x] \subseteq Blocks
  BY AncestorsStep
<1>5. stage'[tree.window_root] = "finished"
  BY <1>2, <1>3 DEF PrunedIsBehind
<1>6. ASSUME NEW x \in Blocks, NEW c \in Ancestors[x], stage'[x] = "finished"
      PROVE  stage'[c] \in {"none", "finished"}
  <2>1. c \in Blocks /\ stage[x] = "finished"
    BY <1>3, <1>4, <1>6
  <2>2. stage[c] \in {"none", "finished"}
    BY <2>1 DEF PrunedIsBehind
  <2>3. QED
    BY <1>3, <2>1, <2>2
<1>7. QED
  BY <1>5, <1>6 DEF PrunedIsBehind

\* A new block hangs on the tree: no block that was called back is above it.
LEMMA TreeBlockBehind ==
    ASSUME IInv, Running, PrunedIsBehind, TreeBlock
    PROVE  PrunedIsBehind'
<1>1. CASE UNCHANGED <<tree, stage>>
  BY <1>1 DEF PrunedIsBehind
<1>2. CASE /\ Parent[Arg] \in tree.id_to_block
           /\ tree' = insert_block(Arg)
           /\ stage' = [stage EXCEPT ![Arg] = "live"]
  <2>1. PICK new : new = Arg
    OBVIOUS
  <2>2. todo # <<>> /\ todo[1][1] = "tree_block" /\ Handler(todo, process)
    BY DEF TreeBlock, Doing, IInv
  <2>3. new \in Blocks \ {Genesis} /\ new \notin tree.id_to_block
    BY <2>1, <2>2, GoesOn DEF StepOK, Arg, IInv, InsertsNewBlock
  <2>4. /\ tree'.pruned = tree.pruned /\ tree'.window_root = tree.window_root
        /\ tree.window_root \in tree.id_to_block
        /\ tree.id_to_block \subseteq Blocks
        /\ stage \in [Blocks -> {"none", "live", "pre_committed", "committed", "finished"}]
    BY <1>2 DEF insert_block, IInv, TypeOK, RootsInTree
  <2>5. \A c \in Blocks : stage'[c] = (IF c = new THEN "live" ELSE stage[c])
    BY <1>2, <2>1, <2>4
  <2>6. stage'[tree.window_root] = "finished"
    BY <2>3, <2>4, <2>5 DEF PrunedIsBehind
  <2>7. ASSUME NEW x \in Blocks, NEW c \in Ancestors[x], stage'[x] = "finished"
        PROVE  stage'[c] \in {"none", "finished"}
    <3>1. c \in Blocks /\ stage[x] = "finished"
      BY <2>5, <2>7, AncestorsStep
    <3>2. stage[c] \in {"none", "finished"}
      BY <3>1 DEF PrunedIsBehind
    <3>3. c # new
      <4>1. SUFFICES ASSUME c = new PROVE FALSE
        OBVIOUS
      <4>2. x \in tree.id_to_block
        BY <3>1 DEF IInv
      <4>3. Parent[new] \in Ancestors[new] \cap tree.id_to_block
        BY <1>2, <2>1, <2>3, <2>4, AncestorsStep
      <4>4. TreeLinked
        BY DEF IInv
      <4>5. new \in tree.id_to_block
        BY <2>7, <4>1, <4>2, <4>3, <4>4 DEF TreeLinked
      <4>6. QED
        BY <2>3, <4>5
    <3>4. QED
      BY <2>5, <3>1, <3>2, <3>3
  <2>8. QED
    BY <2>4, <2>6, <2>7 DEF PrunedIsBehind
<1>3. QED
  BY <1>1, <1>2 DEF TreeBlock

\* post_commit_ledger waits for that of the parent.
LEMMA FinishesInOrder ==
    ASSUME IInv, Running, PrunedIsBehind, NEW b \in Blocks \ {Genesis}, PostCommit(b)
    PROVE  FinishedInOrder([stage EXCEPT ![b] = "finished"])
<1>1. stage \in [Blocks -> {"none", "live", "pre_committed", "committed", "finished"}]
  BY DEF IInv, TypeOK
<1>2. stage[b] = "committed" /\ stage[Parent[b]] \in {"none", "finished"}
  BY DEF PostCommit
<1>3. b \in tree.id_to_block /\ Parent[b] \in Blocks /\ Parent[b] \in Ancestors[b]
  BY <1>2, AncestorsStep, BlockFacts DEF IInv
<1>4. PICK stages : stages = [stage EXCEPT ![b] = "finished"]
  OBVIOUS
<1>5. \A c \in Blocks : stages[c] = (IF c = b THEN "finished" ELSE stage[c])
  BY <1>1, <1>4
<1>6. ASSUME NEW x \in Blocks, NEW c \in Ancestors[x], stages[x] = "finished"
      PROVE  stages[c] \in {"none", "finished"}
  <2>1. c \in Blocks
    BY AncestorsStep
  <2>2. CASE c = b
    BY <1>5, <2>2
  <2>3. CASE x # b /\ c # b
    <3>1. stage[x] = "finished"
      BY <1>5, <1>6, <2>3
    <3>2. stage[c] \in {"none", "finished"}
      BY <3>1 DEF PrunedIsBehind
    <3>3. QED
      BY <1>5, <2>1, <2>3, <3>2
  <2>4. CASE x = b /\ c # b
    <3>1. c \in Ancestors[Parent[b]]
      BY <2>4, AncestorFacts
    <3>2. CASE stage[Parent[b]] = "finished"
      <4>1. stage[c] \in {"none", "finished"}
        BY <1>3, <3>1, <3>2 DEF PrunedIsBehind
      <4>2. QED
        BY <1>5, <2>1, <2>4, <4>1
    <3>3. CASE stage[Parent[b]] = "none"
      <4>1. Parent[b] \notin tree.id_to_block
        BY <1>3, <3>3 DEF IInv
      <4>2. c \notin tree.id_to_block
        <5>1. TreeLinked
          BY DEF IInv
        <5>2. QED
          BY <1>3, <3>1, <4>1, <5>1 DEF TreeLinked
      <4>3. stage[c] = "none"
        BY <2>1, <4>2 DEF IInv
      <4>4. QED
        BY <1>5, <2>1, <2>4, <4>3
    <3>4. QED
      BY <1>2, <3>2, <3>3
  <2>5. QED
    BY <2>2, <2>3, <2>4
<1>7. QED
  BY <1>4, <1>6 DEF FinishedInOrder

\* A callback that outlives the tree of its block comes for the window root of
\* the new tree, or it panics: the new tree starts at or above its block.
LEMMA LateIsWindowRoot ==
    ASSUME IInv, NEW b \in late, FindsWindowRoot(b)
    PROVE  b = tree.window_root
<1> DEFINE w == tree.window_root
           r == tree.commit_root
<1>1. /\ w \in Chain /\ r \in Chain /\ b \in Chain
      /\ w \in tree.id_to_block /\ r \in tree.id_to_block
      /\ RoundOf[w] <= RoundOf[r]
  BY DEF IInv, RootsInTree, ProofsOnChain
<1>2. /\ w \in Blocks /\ r \in Blocks /\ b \in Blocks
      /\ RoundOf[w] \in Nat /\ RoundOf[r] \in Nat /\ RoundOf[b] \in Nat
  BY <1>1, ChainIsClosed
<1>3. RoundOf[b] <= RoundOf[w]
  BY <1>1 DEF IInv, ProofsOnChain
<1>4. RoundOf[b] = RoundOf[w]
  BY <1>1, <1>2, <1>3 DEF FindsWindowRoot
<1>5. QED
  BY <1>1, <1>2, <1>4, ChainIsBranch, AncestorFacts

\* A block that is called back is above everything of the chain that is pruned.
LEMMA PrunedBelow ==
    ASSUME IInv, PrunedIsBehind, NEW b \in tree.id_to_block \cap Chain,
           stage[b] = "committed" \/ b = tree.window_root, NEW ids \in find_blocks_to_prune(b),
           NEW x \in (ToSet(tree.pruned) \cup ToSet(ids)) \cap Chain
    PROVE  RoundOf[x] < RoundOf[b]
<1> DEFINE w == tree.window_root
<1>1. /\ TypeOK /\ w \in Chain /\ w \in Blocks /\ b \in Chain /\ b \in Blocks /\ x \in Blocks
      /\ RoundOf[w] \in Nat /\ RoundOf[b] \in Nat /\ RoundOf[x] \in Nat
  BY ChainIsClosed DEF IInv, RootsInTree
<1>2. b # w => b \notin Ancestors[w]
  BY <1>1 DEF PrunedIsBehind
<1>3. b # w => RoundOf[w] < RoundOf[b]
  BY <1>1, <1>2, ChainIsBranch
<1>4. CASE x \in ToSet(tree.pruned)
  <2>1. RoundOf[x] < RoundOf[w]
    BY <1>4 DEF PrunedIsBehind
  <2>2. QED
    BY <1>1, <1>3, <2>1
<1>5. CASE x \in ToSet(ids)
  <2>1. b # w /\ x \in BlocksBelow(b)
    BY <1>1, <1>5, PruneList, Zenon
  <2>2. b \notin Ancestors[x]
    BY <1>2, <2>1 DEF BlocksBelow
  <2>3. QED
    BY <1>1, <2>2, ChainIsBranch
<1>6. QED
  BY <1>4, <1>5

\* commit_callback neither fails nor breaks the order.
LEMMA CallbackBehind ==
    ASSUME IInv, PrunedIsBehind, NEW b \in tree.id_to_block \cap Chain,
           stage[b] = "committed" \/ b = tree.window_root, NEW ids \in find_blocks_to_prune(b)
    PROVE  /\ ~CallbackFails(b, ids)
           /\ \A stages : FinishedInOrder(stages) /\ stages[b] = "finished"
                          /\ CallbackDone(b, stages, ids) => PrunedIsBehind'
<1>1. TypeOK /\ TreeInv /\ b \in Blocks /\ RoundOf[b] \in Nat
  BY ChainIsClosed DEF IInv, TreeInv
<1>2. PICK pruned : pruned = tree.pruned \o ids
  OBVIOUS
<1>3. PICK excess : excess = NumBlocksToRemove(pruned)
  OBVIOUS
<1>4. PICK removed : removed = ToSet(SubSeq(pruned, 1, excess))
  OBVIOUS
<1>5. PICK left : left = SubSeq(pruned, excess + 1, Len(pruned))
  OBVIOUS
<1>6. removed \subseteq ToSet(pruned) /\ ToSet(left) \subseteq ToSet(pruned)
  BY <1>1, <1>2, <1>3, <1>4, <1>5, RemovedFacts, Zenon
<1>7. ToSet(pruned) = ToSet(tree.pruned) \cup ToSet(ids)
  BY <1>1, <1>2, PrunedList, Zenon
<1>8. \A x \in ToSet(pruned) \cap Chain : RoundOf[x] < RoundOf[b]
  BY <1>7, PrunedBelow
<1>9. b \notin removed
  BY <1>1, <1>6, <1>8
<1>10. ~CallbackFails(b, ids)
  BY <1>2, <1>3, <1>4, <1>9, Zenon DEF CallbackFails
<1>11. ASSUME NEW stages, FinishedInOrder(stages), stages[b] = "finished",
              CallbackDone(b, stages, ids)
       PROVE  PrunedIsBehind'
  <2>1. stage' = [c \in Blocks |-> IF c \in removed THEN "none" ELSE stages[c]]
    BY <1>2, <1>3, <1>4, <1>11, Zenon DEF CallbackDone
  <2>2. tree'.window_root = b /\ tree'.pruned = left
    <3>1. tree \in [id_to_block : SUBSET Blocks, children : [tree.id_to_block -> SUBSET Blocks],
                 qcs : SUBSET Certified,
                 ordered_root : Chain, commit_root : Blocks, window_root : Blocks,
                 highest_certified : Certified, highest_ordered_cert : OrderingCert,
                 highest_commit_cert : Blocks, highest_tc : Nat, pruned : Seq(Blocks)]
      BY <1>1 DEF TypeOK
    <3>2. PICK kept, ch, q, hcc, cr :
              tree' = [tree EXCEPT !.id_to_block = kept, !.children = ch, !.qcs = q,
                                   !.pruned = left, !.window_root = b,
                                   !.highest_commit_cert = hcc, !.commit_root = cr]
      BY <1>2, <1>3, <1>5, <1>11, ZenonT(40) DEF CallbackDone
    <3>3. QED
      BY <3>1, <3>2
  <2>3. stage'[b] = "finished"
    BY <1>1, <1>9, <1>11, <2>1
  <2>4. ASSUME NEW x \in Blocks, NEW c \in Ancestors[x], stage'[x] = "finished"
        PROVE  stage'[c] \in {"none", "finished"}
    <3>1. c \in Blocks /\ stages[x] = "finished"
      BY <2>1, <2>4, AncestorsStep
    <3>2. stages[c] \in {"none", "finished"}
      BY <1>11, <3>1 DEF FinishedInOrder
    <3>3. QED
      BY <2>1, <3>1, <3>2
  <2>5. \A x \in ToSet(tree'.pruned) \cap Chain : RoundOf[x] < RoundOf[tree'.window_root]
    BY <1>6, <1>8, <2>2
  <2>6. QED
    BY <2>2, <2>3, <2>4, <2>5 DEF PrunedIsBehind
<1>12. QED
  BY <1>10, <1>11, Zenon

\* In a tree that was just built nothing is pruned.
LEMMA BuiltBehind ==
    ASSUME TypeOK, NEW tc, Build(tc)
    PROVE  PrunedIsBehind'
<1>1. ledger \in Blocks /\ RoundOf[ledger] \in Nat
  BY Rounds
<1>2. tree'.pruned = <<>> /\ tree'.window_root = ledger
  BY DEF Build, BuildTree, RootCert
<1>3. stage' = [b \in Blocks |-> IF b = ledger THEN "finished"
                                 ELSE IF b \in Connected THEN "live" ELSE "none"]
  BY DEF Build
<1>4. ASSUME NEW b \in Blocks, NEW c \in Ancestors[b], stage'[b] = "finished"
      PROVE  stage'[c] \in {"none", "finished"}
  <2>1. b = ledger /\ c \in Blocks /\ RoundOf[c] <= RoundOf[ledger] /\ RoundOf[c] \in Nat
    BY <1>1, <1>3, <1>4, AncestorFacts, BlockFacts
  <2>2. c \notin Connected
    BY <1>1, <2>1, RecoveredFacts
  <2>3. QED
    BY <1>3, <2>1, <2>2
<1>5. ToSet(tree'.pruned) = {}
  BY <1>2 DEF ToSet
<1>6. QED
  BY <1>1, <1>2, <1>3, <1>4, <1>5 DEF PrunedIsBehind

LEMMA BehindStep ==
    ASSUME IInv, Running => PrunedIsBehind, [Next]_vars
    PROVE  /\ Running' => PrunedIsBehind'
           /\ process' = "root" => process = "root"
<1>1. CASE UNCHANGED vars
  BY <1>1 DEF vars, pipeline, Running, PrunedIsBehind
<1>2. CASE Quiescent
  BY <1>2 DEF Quiescent, Running, PrunedIsBehind
<1>3. CASE TreeBlock
  <2>1. UNCHANGED process
    BY <1>3 DEF TreeBlock
  <2>2. QED
    BY <1>3, <2>1, TreeBlockBehind DEF Running
<1>4. CASE \E b \in Blocks \ {Genesis} : PreCommit(b) \/ CommitLedger(b)
  <2>1. PICK b \in Blocks \ {Genesis} : PreCommit(b) \/ CommitLedger(b)
    BY <1>4
  <2>2. Running /\ UNCHANGED <<tree, process>>
    BY <2>1 DEF PreCommit, CommitLedger
  <2>3. PICK s : /\ s # "finished" /\ stage[b] \notin {"none", "finished"}
                 /\ stage' = [stage EXCEPT ![b] = s]
    BY <2>1 DEF PreCommit, CommitLedger
  <2>4. PrunedIsBehind'
    BY <2>2, <2>3, StageMoves
  <2>5. QED
    BY <2>2, <2>4
<1>5. CASE \E b \in Blocks \ {Genesis} : PostCommit(b)
  <2>1. PICK b \in Blocks \ {Genesis} : PostCommit(b)
    BY <1>5
  <2>2. Running /\ PrunedIsBehind /\ stage[b] = "committed"
    BY <2>1 DEF PostCommit
  <2>3. b \in Chain /\ b \in tree.id_to_block
    BY <2>2 DEF IInv, ProofsOnChain
  <2>4. PICK stages : stages = [stage EXCEPT ![b] = "finished"]
    OBVIOUS
  <2>5. FinishedInOrder(stages)
    BY <2>1, <2>2, <2>4, FinishesInOrder
  <2>6. stages[b] = "finished"
    BY <2>4 DEF IInv, TypeOK
  <2>7. CASE commit_proof[b] # b
    <3>1. stage' = stages /\ UNCHANGED <<tree, process>>
      BY <2>1, <2>4, <2>7 DEF PostCommit
    <3>2. stage'[tree.window_root] = "finished"
      BY <2>2, <2>4, <3>1 DEF IInv, TypeOK, PrunedIsBehind
    <3>3. PrunedIsBehind'
      BY <2>2, <2>5, <3>1, <3>2 DEF PrunedIsBehind, FinishedInOrder
    <3>4. QED
      BY <3>1, <3>3
  <2>8. CASE commit_proof[b] = b
    <3>1. CommitCallback(b, stages)
      BY <2>1, <2>4, <2>8, Zenon DEF PostCommit
    <3>2. CASE Panic("callback")
      BY <3>2 DEF Panic, Running
    <3>3. CASE \E ids \in find_blocks_to_prune(b) : CallbackDone(b, stages, ids)
      <4>1. PICK ids \in find_blocks_to_prune(b) : CallbackDone(b, stages, ids)
        BY <3>3
      <4>2. UNCHANGED process
        BY <4>1, Zenon DEF CallbackDone
      <4>3. PrunedIsBehind'
        BY <2>2, <2>3, <2>5, <2>6, <4>1, CallbackBehind
      <4>4. QED
        BY <4>2, <4>3
    <3>4. CASE \E ids \in find_blocks_to_prune(b) : CallbackFails(b, ids)
      BY <2>2, <2>3, <3>4, CallbackBehind
    <3>5. QED
      BY <3>1, <3>2, <3>3, <3>4, <2>1, CallbackCases, Zenon
  <2>9. QED
    BY <2>7, <2>8
<1>6. CASE LatePostCommit
  <2>1. PICK b \in late : CommitCallback(b, stage)
    BY <1>6, LateBlock DEF IInv, TypeOK
  <2>2. b \in Chain /\ b \in Blocks /\ Running /\ PrunedIsBehind
    BY <1>6 DEF LatePostCommit, IInv, TypeOK, ProofsOnChain
  <2>3. CASE Panic("callback")
    BY <2>3 DEF Panic, Running
  <2>4. CASE /\ b \in tree.id_to_block /\ FindsWindowRoot(b)
             /\ \E ids \in find_blocks_to_prune(b) :
                   CallbackDone(b, stage, ids) \/ CallbackFails(b, ids)
    <3>1. b = tree.window_root
      BY <2>4, LateIsWindowRoot
    <3>2. PICK ids \in find_blocks_to_prune(b) :
            CallbackDone(b, stage, ids) \/ CallbackFails(b, ids)
      BY <2>4
    <3>3. stage[b] = "finished" /\ FinishedInOrder(stage)
      BY <2>2, <3>1 DEF PrunedIsBehind, FinishedInOrder
    <3>4. CallbackDone(b, stage, ids) /\ PrunedIsBehind'
      BY <2>2, <2>4, <3>1, <3>2, <3>3, CallbackBehind
    <3>5. UNCHANGED process
      BY <3>4, Zenon DEF CallbackDone
    <3>6. QED
      BY <3>4, <3>5
  <2>5. QED
    BY <2>1, <2>2, <2>3, <2>4, CallbackCases, Zenon
<1>7. CASE Rebuild \/ Restart
  <2>1. CASE Panic("recovery")
    BY <2>1 DEF Panic, Running
  <2>2. CASE \E tc : Build(tc) /\ process' \in {process, "running"}
    <3>1. PrunedIsBehind'
      BY <2>2, BuiltBehind DEF IInv
    <3>2. QED
      BY <2>2, <3>1
  <2>3. QED
    BY <1>7, <2>1, <2>2, Zenon DEF Rebuild, Restart
<1>8. CASE ExitRecovered \/ RestartToRecover
  BY <1>8 DEF ExitRecovered, RestartToRecover, Panic, Running
<1>9. QED
  BY <1>1, <1>2, <1>3, <1>4, <1>5, <1>6, <1>7, <1>8, QuiescentSteps
     DEF Next, Work, RoundManagerStep, PipelineStep

LEMMA InitBehind == Init => PrunedIsBehind
<1>1. SUFFICES ASSUME Init PROVE PrunedIsBehind
  OBVIOUS
<1>2. /\ tree.pruned = <<>> /\ tree.window_root = Genesis
      /\ stage = [b \in Blocks |-> IF b = Genesis THEN "finished" ELSE "none"]
  BY <1>1 DEF Init, BuildTree
<1>3. ToSet(tree.pruned) = {}
  BY <1>2 DEF ToSet
<1>4. \A b \in Blocks : Ancestors[b] \subseteq Blocks
  BY AncestorsStep
<1>5. QED
  BY <1>2, <1>3, <1>4, BlockFacts DEF PrunedIsBehind

\* The new window root of commit_callback is never among the blocks that it
\* removes, so that none of the assertions about paths, children and the window
\* root fails, for every tree, every limit of the pruned blocks and every
\* interleaving, with callbacks that outlive the tree of their block: those come
\* for the window root of the new tree and prune nothing, or stop the process
\* before they prune (run block_store_callback).
THEOREM NoAssertionFails == Spec => []NoPanic
<1>1. Init => (Running => PrunedIsBehind)
  BY InitBehind
<1>2. IInv /\ (Running => PrunedIsBehind) /\ [Next]_vars
        => (Running => PrunedIsBehind)' /\ (process # "root" => (process # "root")')
  BY BehindStep DEF Running
<1>3. Init => process # "root"
  BY DEF Init
<1>4. process \notin {"path", "child"} /\ process # "root" => NoPanic
  BY DEF NoPanic
<1>5. QED
  BY <1>1, <1>2, <1>3, <1>4, InductiveInvariant, PathsAndChildrenAreFound, PTL DEF Spec

-----------------------------------------------------------------------------
(* What is stored.                                                         *)

\* What is certified later extends what is decided.
LEMMA CertifiedExtendsDecided ==
    ASSUME NEW d \in Decided, NEW c \in Certified, RoundOf[d] <= RoundOf[c]
    PROVE  d \in Ancestors[c]
<1>1. d \in Chain /\ d \in Blocks /\ c \in Blocks
  BY OrderedFacts
<1>2. CASE d \in Ordered /\ c \in CertifiedBlocks
  BY <1>2, NetworkAssumption, <1>1, BlockFacts
<1>3. CASE c = Genesis
  BY <1>1, <1>3, OrderedFacts, ChainIsBranch
<1>4. CASE d = Genesis
  <2> DEFINE S == {b \in Blocks : Genesis \in Ancestors[b]}
  <2>1. Genesis \in S
    BY AncestorsStep, BlockFacts
  <2>2. \A b \in Blocks \ {Genesis} : Parent[b] \in S => b \in S
    BY AncestorsStep
  <2>3. \A b \in Blocks : b \in S
    <3>1. S \in SUBSET Blocks
      OBVIOUS
    <3> HIDE DEF S
    <3>2. QED
      BY <2>1, <2>2, <3>1, BlockInduction
  <2>4. QED
    BY <1>1, <1>4, <2>3
<1>5. QED
  BY <1>2, <1>3, <1>4 DEF Decided, Certified

\* What is on the way to a certified block, above the ledger, extends the ledger.
LEMMA PathExtendsLedger ==
    ASSUME TypeOK, NEW h \in Certified, NEW c \in Ancestors[h], RoundOf[c] > RoundOf[ledger]
    PROVE  ledger \in Ancestors[c] /\ ledger \in Ancestors[h] /\ c \in Blocks \ {Genesis}
<1>1. /\ h \in Blocks /\ ledger \in Decided /\ RoundOf[ledger] \in Nat
      /\ RoundOf[h] \in Nat /\ c \in Blocks /\ RoundOf[c] \in Nat /\ RoundOf[c] <= RoundOf[h]
  BY OrderedFacts, BlockFacts, AncestorFacts, Rounds DEF TypeOK
<1>2. ledger \in Ancestors[h]
  BY <1>1, CertifiedExtendsDecided
<1>3. ledger \in Ancestors[c]
  BY <1>1, <1>2, AncestorFacts
<1>4. QED
  BY <1>1, <1>2, <1>3, BlockFacts

\* The parts that say what the database holds survive when it grows and the
\* ledger rises.
LEMMA StoredGrows ==
    ASSUME TypeOK, TypeOK', RootBlockStored, HighestStored,
           RoundOf[ledger] <= RoundOf[ledger'],
           db.blocks \subseteq db'.blocks, db.qcs \subseteq db'.qcs,
           db'.tc = tree'.highest_tc,
           tree'.highest_certified = tree.highest_certified,
           ledger' = ledger \/ ledger' \in db'.blocks
    PROVE  RootBlockStored' /\ HighestStored'
<1>1. RootBlockStored'
  BY DEF RootBlockStored, StoredBlocks
<1>2. RoundOf[ledger] \in Nat /\ RoundOf[ledger'] \in Nat
  BY OrderedFacts, BlockFacts DEF TypeOK
<1>3. tree.highest_certified \in Blocks
  BY OrderedFacts DEF TypeOK
<1>4. \A b \in Ancestors[tree.highest_certified] : RoundOf[b] \in Nat
  BY <1>3, AncestorFacts, BlockFacts
<1>5. RoundOf[tree.highest_certified] \in Nat
  BY <1>3, BlockFacts
<1>6. HighestStored'
  <2>1. SUFFICES ASSUME RoundOf[tree.highest_certified] > RoundOf[ledger']
                 PROVE  /\ tree.highest_certified \in db'.qcs
                        /\ \A b \in Ancestors[tree.highest_certified] :
                              RoundOf[b] > RoundOf[ledger'] => b \in db'.blocks
    BY DEF HighestStored
  <2>2. RoundOf[tree.highest_certified] > RoundOf[ledger]
    BY <1>2, <1>5, <2>1
  <2>3. \A b \in Ancestors[tree.highest_certified] :
              RoundOf[b] > RoundOf[ledger'] => RoundOf[b] > RoundOf[ledger]
    BY <1>2, <1>4
  <2>4. QED
    BY <2>2, <2>3 DEF HighestStored
<1>7. QED
  BY <1>1, <1>6

LEMMA TreeStoredGrows ==
    ASSUME TypeOK, TypeOK', TreeStored, RoundOf[ledger] <= RoundOf[ledger'],
           db.blocks \subseteq db'.blocks,
           tree'.window_root = tree.window_root, tree'.id_to_block = tree.id_to_block
    PROVE  TreeStored'
<1>1. RoundOf[ledger] \in Nat /\ RoundOf[ledger'] \in Nat /\ RoundOf[tree.window_root] \in Nat
  BY OrderedFacts, BlockFacts DEF TypeOK
<1>2. QED
  BY <1>1 DEF TreeStored

\* A step that relies on no write.
LEMMA QuietWriteMade ==
    ASSUME NEW p, Quiet(todo', p)
    PROVE  WriteMade'
BY DEF Quiet, WriteMade, MayStart

\* The others find it as long as the database grows and the ledger rises.
LEMMA WriteKept ==
    ASSUME TypeOK, TypeOK', Handler(todo, process), WriteMade,
           RoundOf[ledger] <= RoundOf[ledger'],
           db.blocks \subseteq db'.blocks, db.qcs \subseteq db'.qcs, UNCHANGED todo
    PROVE  WriteMade'
<1>1. RoundOf[ledger] \in Nat /\ RoundOf[ledger'] \in Nat
  BY OrderedFacts, BlockFacts DEF TypeOK
<1>2. todo # <<>> => StepOK(todo[1])
  BY DEF Handler
<1>3. SUFFICES ASSUME todo # <<>> PROVE WriteMade'
  BY DEF WriteMade
<1>4. todo[1][1] = "tree_qc" => RoundOf[todo[1][2]] \in Nat
  BY <1>2, <1>3, OrderedFacts, BlockFacts DEF StepOK
<1>5. todo[1][1] \in {"abort_pipeline", "sync", "rebuild", "exit"} =>
        /\ RoundOf[todo[1][2].hcc.block] \in Nat
        /\ RangeSaved(todo[1][2]) => RangeSaved(todo[1][2])'
  BY <1>2, <1>3, BlockStoreAssumption, BlockFacts DEF StepOK, SyncInfo, Cert, RangeSaved
<1>6. QED
  BY <1>1, <1>3, <1>4, <1>5 DEF WriteMade, Arg

\* What holds after a step by the lemmas above.
Given ==
    /\ IInv /\ IInv' /\ StoredInv
    /\ Running' => PrunedIsBehind'
    /\ RoundOf[ledger] <= RoundOf[ledger']

\* The certificates do not go back.
Advance ==
    /\ RoundOf[tree'.highest_certified] >= RoundOf[tree.highest_certified]
    /\ tree'.highest_tc >= tree.highest_tc

\* The database grows, and with it the ledger.
Grows ==
    /\ db.blocks \subseteq db'.blocks /\ db.qcs \subseteq db'.qcs
    /\ db'.tc = tree'.highest_tc /\ tree'.highest_tc >= tree.highest_tc
    /\ tree'.highest_certified = tree.highest_certified
    /\ tree'.window_root = tree.window_root /\ tree'.id_to_block = tree.id_to_block
    /\ ledger' = ledger \/ ledger' \in db'.blocks
    /\ Running' => Running

LEMMA GrowsStep ==
    ASSUME Given, Grows, WriteMade' \/ UNCHANGED todo, RecoverySteps'
    PROVE  StoredInv' /\ Advance
<1>1. /\ TypeOK /\ TypeOK' /\ RootBlockStored /\ HighestStored /\ WriteMade
      /\ Handler(todo, process)
  BY DEF Given, IInv, StoredInv
<1>2. RootBlockStored' /\ HighestStored'
  BY <1>1, StoredGrows DEF Given, Grows
<1>3. Running' => PrunedIsBehind' /\ TreeStored'
  BY <1>1, TreeStoredGrows DEF Given, Grows, StoredInv
<1>4. WriteMade'
  BY <1>1, WriteKept DEF Given, Grows
<1>5. Advance
  <2>1. RoundOf[tree.highest_certified] \in Nat
    BY <1>1, OrderedFacts, BlockFacts DEF TypeOK
  <2>2. QED
    BY <2>1 DEF Grows, Advance
<1>6. QED
  BY <1>2, <1>3, <1>4, <1>5 DEF StoredInv

\* A step of the round manager alone.
LEMMA StandsStep ==
    ASSUME Given, UNCHANGED <<tree, db, ledger>>, WriteMade' \/ UNCHANGED todo, RecoverySteps',
           Running' => Running
    PROVE  StoredInv' /\ Advance
<1>1. TypeOK /\ HighestStored
  BY DEF Given, IInv, StoredInv
<1>2. Grows
  BY <1>1 DEF Grows, TypeOK, HighestStored
<1>3. QED
  BY <1>2, GrowsStep

\* The round manager does not turn into the recovery manager.
LEMMA ProcessOfRunning ==
    ASSUME IInv, [Next]_vars, process # "recovering", process' = "recovering"
    PROVE  RestartToRecover
<1>1. CASE UNCHANGED process
  BY <1>1
<1>2. CASE UNCHANGED vars
  BY <1>2 DEF vars
<1>3. CASE \/ \E b \in Blocks \ {Genesis} : ProcessProposal(b) \/ CommitProof(b)
           \/ \E b \in CertifiedBlocks : NewQC(b)
           \/ \E b \in OrderCertified : NewOrderedCert(b)
           \/ \E si \in SyncInfos : SyncUp(si) \/ RecoverySyncUp(si)
           \/ NewTC
           \/ NeedFetch \/ Fetch \/ GetQCBlock \/ SaveQC \/ TreeQC
           \/ GetBlock \/ SaveBlock
           \/ CommitQC \/ OrderCert \/ OwnOrderCert \/ Send \/ TrySendNext \/ AddTC
           \/ NeedSync \/ Resume \/ SaveRange \/ AbortPipelines \/ SyncToTarget
  BY <1>3, QuiescentSteps DEF Quiescent
<1>4. CASE \/ \E b \in Blocks \ {Genesis} : PreCommit(b) \/ CommitLedger(b)
           \/ TreeBlock
  BY <1>4 DEF PreCommit, CommitLedger, TreeBlock
<1>5. CASE Rebuild \/ ExitRecovered \/ Restart
  BY <1>5 DEF Rebuild, ExitRecovered, Restart, Panic
<1>6. CASE LatePostCommit \/ \E b \in Blocks \ {Genesis} : PostCommit(b)
  <2>1. process' \in {process, "callback", "child", "root"}
    BY <1>6 DEF LatePostCommit, PostCommit, CommitCallback, Panic
  <2>2. QED
    BY <2>1, SMTT(30)
<1>7. QED
  BY <1>2, <1>3, <1>4, <1>5, <1>6 DEF Next, Work, RoundManagerStep, PipelineStep

\* The recovery manager runs its own handler.
LEMMA RecoveryStepsKept ==
    ASSUME IInv, RecoverySteps, [Next]_vars
    PROVE  RecoverySteps'
<1>1. SUFFICES ASSUME process' = "recovering"
               PROVE  \A i \in 1 .. Len(todo') : todo'[i][1] \in {"save_range", "sync", "exit"}
  BY DEF RecoverySteps
<1>2. CASE UNCHANGED <<todo, process>>
  BY <1>1, <1>2 DEF RecoverySteps
<1>3. CASE todo' = <<>>
  BY <1>3
<1>4. CASE RestartToRecover
  BY <1>3, <1>4 DEF RestartToRecover
<1>5. CASE \E si \in SyncInfos : RecoverySyncUp(si)
  <2>1. PICK si \in SyncInfos :
            todo' = <<<<"save_range", si>>, <<"sync", si>>, <<"exit", si>>>>
    BY <1>5 DEF RecoverySyncUp
  <2>2. QED
    BY <2>1
<1>6. ASSUME process = "recovering", Continue, todo # <<>>
      PROVE  \A i \in 1 .. Len(todo') : todo'[i][1] \in {"save_range", "sync", "exit"}
  <2>1. Len(todo) \in Nat /\ Len(todo) >= 1 /\ todo \in Seq(ToSet(todo))
    BY <1>6 DEF IInv, Handler
  <2>2. /\ Len(todo') = Len(todo) - 1
        /\ \A i \in 1 .. Len(todo') : todo'[i] = todo[i + 1]
    BY <1>6, <2>1, SMTT(30) DEF Continue, Skip
  <2>3. \A i \in 1 .. Len(todo') : i + 1 \in 1 .. Len(todo)
    BY <2>1, <2>2
  <2>4. QED
    BY <1>6, <2>2, <2>3 DEF RecoverySteps
<1>7. CASE SaveRange \/ SyncToTarget
  <2>1. process = "recovering" /\ todo # <<>> /\ (Continue \/ Fail)
    BY <1>1, <1>7 DEF SaveRange, SyncToTarget, Doing
  <2>2. QED
    BY <1>3, <1>6, <2>1 DEF Fail
<1>8. CASE ExitRecovered
  BY <1>1, <1>8 DEF ExitRecovered, Panic
<1>9. CASE process # "recovering"
  BY <1>1, <1>4, <1>9, ProcessOfRunning
<1>10. ASSUME process = "recovering", todo # <<>>
      PROVE  todo[1][1] \in {"save_range", "sync", "exit"}
  <2>1. 1 \in 1 .. Len(todo)
    BY <1>10 DEF IInv, Handler
  <2>2. QED
    BY <1>10, <2>1 DEF RecoverySteps
<1>11. CASE \/ \E b \in Blocks \ {Genesis} : ProcessProposal(b) \/ PipelineStep(b)
            \/ \E b \in CertifiedBlocks : NewQC(b)
            \/ \E b \in OrderCertified : NewOrderedCert(b)
            \/ \E si \in SyncInfos : SyncUp(si)
            \/ NewTC \/ LatePostCommit \/ Restart
  <2>1. process # "recovering" \/ process' = "running"
    BY <1>11 DEF Running, ProcessProposal, PipelineStep, PreCommit, CommitProof, CommitLedger,
       PostCommit,
       NewQC, NewOrderedCert, SyncUp, NewTC, LatePostCommit, Restart, Idle
  <2>2. QED
    BY <1>1, <2>1, <1>9
<1>12. CASE \/ NeedFetch \/ Fetch \/ GetQCBlock \/ SaveQC \/ TreeQC
            \/ GetBlock \/ SaveBlock \/ TreeBlock
            \/ CommitQC \/ OrderCert \/ OwnOrderCert \/ Send \/ TrySendNext \/ AddTC
            \/ NeedSync \/ Resume \/ AbortPipelines \/ Rebuild
  <2>1. \E x : Doing(x) /\ x \notin {"save_range", "sync", "exit"}
    BY <1>12 DEF NeedFetch, Fetch, GetQCBlock, SaveQC, TreeQC, GetBlock, SaveBlock, TreeBlock,
       CommitQC, OrderCert, OwnOrderCert, Send, TrySendNext, AddTC, NeedSync, Resume,
       AbortPipelines, Rebuild
  <2>2. process # "recovering"
    BY <1>10, <2>1 DEF Doing
  <2>3. QED
    BY <2>2, <1>9
<1>13. CASE UNCHANGED vars
  BY <1>2, <1>13 DEF vars
<1>14. QED
  BY <1>4, <1>5, <1>7, <1>8, <1>11, <1>12, <1>13 DEF Next, Work, RoundManagerStep

\* The steps of the round manager that only read, and those that write the tree
\* where no certificate is.
LEMMA StoredReads ==
    ASSUME Given, RecoverySteps',
           \/ \E b \in Blocks \ {Genesis} : ProcessProposal(b)
           \/ \E b \in CertifiedBlocks : NewQC(b)
           \/ \E b \in OrderCertified : NewOrderedCert(b)
           \/ \E si \in SyncInfos : SyncUp(si) \/ RecoverySyncUp(si)
           \/ NeedFetch \/ GetBlock
           \/ Fetch \/ GetQCBlock \/ CommitQC \/ OrderCert \/ OwnOrderCert \/ TrySendNext
           \/ NeedSync \/ Resume
    PROVE  StoredInv' /\ Advance
<1>1. IInv
  BY DEF Given
<1>2. UNCHANGED <<tree, db, ledger, process>>
  <2>1. CASE OnlyTodo
    BY <2>1 DEF OnlyTodo, storage
  <2>2. CASE NeedSync \/ Resume
    BY <2>2 DEF NeedSync, Resume, storage
  <2>3. CASE \/ \E b \in Blocks \ {Genesis} : ProcessProposal(b)
             \/ \E b \in CertifiedBlocks : NewQC(b)
             \/ \E b \in OrderCertified : NewOrderedCert(b)
             \/ \E si \in SyncInfos : SyncUp(si) \/ RecoverySyncUp(si)
    BY <2>1, <2>3, Zenon DEF ProcessProposal, NewQC, NewOrderedCert, SyncUp, RecoverySyncUp
  <2>4. CASE \/ NeedFetch \/ GetBlock
             \/ Fetch \/ GetQCBlock \/ CommitQC \/ OrderCert \/ OwnOrderCert \/ TrySendNext
    BY <2>1, <2>4, Zenon DEF NeedFetch, GetBlock, Fetch, GetQCBlock, CommitQC, OrderCert,
       OwnOrderCert, TrySendNext
  <2>5. QED
    BY <2>2, <2>3, <2>4
<1>3. CASE GetBlock
  <2>1. WriteMade'
    <3>1. CASE todo' = <<>>
      BY <3>1 DEF WriteMade
    <3>2. CASE Quiet(todo', process)
      BY <3>2, QuietWriteMade
    <3>3. CASE todo'[1][1] = "save_block"
      BY <3>3 DEF WriteMade
    <3>4. QED
      BY <1>1, <1>3, <3>1, <3>2, <3>3, InsertionSteps
  <2>2. QED
    BY <1>2, <2>1, StandsStep DEF Running
<1>4. CASE \/ \E b \in Blocks \ {Genesis} : ProcessProposal(b)
           \/ \E b \in CertifiedBlocks : NewQC(b)
           \/ \E b \in OrderCertified : NewOrderedCert(b)
           \/ \E si \in SyncInfos : SyncUp(si) \/ RecoverySyncUp(si)
           \/ NeedFetch
           \/ Fetch \/ GetQCBlock \/ CommitQC \/ OrderCert \/ OwnOrderCert \/ TrySendNext
           \/ NeedSync \/ Resume
  <2>1. Quiet(todo', process)
    <3>1. CASE \/ \E b \in Blocks \ {Genesis} : ProcessProposal(b)
               \/ \E b \in CertifiedBlocks : NewQC(b)
               \/ \E b \in OrderCertified : NewOrderedCert(b)
               \/ \E si \in SyncInfos : SyncUp(si) \/ RecoverySyncUp(si)
      BY <1>1, <3>1, HandlerStarts
    <3>2. CASE \/ NeedFetch
               \/ Fetch \/ GetQCBlock \/ CommitQC \/ OrderCert \/ OwnOrderCert \/ TrySendNext
               \/ NeedSync \/ Resume
      BY <1>1, <3>2, NeedFetchStep, ReadSteps, SyncSteps
    <3>3. QED
      BY <1>4, <3>1, <3>2
  <2>2. QED
    BY <1>2, <2>1, QuietWriteMade, StandsStep DEF Running
<1>5. QED
  BY <1>3, <1>4

LEMMA StoredPanic ==
    ASSUME Given, RecoverySteps', NEW reason, reason # "running", Panic(reason)
    PROVE  StoredInv' /\ Advance
BY StandsStep DEF Panic, storage, Running

LEMMA StoredSend ==
    ASSUME Given, RecoverySteps', Send
    PROVE  StoredInv' /\ Advance
<1>1. IInv
  BY DEF Given
<1>2. WriteMade' \/ UNCHANGED todo
  BY <1>1, SendStep, QuietWriteMade
<1>3. CASE OnlyTodo
  BY <1>2, <1>3, StandsStep DEF OnlyTodo, storage, Running
<1>4. CASE SendForExecution(Arg)
  <2>1. CASE Panic("path")
    BY <2>1, StoredPanic
  <2>2. CASE /\ tree' = [tree EXCEPT
                    !.ordered_root = Arg.block,
                    !.highest_ordered_cert =
                        IF RoundOf[Arg.block] > RoundOf[@.block] THEN Arg ELSE @]
             /\ UNCHANGED <<db, ledger, process>>
    <3>1. /\ tree'.highest_certified = tree.highest_certified
          /\ tree'.highest_tc = tree.highest_tc
          /\ tree'.window_root = tree.window_root /\ tree'.id_to_block = tree.id_to_block
          /\ tree.highest_tc \in Nat
      BY <1>1, <2>2 DEF IInv, TypeOK
    <3>2. Grows
      BY <2>2, <3>1 DEF Grows, Given, StoredInv, HighestStored, Running
    <3>3. QED
      BY <1>2, <3>2, GrowsStep
  <2>3. QED
    BY <1>4, <2>1, <2>2 DEF SendForExecution, storage
<1>5. QED
  BY <1>3, <1>4 DEF Send

\* insert_2chain_timeout_certificate writes the database and the tree.
LEMMA StoredTimeoutCert ==
    ASSUME Given, RecoverySteps', AddTC \/ NewTC
    PROVE  StoredInv' /\ Advance
<1>1. IInv
  BY DEF Given
<1>2. WriteMade'
  BY <1>1, TimeoutCertSteps, QuietWriteMade
<1>0. CASE OnlyTodo
  BY <1>0, <1>2, StandsStep DEF OnlyTodo, storage, Running
<1> SUFFICES ASSUME \E round : insert_2chain_timeout_certificate(round)
             PROVE  StoredInv' /\ Advance
  BY <1>0 DEF AddTC, NewTC
<1>3. PICK round : insert_2chain_timeout_certificate(round)
  OBVIOUS
<1>4. CASE UNCHANGED <<tree, db>>
  BY <1>2, <1>3, <1>4, StandsStep DEF insert_2chain_timeout_certificate, Running
<1>5. CASE /\ round > tree.highest_tc
           /\ tree' = [tree EXCEPT !.highest_tc = round]
           /\ db' = [db EXCEPT !.tc = round]
  <2>1. /\ tree'.highest_certified = tree.highest_certified
        /\ tree'.highest_tc = round /\ db'.tc = round
        /\ db'.blocks = db.blocks /\ db'.qcs = db.qcs
        /\ tree'.window_root = tree.window_root /\ tree'.id_to_block = tree.id_to_block
        /\ tree.highest_tc \in Nat /\ tree'.highest_tc \in Nat
    BY <1>1, <1>5 DEF Given, IInv, TypeOK
  <2>2. UNCHANGED <<ledger, process>>
    BY <1>3 DEF insert_2chain_timeout_certificate
  <2>3. Grows
    BY <1>5, <2>1, <2>2 DEF Grows, Running
  <2>4. QED
    BY <1>2, <2>3, GrowsStep
<1>6. QED
  BY <1>3, <1>4, <1>5 DEF insert_2chain_timeout_certificate

\* The writes of the database, and the step that comes next.
LEMMA StoredSaves ==
    ASSUME Given, RecoverySteps', SaveQC \/ SaveBlock \/ SaveRange
    PROVE  StoredInv' /\ Advance
<1>1. /\ IInv /\ IInv' /\ TypeOK /\ TypeOK' /\ Handler(todo, process) /\ todo # <<>>
      /\ UNCHANGED <<tree, ledger, process>>
  BY DEF Given, IInv, SaveQC, SaveBlock, SaveRange, Doing
<1>2. Grows
  <2>1. db.blocks \subseteq db'.blocks /\ db.qcs \subseteq db'.qcs /\ db'.tc = db.tc
    <3>1. db \in [blocks : SUBSET Blocks, qcs : SUBSET Certified, tc : Nat]
      BY <1>1 DEF TypeOK
    <3>2. CASE SaveQC
      BY <3>1, <3>2 DEF SaveQC
    <3>3. CASE SaveBlock
      BY <3>1, <3>3 DEF SaveBlock
    <3>4. CASE SaveRange
      BY <3>1, <3>4 DEF SaveRange
    <3>5. QED
      BY <3>2, <3>3, <3>4
  <2>2. db.tc = tree.highest_tc /\ tree.highest_tc \in Nat
    BY <1>1 DEF TypeOK, Given, StoredInv, HighestStored
  <2>3. QED
    BY <1>1, <2>1, <2>2 DEF Grows, Running
<1>3. WriteMade'
  <2>1. CASE Fail
    BY <2>1 DEF Fail, WriteMade
  <2>2. CASE Continue
    <3>1. SUFFICES ASSUME todo' # <<>> PROVE WriteMade'
      BY DEF WriteMade
    <3>2. Follows(todo[1], todo'[1], process) /\ StepOK(todo[1])
      BY <1>1, <2>2, <3>1, NextStep
    <3>3. CASE SaveQC /\ ~Fail
      <4>1. todo[1][1] = "save_qc" /\ todo[1][2] \in db'.qcs
        BY <1>1, <3>3 DEF SaveQC, Doing, TypeOK, Arg
      <4>2. QED
        BY <3>1, <3>2, <4>1 DEF Follows, WriteMade, Arg
    <3>4. CASE SaveBlock /\ ~Fail
      <4>1. todo[1][1] = "save_block" /\ todo[1][2] \in db'.blocks
        BY <1>1, <3>4 DEF SaveBlock, Doing, TypeOK, Arg
      <4>2. QED
        BY <3>1, <3>2, <4>1 DEF Follows, WriteMade, Arg
    <3>5. CASE SaveRange
      <4>1. PICK si : si = todo[1][2]
        OBVIOUS
      <4>2. todo[1][1] = "save_range" /\ si \in SyncInfos
        BY <3>2, <3>5, <4>1 DEF SaveRange, Doing, StepOK
      <4>3. CASE db' = [db EXCEPT !.blocks = @ \cup SyncRange(si), !.qcs = @ \cup SyncRange(si)]
        <5>1. si.hqc \in Certified /\ si.hcc.block \in Decided
          BY <4>2, BlockStoreAssumption, NetworkAssumption DEF SyncInfo, Certified, Decided
        <5>2. RoundOf[si.hcc.block] <= RoundOf[si.hqc]
          <6>1. /\ RoundOf[si.hqc] >= RoundOf[si.hoc.block]
                /\ RoundOf[si.hoc.block] >= RoundOf[si.hcc.block]
            BY <4>2, NetworkAssumption
          <6>2. si.hoc.block \in Blocks
            BY <4>2, BlockStoreAssumption DEF SyncInfo, Cert
          <6>3. /\ RoundOf[si.hqc] \in Nat /\ RoundOf[si.hcc.block] \in Nat
                /\ RoundOf[si.hoc.block] \in Nat
            BY <5>1, <6>2, OrderedFacts, BlockFacts
          <6>4. QED
            BY <6>1, <6>3
        <5>3. si.hcc.block \in Ancestors[si.hqc] /\ RoundOf[si.hcc.block] \in Nat
          BY <5>1, <5>2, CertifiedExtendsDecided, OrderedFacts, BlockFacts
        <5>4. si.hcc.block \in SyncRange(si)
          BY <5>3, SMTT(30) DEF SyncRange
        <5>5. RangeSaved(si)'
          BY <1>1, <4>3, <5>4 DEF TypeOK, RangeSaved, SyncRange
        <5>6. QED
          BY <3>1, <3>2, <4>1, <4>2, <5>5 DEF Follows, WriteMade, Arg
      <4>4. CASE Fail
        BY <2>1, <4>4
      <4>5. QED
        BY <3>5, <4>1, <4>3, <4>4 DEF SaveRange, Arg
    <3>6. QED
      BY <2>1, <3>3, <3>4, <3>5
  <2>3. QED
    BY <2>1, <2>2 DEF SaveQC, SaveBlock, SaveRange
<1>4. QED
  BY <1>2, <1>3, GrowsStep

LEMMA StoredAbort ==
    ASSUME Given, RecoverySteps', AbortPipelines
    PROVE  StoredInv' /\ Advance
<1>1. /\ Handler(todo, process) /\ todo # <<>> /\ todo[1][1] = "abort_pipeline" /\ Continue
      /\ WriteMade /\ UNCHANGED <<tree, db, ledger, process>>
  BY DEF Given, IInv, StoredInv, AbortPipelines, Doing, storage
<1>2. WriteMade'
  <2>1. SUFFICES ASSUME todo' # <<>> PROVE WriteMade'
    BY DEF WriteMade
  <2>2. Follows(todo[1], todo'[1], process)
    BY <1>1, <2>1, NextStep
  <2>3. PICK si : si = todo[1][2]
    OBVIOUS
  <2>4. RangeSaved(si)' \/ RoundOf[si.hcc.block] < RoundOf[ledger']
    BY <1>1, <2>3 DEF WriteMade, RangeSaved, Arg
  <2>5. todo'[1][1] \notin {"tree_block", "tree_qc", "abort_pipeline", "rebuild", "exit"}
    BY <1>1, <2>2 DEF Follows
  <2>6. todo'[1][1] = "sync" => todo'[1][2] = si
    BY <2>2, <2>3 DEF Follows
  <2>7. QED
    BY <2>4, <2>5, <2>6 DEF WriteMade, Arg
<1>3. QED
  BY <1>1, <1>2, StandsStep DEF Running

\* The state sync goes to a block that was saved before.
LEMMA StoredSync ==
    ASSUME Given, RecoverySteps', SyncToTarget
    PROVE  StoredInv' /\ Advance
<1>1. /\ IInv /\ TypeOK /\ Handler(todo, process) /\ todo # <<>> /\ todo[1][1] = "sync"
      /\ WriteMade /\ UNCHANGED <<tree, db, process>>
  BY DEF Given, IInv, StoredInv, SyncToTarget, Doing
<1>2. PICK si : si = todo[1][2]
  OBVIOUS
<1>3. RangeSaved(si) \/ RoundOf[si.hcc.block] < RoundOf[ledger]
  BY <1>1, <1>2 DEF WriteMade, Arg
<1>4. ledger' = ledger \/ (ledger' = si.hcc.block /\ RangeSaved(si))
  <2>1. CASE UNCHANGED ledger
    BY <2>1
  <2>2. CASE ledger' = Arg.hcc.block /\ ~ (RoundOf[Arg.hcc.block] < RoundOf[ledger])
    BY <1>2, <1>3, <2>2 DEF Arg
  <2>3. QED
    BY <2>1, <2>2 DEF SyncToTarget
<1>5. WriteMade'
  <2>1. CASE todo' = <<>>
    BY <2>1 DEF WriteMade
  <2>2. CASE todo' # <<>> /\ Continue
    <3>1. Follows(todo[1], todo'[1], process)
      BY <1>1, <2>2, NextStep
    <3>2. RangeSaved(si)' <=> RangeSaved(si)
      BY <1>1 DEF RangeSaved
    <3>3. RangeSaved(si)' \/ RoundOf[si.hcc.block] < RoundOf[ledger']
      BY <1>3, <1>4, <3>2
    <3>4. todo'[1][1] \notin {"tree_block", "tree_qc", "abort_pipeline", "sync"}
      BY <1>1, <3>1 DEF Follows
    <3>5. todo'[1][1] \in {"rebuild", "exit"} => todo'[1][2] = si
      BY <1>2, <3>1 DEF Follows
    <3>6. QED
      BY <3>3, <3>4, <3>5 DEF WriteMade, Arg
  <2>3. QED
    BY <2>1, <2>2 DEF SyncToTarget, Fail
<1>6. db.tc = tree.highest_tc /\ tree.highest_tc \in Nat
  BY <1>1 DEF TypeOK, Given, StoredInv, HighestStored
<1>7. Grows
  BY <1>1, <1>4, <1>6 DEF Grows, Running, RangeSaved
<1>8. QED
  BY <1>5, <1>7, GrowsStep

\* A block whose commit comes is above the window root, and so in the database.
LEMMA StoredPipelines ==
    ASSUME Given, RecoverySteps', NEW b \in Blocks \ {Genesis},
           PreCommit(b) \/ CommitProof(b) \/ CommitLedger(b)
    PROVE  StoredInv' /\ Advance
<1>1. CASE PreCommit(b) \/ CommitProof(b)
  BY <1>1, StandsStep DEF PreCommit, CommitProof, storage, Running
<1>2. CASE CommitLedger(b)
  <2>1. /\ IInv /\ TypeOK /\ Running /\ UNCHANGED <<tree, db, todo, process>>
        /\ stage[b] = "pre_committed" /\ ledger' = IF commit_proof[b] = b THEN b ELSE ledger
    BY <1>2 DEF Given, IInv, CommitLedger
  <2>2. b \in tree.id_to_block /\ b \in Chain /\ tree.window_root \in Chain
        /\ tree.window_root \in Blocks
    BY <2>1 DEF IInv, ProofsOnChain, RootsInTree, TypeOK
  <2>3. PrunedIsBehind /\ TreeStored
    BY <2>1 DEF Given, StoredInv
  <2>4. b \notin Ancestors[tree.window_root]
    BY <2>1, <2>2, <2>3 DEF PrunedIsBehind
  <2>5. tree.window_root \in Ancestors[b]
    BY <2>2, <2>4, ChainIsBranch, ChainIsClosed
  <2>6. b \in db.blocks
    BY <2>2, <2>3, <2>5 DEF TreeStored
  <2>7. db.tc = tree.highest_tc /\ tree.highest_tc \in Nat
    BY <2>1 DEF TypeOK, Given, StoredInv, HighestStored
  <2>8. Grows
    BY <2>1, <2>6, <2>7 DEF Grows, Running
  <2>9. QED
    BY <2>1, <2>8, GrowsStep
<1>3. QED
  BY <1>1, <1>2

\* The round manager alone writes the tree.
LEMMA TreeStepRuns ==
    ASSUME Given, TreeBlock \/ TreeQC
    PROVE  Running
<1>1. /\ todo # <<>> /\ todo[1][1] \in {"tree_block", "tree_qc"}
      /\ process \in {"running", "recovering"} /\ Handler(todo, process) /\ RecoverySteps
  BY DEF Given, IInv, StoredInv, TreeBlock, TreeQC, Doing
<1>2. 1 \in 1 .. Len(todo)
  BY <1>1 DEF Handler
<1>3. QED
  BY <1>1, <1>2 DEF RecoverySteps, Running

\* A block is in the database before it is in the tree.
LEMMA StoredTreeBlock ==
    ASSUME Given, RecoverySteps', TreeBlock
    PROVE  StoredInv' /\ Advance
<1>1. /\ IInv /\ TypeOK /\ TypeOK' /\ Running /\ todo # <<>> /\ todo[1][1] = "tree_block"
      /\ UNCHANGED <<db, ledger, process>> /\ RootBlockStored /\ HighestStored /\ WriteMade
      /\ TreeStored
  BY TreeStepRuns DEF Given, IInv, StoredInv, TreeBlock, Doing, storage
<1>2. WriteMade'
  BY <1>1, TreeBlockStep, QuietWriteMade
<1>3. CASE UNCHANGED tree
  BY <1>1, <1>2, <1>3, StandsStep DEF Running
<1>4. CASE tree' = insert_block(Arg)
  <2>1. PICK new : new = Arg
    OBVIOUS
  <2>2. new \in db.blocks
    BY <1>1, <2>1 DEF WriteMade
  <2>3. /\ tree'.id_to_block = tree.id_to_block \cup {new}
        /\ tree'.window_root = tree.window_root
        /\ tree'.highest_certified = tree.highest_certified
        /\ tree'.highest_tc = tree.highest_tc
        /\ tree.highest_tc \in Nat
        /\ RoundOf[tree.highest_certified] \in Nat /\ RoundOf[ledger] \in Nat
    BY <1>1, <1>4, <2>1, OrderedFacts, BlockFacts DEF TypeOK, insert_block
  <2>4. RootBlockStored' /\ HighestStored'
    BY <1>1, <2>3, StoredGrows DEF HighestStored
  <2>5. TreeStored'
    BY <1>1, <2>2, <2>3 DEF TreeStored
  <2>6. Advance
    BY <2>3 DEF Advance
  <2>7. QED
    BY <1>2, <2>4, <2>5, <2>6 DEF StoredInv, Given
<1>5. QED
  BY <1>3, <1>4 DEF TreeBlock

\* A QC that becomes the highest is in the database, with the way to its block.
LEMMA StoredTreeQC ==
    ASSUME Given, RecoverySteps', TreeQC
    PROVE  StoredInv' /\ Advance
<1>1. /\ IInv /\ TypeOK /\ TypeOK' /\ Running /\ todo # <<>> /\ todo[1][1] = "tree_qc"
      /\ Handler(todo, process)
      /\ UNCHANGED <<db, ledger, process>> /\ RootBlockStored /\ HighestStored /\ WriteMade
      /\ TreeStored /\ TreeLinked /\ RootsInTree
  BY TreeStepRuns DEF Given, IInv, StoredInv, TreeQC, Doing, storage
<1>2. WriteMade'
  BY <1>1, TreeQCStep, QuietWriteMade
<1>3. CASE UNCHANGED tree
  BY <1>1, <1>2, <1>3, StandsStep DEF Running
<1>4. CASE Arg \in tree.id_to_block /\ tree' = insert_quorum_cert(Arg)
  <2>1. PICK b : b = Arg
    OBVIOUS
  <2>2. b \in Certified /\ b \in tree.id_to_block /\ b \in Blocks
    BY <1>1, <1>4, <2>1, GoesOn, OrderedFacts DEF StepOK, Arg
  <2>3. /\ tree'.id_to_block = tree.id_to_block
        /\ tree'.window_root = tree.window_root
        /\ tree'.highest_tc = tree.highest_tc
        /\ tree'.highest_certified = IF RoundOf[b] > RoundOf[tree.highest_certified] THEN b
                                     ELSE tree.highest_certified
    BY <1>1, <1>4, <2>1 DEF TypeOK, insert_quorum_cert
  <2>4. /\ tree.highest_tc \in Nat /\ RoundOf[b] \in Nat
        /\ RoundOf[tree.highest_certified] \in Nat /\ RoundOf[ledger] \in Nat
    BY <1>1, <2>2, OrderedFacts, BlockFacts DEF TypeOK
  <2>5. TreeStored' /\ RootBlockStored'
    BY <1>1, <2>3 DEF TreeStored, RootBlockStored, StoredBlocks
  <2>6. ASSUME RoundOf[b] > RoundOf[ledger]
        PROVE  b \in db.qcs /\ \A c \in Ancestors[b] :
                                  RoundOf[c] > RoundOf[ledger] => c \in db.blocks
    <3>1. b \in db.qcs
      BY <1>1, <2>1, <2>4, <2>6 DEF WriteMade
    <3>2. ASSUME NEW c \in Ancestors[b], RoundOf[c] > RoundOf[ledger]
          PROVE  c \in db.blocks
      <4>1. ledger \in Ancestors[c] /\ c \in Blocks \ {Genesis}
        BY <1>1, <2>2, <3>2, PathExtendsLedger
      <4>2. tree.window_root \in Ancestors[ledger]
        <5>1. tree.window_root \in Chain /\ ledger \in Chain
          BY <1>1, OrderedFacts DEF RootsInTree, TypeOK
        <5>2. QED
          BY <1>1, <5>1, ChainIsBranch DEF TreeStored
      <4>3. tree.window_root \in Ancestors[c] \cap tree.id_to_block
        BY <1>1, <4>1, <4>2, AncestorFacts DEF RootsInTree
      <4>4. c \in tree.id_to_block
        BY <1>1, <2>2, <4>3 DEF TreeLinked
      <4>5. QED
        BY <1>1, <4>1, <4>3, <4>4 DEF TreeStored
    <3>3. QED
      BY <3>1, <3>2
  <2>7. HighestStored'
    <3>1. CASE tree'.highest_certified = b
      BY <1>1, <2>3, <2>6, <3>1 DEF HighestStored
    <3>2. CASE tree'.highest_certified = tree.highest_certified
      BY <1>1, <2>3, <3>2 DEF HighestStored
    <3>3. QED
      BY <2>3, <3>1, <3>2
  <2>8. Advance
    BY <2>3, <2>4 DEF Advance
  <2>9. QED
    BY <1>2, <2>5, <2>7, <2>8 DEF StoredInv, Given
<1>5. QED
  BY <1>3, <1>4 DEF TreeQC

\* The QC that commits a block certifies a descendant of it.
LEMMA CommittedByCert ==
    ASSUME NEW si \in SyncInfos, ~ order_vote_enabled, si.hcc.block \in Blocks,
           NEW b \in Ancestors[si.hcc.block]
    PROVE  b \in Ancestors[si.hcc.certified]
<1>1. PICK c : c = si.hcc.certified
  OBVIOUS
<1>2. c \in Certified /\ commit_info[c] = si.hcc.block
  BY <1>1, NetworkAssumption DEF Certified
<1>3. c \in Blocks
  BY <1>2, OrderedFacts
<1>4. \/ c = Genesis /\ si.hcc.block = Genesis
      \/ c # Genesis /\ si.hcc.block = Parent[c]
  <2>1. PICK d : d = si.hcc.block
    OBVIOUS
  <2>2. commit_info[c] = d /\ d # None
    BY <1>2, <2>1, BlockFacts
  <2>3. (c = Genesis /\ d = Genesis) \/ (c # Genesis /\ d = Parent[c])
    BY <1>3, <2>2, BlockFacts DEF commit_info
  <2>4. QED
    BY <2>1, <2>3
<1>5. QED
  BY <1>1, <1>3, <1>4, AncestorsStep

\* commit_callback deletes nothing that extends the block it is called for, and
\* the ledger and everything certified above it do.
LEMMA StoredPruned ==
    ASSUME Given, RecoverySteps', Running, NEW b \in Chain, RoundOf[b] <= RoundOf[ledger],
           tree.window_root \in Ancestors[b],
           NEW gone \in SUBSET tree.id_to_block, \A x \in gone : b \notin Ancestors[x],
           db.blocks \ gone \subseteq db'.blocks, db.qcs \ gone \subseteq db'.qcs,
           db'.tc = db.tc, tree'.id_to_block \subseteq tree.id_to_block,
           tree'.window_root = b, tree'.highest_certified = tree.highest_certified,
           tree'.highest_tc = tree.highest_tc, UNCHANGED <<ledger, todo, process>>
    PROVE  StoredInv' /\ Advance
<1>1. /\ IInv /\ TypeOK /\ TypeOK' /\ Handler(todo, process) /\ InsertsNewBlock
      /\ RootBlockStored /\ HighestStored /\ WriteMade /\ TreeStored
  BY DEF Given, IInv, StoredInv
<1>2. /\ ledger \in Chain /\ ledger \in Blocks /\ RoundOf[ledger] \in Nat
      /\ b \in Blocks /\ RoundOf[b] \in Nat
  BY <1>1, Rounds, ChainIsClosed
<1>3. b \in Ancestors[ledger]
  BY <1>2, ChainIsBranch
<1>4. RootBlockStored'
  BY <1>1, <1>3 DEF RootBlockStored, StoredBlocks
<1>5. ASSUME NEW h \in Certified, NEW c \in Ancestors[h], RoundOf[c] > RoundOf[ledger]
      PROVE  c \notin gone
  <2>1. ledger \in Ancestors[c] /\ c \in Blocks
    BY <1>1, <1>5, PathExtendsLedger
  <2>2. b \in Ancestors[c]
    BY <1>3, <2>1, AncestorFacts
  <2>3. QED
    BY <2>2
<1>6. HighestStored'
  <2>1. tree.highest_certified \in Certified
    BY <1>1 DEF TypeOK
  <2>2. tree.highest_certified \in Ancestors[tree.highest_certified]
    BY <2>1, OrderedFacts, AncestorsStep
  <2>3. QED
    BY <1>1, <1>5, <2>1, <2>2 DEF HighestStored
<1>7. WriteMade'
  <2>1. SUFFICES ASSUME todo # <<>> PROVE WriteMade'
    BY DEF WriteMade
  <2>2. StepOK(todo[1])
    BY <1>1, <2>1 DEF Handler
  <2>3. CASE todo[1][1] = "tree_block"
    <3>1. todo[1][2] \in db.blocks /\ todo[1][2] \notin tree.id_to_block
      BY <1>1, <2>1, <2>3 DEF WriteMade, InsertsNewBlock, Arg
    <3>2. QED
      BY <2>3, <3>1 DEF WriteMade, Arg
  <2>4. CASE todo[1][1] = "tree_qc"
    <3>1. PICK c : c = todo[1][2]
      OBVIOUS
    <3>2. c \in Certified /\ c \in Blocks /\ c \in Ancestors[c] /\ RoundOf[c] \in Nat
      BY <2>2, <2>4, <3>1, OrderedFacts, AncestorsStep, BlockFacts DEF StepOK
    <3>3. c \in db.qcs \/ RoundOf[c] <= RoundOf[ledger]
      BY <1>1, <2>1, <2>4, <3>1 DEF WriteMade, Arg
    <3>4. c \in db'.qcs \/ RoundOf[c] <= RoundOf[ledger]
      BY <1>2, <1>5, <3>2, <3>3
    <3>5. QED
      BY <2>4, <3>1, <3>4 DEF WriteMade, Arg
  <2>5. CASE todo[1][1] \in {"abort_pipeline", "sync", "rebuild", "exit"}
    <3>1. PICK si : si = todo[1][2]
      OBVIOUS
    <3>2. si \in SyncInfos
      BY <2>2, <2>5, <3>1 DEF StepOK
    <3>3. RangeSaved(si) \/ RoundOf[si.hcc.block] < RoundOf[ledger]
      BY <1>1, <2>1, <2>5, <3>1 DEF WriteMade, Arg
    <3>4. ASSUME RangeSaved(si), ~ (RoundOf[si.hcc.block] < RoundOf[ledger])
          PROVE  RangeSaved(si)'
      <4>1. /\ si.hcc.block \in Chain /\ si.hcc.block \in Blocks
            /\ RoundOf[si.hcc.block] \in Nat
        <5>1. si.hcc.block \in Decided
          BY <3>2, NetworkAssumption DEF Decided
        <5>2. QED
          BY <5>1, OrderedFacts, ChainIsClosed
      <4>2. b \in Ancestors[si.hcc.block]
        BY <1>2, <3>4, <4>1, ChainIsBranch
      <4>3. ~ order_vote_enabled => b \in Ancestors[si.hcc.certified]
        BY <3>2, <4>1, <4>2, CommittedByCert
      <4>4. QED
        BY <3>4, <4>2, <4>3 DEF RangeSaved
    <3>5. RangeSaved(si)' \/ RoundOf[si.hcc.block] < RoundOf[ledger]
      BY <3>3, <3>4
    <3>6. QED
      BY <2>5, <3>1, <3>5 DEF WriteMade, Arg
  <2>6. QED
    BY <2>3, <2>4, <2>5 DEF WriteMade
<1>8. TreeStored'
  <2>1. ASSUME NEW c \in tree'.id_to_block \ {Genesis}, b \in Ancestors[c]
        PROVE  c \in db'.blocks
    <3>1. c \in Blocks /\ c \in tree.id_to_block
      BY <1>1, <2>1 DEF TypeOK
    <3>2. tree.window_root \in Ancestors[c]
      BY <2>1, <3>1, AncestorFacts
    <3>3. c \in db.blocks
      BY <1>1, <2>1, <3>1, <3>2 DEF TreeStored
    <3>4. QED
      BY <2>1, <3>3
  <2>2. QED
    BY <2>1 DEF TreeStored
<1>9. Advance
  <2>1. RoundOf[tree.highest_certified] \in Nat /\ tree.highest_tc \in Nat
    BY <1>1, OrderedFacts, BlockFacts DEF TypeOK
  <2>2. QED
    BY <2>1 DEF Advance
<1>10. QED
  BY <1>4, <1>6, <1>7, <1>8, <1>9 DEF StoredInv, Given

\* commit_callback, for a block of the tree or for the window root.
LEMMA StoredCallback ==
    ASSUME Given, RecoverySteps', Running, NEW b \in tree.id_to_block \cap Chain, NEW stages,
           RoundOf[b] <= RoundOf[ledger], stage[b] = "committed" \/ b = tree.window_root,
           CommitCallback(b, stages), UNCHANGED <<ledger, todo>>
    PROVE  StoredInv' /\ Advance
<1>1. IInv /\ TypeOK /\ TreeInv /\ PrunedIsBehind /\ b \in Blocks
  BY ChainIsClosed DEF Given, StoredInv, IInv, TreeInv
<1>2. CASE Panic("callback")
  BY <1>2, StoredPanic
<1>3. CASE \E ids \in find_blocks_to_prune(b) : CallbackDone(b, stages, ids)
  <2>1. PICK ids \in find_blocks_to_prune(b) : CallbackDone(b, stages, ids)
    BY <1>3
  <2>2. PICK gone : gone = ToSet(ids)
    OBVIOUS
  <2>3. /\ tree.window_root \in Chain /\ tree.window_root \in Blocks
        /\ b # tree.window_root => b \notin Ancestors[tree.window_root]
    BY <1>1 DEF TreeInv, RootsInTree, TypeOK, PrunedIsBehind
  <2>4. tree.window_root \in Ancestors[b]
    BY <2>3, ChainIsBranch, ChainIsClosed, AncestorsStep
  <2>5. gone \in SUBSET tree.id_to_block /\ \A x \in gone : b \notin Ancestors[x]
    <3>1. gone = IF b = tree.window_root THEN {} ELSE BlocksBelow(b)
      BY <1>1, <2>1, <2>2, PruneList, Zenon
    <3>2. QED
      BY <2>3, <3>1 DEF BlocksBelow
  <2>6. /\ db.blocks \ gone \subseteq db'.blocks /\ db.qcs \ gone \subseteq db'.qcs
        /\ db'.tc = db.tc
    <3>1. db' = [db EXCEPT !.blocks = @ \ gone, !.qcs = @ \ gone] \/ UNCHANGED db
      BY <2>1, <2>2, Zenon DEF CallbackDone
    <3>2. db \in [blocks : SUBSET Blocks, qcs : SUBSET Certified, tc : Nat]
      BY <1>1 DEF TypeOK
    <3>3. QED
      BY <3>1, <3>2
  <2>7. /\ tree'.id_to_block \subseteq tree.id_to_block /\ tree'.window_root = b
        /\ tree'.highest_certified = tree.highest_certified
        /\ tree'.highest_tc = tree.highest_tc
    <3>1. PICK kept, ch, q, p, hcc, cr :
              /\ tree' = [tree EXCEPT !.id_to_block = kept, !.children = ch, !.qcs = q,
                                      !.pruned = p, !.window_root = b,
                                      !.highest_commit_cert = hcc, !.commit_root = cr]
              /\ kept \subseteq tree.id_to_block
      <4>1. PICK removed, ch, q, p, hcc, cr :
              tree' = [tree EXCEPT !.id_to_block = tree.id_to_block \ removed, !.children = ch,
                                   !.qcs = q, !.pruned = p, !.window_root = b,
                                   !.highest_commit_cert = hcc, !.commit_root = cr]
        BY <2>1, ZenonT(40) DEF CallbackDone
      <4>2. tree.id_to_block \ removed \subseteq tree.id_to_block
        OBVIOUS
      <4>3. QED
        BY <4>1, <4>2, Zenon
    <3>2. tree \in [id_to_block : SUBSET Blocks, children : [tree.id_to_block -> SUBSET Blocks],
               qcs : SUBSET Certified,
               ordered_root : Chain, commit_root : Blocks, window_root : Blocks,
               highest_certified : Certified, highest_ordered_cert : OrderingCert,
               highest_commit_cert : Blocks, highest_tc : Nat, pruned : Seq(Blocks)]
      BY <1>1 DEF TypeOK
    <3>3. QED
      BY <3>1, <3>2
  <2>8. UNCHANGED process
    BY <2>1, Zenon DEF CallbackDone
  <2>9. QED
    BY <1>1, <2>4, <2>5, <2>6, <2>7, <2>8, StoredPruned
<1>4. CASE \E ids \in find_blocks_to_prune(b) : CallbackFails(b, ids)
  BY <1>1, <1>4, CallbackBehind
<1>5. QED
  BY <1>1, <1>2, <1>3, <1>4, CallbackCases, Zenon

LEMMA StoredPostCommit ==
    ASSUME Given, RecoverySteps', NEW b \in Blocks \ {Genesis}, PostCommit(b)
    PROVE  StoredInv' /\ Advance
<1>1. IInv /\ Running /\ stage[b] = "committed"
  BY DEF Given, PostCommit
<1>2. b \in Chain /\ b \in tree.id_to_block
  BY <1>1 DEF IInv, ProofsOnChain
<1>3. CASE commit_proof[b] # b
  BY <1>3, StandsStep DEF PostCommit, storage, Running
<1>4. CASE commit_proof[b] = b
  <2>1. UNCHANGED <<ledger, todo>>
    BY <1>4 DEF PostCommit
  <2>2. PICK stages : CommitCallback(b, stages)
    BY <1>4, Zenon DEF PostCommit
  <2>3. RoundOf[b] <= RoundOf[ledger]
    BY <1>1, <1>4 DEF IInv, ProofsOnChain
  <2>4. QED
    BY <1>1, <1>2, <2>1, <2>2, <2>3, StoredCallback
<1>5. QED
  BY <1>3, <1>4

\* A callback that outlives the tree of its block deletes nothing.
LEMMA StoredLatePostCommit ==
    ASSUME Given, RecoverySteps', LatePostCommit
    PROVE  StoredInv' /\ Advance
<1>1. IInv /\ TypeOK /\ Running /\ UNCHANGED <<ledger, todo>>
  BY DEF Given, IInv, LatePostCommit
<1>2. PICK b \in late : CommitCallback(b, stage)
  BY <1>1, LateBlock
<1>3. b \in Chain /\ b \in Blocks /\ RoundOf[b] <= RoundOf[ledger]
  BY <1>1 DEF IInv, TypeOK, ProofsOnChain
<1>4. CASE Panic("callback")
  BY <1>4, StoredPanic
<1>5. CASE b \in tree.id_to_block /\ FindsWindowRoot(b)
  <2>1. b = tree.window_root
    BY <1>1, <1>5, LateIsWindowRoot
  <2>2. QED
    BY <1>1, <1>2, <1>3, <1>5, <2>1, StoredCallback
<1>6. QED
  BY <1>1, <1>2, <1>3, <1>4, <1>5, CallbackCases, Zenon

\* A certified block and the way to it are recovered if both are stored.
LEMMA RecoveredPath ==
    ASSUME TypeOK, NEW h \in Certified, RoundOf[h] > RoundOf[ledger], h \in db.qcs,
           \A c \in Ancestors[h] : RoundOf[c] > RoundOf[ledger] => c \in db.blocks
    PROVE  /\ h \in RecoveredQCs /\ h \in RecoveredDB.qcs
           /\ \A c \in Ancestors[h] : RoundOf[c] > RoundOf[ledger] => c \in RecoveredDB.blocks
<1>1. /\ h \in Blocks /\ h \in Ancestors[h] /\ ledger \in Blocks
      /\ db \in [blocks : SUBSET Blocks, qcs : SUBSET Certified, tc : Nat]
  BY OrderedFacts, AncestorsStep, Rounds DEF TypeOK
<1>2. ASSUME NEW c \in Ancestors[h], RoundOf[c] > RoundOf[ledger]
      PROVE  c \in Connected /\ c # Genesis
  <2>1. ledger \in Ancestors[c] /\ c \in Blocks \ {Genesis} /\ c \in db.blocks
    BY <1>2, PathExtendsLedger
  <2>2. c # ledger
    BY <1>1, <1>2, BlockFacts
  <2>3. Ancestors[c] \subseteq Ancestors[h]
    BY <1>1, AncestorFacts
  <2>4. {d \in Ancestors[c] : RoundOf[d] > RoundOf[ledger]} \subseteq db.blocks
    BY <2>3
  <2>5. QED
    BY <2>1, <2>2, <2>4 DEF Connected
<1>3. h \in Connected /\ h # Genesis
  BY <1>1, <1>2
<1>4. h \in RecoveredQCs
  BY <1>3 DEF RecoveredQCs, StoredQCs
<1>5. /\ RecoveredDB.blocks = (Connected \cup {ledger}) \ {Genesis}
      /\ RecoveredDB.qcs = RecoveredQCs \ {Genesis}
  BY <1>1 DEF RecoveredDB
<1>6. QED
  BY <1>2, <1>3, <1>4, <1>5

\* What is recovered is stored.
LEMMA RecoveredIsStored ==
    ASSUME TypeOK, NEW h \in RecoveredQCs, RoundOf[h] > RoundOf[ledger]
    PROVE  /\ h \in Certified /\ h \in db.qcs
           /\ \A c \in Ancestors[h] : RoundOf[c] > RoundOf[ledger] => c \in db.blocks
<1>1. h \in Certified /\ h \in Blocks /\ RoundOf[h] \in Nat /\ RoundOf[ledger] \in Nat
  BY RecoveredFacts, OrderedFacts, BlockFacts, Rounds
<1>2. h # ledger /\ h # Genesis
  BY <1>1, BlockFacts
<1>3. h \in Connected /\ h \in db.qcs
  BY <1>2 DEF RecoveredQCs, StoredQCs
<1>4. QED
  BY <1>1, <1>3 DEF Connected

\* storage.start() keeps the root and the highest certificate.
LEMMA RecoveredDBStored ==
    ASSUME TypeOK, HighestStored, RootBlockStored, db' = RecoveredDB, UNCHANGED ledger
    PROVE  /\ RootBlockStored'
           /\ RoundOf[tree.highest_certified] > RoundOf[ledger] =>
                 /\ tree.highest_certified \in RecoveredQCs
                 /\ tree.highest_certified \in db'.qcs
                 /\ {b \in Ancestors[tree.highest_certified] : RoundOf[b] > RoundOf[ledger]}
                       \subseteq db'.blocks
<1>1. db'.blocks = (Connected \cup {ledger}) \ {Genesis}
  BY DEF RecoveredDB, TypeOK
<1>2. RootBlockStored'
  BY <1>1 DEF RootBlockStored, StoredBlocks
<1>3. ASSUME RoundOf[tree.highest_certified] > RoundOf[ledger]
      PROVE  /\ tree.highest_certified \in RecoveredQCs
             /\ tree.highest_certified \in db'.qcs
             /\ {b \in Ancestors[tree.highest_certified] : RoundOf[b] > RoundOf[ledger]}
                       \subseteq db'.blocks
  <2>1. tree.highest_certified \in Certified
    BY DEF TypeOK
  <2>2. /\ tree.highest_certified \in db.qcs
        /\ \A c \in Ancestors[tree.highest_certified] :
              RoundOf[c] > RoundOf[ledger] => c \in db.blocks
    BY <1>3 DEF HighestStored
  <2>3. QED
    BY <1>3, <2>1, <2>2, RecoveredPath
<1>4. QED
  BY <1>2, <1>3

\* BlockStore::build: the new tree holds the highest certificate again.
LEMMA StoredBuild ==
    ASSUME Given, RecoverySteps', WriteMade', Build(tree.highest_tc), UNCHANGED ledger
    PROVE  StoredInv' /\ Advance
<1>1. TypeOK /\ TypeOK' /\ HighestStored /\ RootBlockStored
  BY DEF Given, IInv, StoredInv
<1>2. PICK certs : certs = {ledger} \cup RecoveredQCs
  OBVIOUS
<1>3. /\ tree'.id_to_block = {ledger} \cup Connected /\ tree'.window_root = ledger
      /\ tree'.highest_tc = tree.highest_tc /\ tree'.highest_certified = HighestOf(certs)
      /\ db' = RecoveredDB
  BY <1>2 DEF Build, BuildTree, RootCert
<1>4. /\ db'.blocks = (Connected \cup {ledger}) \ {Genesis} /\ db'.tc = db.tc
      /\ tree.highest_tc \in Nat
  BY <1>1, <1>3 DEF RecoveredDB, TypeOK
<1>5. /\ RootBlockStored'
      /\ RoundOf[tree.highest_certified] > RoundOf[ledger] =>
            tree.highest_certified \in certs
  BY <1>1, <1>2, <1>3, RecoveredDBStored
<1>6. certs \in SUBSET Blocks /\ ledger \in certs
  BY <1>1, <1>2, RecoveredFacts, OrderedFacts, Rounds
<1>7. HighestOf(certs) \in certs /\ \A c \in certs : RoundOf[c] <= RoundOf[HighestOf(certs)]
  BY <1>6, HighestRound
<1>8. /\ RoundOf[ledger] \in Nat /\ RoundOf[tree.highest_certified] \in Nat
      /\ RoundOf[tree'.highest_certified] \in Nat
  BY <1>1, OrderedFacts, BlockFacts, Rounds DEF TypeOK
<1>9. Advance
  BY <1>3, <1>4, <1>5, <1>6, <1>7, <1>8 DEF Advance
<1>10. HighestStored'
  <2>1. ASSUME RoundOf[tree'.highest_certified] > RoundOf[ledger]
        PROVE  /\ tree'.highest_certified \in db'.qcs
               /\ \A c \in Ancestors[tree'.highest_certified] :
                     RoundOf[c] > RoundOf[ledger] => c \in db'.blocks
    <3>1. PICK h : h = tree'.highest_certified
      OBVIOUS
    <3>2. h \in RecoveredQCs /\ RoundOf[h] > RoundOf[ledger]
      BY <1>2, <1>3, <1>7, <1>8, <2>1, <3>1
    <3>3. /\ h \in Certified /\ h \in db.qcs
          /\ \A c \in Ancestors[h] : RoundOf[c] > RoundOf[ledger] => c \in db.blocks
      BY <1>1, <3>2, RecoveredIsStored
    <3>4. QED
      BY <1>1, <1>3, <3>1, <3>2, <3>3, RecoveredPath
  <2>2. db'.tc = tree'.highest_tc
    BY <1>1, <1>3, <1>4 DEF HighestStored
  <2>3. QED
    BY <2>1, <2>2 DEF HighestStored
<1>11. TreeStored'
  BY <1>3, <1>4, <1>8 DEF TreeStored
<1>12. QED
  BY <1>5, <1>9, <1>10, <1>11 DEF StoredInv, Given

LEMMA StoredRecovery ==
    ASSUME Given, RecoverySteps', Rebuild \/ Restart \/ RestartToRecover \/ ExitRecovered
    PROVE  StoredInv' /\ Advance
<1>1. /\ IInv /\ TypeOK /\ HighestStored /\ RootBlockStored
      /\ db.tc = tree.highest_tc /\ tree.highest_tc \in Nat
  BY DEF Given, IInv, StoredInv, HighestStored, TypeOK
<1>2. CASE Rebuild
  <2>1. CASE Panic("recovery")
    BY <2>1, StoredPanic
  <2>2. CASE CanFindRoot /\ Build(tree.highest_tc) /\ UNCHANGED ledger
    <3>1. WriteMade'
      BY <1>1, <1>2, <2>2, RebuildStep, QuietWriteMade
    <3>2. QED
      BY <2>2, <3>1, StoredBuild
  <2>3. QED
    BY <1>2, <2>1, <2>2 DEF Rebuild
<1>3. CASE Restart
  <2>1. Build(tree.highest_tc) /\ UNCHANGED ledger /\ todo' = TrySends
    BY <1>1, <1>3 DEF Restart
  <2>2. WriteMade'
    BY <1>1, <2>1, TrySendsQuiet, QuietWriteMade
  <2>3. QED
    BY <2>1, <2>2, StoredBuild
<1>4. CASE RestartToRecover
  <2>1. UNCHANGED <<tree, db, ledger>> /\ todo' = <<>> /\ ~ Running'
    BY <1>4 DEF RestartToRecover, Running
  <2>2. WriteMade'
    BY <2>1 DEF WriteMade
  <2>3. QED
    BY <2>1, <2>2, StandsStep
<1>5. CASE ExitRecovered
  <2>1. CASE Panic("recovery")
    BY <2>1, StoredPanic
  <2>2. CASE /\ db' = RecoveredDB /\ process' = "stopped" /\ todo' = <<>>
             /\ UNCHANGED <<tree, ledger>>
    <3>1. RootBlockStored' /\ HighestStored'
      <4>1. db'.tc = db.tc
        BY <1>1, <2>2 DEF RecoveredDB, TypeOK
      <4>2. QED
        BY <1>1, <2>2, <4>1, RecoveredDBStored DEF HighestStored
    <3>2. WriteMade' /\ ~ Running'
      BY <2>2 DEF WriteMade, Running
    <3>3. RoundOf[tree.highest_certified] \in Nat
      BY <1>1, OrderedFacts, BlockFacts DEF TypeOK
    <3>4. Advance
      BY <1>1, <2>2, <3>3 DEF Advance
    <3>5. QED
      BY <3>1, <3>2, <3>4 DEF StoredInv
  <2>3. QED
    BY <1>5, <2>1, <2>2 DEF ExitRecovered
<1>6. QED
  BY <1>2, <1>3, <1>4, <1>5

LEMMA StoredStep ==
    ASSUME IInv, StoredInv, [Next]_vars
    PROVE  StoredInv' /\ [Advance]_vars
<1>1. Given
  <2>1. IInv'
    BY NextIInv
  <2>2. Running' => PrunedIsBehind'
    BY BehindStep DEF StoredInv
  <2>3. QED
    BY <2>1, <2>2, LedgerRises DEF Given
<1>2. RecoverySteps'
  BY RecoveryStepsKept DEF StoredInv
<1>3. CASE UNCHANGED vars
  BY <1>1, <1>2, <1>3, StandsStep DEF vars, storage, Running
<1>4. CASE \/ \E b \in Blocks \ {Genesis} : ProcessProposal(b)
           \/ \E b \in CertifiedBlocks : NewQC(b)
           \/ \E b \in OrderCertified : NewOrderedCert(b)
           \/ \E si \in SyncInfos : SyncUp(si) \/ RecoverySyncUp(si)
           \/ NeedFetch \/ GetBlock
           \/ Fetch \/ GetQCBlock \/ CommitQC \/ OrderCert \/ OwnOrderCert \/ TrySendNext
           \/ NeedSync \/ Resume
  BY <1>1, <1>2, <1>4, StoredReads
<1>5. CASE \E b \in Blocks \ {Genesis} : PipelineStep(b)
  <2>1. PICK b \in Blocks \ {Genesis} : PipelineStep(b)
    BY <1>5
  <2>2. QED
    BY <1>1, <1>2, <2>1, StoredPipelines, StoredPostCommit DEF PipelineStep
<1>6. CASE LatePostCommit
  BY <1>1, <1>2, <1>6, StoredLatePostCommit
<1>7. CASE AddTC \/ NewTC
  BY <1>1, <1>2, <1>7, StoredTimeoutCert
<1>8. CASE \/ Send \/ SaveQC \/ SaveBlock \/ SaveRange \/ AbortPipelines \/ SyncToTarget
           \/ TreeBlock \/ TreeQC
  BY <1>1, <1>2, <1>8, StoredSend, StoredSaves, StoredAbort, StoredSync, StoredTreeBlock,
     StoredTreeQC
<1>9. CASE Rebuild \/ Restart \/ RestartToRecover \/ ExitRecovered
  BY <1>1, <1>2, <1>9, StoredRecovery
<1>10. QED
  BY <1>3, <1>4, <1>5, <1>6, <1>7, <1>8, <1>9 DEF Next, Work, RoundManagerStep

LEMMA InitStored == Init => StoredInv
<1>1. SUFFICES ASSUME Init PROVE StoredInv
  OBVIOUS
<1>2. PrunedIsBehind
  BY <1>1, InitBehind
<1>3. TypeOK
  BY <1>1, InitIInv DEF IInv
<1>4. /\ tree.highest_tc = 0 /\ tree.window_root = Genesis /\ tree.id_to_block = {Genesis}
      /\ tree.highest_certified = HighestOf({Genesis})
      /\ db = [blocks |-> {}, qcs |-> {}, tc |-> 0] /\ ledger = Genesis
      /\ todo = <<>> /\ process = "running"
  BY <1>1 DEF Init, BuildTree
<1>5. tree.highest_certified = Genesis
  <2>1. PICK S : S = {Genesis}
    OBVIOUS
  <2>2. HighestOf(S) \in S
    BY <2>1, HighestRound, BlockFacts
  <2>3. QED
    BY <1>4, <2>1, <2>2
<1>6. QED
  BY <1>2, <1>3, <1>4, <1>5, BlockFacts DEF StoredInv, RootBlockStored, StoredBlocks,
     HighestStored, WriteMade, RecoverySteps, TreeStored, Running

\* The second inductive invariant.
LEMMA StoredInvariant == Spec => []StoredInv
<1>1. IInv /\ StoredInv /\ [Next]_vars => StoredInv'
  BY StoredStep
<1>2. QED
  BY <1>1, InitStored, InductiveInvariant, PTL DEF Spec

\* ConsensusDB has the block of the latest ledger info, which find_root relies on,
\* although the two databases are written and pruned by different tasks, commit
\* callbacks outlive the tree of their block, and the node may stop between any
\* two of the writes.
THEOREM LedgerBlockIsStored == Spec => []RootBlockStored
<1>1. StoredInv => RootBlockStored
  BY DEF StoredInv
<1>2. QED
  BY <1>1, StoredInvariant, PTL

\* A state sync that reaches its target leaves what storage.start() needs to
\* rebuild the tree: fast_forward_sync saves the range before it syncs, and no
\* commit that runs on until the pipelines are aborted, and none that is called
\* back during the sync, from this tree or from one that was replaced before,
\* deletes any of it.
THEOREM SyncedLedgerIsRecoverable == Spec => []RecoversAfterSync
<1>1. StoredInv /\ IInv => RecoversAfterSync
  <2>1. SUFFICES ASSUME StoredInv, IInv, Doing("rebuild") \/ Doing("exit"),
                        ledger = Arg.hcc.block
                 PROVE  CanFindRoot
    BY DEF RecoversAfterSync
  <2>2. PICK si : si = todo[1][2]
    OBVIOUS
  <2>3. todo # <<>> /\ todo[1][1] \in {"rebuild", "exit"} /\ Handler(todo, process) /\ WriteMade
    BY <2>1 DEF Doing, StoredInv, IInv
  <2>4. si \in SyncInfos
    <3>1. 1 \in 1 .. Len(todo)
      BY <2>3 DEF Handler
    <3>2. QED
      BY <2>2, <2>3, <3>1 DEF Handler, StepOK
  <2>5. RoundOf[ledger] \in Nat /\ ledger = si.hcc.block
    BY <2>1, <2>2, Rounds DEF IInv, Arg
  <2>6. RangeSaved(si)
    BY <2>2, <2>3, <2>5 DEF WriteMade, Arg
  <2>7. ~ order_vote_enabled => commit_info[si.hcc.certified] = ledger
    BY <2>4, <2>5, NetworkAssumption
  <2>8. QED
    BY <2>5, <2>6, <2>7 DEF RangeSaved, CanFindRoot, StoredBlocks, StoredQCs
<1>2. QED
  BY <1>1, StoredInvariant, InductiveInvariant, PTL

\* The highest QC and the highest TC never go back: not when commit_callback
\* prunes, of the current tree or late, not when a write of the database fails,
\* not when rebuild replaces the tree after a state sync, and not when the node
\* stops between a write of the tree and one of the database and starts again.
THEOREM CertificatesSurvive == Spec => CertificatesNeverLost
<1>1. IInv /\ StoredInv /\ [Next]_vars
        => [/\ RoundOf[tree'.highest_certified] >= RoundOf[tree.highest_certified]
            /\ tree'.highest_tc >= tree.highest_tc]_vars
  BY StoredStep DEF Advance
<1>2. QED
  BY <1>1, StoredInvariant, InductiveInvariant, PTL DEF Spec, CertificatesNeverLost

-----------------------------------------------------------------------------
(* A node that is behind catches up.                                       *)

\* Steps among which there is no TC to be added.
Plain(s) ==
    /\ s \in Seq(ToSet(s))
    /\ \A i \in 1 .. Len(s) : s[i][1] # "add_tc"

LEMMA PlainConcat ==
    ASSUME NEW s, NEW t, Plain(s), Plain(t)
    PROVE  Plain(s \o t)
<1> DEFINE S == ToSet(s) \cup ToSet(t)
           u == s \o t
<1>1. s \in Seq(S) /\ t \in Seq(S) /\ Len(s) \in Nat /\ Len(t) \in Nat
  BY DEF Plain
<1> HIDE DEF S
<1>2. /\ u \in Seq(S) /\ Len(u) = Len(s) + Len(t)
      /\ \A i \in 1 .. Len(s) : u[i] = s[i]
      /\ \A i \in Len(s) + 1 .. Len(u) : u[i] = t[i - Len(s)]
  BY <1>1
<1> HIDE DEF u
<1>3. u \in Seq(ToSet(u))
  BY <1>2, OwnElements
<1>4. ASSUME NEW i \in 1 .. Len(u) PROVE u[i][1] # "add_tc"
  <2>1. CASE i <= Len(s)
    BY <1>1, <1>2, <2>1 DEF Plain
  <2>2. CASE i > Len(s)
    <3>1. i - Len(s) \in 1 .. Len(t) /\ u[i] = t[i - Len(s)]
      BY <1>1, <1>2, <2>2
    <3>2. QED
      BY <3>1 DEF Plain
  <2>3. QED
    BY <1>1, <2>1, <2>2
<1>5. QED
  BY <1>3, <1>4 DEF Plain, u

LEMMA PlainOne == \A x : x[1] # "add_tc" => Plain(<<x>>)
<1>1. ASSUME NEW x, x[1] # "add_tc" PROVE Plain(<<x>>)
  <2>1. <<x>> \in Seq(ToSet(<<x>>))
    BY DEF ToSet
  <2>2. QED
    BY <1>1, <2>1 DEF Plain
<1>2. QED
  BY <1>1

LEMMA PlainEmpty == Plain(<<>>)
BY DEF Plain, ToSet

LEMMA PlainInsertions ==
    \A b : /\ Plain(InsertSingleQuorumCert(b)) /\ Plain(InsertBlock(b))
           /\ Plain(InsertQuorumCert(b)) /\ Plain(FastForwardSync(b))
<1>1. SUFFICES ASSUME NEW b
               PROVE  /\ Plain(InsertSingleQuorumCert(b)) /\ Plain(InsertBlock(b))
                      /\ Plain(InsertQuorumCert(b)) /\ Plain(FastForwardSync(b))
  OBVIOUS
<1>2. Plain(InsertSingleQuorumCert(b))
  BY DEF Plain, InsertSingleQuorumCert, ToSet
<1>3. Plain(InsertBlock(b))
  BY DEF Plain, InsertBlock, ToSet
<1>4. Plain(InsertQuorumCert(b))
  BY DEF Plain, InsertQuorumCert, ToSet
<1>5. Plain(FastForwardSync(b))
  BY DEF Plain, FastForwardSync, ToSet
<1>6. QED
  BY <1>2, <1>3, <1>4, <1>5

LEMMA PlainFetch == \A b, missing : Plain(FetchQuorumCert(b, missing))
<1>1. SUFFICES ASSUME NEW b, NEW missing PROVE Plain(FetchQuorumCert(b, missing))
  OBVIOUS
<1>2. CASE missing = {}
  BY <1>2, PlainInsertions DEF FetchQuorumCert
<1>3. CASE missing # {}
  <2> DEFINE c == LowestOf(missing)
             x == <<"fetch", [qc |-> b, missing |-> missing \ {c}]>>
  <2>1. FetchQuorumCert(b, missing) = (InsertSingleQuorumCert(Parent[c]) \o InsertBlock(c)) \o <<x>>
    BY <1>3 DEF FetchQuorumCert
  <2>2. x[1] # "add_tc"
    OBVIOUS
  <2> HIDE DEF c, x
  <2>3. Plain(<<x>>)
    BY <2>2, PlainOne
  <2>4. QED
    BY <2>1, <2>3, PlainInsertions, PlainConcat
<1>4. QED
  BY <1>2, <1>3

LEMMA PlainTrySends == \A qcs : Plain(TrySendForExecution(qcs))
<1>1. SUFFICES ASSUME NEW qcs PROVE Plain(TrySendForExecution(qcs))
  OBVIOUS
<1>2. CASE qcs = {}
  BY <1>2, PlainEmpty DEF TrySendForExecution
<1>3. CASE qcs # {}
  <2>1. PICK x, y : /\ TrySendForExecution(qcs) = <<x, y>>
                    /\ x[1] = "try_send" /\ y[1] = "try_sends"
    <3> DEFINE b == LowestOf(qcs)
               x == <<"try_send", [block |-> commit_info[b], certified |-> b]>>
               y == <<"try_sends", qcs \ {b}>>
    <3>1. TrySendForExecution(qcs) = <<x, y>>
      BY <1>3, Zenon DEF TrySendForExecution
    <3>2. x[1] = "try_send" /\ y[1] = "try_sends"
      OBVIOUS
    <3> HIDE DEF x, y
    <3>3. QED
      BY <3>1, <3>2
  <2>2. QED
    BY <2>1 DEF Plain, ToSet
<1>4. QED
  BY <1>2, <1>3

\* What is left after the first steps.
LEMMA OrderedFirstRest ==
    ASSUME NEW s, s \in Seq(ToSet(s)), OrderedFirst(s), NEW n \in 1 .. Len(s)
    PROVE  LET rest == SubSeq(s, n + 1, Len(s))
           IN  /\ OrderedFirst(rest)
               /\ rest # <<>> /\ rest[1][1] = "add_tc" =>
                    s[n] \in {<<"order_cert", rest[1][2].hoc>>, <<"send", rest[1][2].hoc>>}
<1> DEFINE S == ToSet(s)
           rest == SubSeq(s, n + 1, Len(s))
<1>1. s \in Seq(S) /\ Len(s) \in Nat
  OBVIOUS
<1> HIDE DEF S
<1>2. /\ rest \in Seq(S) /\ Len(rest) = Len(s) - n
      /\ \A i \in 1 .. Len(rest) : rest[i] = s[i + n]
  BY <1>1
<1> HIDE DEF rest
<1>3. ASSUME NEW i \in 2 .. Len(rest), rest[i][1] = "add_tc"
      PROVE  rest[i - 1] \in {<<"order_cert", rest[i][2].hoc>>, <<"send", rest[i][2].hoc>>}
  <2>1. i \in 1 .. Len(rest) /\ i - 1 \in 1 .. Len(rest) /\ i + n \in 2 .. Len(s)
    BY <1>1, <1>2
  <2>2. rest[i] = s[i + n] /\ rest[i - 1] = s[(i - 1) + n] /\ (i - 1) + n = (i + n) - 1
    BY <1>1, <1>2, <2>1
  <2>3. QED
    BY <1>3, <2>1, <2>2 DEF OrderedFirst
<1>4. ASSUME rest # <<>>, rest[1][1] = "add_tc"
      PROVE  s[n] \in {<<"order_cert", rest[1][2].hoc>>, <<"send", rest[1][2].hoc>>}
  <2>1. rest[1] = s[n + 1] /\ n + 1 \in 2 .. Len(s) /\ (n + 1) - 1 = n
    BY <1>1, <1>2, <1>4
  <2>2. QED
    BY <1>4, <2>1 DEF OrderedFirst
<1>5. QED
  BY <1>3, <1>4 DEF OrderedFirst, rest

\* One list after the other.
LEMMA OrderedFirstConcat ==
    ASSUME NEW s, NEW t, Plain(s), t \in Seq(ToSet(t)), OrderedFirst(t),
           s # <<>> /\ t # <<>> /\ t[1][1] = "add_tc" => s[Len(s)] = <<"send", t[1][2].hoc>>
    PROVE  OrderedFirst(s \o t) /\ (s # <<>> => s \o t # <<>> /\ (s \o t)[1] = s[1])
<1> DEFINE S == ToSet(s) \cup ToSet(t)
           u == s \o t
<1>1. s \in Seq(S) /\ t \in Seq(S) /\ Len(s) \in Nat /\ Len(t) \in Nat
  BY DEF Plain
<1> HIDE DEF S
<1>2. /\ u \in Seq(S) /\ Len(u) = Len(s) + Len(t)
      /\ \A i \in 1 .. Len(s) : u[i] = s[i]
      /\ \A i \in Len(s) + 1 .. Len(u) : u[i] = t[i - Len(s)]
  BY <1>1
<1> HIDE DEF u
<1>3. ASSUME NEW i \in 2 .. Len(u), u[i][1] = "add_tc"
      PROVE  u[i - 1] \in {<<"order_cert", u[i][2].hoc>>, <<"send", u[i][2].hoc>>}
  <2>1. CASE i <= Len(s)
    BY <1>1, <1>2, <1>3, <2>1 DEF Plain
  <2>2. CASE i = Len(s) + 1
    <3>1. /\ u[i] = t[1] /\ u[i - 1] = s[Len(s)] /\ s # <<>> /\ t # <<>>
      BY <1>1, <1>2, <2>2, SMTT(30)
    <3>2. QED
      BY <1>3, <3>1
  <2>3. CASE i > Len(s) + 1
    <3>1. /\ i - Len(s) \in 2 .. Len(t) /\ i \in Len(s) + 1 .. Len(u)
          /\ i - 1 \in Len(s) + 1 .. Len(u) /\ (i - 1) - Len(s) = (i - Len(s)) - 1
      BY <1>1, <1>2, <2>3
    <3>2. u[i] = t[i - Len(s)] /\ u[i - 1] = t[(i - Len(s)) - 1]
      BY <1>2, <3>1
    <3>3. QED
      BY <1>3, <3>1, <3>2 DEF OrderedFirst
  <2>4. QED
    BY <1>1, <2>1, <2>2, <2>3
<1>4. s # <<>> => u # <<>> /\ u[1] = s[1]
  BY <1>1, <1>2
<1>5. QED
  BY <1>3, <1>4 DEF OrderedFirst, u

\* A handler in which no TC comes next.
Unsettled(steps) == OrderedFirst(steps) /\ (steps # <<>> => steps[1][1] # "add_tc")

LEMMA UnsettledReaches ==
    ASSUME Unsettled(todo')
    PROVE  ReachInv'
BY DEF Unsettled, ReachInv

LEMMA PlainIsUnsettled ==
    ASSUME NEW s, Plain(s)
    PROVE  Unsettled(s)
<1>1. s # <<>> => 1 \in 1 .. Len(s)
  BY DEF Plain
<1>2. \A i \in 2 .. Len(s) : i \in 1 .. Len(s)
  BY DEF Plain
<1>3. QED
  BY <1>1, <1>2 DEF Plain, Unsettled, OrderedFirst

\* What add_certs does.
LEMMA AddCertsInOrder ==
    ASSUME order_vote_enabled, NEW si
    PROVE  Unsettled(AddCerts(si))
<1>1. PICK s : s = AddCerts(si)
  OBVIOUS
<1>2. /\ Len(s) = 5 /\ s[1] = <<"need_sync", si>> /\ s[2] = <<"need_fetch", si.hqc>>
      /\ s[3] = <<"commit_qc", si.hqc>> /\ s[4] = <<"order_cert", si.hoc>>
      /\ s[5] = <<"add_tc", si>>
  BY <1>1 DEF AddCerts, InsertQuorumCert
<1>3. ASSUME NEW i \in 2 .. Len(s), s[i][1] = "add_tc"
      PROVE  s[i - 1] = <<"order_cert", s[i][2].hoc>>
  <2>1. i = 5
    <3>1. i \in {2, 3, 4, 5}
      BY <1>2
    <3>2. QED
      BY <1>2, <1>3, <3>1
  <2>2. QED
    BY <1>2, <2>1
<1>4. QED
  BY <1>1, <1>2, <1>3 DEF Unsettled, OrderedFirst

\* The ways in which a handler goes on after a step that orders nothing.
LEMMA GoesOnInOrder ==
    ASSUME Handler(todo, process), todo # <<>>, OrderedFirst(todo),
           todo[1][1] \notin {"order_cert", "send"}
    PROVE  /\ Continue => Unsettled(todo')
           /\ Fail => Unsettled(todo')
           /\ \A s : Plain(s) /\ ContinueWith(s) => Unsettled(todo')
<1>1. Len(todo) \in Nat /\ Len(todo) >= 1 /\ todo \in Seq(ToSet(todo)) /\ 1 \in 1 .. Len(todo)
  BY DEF Handler
<1>2. PICK rest : rest = SubSeq(todo, 1 + 1, Len(todo))
  OBVIOUS
<1>3. Unsettled(rest)
  <2>1. /\ OrderedFirst(rest)
        /\ rest # <<>> /\ rest[1][1] = "add_tc" =>
              todo[1] \in {<<"order_cert", rest[1][2].hoc>>, <<"send", rest[1][2].hoc>>}
    BY <1>1, <1>2, OrderedFirstRest, Zenon
  <2>2. QED
    BY <2>1 DEF Unsettled
<1>4. rest \in Seq(ToSet(rest))
  <2>1. rest \in Seq(ToSet(todo))
    BY <1>1, <1>2
  <2>2. QED
    BY <2>1, OwnElements
<1>5. Tail(todo) = rest
  BY <1>1, <1>2
<1>6. Continue <=> todo' = rest
  BY <1>1, <1>2 DEF Continue, Skip
<1>7. Unsettled(<<>>)
  BY PlainEmpty, PlainIsUnsettled
<1>8. ASSUME NEW s, Plain(s) PROVE Unsettled(s \o rest)
  <2>1. CASE s = <<>>
    <3>1. s \o rest = rest
      BY <1>4, <2>1
    <3>2. QED
      BY <1>3, <3>1
  <2>2. CASE s # <<>>
    <3>1. PICK u : u = s \o rest
      OBVIOUS
    <3>2. OrderedFirst(u) /\ u # <<>> /\ u[1] = s[1]
      BY <1>3, <1>4, <1>8, <2>2, <3>1, OrderedFirstConcat DEF Unsettled
    <3>3. s[1][1] # "add_tc"
      BY <1>8, <2>2 DEF Plain
    <3>4. QED
      BY <3>1, <3>2, <3>3 DEF Unsettled
  <2>3. QED
    BY <2>1, <2>2
<1>9. \A s : ContinueWith(s) <=> todo' = s \o rest
  BY <1>5, Zenon DEF ContinueWith
<1>10. QED
  BY <1>3, <1>6, <1>7, <1>8, <1>9, Zenon DEF Fail

LEMMA SkipsInOrder ==
    ASSUME Handler(todo, process), OrderedFirst(todo), NEW n \in 1 .. Len(todo),
           todo[n][1] \notin {"order_cert", "send"}, Skip(n)
    PROVE  Unsettled(todo')
<1>1. todo \in Seq(ToSet(todo))
  BY DEF Handler
<1>2. PICK rest : rest = SubSeq(todo, n + 1, Len(todo))
  OBVIOUS
<1>3. /\ OrderedFirst(rest)
      /\ rest # <<>> /\ rest[1][1] = "add_tc" =>
            todo[n] \in {<<"order_cert", rest[1][2].hoc>>, <<"send", rest[1][2].hoc>>}
  BY <1>1, <1>2, OrderedFirstRest, Zenon
<1>4. Unsettled(rest)
  BY <1>3 DEF Unsettled
<1>5. QED
  BY <1>2, <1>4 DEF Skip

\* The ordered root does not go back while a handler runs.
LEMMA ReachKept ==
    ASSUME IInv, ReachInv, UNCHANGED todo, RoundOf[tree'.ordered_root] \in Nat,
           RoundOf[tree.ordered_root] <= RoundOf[tree'.ordered_root]
    PROVE  ReachInv'
<1>1. SUFFICES ASSUME todo # <<>>, todo[1][1] = "add_tc"
               PROVE  RoundOf[tree'.ordered_root] >= RoundOf[todo[1][2].hoc.block]
  BY DEF ReachInv, Arg
<1>2. 1 \in 1 .. Len(todo)
  BY <1>1 DEF IInv, Handler
<1>3. todo[1][2] \in SyncInfos
  BY <1>1, <1>2 DEF IInv, Handler, StepOK
<1>4. RoundOf[todo[1][2].hoc.block] \in Nat
  BY <1>3, BlockStoreAssumption, BlockFacts DEF SyncInfo, Cert
<1>5. RoundOf[tree.ordered_root] \in Nat
  BY Rounds DEF IInv
<1>6. QED
  BY <1>1, <1>4, <1>5 DEF ReachInv, Arg

\* insert_ordered_cert and send_for_execution: the certificate is that of the
\* SyncInfo, and its block is ordered when they are done.
LEMMA OrderingReaches ==
    ASSUME IInv, ReachInv, OrderCert \/ Send
    PROVE  ReachInv'
<1>1. /\ TypeOK /\ Handler(todo, process) /\ todo # <<>> /\ OrderedFirst(todo)
      /\ todo[1][1] \in {"order_cert", "send", "try_send"}
  BY DEF IInv, ReachInv, OrderCert, Send, Doing
<1>2. Len(todo) \in Nat /\ Len(todo) >= 1 /\ todo \in Seq(ToSet(todo)) /\ 1 \in 1 .. Len(todo)
  BY <1>1 DEF Handler
<1>3. PICK rest : rest = SubSeq(todo, 1 + 1, Len(todo))
  OBVIOUS
<1>4. /\ OrderedFirst(rest)
      /\ rest # <<>> /\ rest[1][1] = "add_tc" =>
            todo[1] \in {<<"order_cert", rest[1][2].hoc>>, <<"send", rest[1][2].hoc>>}
  BY <1>1, <1>2, <1>3, OrderedFirstRest, Zenon
<1>5. rest # <<>> /\ rest[1][1] = "add_tc" => Arg = rest[1][2].hoc /\ todo[1][1] # "try_send"
  BY <1>4 DEF Arg
<1>6. rest \in Seq(ToSet(rest))
  <2>1. rest \in Seq(ToSet(todo))
    BY <1>2, <1>3
  <2>2. QED
    BY <2>1, OwnElements
<1>7. Continue <=> todo' = rest
  BY <1>2, <1>3 DEF Continue, Skip
<1>8. CASE Fail
  BY <1>8, PlainEmpty, PlainIsUnsettled, UnsettledReaches DEF Fail
<1>9. ASSUME Continue, RoundOf[tree'.ordered_root] >= RoundOf[Arg.block] \/ todo[1][1] = "try_send"
      PROVE  ReachInv'
  BY <1>4, <1>5, <1>7, <1>9 DEF ReachInv, Arg
<1>10. CASE OrderCert
  <2>1. RoundOf[tree.ordered_root] \in Nat /\ RoundOf[Arg.block] \in Nat /\ UNCHANGED tree
    <3>1. todo[1][2] \in OrderingCert
      BY <1>1, <1>2, <1>10 DEF Handler, StepOK, OrderCert, Doing
    <3>2. QED
      BY <1>1, <1>10, <3>1, Rounds, OrderedFacts, BlockFacts
         DEF OrderingCert, Arg, OrderCert, OnlyTodo
  <2>2. CASE ~ (RoundOf[tree.ordered_root] < RoundOf[Arg.block]) /\ Continue
    BY <1>9, <2>1, <2>2
  <2>3. CASE ContinueWith(<<<<"send", Arg>>>>)
    <3>1. PICK x : x = <<"send", Arg>>
      OBVIOUS
    <3>2. Plain(<<x>>) /\ <<x>> # <<>> /\ Len(<<x>>) = 1 /\ <<x>>[1] = x /\ x[1] = "send"
      BY <3>1, PlainOne
    <3>3. PICK s : s = <<x>>
      OBVIOUS
    <3>4. rest # <<>> /\ rest[1][1] = "add_tc" => s[Len(s)] = <<"send", rest[1][2].hoc>>
      BY <1>5, <3>1, <3>2, <3>3
    <3>5. PICK u : u = s \o rest
      OBVIOUS
    <3>6. OrderedFirst(u) /\ u # <<>> /\ u[1] = s[1]
      BY <1>4, <1>6, <3>2, <3>3, <3>4, <3>5, OrderedFirstConcat
    <3>7. Tail(todo) = rest
      BY <1>2, <1>3
    <3>8. todo' = u
      BY <2>3, <3>1, <3>3, <3>5, <3>7, Zenon DEF ContinueWith
    <3>9. Unsettled(todo')
      BY <3>2, <3>3, <3>6, <3>8 DEF Unsettled
    <3>10. QED
      BY <3>9, UnsettledReaches
  <2>4. QED
    BY <1>8, <1>10, <2>2, <2>3 DEF OrderCert
<1>11. CASE Send
  <2>1. RoundOf[tree.ordered_root] \in Nat /\ RoundOf[Arg.block] \in Nat
    <3>1. todo[1][2] \in OrderingCert
      BY <1>1, <1>2, <1>11 DEF Handler, StepOK, Send, Doing
    <3>2. QED
      BY <1>1, <3>1, Rounds, OrderedFacts, BlockFacts DEF OrderingCert, Arg
  <2>2. CASE SendForExecution(Arg)
    <3>1. CASE Panic("path")
      <4>1. UNCHANGED <<todo, tree>>
        BY <3>1 DEF Panic
      <4>2. QED
        BY <2>1, <4>1, ReachKept
    <3>2. CASE /\ Continue
               /\ tree' = [tree EXCEPT
                    !.ordered_root = Arg.block,
                    !.highest_ordered_cert =
                        IF RoundOf[Arg.block] > RoundOf[@.block] THEN Arg ELSE @]
      <4>1. tree'.ordered_root = Arg.block
        BY <1>1, <3>2 DEF TypeOK
      <4>2. QED
        BY <1>9, <2>1, <3>2, <4>1
    <3>3. QED
      BY <2>2, <3>1, <3>2 DEF SendForExecution
  <2>3. CASE (IF Doing("send") THEN Fail ELSE Continue)
    <3>1. CASE Doing("send")
      BY <1>8, <2>3, <3>1
    <3>2. CASE ~ Doing("send")
      <4>1. todo[1][1] = "try_send"
        BY <1>11, <3>2 DEF Send, Doing
      <4>2. QED
        BY <1>9, <2>3, <3>2, <4>1
    <3>3. QED
      BY <3>1, <3>2
  <2>4. QED
    BY <1>11, <2>2, <2>3 DEF Send
<1>12. QED
  BY <1>10, <1>11

\* Every other step of a handler.
LEMMA HandlerReaches ==
    ASSUME IInv, ReachInv,
           \/ NeedFetch \/ Fetch \/ GetQCBlock \/ SaveQC \/ TreeQC
           \/ GetBlock \/ SaveBlock \/ TreeBlock
           \/ CommitQC \/ OwnOrderCert \/ TrySendNext \/ AddTC
           \/ NeedSync \/ Resume \/ SaveRange \/ AbortPipelines \/ SyncToTarget
    PROVE  ReachInv'
<1>1. /\ Handler(todo, process) /\ todo # <<>> /\ OrderedFirst(todo)
      /\ todo[1][1] \notin {"order_cert", "send"}
  BY DEF IInv, ReachInv, Doing, NeedFetch, Fetch, GetQCBlock, SaveQC, TreeQC, GetBlock, SaveBlock,
     TreeBlock, CommitQC, OwnOrderCert, TrySendNext, AddTC, NeedSync, Resume, SaveRange,
     AbortPipelines, SyncToTarget
<1>2. /\ Continue => Unsettled(todo')
      /\ Fail => Unsettled(todo')
      /\ \A s : Plain(s) /\ ContinueWith(s) => Unsettled(todo')
  BY <1>1, GoesOnInOrder
<1>3. Len(todo) \in Nat /\ Len(todo) >= 1
  BY <1>1 DEF Handler
<1>4. CASE Continue \/ Fail
  BY <1>2, <1>4, UnsettledReaches
<1>5. CASE NeedFetch
  <2>1. CASE Skip(2)
    <3>1. Len(todo) >= 2 /\ todo[1][1] = "need_fetch"
      BY <1>1, <1>3, <1>5 DEF Handler, MayEnd, NeedFetch, Doing
    <3>2. Follows(todo[1], todo[2], process) /\ 2 \in 1 .. Len(todo)
      BY <1>1, <1>3, <3>1 DEF Handler
    <3>3. todo[2][1] = "commit_qc"
      BY <3>1, <3>2 DEF Follows
    <3>4. QED
      BY <1>1, <2>1, <3>2, <3>3, SkipsInOrder, UnsettledReaches
  <2>2. CASE \/ ContinueWith(InsertSingleQuorumCert(Arg))
             \/ ContinueWith(FetchQuorumCert(Arg, MissingBlocks(Arg)))
    BY <1>2, <2>2, PlainInsertions, PlainFetch, UnsettledReaches
  <2>3. QED
    BY <1>4, <1>5, <2>1, <2>2 DEF NeedFetch
<1>6. CASE GetBlock
  <2>1. CASE Skip(3)
    <3>1. todo[1][1] = "get_block"
      BY <1>6 DEF GetBlock, Doing
    <3>2. Len(todo) >= 2
      BY <1>1, <1>3, <3>1 DEF Handler, MayEnd
    <3>3. Follows(todo[1], todo[2], process)
      BY <1>1, <1>3, <3>2 DEF Handler
    <3>4. todo[2][1] = "save_block"
      BY <3>1, <3>3 DEF Follows
    <3>5. Len(todo) >= 3
      BY <1>1, <1>3, <3>2, <3>4 DEF Handler, MayEnd
    <3>6. Follows(todo[2], todo[3], process)
      BY <1>1, <1>3, <3>5 DEF Handler
    <3>7. 3 \in 1 .. Len(todo) /\ todo[3][1] = "tree_block"
      BY <1>3, <3>4, <3>5, <3>6 DEF Follows
    <3>8. QED
      BY <1>1, <2>1, <3>7, SkipsInOrder, UnsettledReaches
  <2>2. QED
    BY <1>4, <1>6, <2>1 DEF GetBlock
<1>7. CASE Fetch \/ TrySendNext \/ OwnOrderCert
  BY <1>2, <1>7, PlainFetch, PlainTrySends, PlainInsertions, UnsettledReaches
     DEF Fetch, TrySendNext, OwnOrderCert
<1>8. CASE CommitQC
  <2>1. CASE ContinueWith(<<<<"send", [block |-> commit_info[Arg], certified |-> Arg]>>>>)
    <3>1. PICK x : x = <<"send", [block |-> commit_info[Arg], certified |-> Arg]>>
      OBVIOUS
    <3>2. x[1] # "add_tc"
      BY <3>1
    <3>3. Plain(<<x>>) /\ ContinueWith(<<x>>)
      BY <2>1, <3>1, <3>2, PlainOne
    <3>4. QED
      BY <1>2, <3>3, UnsettledReaches
  <2>2. QED
    BY <1>4, <1>8, <2>1 DEF CommitQC
<1>9. CASE NeedSync
  <2>1. CASE ContinueWith(FastForwardSync(Arg))
    BY <1>2, <2>1, PlainInsertions, UnsettledReaches
  <2>2. QED
    BY <1>4, <1>9, <2>1 DEF NeedSync
<1>10. QED
  BY <1>4, <1>5, <1>6, <1>7, <1>8, <1>9
     DEF GetQCBlock, SaveQC, TreeQC, SaveBlock, TreeBlock, AddTC, Resume, SaveRange,
         AbortPipelines, SyncToTarget

\* The handlers, when they start.
LEMMA StartsReach ==
    ASSUME order_vote_enabled,
           \/ \E b \in Blocks \ {Genesis} : ProcessProposal(b)
           \/ \E b \in CertifiedBlocks : NewQC(b)
           \/ \E b \in OrderCertified : NewOrderedCert(b)
           \/ \E si \in SyncInfos : SyncUp(si) \/ RecoverySyncUp(si)
    PROVE  ReachInv'
<1>1. CASE \E b \in Blocks \ {Genesis} : ProcessProposal(b)
  BY <1>1, PlainInsertions, PlainIsUnsettled, UnsettledReaches DEF ProcessProposal
<1>2. CASE \E b \in CertifiedBlocks : NewQC(b)
  BY <1>2, PlainInsertions, PlainIsUnsettled, UnsettledReaches DEF NewQC
<1>3. CASE \E b \in OrderCertified : NewOrderedCert(b)
  <2>1. PICK b \in OrderCertified : NewOrderedCert(b)
    BY <1>3
  <2> DEFINE x == <<"order_cert", [block |-> b, certified |-> None]>>
             steps == IF b \in tree.qcs THEN <<>> ELSE InsertQuorumCert(b)
  <2>2. Plain(steps)
    BY PlainEmpty, PlainInsertions
  <2>3. Plain(<<x>>)
    BY PlainOne
  <2>4. todo' = steps \o <<x>>
    BY <2>1 DEF NewOrderedCert
  <2> HIDE DEF x, steps
  <2>5. QED
    BY <2>2, <2>3, <2>4, PlainConcat, PlainIsUnsettled, UnsettledReaches
<1>4. CASE \E si \in SyncInfos : SyncUp(si)
  BY <1>4, AddCertsInOrder, UnsettledReaches DEF SyncUp
<1>5. CASE \E si \in SyncInfos : RecoverySyncUp(si)
  <2>1. PICK si \in SyncInfos : RecoverySyncUp(si)
    BY <1>5
  <2> DEFINE s == <<<<"save_range", si>>, <<"sync", si>>, <<"exit", si>>>>
  <2>2. Plain(s)
    BY DEF Plain, ToSet
  <2>3. todo' = s
    BY <2>1 DEF RecoverySyncUp
  <2> HIDE DEF s
  <2>4. QED
    BY <2>2, <2>3, PlainIsUnsettled, UnsettledReaches
<1>6. QED
  BY <1>1, <1>2, <1>3, <1>4, <1>5

\* rebuild, the start of a process and the end of the recovery manager.
LEMMA RecoveryReaches ==
    ASSUME IInv, ReachInv, Rebuild \/ ExitRecovered \/ Restart \/ RestartToRecover
    PROVE  ReachInv'
<1>1. CASE Panic("recovery")
  <2>1. UNCHANGED <<todo, tree>>
    BY <1>1 DEF Panic
  <2>2. RoundOf[tree.ordered_root] \in Nat
    BY Rounds DEF IInv
  <2>3. QED
    BY <2>1, <2>2, ReachKept
<1>2. CASE todo' = <<>>
  BY <1>2, PlainEmpty, PlainIsUnsettled, UnsettledReaches
<1>3. CASE Rebuild /\ ContinueWith(TrySends)
  <2>1. /\ Handler(todo, process) /\ todo # <<>> /\ OrderedFirst(todo)
        /\ todo[1][1] = "rebuild"
    BY <1>3 DEF IInv, ReachInv, Rebuild, Doing
  <2>2. Plain(TrySends)
    BY PlainTrySends DEF TrySends
  <2>3. QED
    BY <1>3, <2>1, <2>2, GoesOnInOrder, UnsettledReaches
<1>4. CASE Restart
  BY <1>4, PlainTrySends, PlainIsUnsettled, UnsettledReaches DEF Restart, TrySends
<1>5. QED
  BY <1>1, <1>2, <1>3, <1>4 DEF Rebuild, ExitRecovered, RestartToRecover

\* commit_callback leaves the ordered root where it is.
LEMMA CallbackKeepsOrdered ==
    ASSUME IInv, NEW b \in Blocks, NEW stages, CommitCallback(b, stages)
    PROVE  tree'.ordered_root = tree.ordered_root
<1>1. CASE Panic("callback")
  BY <1>1 DEF Panic
<1>2. CASE \E ids \in find_blocks_to_prune(b) : CallbackDone(b, stages, ids)
  <2>1. PICK ids : CallbackDone(b, stages, ids)
    BY <1>2
  <2>2. PICK kept, ch, q, p, hcc, cr :
            tree' = [tree EXCEPT !.id_to_block = kept, !.children = ch, !.qcs = q,
                                 !.pruned = p, !.window_root = b,
                                 !.highest_commit_cert = hcc, !.commit_root = cr]
    BY <2>1, ZenonT(40) DEF CallbackDone
  <2>3. tree \in [id_to_block : SUBSET Blocks, children : [tree.id_to_block -> SUBSET Blocks],
             qcs : SUBSET Certified,
             ordered_root : Chain, commit_root : Blocks, window_root : Blocks,
             highest_certified : Certified, highest_ordered_cert : OrderingCert,
             highest_commit_cert : Blocks, highest_tc : Nat, pruned : Seq(Blocks)]
    BY DEF IInv, TypeOK
  <2>4. QED
    BY <2>2, <2>3
<1>3. CASE \E ids \in find_blocks_to_prune(b) : CallbackFails(b, ids)
  BY <1>3, Zenon DEF CallbackFails
<1>4. QED
  BY <1>1, <1>2, <1>3, CallbackCases, Zenon

\* The tasks of the pipeline, and a TC, while a handler is suspended.
LEMMA OthersReach ==
    ASSUME IInv, ReachInv,
           \/ UNCHANGED vars
           \/ \E b \in Blocks \ {Genesis} : PipelineStep(b)
           \/ NewTC \/ LatePostCommit
    PROVE  ReachInv'
<1>1. TypeOK /\ RoundOf[tree.ordered_root] \in Nat
  BY Rounds DEF IInv
<1>2. SUFFICES UNCHANGED todo /\ tree'.ordered_root = tree.ordered_root
  BY <1>1, ReachKept
<1>3. CASE UNCHANGED vars
  BY <1>3 DEF vars
<1>4. CASE NewTC
  <2>1. \/ UNCHANGED tree
        \/ tree' = [tree EXCEPT !.highest_tc = CurrentRound]
    BY <1>4 DEF NewTC, insert_2chain_timeout_certificate
  <2>2. tree'.ordered_root = tree.ordered_root
    BY <1>1, <2>1 DEF TypeOK
  <2>3. QED
    BY <1>4, <2>2 DEF NewTC
<1>5. CASE \E b \in Blocks \ {Genesis} : PipelineStep(b)
  <2>1. PICK b \in Blocks \ {Genesis} : PipelineStep(b)
    BY <1>5
  <2>2. CASE PreCommit(b) \/ CommitProof(b) \/ CommitLedger(b)
    BY <2>2 DEF PreCommit, CommitProof, CommitLedger
  <2>3. CASE PostCommit(b)
    <3>1. CASE commit_proof[b] # b
      BY <2>3, <3>1 DEF PostCommit
    <3>2. CASE commit_proof[b] = b
      <4>1. PICK stages : CommitCallback(b, stages)
        BY <2>3, <3>2, Zenon DEF PostCommit
      <4>2. UNCHANGED todo
        BY <2>3, <3>2 DEF PostCommit
      <4>3. QED
        BY <4>1, <4>2, CallbackKeepsOrdered
    <3>3. QED
      BY <3>1, <3>2
  <2>4. QED
    BY <2>1, <2>2, <2>3 DEF PipelineStep
<1>6. CASE LatePostCommit
  <2> DEFINE b == CHOOSE c \in late : \A d \in late : RoundOf[c] <= RoundOf[d]
  <2>1. late # {} /\ late \in SUBSET Blocks /\ CommitCallback(b, stage) /\ UNCHANGED todo
    BY <1>1, <1>6 DEF LatePostCommit, TypeOK
  <2>2. b \in Blocks
    BY <2>1, LeastRound
  <2> HIDE DEF b
  <2>3. QED
    BY <2>1, <2>2, CallbackKeepsOrdered
<1>7. QED
  BY <1>3, <1>4, <1>5, <1>6

LEMMA ReachStep ==
    ASSUME order_vote_enabled, IInv, ReachInv, [Next]_vars
    PROVE  ReachInv'
<1>1. CASE \/ \E b \in Blocks \ {Genesis} : ProcessProposal(b)
           \/ \E b \in CertifiedBlocks : NewQC(b)
           \/ \E b \in OrderCertified : NewOrderedCert(b)
           \/ \E si \in SyncInfos : SyncUp(si) \/ RecoverySyncUp(si)
  BY <1>1, StartsReach
<1>2. CASE \/ UNCHANGED vars
           \/ \E b \in Blocks \ {Genesis} : PipelineStep(b)
           \/ NewTC \/ LatePostCommit
  BY <1>2, OthersReach
<1>3. CASE Rebuild \/ ExitRecovered \/ Restart \/ RestartToRecover
  BY <1>3, RecoveryReaches
<1>4. CASE OrderCert \/ Send
  BY <1>4, OrderingReaches
<1>5. CASE \/ NeedFetch \/ Fetch \/ GetQCBlock \/ SaveQC \/ TreeQC
           \/ GetBlock \/ SaveBlock \/ TreeBlock
           \/ CommitQC \/ OwnOrderCert \/ TrySendNext \/ AddTC
           \/ NeedSync \/ Resume \/ SaveRange \/ AbortPipelines \/ SyncToTarget
  BY <1>5, HandlerReaches
<1>6. QED
  BY <1>1, <1>2, <1>3, <1>4, <1>5 DEF Next, Work, RoundManagerStep

\* With order votes: when add_certs comes to the TC of a SyncInfo, the node has
\* ordered the block of the peer's ordered certificate, whatever was fetched,
\* synced, pruned or rebuilt on the way.  Without order votes this is not so:
\* add_certs then takes the node's own ordered certificate for the peer's.
THEOREM SyncCatchesUp ==
    ASSUME order_vote_enabled
    PROVE  Spec => []SyncReachesPeer
<1>1. Init => ReachInv
  BY PlainEmpty, PlainIsUnsettled DEF Init, ReachInv, Unsettled
<1>2. IInv /\ ReachInv /\ [Next]_vars => ReachInv'
  BY ReachStep
<1>3. ReachInv => SyncReachesPeer
  BY DEF ReachInv, SyncReachesPeer, Doing
<1>4. QED
  BY <1>1, <1>2, <1>3, InductiveInvariant, PTL DEF Spec

=============================================================================
