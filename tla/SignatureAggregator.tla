-------------------------- MODULE SignatureAggregator --------------------------
(***************************************************************************)
(* The signatures collected for one ledger info (types/src/ledger_info.rs) *)
(* and the set of authors the verifier no longer trusts, which all the     *)
(* collectors of an epoch share.  A signature is looked at only when a     *)
(* quorum of them is aggregated.                                           *)
(***************************************************************************)
EXTENDS ValidatorVerifier, FiniteSets

CONSTANT None        \* Option::None

\* An epoch has validators, and None is not a set of them.
ASSUME AggregatorAssumption ==
    Validators # {} /\ \A S \in SUBSET Validators : S # None

VARIABLE pessimistic_verify_set  \* authors of invalid signatures (in the verifier)

\* The signature of an author, as optimistic_verify lets it through: anything,
\* unless the author has been caught before.
PassesOptimisticVerify(author, valid) ==
    author \in pessimistic_verify_set => valid

\* Per author "none", "valid" or "invalid".
Signatures == [Validators -> {"none", "valid", "invalid"}]

voters(signatures) == {v \in Validators : signatures[v] # "none"}
valid_voters(signatures) == {v \in Validators : signatures[v] = "valid"}
invalid_voters(signatures) == {v \in Validators : signatures[v] = "invalid"}

\* filter_invalid_signatures
only_valid(signatures) ==
    [v \in Validators |-> IF signatures[v] = "valid" THEN "valid" ELSE "none"]

\* Whether the aggregate of all signatures verifies: yes if each does, and
\* perhaps if the invalid ones were made to cancel out, which takes two.
MayVerify(signatures) ==
    IF invalid_voters(signatures) = {}
    THEN {TRUE}
    ELSE {FALSE, Cardinality(invalid_voters(signatures)) >= 2}

\* Mutant: the aggregate is not verified.
aggregate_and_verify_unchecked(signatures, verifies) ==
    [signers |-> voters(signatures), signatures |-> signatures, invalid |-> {}]

\* Mutant: a failed aggregate is not retried without the invalid ones.
aggregate_and_verify_no_filter(signatures, verifies) ==
    [signers |-> IF verifies THEN voters(signatures) ELSE None,
     signatures |-> signatures, invalid |-> {}]

\* aggregate_and_verify, called with a quorum of signatures: the signers of
\* the certificate, or None; the signatures kept; and the authors that are
\* verified one by one from now on.
aggregate_and_verify(signatures, verifies) ==
    IF verifies
    THEN [signers |-> voters(signatures), signatures |-> signatures, invalid |-> {}]
    ELSE [signers |-> IF check_voting_power(valid_voters(signatures), TRUE)
                      THEN valid_voters(signatures) ELSE None,
          signatures |-> only_valid(signatures),
          invalid |-> invalid_voters(signatures)]

=============================================================================
