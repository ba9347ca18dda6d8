----------------------------- MODULE Multicast -----------------------------
(***************************************************************************)
(* notification/fcm/fcm.go: SendMulticast over a list of tokens, one call  *)
(* of the service for each batch of at most MaxTokensPerBatch.  The        *)
(* service is external: it answers with an outcome for each token, or the  *)
(* call of a batch fails as a whole, and then earlier batches have been    *)
(* sent and the result so far is returned with the error.                  *)
(***************************************************************************)
EXTENDS Naturals, Sequences, FiniteSets

CONSTANTS
    Lists,            \* the token lists of callers: sequences, repeats allowed
    MaxTokensPerBatch \* 500 in the code

MulticastAssumption ==
    /\ MaxTokensPerBatch \in Nat \ {0}
    /\ \A list \in Lists : list \in Seq({list[i] : i \in DOMAIN list})

VARIABLES
    tokens,    \* the list
    from,      \* where the next batch begins
    phase,     \* "loop", "flight" or "returned"
    result,    \* MulticastResult
    err,       \* what SendMulticast returned beside it
    fate       \* history: what the service has answered for each position

vars == <<tokens, from, phase, result, err, fate>>

Positions == 1..Len(tokens)

(* chunkTokens: the batch that begins at i. *)
Batch(i) ==
    SubSeq(tokens, i, IF i + MaxTokensPerBatch - 1 > Len(tokens)
                      THEN Len(tokens) ELSE i + MaxTokensPerBatch - 1)

Init ==
    /\ tokens \in Lists
    /\ from = 1
    /\ phase = "loop"
    /\ result = [success |-> 0, failure |-> 0, errors |-> <<>>]
    /\ err = "none"
    /\ fate = [i \in Positions |-> "none"]

(* No tokens: an error and nothing sent. *)
Empty ==
    /\ phase = "loop"
    /\ tokens = <<>>
    /\ phase' = "returned"
    /\ err' = "error"
    /\ UNCHANGED <<tokens, from, result, fate>>

SendBatch ==
    /\ phase = "loop"
    /\ from \in Positions
    /\ phase' = "flight"
    /\ UNCHANGED <<tokens, from, result, err, fate>>

(* How many of S come up to i.                                             *)
Rank(i, S) == Cardinality({j \in S : j <= i})

(* Variant: the failed token is looked up in the list instead of its batch.*)
FailedOfList(batch, ok) ==
    LET bad == {i \in 1..Len(batch) : ~ok[i]}
    IN  [n \in 1..Cardinality(bad) |-> tokens[CHOOSE i \in bad : Rank(i, bad) = n]]

(* The TokenErrors of a response: the tokens of the batch that failed, in  *)
(* the order of the batch.                                                 *)
Failed(batch, ok) ==
    LET bad == {i \in 1..Len(batch) : ~ok[i]}
    IN  [n \in 1..Cardinality(bad) |-> batch[CHOOSE i \in bad : Rank(i, bad) = n]]

(* The service answers for each token; its counts are of its answers.      *)
Respond ==
    /\ phase = "flight"
    /\ LET batch == Batch(from)
       IN  \E ok \in [1..Len(batch) -> BOOLEAN] :
             LET good == Cardinality({i \in 1..Len(batch) : ok[i]})
             IN  /\ result' = [success |-> result.success + good,
                               failure |-> result.failure + Len(batch) - good,
                               errors  |-> result.errors \o Failed(batch, ok)]
                 /\ fate' = [i \in Positions |->
                       IF i \in from..(from + Len(batch) - 1)
                       THEN IF ok[i - from + 1] THEN "ok" ELSE "failed"
                       ELSE fate[i]]
                 /\ from' = from + MaxTokensPerBatch
    /\ phase' = "loop"
    /\ UNCHANGED <<tokens, err>>

(* Variant: the loop goes on with the next batch after an error.           *)
BatchSkipped ==
    /\ phase = "flight"
    /\ phase' = "loop"
    /\ from' = from + MaxTokensPerBatch
    /\ UNCHANGED <<tokens, result, err, fate>>

(* The call of the batch fails: the result so far, and the error.          *)
BatchFails ==
    /\ phase = "flight"
    /\ phase' = "returned"
    /\ err' = "error"
    /\ UNCHANGED <<tokens, from, result, fate>>

AllSent ==
    /\ phase = "loop"
    /\ tokens # <<>>
    /\ from \notin Positions
    /\ phase' = "returned"
    /\ err' = "nil"
    /\ UNCHANGED <<tokens, from, result, fate>>

Step == Empty \/ SendBatch \/ Respond \/ BatchFails \/ AllSent

Returned ==
    /\ phase = "returned"
    /\ UNCHANGED vars

Next == Step \/ Returned

Spec == Init /\ [][Next]_vars

FairSpec == Spec /\ WF_vars(Step)

----------------------------------------------------------------------------
(* Properties.                                                             *)

TypeOK ==
    /\ tokens \in Lists
    /\ from \in Nat \ {0}
    /\ phase \in {"loop", "flight", "returned"}
    /\ err \in {"none", "nil", "error"}
    /\ fate \in [Positions -> {"none", "ok", "failed"}]
    /\ result.success \in Nat /\ result.failure \in Nat

(* The positions of the list the service has answered f for.               *)
Fated(f) == {i \in Positions : fate[i] = f}

(* The result accounts for every answer of the service, to the right token *)
(* and in the order of the list, repeats and the last short batch          *)
(* included; without an error it accounts for the whole list.              *)
Accounted ==
    /\ result.success = Cardinality(Fated("ok"))
    /\ result.failure = Cardinality(Fated("failed"))
    /\ Len(result.errors) = result.failure
    /\ \A i \in Fated("failed") :
          result.errors[Rank(i, Fated("failed"))] = tokens[i]
    /\ err = "nil" => Fated("none") = {} /\ tokens # <<>>
=============================================================================
