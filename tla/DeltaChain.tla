----------------------------- MODULE DeltaChain -----------------------------
(***************************************************************************)
(* The data of the delta-only ceremony and the check of a whole chain of   *)
(* rounds (ceremony/src/lib.rs): proving keys, round records, their hash   *)
(* chain, and verify_chain.                                                *)
(*                                                                         *)
(* A group element is its discrete logarithm, and a logarithm a formal     *)
(* product of the secrets that went into it: a function from secrets to    *)
(* exponents.  A pairing check compares such products.  Nobody can take a  *)
(* secret of another's out of a product, so exponents are naturals; the    *)
(* two queries, which are divided by the secrets, are kept as the product  *)
(* they are divided by.  A hash is the term that was hashed.               *)
(***************************************************************************)
EXTENDS Integers, Sequences

CONSTANTS Secrets,     \* every delta_i that can be sampled
          FixedParts,  \* alpha, beta, gamma, A and B queries, gamma_abc
          Names,       \* participants, as their records name them
          Unreadable   \* a file that was truncated and not filled

Scalars == [Secrets -> Nat]

One == [s \in Secrets |-> 0]

\* The product of a scalar and one secret; the product of two scalars.
By(a, s) == [a EXCEPT ![s] = @ + 1]

Times(a, b) == [s \in Secrets |-> a[s] + b[s]]

HasSecret(a, s) == a[s] > 0

ProvingKey == [fixed : FixedParts, delta_g1 : Scalars, delta_g2 : Scalars,
               l_query : Scalars, h_query : Scalars]

\* A file that cannot be read is no key, and is not a transcript that is missing.
ASSUME FileAssumption == Unreadable \notin ProvingKey /\ Unreadable # <<>>

\* ceremony_init's key: delta is one.
GenesisKey(fixed) == [fixed |-> fixed, delta_g1 |-> One, delta_g2 |-> One,
                      l_query |-> One, h_query |-> One]

apply_delta_contribution(prev, s) ==
  [prev EXCEPT !.delta_g1 = By(@, s), !.delta_g2 = By(@, s),
               !.l_query = By(@, s), !.h_query = By(@, s)]

sha256(key) == <<"sha256", key>>

NoHash == <<>>

\* Mutant: the hash does not cover the previous record's.
record_hash_NoPrev(rec) ==
  <<"sha256", [rec EXCEPT !.prev_entry_hash = NoHash, !.entry_hash = NoHash]>>

\* The record's canonical JSON with its own hash blanked.
record_hash(rec) == <<"sha256", [rec EXCEPT !.entry_hash = NoHash]>>

Hashed(rec) == [rec EXCEPT !.entry_hash = record_hash(rec)]

\* The record of a round that publishes key and the pair (g1, g2).
RoundRecord(round, participant, key, g1, g2, prevHash) ==
  Hashed([round |-> round, participant |-> participant,
          contribution_g1 |-> g1, contribution_g2 |-> g2,
          new_delta_g1 |-> key.delta_g1, new_delta_g2 |-> key.delta_g2,
          params_sha256 |-> sha256(key),
          prev_entry_hash |-> prevHash, entry_hash |-> NoHash])
-----------------------------------------------------------------------------
\* e(g1, G2) = e(G1, g2)
check_contribution_well_formed(g1, g2) == g1 = g2

\* Mutant: the second pairing is not checked.
check_delta_ratio_OneSide(old, new, g1, g2) == new.delta_g1 = Times(old.delta_g1, g2)

check_delta_ratio(old, new, g1, g2) ==
  /\ new.delta_g1 = Times(old.delta_g1, g2)
  /\ Times(g1, old.delta_g2) = new.delta_g2

\* e(new query, new delta) = e(old query, old delta), with divided queries.
check_query_vector_invariant(oldQuery, oldDelta, newQuery, newDelta) ==
  Times(newDelta, oldQuery) = Times(oldDelta, newQuery)

\* Mutant: nothing is compared.
fixed_fields_match_Any(a, b) == TRUE

fixed_fields_match(a, b) == a.fixed = b.fixed

FollowsFrom(prev, key, rec) ==
  /\ fixed_fields_match(prev, key)
  /\ check_contribution_well_formed(rec.contribution_g1, rec.contribution_g2)
  /\ check_delta_ratio(prev, key, rec.contribution_g1, rec.contribution_g2)
  /\ check_query_vector_invariant(prev.l_query, prev.delta_g2, key.l_query, key.delta_g2)
  /\ check_query_vector_invariant(prev.h_query, prev.delta_g2, key.h_query, key.delta_g2)

\* files: the proving key, or Unreadable, of each round whose file exists.
verify_chain(rounds, files) ==
  /\ rounds # <<>>
  /\ \A i \in DOMAIN rounds :
       LET rec == rounds[i]
       IN /\ rec.round = i - 1
          /\ rec.prev_entry_hash = IF i = 1 THEN NoHash ELSE rounds[i - 1].entry_hash
          /\ rec.entry_hash = record_hash(rec)
          /\ rec.round \in DOMAIN files
          /\ files[rec.round] # Unreadable
          /\ rec.params_sha256 = sha256(files[rec.round])
          /\ IF i = 1 THEN /\ files[0].delta_g1 = One
                           /\ files[0].delta_g2 = One
                      ELSE FollowsFrom(files[i - 2], files[i - 1], rec)
-----------------------------------------------------------------------------
\* The product of all the contributions that the records publish.
Contributed(rounds) ==
  LET upTo[i \in 0..Len(rounds)] ==
        IF i = 0 THEN One
        ELSE IF i = 1 THEN One    \* round 0 contributes nothing
        ELSE Times(upTo[i - 1], rounds[i].contribution_g1)
  IN upTo[Len(rounds)]
=============================================================================
