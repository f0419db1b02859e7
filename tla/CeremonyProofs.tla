--------------------------- MODULE CeremonyProofs ----------------------------
(***************************************************************************)
(* The ceremony for any number of participants, outsiders, runs and        *)
(* rounds.  What a chain that verifies says of its final key is a fact of  *)
(* verify_chain alone, by induction along the chain, for whatever keys and *)
(* records lie in the directory.  What a remembered hash pins needs that   *)
(* every run announces a chain hashed link by link; what is lost by a      *)
(* crash needs to know which file every program is about to write.         *)
(***************************************************************************)
EXTENDS Ceremony, DataProofs, TLAPS

\* Multiplying by a secret is multiplying by the contribution that publishes it.
LEMMA ByIsTimes ==
  ASSUME NEW a \in Scalars, NEW s
  PROVE  /\ One \in Scalars /\ By(One, s) \in Scalars /\ By(a, s) \in Scalars
         /\ By(a, s) = Times(a, By(One, s))
         /\ By(a, s) = Times(By(One, s), a)
<1>1. One \in Scalars
  BY DEF One, Scalars
<1>2. ASSUME NEW b \in Scalars
      PROVE  /\ By(b, s) \in Scalars
             /\ \A x \in Secrets : By(b, s)[x] = IF x = s THEN b[x] + 1 ELSE b[x]
  <2>1. By(b, s) = [x \in Secrets |-> IF x = s THEN b[x] + 1 ELSE b[x]]
    <3>1. b = [x \in Secrets |-> b[x]]
      BY DEF Scalars
    <3>2. DOMAIN b = Secrets
      BY DEF Scalars
    <3> QED BY <3>1, <3>2 DEF By
  <2>2. \A x \in Secrets : b[x] \in Nat
    BY DEF Scalars
  <2>3. ASSUME NEW x \in Secrets PROVE (IF x = s THEN b[x] + 1 ELSE b[x]) \in Nat
    <3>1. b[x] \in Nat
      BY <2>2
    <3> QED BY <3>1
  <2> QED BY <2>1, <2>3 DEF Scalars
<1>3. \A x \in Secrets : One[x] = 0
  BY DEF One
<1>4. ASSUME NEW x \in Secrets
      PROVE  /\ By(a, s)[x] = a[x] + By(One, s)[x]
             /\ By(a, s)[x] = By(One, s)[x] + a[x]
  <2>1. /\ By(a, s)[x] = IF x = s THEN a[x] + 1 ELSE a[x]
        /\ By(One, s)[x] = IF x = s THEN 0 + 1 ELSE 0
    BY <1>1, <1>2, <1>3
  <2>2. a[x] \in Nat
    BY DEF Scalars
  <2> QED BY <2>1, <2>2
<1>5. By(a, s) = [x \in Secrets |-> By(a, s)[x]]
  BY <1>2 DEF Scalars
<1> QED BY <1>1, <1>2, <1>4, <1>5 DEF Times

\* Products of scalars are scalars and obey the laws the pairing checks rest on.
LEMMA TimesLaws ==
  ASSUME NEW a \in Scalars, NEW b \in Scalars, NEW c \in Scalars
  PROVE  /\ Times(a, b) \in Scalars
         /\ Times(a, b) = Times(b, a)
         /\ Times(Times(a, b), c) = Times(a, Times(b, c))
         /\ Times(a, One) = a
         /\ Times(a, b) = Times(a, c) => b = c
<1>1. \A x \in Secrets : a[x] \in Nat /\ b[x] \in Nat /\ c[x] \in Nat
  BY DEF Scalars
<1>2. Times(a, b) \in Scalars /\ Times(a, b) = Times(b, a)
  BY <1>1 DEF Times, Scalars
<1>3. Times(Times(a, b), c) = Times(a, Times(b, c))
  BY <1>1 DEF Times
<1>4. Times(a, One) = a
  BY <1>1 DEF Times, One, Scalars
<1>5. ASSUME Times(a, b) = Times(a, c) PROVE b = c
  <2>1. \A x \in Secrets : a[x] + b[x] = a[x] + c[x]
    BY <1>5 DEF Times
  <2>2. ASSUME NEW x \in Secrets PROVE b[x] = c[x]
    <3>1. a[x] + b[x] = a[x] + c[x] /\ a[x] \in Nat /\ b[x] \in Nat /\ c[x] \in Nat
      BY <1>1, <2>1
    <3> QED BY <3>1
  <2> QED BY <2>2 DEF Scalars
<1> QED BY <1>2, <1>3, <1>4, <1>5
\* What check_query_vector_invariant forces of a query.
LEMMA QueryRotates ==
  ASSUME NEW a \in Scalars, NEW c \in Scalars, NEW q0 \in Scalars, NEW q \in Scalars,
         Times(Times(a, c), Times(q0, a)) = Times(a, q)
  PROVE  q = Times(q0, Times(a, c))
<1>1. ASSUME NEW x \in Secrets
      PROVE  q[x] = q0[x] + (a[x] + c[x])
  <2>1. (a[x] + c[x]) + (q0[x] + a[x]) = a[x] + q[x]
    BY DEF Times
  <2>2. a[x] \in Nat /\ c[x] \in Nat /\ q0[x] \in Nat /\ q[x] \in Nat
    BY DEF Scalars
  <2> QED BY <2>1, <2>2
<1>2. q = [x \in Secrets |-> q[x]]
  BY DEF Scalars
<1> QED BY <1>1, <1>2 DEF Times
-----------------------------------------------------------------------------
\* Records and transcripts.  The hashes in a record are terms over the record
\* before it, so a record's type says only which fields it has.
IsEntry(rec) ==
  /\ rec = [round |-> rec.round, participant |-> rec.participant,
            contribution_g1 |-> rec.contribution_g1, contribution_g2 |-> rec.contribution_g2,
            new_delta_g1 |-> rec.new_delta_g1, new_delta_g2 |-> rec.new_delta_g2,
            params_sha256 |-> rec.params_sha256,
            prev_entry_hash |-> rec.prev_entry_hash, entry_hash |-> rec.entry_hash]
  /\ rec.contribution_g1 \in Scalars
  /\ rec.contribution_g2 \in Scalars

IsTranscript(rounds) ==
  /\ \E S : rounds \in Seq(S)
  /\ \A i \in DOMAIN rounds : IsEntry(rounds[i])

\* An entry in which a field other than the contribution is changed is an entry.
LEMMA ChangedEntryIs ==
  ASSUME NEW rec, IsEntry(rec), NEW value
  PROVE  /\ IsEntry([rec EXCEPT !.participant = value])
         /\ IsEntry([rec EXCEPT !.new_delta_g1 = value])
         /\ IsEntry([rec EXCEPT !.prev_entry_hash = value])
         /\ IsEntry([rec EXCEPT !.entry_hash = value])
         /\ IsEntry(Hashed(rec))
<1> DEFINE shape(a, b, c, d) ==
      [round |-> rec.round, participant |-> a,
       contribution_g1 |-> rec.contribution_g1, contribution_g2 |-> rec.contribution_g2,
       new_delta_g1 |-> b, new_delta_g2 |-> rec.new_delta_g2,
       params_sha256 |-> rec.params_sha256,
       prev_entry_hash |-> c, entry_hash |-> d]
<1>1. \A a, b, c, d : IsEntry(shape(a, b, c, d))
  BY DEF IsEntry
<1>2. rec = shape(rec.participant, rec.new_delta_g1, rec.prev_entry_hash, rec.entry_hash)
  BY DEF IsEntry
<1>3. /\ [rec EXCEPT !.participant = value]
           = shape(value, rec.new_delta_g1, rec.prev_entry_hash, rec.entry_hash)
      /\ [rec EXCEPT !.new_delta_g1 = value]
           = shape(rec.participant, value, rec.prev_entry_hash, rec.entry_hash)
      /\ [rec EXCEPT !.prev_entry_hash = value]
           = shape(rec.participant, rec.new_delta_g1, value, rec.entry_hash)
      /\ \A d : [rec EXCEPT !.entry_hash = d]
           = shape(rec.participant, rec.new_delta_g1, rec.prev_entry_hash, d)
  BY <1>2
<1> HIDE DEF shape
<1> QED BY <1>1, <1>3 DEF Hashed

\* What RoundRecord writes.
LEMMA RecordIs ==
  ASSUME NEW round, NEW participant, NEW key, NEW g1 \in Scalars, NEW g2 \in Scalars,
         NEW prevHash
  PROVE  LET rec == RoundRecord(round, participant, key, g1, g2, prevHash)
         IN /\ IsEntry(rec)
            /\ rec.round = round
            /\ rec.contribution_g1 = g1 /\ rec.contribution_g2 = g2
            /\ rec.params_sha256 = sha256(key)
            /\ rec.prev_entry_hash = prevHash
            /\ rec.entry_hash = record_hash(rec)
<1> DEFINE bare == [round |-> round, participant |-> participant,
                    contribution_g1 |-> g1, contribution_g2 |-> g2,
                    new_delta_g1 |-> key.delta_g1, new_delta_g2 |-> key.delta_g2,
                    params_sha256 |-> sha256(key),
                    prev_entry_hash |-> prevHash, entry_hash |-> NoHash]
           rec == [bare EXCEPT !.entry_hash = record_hash(bare)]
<1>1. RoundRecord(round, participant, key, g1, g2, prevHash) = rec
  BY DEF RoundRecord, Hashed
<1>2. record_hash(rec) = record_hash(bare)
  <2>1. [rec EXCEPT !.entry_hash = NoHash] = [bare EXCEPT !.entry_hash = NoHash]
    OBVIOUS
  <2> QED BY <2>1 DEF record_hash
<1>3. rec.entry_hash = record_hash(bare)
  OBVIOUS
<1>4. IsEntry(rec)
  BY DEF IsEntry
<1> QED BY <1>1, <1>2, <1>3, <1>4

\* A transcript with one more record.
LEMMA AppendIs ==
  ASSUME NEW rounds, IsTranscript(rounds), NEW rec, IsEntry(rec)
  PROVE  /\ IsTranscript(Append(rounds, rec))
         /\ Append(rounds, rec) # <<>>
         /\ Len(rounds) \in Nat
         /\ DOMAIN rounds = 1..Len(rounds)
         /\ Len(Append(rounds, rec)) = Len(rounds) + 1
         /\ DOMAIN Append(rounds, rec) = 1..(Len(rounds) + 1)
         /\ \A i \in DOMAIN rounds : Append(rounds, rec)[i] = rounds[i]
         /\ Append(rounds, rec)[Len(rounds) + 1] = rec
         /\ IsPrefix(rounds, Append(rounds, rec))
<1>1. PICK S : rounds \in Seq(S)
  BY DEF IsTranscript
<1>2. rounds \in Seq(S \cup {rec}) /\ rec \in S \cup {rec}
  BY <1>1
<1>3. Append(rounds, rec) \in Seq(S \cup {rec})
  BY <1>2
<1>4. /\ Append(rounds, rec) # <<>>
      /\ Len(rounds) \in Nat
      /\ DOMAIN rounds = 1..Len(rounds)
      /\ Len(Append(rounds, rec)) = Len(rounds) + 1
      /\ DOMAIN Append(rounds, rec) = 1..(Len(rounds) + 1)
      /\ \A i \in DOMAIN rounds : Append(rounds, rec)[i] = rounds[i]
      /\ Append(rounds, rec)[Len(rounds) + 1] = rec
  BY <1>2
<1>5. IsTranscript(Append(rounds, rec))
  <2>1. \A i \in 1..(Len(rounds) + 1) : IsEntry(Append(rounds, rec)[i])
    <3>1. \A i \in 1..Len(rounds) : IsEntry(rounds[i])
      BY <1>4 DEF IsTranscript
    <3> QED BY <1>4, <3>1
  <2> QED BY <1>3, <1>4, <2>1 DEF IsTranscript
<1>6. IsPrefix(rounds, Append(rounds, rec))
  BY <1>2 DEF IsPrefix
<1> QED BY <1>4, <1>5, <1>6

\* A transcript that is not empty has a last record.
LEMMA LastIs ==
  ASSUME NEW rounds, IsTranscript(rounds), rounds # <<>>
  PROVE  /\ Len(rounds) \in Nat \ {0}
         /\ DOMAIN rounds = 1..Len(rounds)
         /\ Len(rounds) \in DOMAIN rounds
         /\ Last(rounds) = rounds[Len(rounds)]
         /\ IsEntry(Last(rounds))
<1>1. PICK S : rounds \in Seq(S)
  BY DEF IsTranscript
<1>2. Len(rounds) \in Nat \ {0} /\ DOMAIN rounds = 1..Len(rounds)
  BY <1>1
<1>3. Len(rounds) \in DOMAIN rounds
  BY <1>2
<1> QED BY <1>2, <1>3 DEF Last, IsTranscript
-----------------------------------------------------------------------------
\* The product of the contributions, round by round.
Product(g, rounds) ==
  /\ g \in [0..Len(rounds) -> Scalars]
  /\ g[1] = One
  /\ \A i \in 2..Len(rounds) : g[i] = Times(g[i - 1], rounds[i].contribution_g1)

\* What ceremony_verify multiplies up is that product.
LEMMA ContributedIs ==
  ASSUME NEW rounds, IsTranscript(rounds), rounds # <<>>
  PROVE  \E g : Product(g, rounds) /\ Contributed(rounds) = g[Len(rounds)]
<1> DEFINE d == Len(rounds)
           Step(g, i) == IF i = 0 THEN One
                         ELSE IF i = 1 THEN One
                         ELSE Times(g[i - 1], rounds[i].contribution_g1)
           step == [m \in 1..d |-> [a \in Scalars |->
                      IF m = 1 THEN One ELSE Times(a, rounds[m].contribution_g1)]]
           upTo == CHOOSE g : g = [i \in 0..d |-> Step(g, i)]
<1>1. /\ d \in Nat \ {0} /\ One \in Scalars
      /\ \A i \in 1..d : rounds[i].contribution_g1 \in Scalars
  BY LastIs, ByIsTimes DEF IsTranscript, IsEntry, One, Scalars
<1>2. \E g : g = [i \in 0..d |-> Step(g, i)]
  <2>1. step \in StepMaps(d, Scalars)
    <3>1. ASSUME NEW m \in 1..d, NEW a \in Scalars
          PROVE  (IF m = 1 THEN One ELSE Times(a, rounds[m].contribution_g1)) \in Scalars
      BY <1>1, TimesLaws
    <3> QED BY <3>1 DEF StepMaps
  <2>2. PICK g : IsRecursion(g, d, Scalars, One, step)
    <3> HIDE DEF step
    <3> QED BY <1>1, <2>1, Recursion
  <2>3. /\ g \in [0..d -> Scalars]
        /\ g[0] = One
        /\ \A m \in 1..d : g[m] = step[m][g[m - 1]]
    BY <2>2 DEF IsRecursion
  <2>4. ASSUME NEW i \in 0..d
        PROVE  g[i] = Step(g, i)
    <3>1. CASE i = 0
      BY <2>3, <3>1
    <3>2. CASE i # 0
      <4>1. i \in 1..d /\ g[i - 1] \in Scalars
        BY <1>1, <2>3, <3>2
      <4> QED BY <2>3, <3>2, <4>1
    <3> QED BY <3>1, <3>2
  <2>5. g = [i \in 0..d |-> Step(g, i)]
    BY <2>3, <2>4
  <2> QED BY <2>5
<1>3. upTo = [i \in 0..d |-> Step(upTo, i)]
  BY <1>2
<1>4. Contributed(rounds) = upTo[d]
  BY DEF Contributed
<1> HIDE DEF upTo
<1>5. ASSUME NEW i \in 0..d
      PROVE  upTo[i] = Step(upTo, i)
  BY <1>3
<1>6. 0..d \subseteq {i \in 0..d : upTo[i] \in Scalars}
  <2> DEFINE S == {i \in 0..d : upTo[i] \in Scalars}
  <2>1. 0 \in S
    BY <1>1, <1>5
  <2>2. ASSUME NEW n \in 0..(d - 1), n \in S
        PROVE  n + 1 \in S
    <3>1. n + 1 \in 1..d /\ n + 1 \in 0..d /\ (n + 1) - 1 = n
      BY <1>1
    <3>2. upTo[n + 1] = IF n + 1 = 1 THEN One
                        ELSE Times(upTo[n], rounds[n + 1].contribution_g1)
      BY <1>5, <3>1
    <3> QED BY <1>1, <2>2, <3>1, <3>2, TimesLaws
  <2> HIDE DEF S
  <2>3. 0..d \subseteq S
    BY <1>1, <2>1, <2>2, BoundedInduction
  <2> QED BY <2>3 DEF S
<1>7. Product(upTo, rounds)
  <2>1. upTo \in [0..d -> Scalars]
    BY <1>3, <1>6
  <2>2. upTo[1] = One
    BY <1>1, <1>5
  <2>3. \A i \in 2..d : upTo[i] = Times(upTo[i - 1], rounds[i].contribution_g1)
    BY <1>1, <1>5
  <2> QED BY <2>1, <2>2, <2>3 DEF Product
<1> QED BY <1>4, <1>7

\* The keys that the directory holds.
KeysOnDisk(dir) == \A r \in DOMAIN dir : dir[r] \in ProvingKey \cup {Unreadable}

\* What verify_chain checks of the key of each round, without the records.
LEMMA ChainKeys ==
  ASSUME NEW rounds, IsTranscript(rounds), NEW dir, KeysOnDisk(dir), verify_chain(rounds, dir)
  PROVE  /\ Len(rounds) \in Nat \ {0}
         /\ Last(rounds).round = Len(rounds) - 1
         /\ \A i \in 1..Len(rounds) :
              /\ rounds[i].round = i - 1
              /\ i - 1 \in DOMAIN dir
              /\ dir[i - 1] \in ProvingKey
              /\ rounds[i].params_sha256 = sha256(dir[i - 1])
              /\ rounds[i].contribution_g1 \in Scalars
         /\ dir[0].delta_g1 = One /\ dir[0].delta_g2 = One
         /\ \A i \in 2..Len(rounds) :
              FollowsFrom(dir[i - 2], dir[i - 1], rounds[i])
<1>1. rounds # <<>>
  BY DEF verify_chain
<1>2. /\ Len(rounds) \in Nat \ {0} /\ DOMAIN rounds = 1..Len(rounds)
      /\ Last(rounds) = rounds[Len(rounds)]
  BY <1>1, LastIs
<1>3. ASSUME NEW i \in 1..Len(rounds)
      PROVE  /\ rounds[i].round = i - 1
             /\ i - 1 \in DOMAIN dir
             /\ dir[i - 1] \in ProvingKey
             /\ rounds[i].params_sha256 = sha256(dir[i - 1])
             /\ rounds[i].contribution_g1 \in Scalars
  BY <1>2 DEF verify_chain, KeysOnDisk, IsTranscript, IsEntry
<1>4. dir[0].delta_g1 = One /\ dir[0].delta_g2 = One
  <2>1. 1 \in DOMAIN rounds
    BY <1>2
  <2> QED BY <2>1 DEF verify_chain
<1>5. ASSUME NEW i \in 2..Len(rounds)
      PROVE  FollowsFrom(dir[i - 2], dir[i - 1], rounds[i])
  <2>1. i \in DOMAIN rounds /\ i # 1
    BY <1>2
  <2> QED BY <2>1 DEF verify_chain
<1>6. Last(rounds).round = Len(rounds) - 1
  BY <1>2, <1>3
<1> QED BY <1>2, <1>3, <1>4, <1>5, <1>6

\* Each key of a chain that verifies is round 0's, rotated by the product so far.
LEMMA ChainIsProduct ==
  ASSUME NEW rounds, IsTranscript(rounds), NEW dir, KeysOnDisk(dir), verify_chain(rounds, dir),
         NEW g, Product(g, rounds)
  PROVE  \A i \in 1..Len(rounds) :
           dir[i - 1] = [fixed |-> dir[0].fixed,
                         delta_g1 |-> g[i], delta_g2 |-> g[i],
                         l_query |-> Times(dir[0].l_query, g[i]),
                         h_query |-> Times(dir[0].h_query, g[i])]
<1> DEFINE Rotated(a) == [fixed |-> dir[0].fixed, delta_g1 |-> a, delta_g2 |-> a,
                          l_query |-> Times(dir[0].l_query, a),
                          h_query |-> Times(dir[0].h_query, a)]
           d == Len(rounds)
           S == {n \in 0..(d - 1) : dir[n] = Rotated(g[n + 1])}
<1>1. /\ d \in Nat \ {0}
      /\ \A i \in 1..d : dir[i - 1] \in ProvingKey /\ rounds[i].contribution_g1 \in Scalars
      /\ dir[0].delta_g1 = One /\ dir[0].delta_g2 = One
      /\ \A i \in 2..d : FollowsFrom(dir[i - 2], dir[i - 1], rounds[i])
  BY ChainKeys
<1>2. \A n \in 0..(d - 1) : dir[n] \in ProvingKey
  <2>1. ASSUME NEW n \in 0..(d - 1) PROVE dir[n] \in ProvingKey
    <3>1. n + 1 \in 1..d /\ (n + 1) - 1 = n
      BY <1>1
    <3> QED BY <1>1, <3>1
  <2> QED BY <2>1
<1>3. \A k \in ProvingKey :
        /\ k.l_query \in Scalars /\ k.h_query \in Scalars
        /\ k.delta_g1 \in Scalars /\ k.delta_g2 \in Scalars
        /\ k = [fixed |-> k.fixed, delta_g1 |-> k.delta_g1, delta_g2 |-> k.delta_g2,
                l_query |-> k.l_query, h_query |-> k.h_query]
  BY DEF ProvingKey
<1>4. \A i \in 0..d : g[i] \in Scalars
  BY DEF Product
<1>5. 0 \in S
  <2>1. dir[0] \in ProvingKey /\ 0 \in 0..(d - 1)
    BY <1>1, <1>2
  <2>2. g[1] = One
    BY DEF Product
  <2>3. Times(dir[0].l_query, One) = dir[0].l_query /\ Times(dir[0].h_query, One) = dir[0].h_query
    BY <1>3, <2>1, TimesLaws
  <2> QED BY <1>1, <1>3, <2>1, <2>2, <2>3
<1>6. ASSUME NEW n \in 0..((d - 1) - 1), n \in S
      PROVE  n + 1 \in S
  <2> DEFINE c == rounds[n + 2].contribution_g1
             old == dir[n]
             new == dir[n + 1]
  <2>1. /\ n + 2 \in 2..d /\ n + 2 \in 1..d /\ n + 1 \in 0..(d - 1) /\ n \in 0..(d - 1)
        /\ n + 1 \in 0..d /\ 0 \in 0..(d - 1)
        /\ (n + 2) - 2 = n /\ (n + 2) - 1 = n + 1 /\ (n + 1) + 1 = n + 2
    BY <1>1
  <2>2. FollowsFrom(old, new, rounds[n + 2])
    BY <1>1, <2>1
  <2>3. c \in Scalars /\ g[n + 1] \in Scalars /\ g[n + 2] = Times(g[n + 1], c)
    BY <1>1, <1>4, <2>1 DEF Product
  <2>4. old = Rotated(g[n + 1]) /\ old \in ProvingKey /\ new \in ProvingKey
        /\ dir[0] \in ProvingKey
    BY <1>2, <1>6, <2>1
  <2>5. new.fixed = dir[0].fixed
    BY <2>2, <2>4 DEF FollowsFrom, fixed_fields_match
  <2>6. new.delta_g1 = g[n + 2] /\ new.delta_g2 = g[n + 2]
    <3>1. rounds[n + 2].contribution_g2 = c
      BY <2>2 DEF FollowsFrom, check_contribution_well_formed
    <3>2. new.delta_g1 = Times(g[n + 1], c) /\ new.delta_g2 = Times(c, g[n + 1])
      BY <2>2, <2>4, <3>1 DEF FollowsFrom, check_delta_ratio
    <3> QED BY <2>3, <3>2, TimesLaws
  <2>7. ASSUME NEW q0 \in Scalars, NEW q \in Scalars,
               Times(new.delta_g2, Times(q0, g[n + 1])) = Times(old.delta_g2, q)
        PROVE  q = Times(q0, g[n + 2])
    <3>1. Times(Times(g[n + 1], c), Times(q0, g[n + 1])) = Times(g[n + 1], q)
      BY <2>3, <2>4, <2>6, <2>7
    <3> QED BY <2>3, <3>1, QueryRotates
  <2>8. new.l_query = Times(dir[0].l_query, g[n + 2])
    <3>1. Times(new.delta_g2, old.l_query) = Times(old.delta_g2, new.l_query)
      BY <2>2 DEF FollowsFrom, check_query_vector_invariant
    <3>2. old.l_query = Times(dir[0].l_query, g[n + 1])
      BY <2>4
    <3> QED BY <1>3, <2>4, <2>7, <3>1, <3>2
  <2>9. new.h_query = Times(dir[0].h_query, g[n + 2])
    <3>1. Times(new.delta_g2, old.h_query) = Times(old.delta_g2, new.h_query)
      BY <2>2 DEF FollowsFrom, check_query_vector_invariant
    <3>2. old.h_query = Times(dir[0].h_query, g[n + 1])
      BY <2>4
    <3> QED BY <1>3, <2>4, <2>7, <3>1, <3>2
  <2>10. new = Rotated(g[n + 2])
    BY <1>3, <2>4, <2>5, <2>6, <2>8, <2>9
  <2> QED BY <2>1, <2>10
<1>7. 0..(d - 1) \subseteq S
  <2> HIDE DEF S
  <2>1. d - 1 \in Nat
    BY <1>1
  <2> QED BY <1>5, <1>6, <2>1, BoundedInduction
<1>8. ASSUME NEW i \in 1..d
      PROVE  dir[i - 1] = Rotated(g[i])
  <2>1. i - 1 \in 0..(d - 1) /\ (i - 1) + 1 = i
    BY <1>1
  <2> QED BY <1>7, <2>1
<1> QED BY <1>8

\* Every factor of the product is in it.
LEMMA FactorStays ==
  ASSUME NEW rounds, IsTranscript(rounds), rounds # <<>>, NEW g, Product(g, rounds),
         NEW i \in 2..Len(rounds), NEW s \in Secrets,
         HasSecret(rounds[i].contribution_g1, s)
  PROVE  HasSecret(g[Len(rounds)], s)
<1> DEFINE d == Len(rounds)
           S == {n \in 0..(d - i) : g[i + n][s] > 0}
<1>0. d \in Nat \ {0}
  BY LastIs
<1>1. /\ \A j \in 0..d : g[j] \in Scalars
      /\ \A j \in 1..d : rounds[j].contribution_g1 \in Scalars
      /\ \A j \in 2..d : g[j] = Times(g[j - 1], rounds[j].contribution_g1)
  BY LastIs DEF Product, IsTranscript, IsEntry
<1>2. ASSUME NEW j \in 2..d
      PROVE  /\ g[j][s] = g[j - 1][s] + rounds[j].contribution_g1[s]
             /\ g[j - 1][s] \in Nat
             /\ rounds[j].contribution_g1[s] \in Nat
  <2>1. j - 1 \in 0..d /\ j \in 1..d
    BY <1>0
  <2>2. g[j - 1] \in Scalars /\ rounds[j].contribution_g1 \in Scalars
    BY <1>1, <2>1
  <2> QED BY <1>1, <2>2 DEF Times, Scalars
<1>3. 0 \in S
  <2>1. i + 0 = i /\ 0 \in 0..(d - i) /\ i \in 2..d
    BY <1>0
  <2>2. rounds[i].contribution_g1[s] > 0
    BY DEF HasSecret
  <2>3. /\ g[i][s] = g[i - 1][s] + rounds[i].contribution_g1[s]
        /\ g[i - 1][s] \in Nat
        /\ rounds[i].contribution_g1[s] \in Nat
    BY <1>2, <2>1
  <2>4. g[i + 0][s] > 0
    BY <2>1, <2>2, <2>3
  <2> QED BY <2>1, <2>4
<1>4. ASSUME NEW n \in 0..((d - i) - 1), n \in S
      PROVE  n + 1 \in S
  <2>1. i + (n + 1) \in 2..d /\ (i + (n + 1)) - 1 = i + n /\ n + 1 \in 0..(d - i)
    BY <1>0
  <2>2. g[i + n][s] > 0
    BY <1>4
  <2> QED BY <1>2, <2>1, <2>2
<1>5. d - i \in Nat /\ d - i \in 0..(d - i) /\ i + (d - i) = d
  BY <1>0
<1>6. 0..(d - i) \subseteq S
  <2> HIDE DEF S
  <2> QED BY <1>3, <1>4, <1>5, BoundedInduction
<1>7. g[i + (d - i)][s] > 0
  BY <1>5, <1>6
<1> QED BY <1>5, <1>7 DEF HasSecret
-----------------------------------------------------------------------------
\* What the directory and the programs hold, whoever wrote what when.  A chain
\* of records that its own hashes hold together, and the key it ends in:
Chained(rounds) ==
  /\ rounds # <<>>
  /\ \A i \in DOMAIN rounds :
       /\ rounds[i].round = i - 1
       /\ rounds[i].prev_entry_hash = IF i = 1 THEN NoHash ELSE rounds[i - 1].entry_hash
       /\ rounds[i].entry_hash = record_hash(rounds[i])

EndsIn(rounds, key) ==
  /\ IsTranscript(rounds)
  /\ Chained(rounds)
  /\ key \in ProvingKey
  /\ Last(rounds).params_sha256 = sha256(key)

\* A program that has read a transcript, or has yet to write one.
Reads(r, present) ==
  /\ r = [pc |-> r.pc, rounds |-> r.rounds]
  /\ r.pc \in {"loaded", "verified"}
  /\ IsTranscript(r.rounds)
  /\ r.rounds # <<>>
  /\ r.pc = "verified" => Chained(r.rounds) /\ Last(r.rounds).round \in present

Writes(r) ==
  /\ r = [pc |-> r.pc, key |-> r.key, rounds |-> r.rounds]
  /\ r.pc \in {"openKey", "fillKey", "openTranscript", "fillTranscript"}
  /\ EndsIn(r.rounds, r.key)

RunsOK ==
  /\ DOMAIN run = Runners
  /\ \A p \in Runners : \/ run[p] = Idle
                        \/ Reads(run[p], DOMAIN files)
                        \/ Writes(run[p])

TypesOK ==
  /\ KeysOnDisk(files)
  /\ Readable => IsTranscript(transcript)
  /\ runs \in [Runners \cup Outsiders -> Nat]
  /\ \A a \in announced : EndsIn(a.rounds, a.key)

WellMade == TypesOK /\ RunsOK

\* The empty directory, and a genesis key, are well made.
LEMMA InitWellMade == Init => WellMade
  BY DEF Init, WellMade, TypesOK, RunsOK, KeysOnDisk, IsTranscript

\* The key that ceremony_init draws is a key.
LEMMA GenesisKeyIsKey ==
  ASSUME NEW fixed \in FixedParts
  PROVE  GenesisKey(fixed) \in ProvingKey
  BY DEF GenesisKey, ProvingKey, One, Scalars

\* A contribution makes a key of a key.
LEMMA ContributionIsKey ==
  ASSUME NEW prev \in ProvingKey, NEW s
  PROVE  apply_delta_contribution(prev, s) \in ProvingKey
<1>1. /\ By(prev.delta_g1, s) \in Scalars /\ By(prev.delta_g2, s) \in Scalars
      /\ By(prev.l_query, s) \in Scalars /\ By(prev.h_query, s) \in Scalars
  <2>1. /\ prev.delta_g1 \in Scalars /\ prev.delta_g2 \in Scalars
        /\ prev.l_query \in Scalars /\ prev.h_query \in Scalars
    BY DEF ProvingKey
  <2> QED BY <2>1, ByIsTimes
<1> QED BY <1>1 DEF apply_delta_contribution, ProvingKey

\* One file is written, the others stay.
LEMMA PutFileIs ==
  ASSUME NEW round, NEW content, PutFile(round, content)
  PROVE  /\ DOMAIN files' = DOMAIN files \cup {round}
         /\ files'[round] = content
         /\ \A r \in DOMAIN files \ {round} : files'[r] = files[r]
         /\ KeysOnDisk(files) /\ content \in ProvingKey \cup {Unreadable} => KeysOnDisk(files')
  BY DEF PutFile, KeysOnDisk

\* A step of one program leaves the others as they were.
LEMMA OneRunMoves ==
  ASSUME RunsOK, NEW p \in Runners, NEW r, run' = [run EXCEPT ![p] = r],
         DOMAIN files \subseteq DOMAIN files',
         r = Idle \/ Reads(r, DOMAIN files') \/ Writes(r)
  PROVE  RunsOK'
<1>1. DOMAIN run' = Runners
  BY DEF RunsOK
<1>2. ASSUME NEW q \in Runners
      PROVE  run'[q] = Idle \/ Reads(run'[q], DOMAIN files') \/ Writes(run'[q])
  <2>1. CASE q = p
    <3>1. run'[q] = r
      BY <2>1 DEF RunsOK
    <3> QED BY <3>1
  <2>2. CASE q # p
    <3>1. run'[q] = run[q]
      BY <2>2 DEF RunsOK
    <3>2. Reads(run[q], DOMAIN files) => Reads(run[q], DOMAIN files')
      BY DEF Reads
    <3> QED BY <3>1, <3>2 DEF RunsOK
  <2> QED BY <2>1, <2>2
<1> QED BY <1>1, <1>2 DEF RunsOK

\* A chain that verifies is held together by its hashes.
LEMMA VerifiedIsChained ==
  ASSUME NEW rounds, NEW dir, IsTranscript(rounds), verify_chain(rounds, dir)
  PROVE  Chained(rounds) /\ Last(rounds).round \in DOMAIN dir
<1>1. rounds # <<>>
  BY DEF verify_chain
<1>2. Len(rounds) \in DOMAIN rounds /\ Last(rounds) = rounds[Len(rounds)]
  BY <1>1, LastIs
<1>3. Last(rounds).round \in DOMAIN dir
  BY <1>2 DEF verify_chain
<1> QED BY <1>1, <1>3 DEF verify_chain, Chained

\* What ceremony_init is going to write.
LEMMA FirstRound ==
  ASSUME NEW key \in ProvingKey, NEW participant
  PROVE  EndsIn(<<RoundRecord(0, participant, key, One, One, NoHash)>>, key)
<1> DEFINE rec == RoundRecord(0, participant, key, One, One, NoHash)
<1>1. One \in Scalars
  BY DEF One, Scalars
<1>2. /\ IsEntry(rec) /\ rec.round = 0 /\ rec.prev_entry_hash = NoHash
      /\ rec.params_sha256 = sha256(key) /\ rec.entry_hash = record_hash(rec)
  BY <1>1, RecordIs
<1> HIDE DEF rec
<1>3. /\ <<rec>> \in Seq({rec}) /\ <<rec>> # <<>>
      /\ DOMAIN <<rec>> = {1} /\ <<rec>>[1] = rec /\ Len(<<rec>>) = 1
  OBVIOUS
<1>4. IsTranscript(<<rec>>)
  BY <1>2, <1>3 DEF IsTranscript
<1>5. Chained(<<rec>>)
  BY <1>2, <1>3 DEF Chained
<1>6. Last(<<rec>>) = rec
  BY <1>3 DEF Last
<1> QED BY <1>2, <1>4, <1>5, <1>6 DEF EndsIn, rec

\* What a contributor is going to write.
LEMMA NextRound ==
  ASSUME NEW rounds, IsTranscript(rounds), Chained(rounds), NEW key \in ProvingKey,
         NEW participant, NEW s
  PROVE  LET rec == RoundRecord(Last(rounds).round + 1, participant, key, By(One, s),
                                By(One, s), Last(rounds).entry_hash)
         IN EndsIn(Append(rounds, rec), key) /\ IsEntry(rec)
<1> DEFINE rec == RoundRecord(Last(rounds).round + 1, participant, key, By(One, s),
                              By(One, s), Last(rounds).entry_hash)
           longer == Append(rounds, rec)
           d == Len(rounds)
<1>1. By(One, s) \in Scalars
  BY ByIsTimes DEF One, Scalars
<1>2. /\ IsEntry(rec)
      /\ rec.round = Last(rounds).round + 1 /\ rec.prev_entry_hash = Last(rounds).entry_hash
      /\ rec.params_sha256 = sha256(key) /\ rec.entry_hash = record_hash(rec)
  BY <1>1, RecordIs
<1> HIDE DEF rec
<1>3. /\ d \in Nat \ {0} /\ DOMAIN rounds = 1..d /\ d \in DOMAIN rounds
      /\ Last(rounds) = rounds[d]
  BY LastIs DEF Chained
<1>4. Last(rounds).round = d - 1
  BY <1>3 DEF Chained
<1>5. /\ IsTranscript(longer) /\ longer # <<>>
      /\ Len(longer) = d + 1 /\ DOMAIN longer = 1..(d + 1)
      /\ \A i \in DOMAIN rounds : longer[i] = rounds[i]
      /\ longer[d + 1] = rec
  BY <1>2, AppendIs
<1> HIDE DEF longer
<1>6. ASSUME NEW i \in DOMAIN longer
      PROVE  /\ longer[i].round = i - 1
             /\ longer[i].prev_entry_hash = IF i = 1 THEN NoHash ELSE longer[i - 1].entry_hash
             /\ longer[i].entry_hash = record_hash(longer[i])
  <2>1. CASE i = d + 1
    <3>1. longer[i] = rec /\ i # 1 /\ i - 1 = d /\ longer[d] = rounds[d]
      BY <1>3, <1>5, <2>1
    <3> QED BY <1>2, <1>3, <1>4, <3>1
  <2>2. CASE i # d + 1
    <3>1. i \in DOMAIN rounds /\ (i # 1 => i - 1 \in DOMAIN rounds)
      BY <1>3, <1>5, <2>2
    <3> QED BY <1>5, <3>1 DEF Chained
  <2> QED BY <2>1, <2>2
<1>7. Last(longer) = rec
  BY <1>5 DEF Last
<1>8. EndsIn(longer, key)
  BY <1>2, <1>5, <1>6, <1>7 DEF EndsIn, Chained
<1> QED BY <1>2, <1>8 DEF longer, rec
-----------------------------------------------------------------------------
\* A step of one program that writes to no file.
LEMMA ProgramStep ==
  ASSUME WellMade, NEW p \in Runners, NEW r, run' = [run EXCEPT ![p] = r],
         r = Idle \/ Reads(r, DOMAIN files) \/ Writes(r),
         UNCHANGED <<transcript, files, announced>>,
         runs' \in [Runners \cup Outsiders -> Nat]
  PROVE  WellMade'
<1>1. RunsOK'
  BY OneRunMoves DEF WellMade
<1>2. TypesOK'
  BY DEF WellMade, TypesOK, Readable, KeysOnDisk
<1> QED BY <1>1, <1>2 DEF WellMade

\* A program that writes, at its next step.
LEMMA WriterMoves ==
  ASSUME WellMade, NEW p \in Runners, NEW pc, At(p, pc), pc # "loaded", pc # "verified",
         NEW next \in {"openKey", "fillKey", "openTranscript", "fillTranscript"}
  PROVE  /\ Writes(run[p])
         /\ Goto(p, next) => run' = [run EXCEPT ![p] = [run[p] EXCEPT !.pc = next]]
         /\ Writes([run[p] EXCEPT !.pc = next])
         /\ run[p].key \in ProvingKey
         /\ IsTranscript(run[p].rounds) /\ run[p].rounds # <<>>
<1>1. Writes(run[p])
  BY DEF WellMade, RunsOK, At, Reads
<1>2. Goto(p, next) => run' = [run EXCEPT ![p] = [run[p] EXCEPT !.pc = next]]
  BY DEF Goto, WellMade, RunsOK
<1>3. Writes([run[p] EXCEPT !.pc = next])
  <2> DEFINE r == [run[p] EXCEPT !.pc = next]
  <2>1. r = [pc |-> next, key |-> run[p].key, rounds |-> run[p].rounds]
    BY <1>1 DEF Writes
  <2>2. r = [pc |-> r.pc, key |-> r.key, rounds |-> r.rounds] /\ r.pc = next
        /\ r.rounds = run[p].rounds /\ r.key = run[p].key
    BY <2>1
  <2> HIDE DEF r
  <2>3. Writes(r)
    BY <1>1, <2>2 DEF Writes
  <2> QED BY <2>3 DEF r
<1> QED BY <1>1, <1>2, <1>3 DEF Writes, EndsIn, Chained

\* A step of one program that writes the key file of its round.
LEMMA KeyStep ==
  ASSUME WellMade, NEW p \in Runners, NEW pc, At(p, pc), pc \notin {"loaded", "verified"},
         NEW next \in {"openKey", "fillKey", "openTranscript", "fillTranscript"},
         NEW content \in {Unreadable, run[p].key},
         PutFile(Last(run[p].rounds).round, content), Goto(p, next),
         UNCHANGED <<transcript, runs, announced>>
  PROVE  WellMade'
<1>1. /\ run' = [run EXCEPT ![p] = [run[p] EXCEPT !.pc = next]]
      /\ Writes([run[p] EXCEPT !.pc = next])
      /\ content \in ProvingKey \cup {Unreadable}
  BY WriterMoves
<1>2. KeysOnDisk(files') /\ DOMAIN files \subseteq DOMAIN files'
  <2>1. KeysOnDisk(files)
    BY DEF WellMade, TypesOK
  <2> QED BY <1>1, <2>1, PutFileIs
<1>3. RunsOK'
  BY <1>1, <1>2, OneRunMoves DEF WellMade
<1>4. TypesOK'
  BY <1>2 DEF WellMade, TypesOK, Readable
<1> QED BY <1>3, <1>4 DEF WellMade

\* Whoever publishes a round of his own publishes a key and a record.
LEMMA OutsideIs ==
  ASSUME NEW p, NEW s, NEW wrong, files[Len(transcript) - 1] \in ProvingKey
  PROVE  OutsideKey(s, wrong) \in ProvingKey /\ IsEntry(OutsideRecord(p, s, wrong))
<1> DEFINE next == apply_delta_contribution(files[Len(transcript) - 1], s)
           other == apply_delta_contribution(GenesisKey(0), s)
           key == OutsideKey(s, wrong)
           share(part) == IF part \in wrong THEN One ELSE By(One, s)
           record == RoundRecord(Len(transcript), p, key, share("contribution_g1"),
                                 share("contribution_g2"), Last(transcript).entry_hash)
<1>1. key \in ProvingKey
  <2>1. 0 \in FixedParts
    BY CeremonyAssumption
  <2>2. next \in ProvingKey /\ other \in ProvingKey
    BY <2>1, ContributionIsKey, GenesisKeyIsKey
  <2>3. key = [part \in DOMAIN next |-> IF part \in wrong THEN other[part] ELSE next[part]]
    BY DEF OutsideKey
  <2> HIDE DEF next, other, key
  <2> QED BY <2>2, <2>3 DEF ProvingKey
<1>2. One \in Scalars /\ By(One, s) \in Scalars
  BY ByIsTimes DEF One, Scalars
<1>3. IsEntry(record)
  <2> HIDE DEF key
  <2> QED BY <1>2, RecordIs
<1>4. OutsideRecord(p, s, wrong)
        = IF "new_delta_g1" \in wrong THEN Hashed([record EXCEPT !.new_delta_g1 = One])
                                      ELSE record
  BY DEF OutsideRecord
<1> HIDE DEF record
<1>5. IsEntry([record EXCEPT !.new_delta_g1 = One])
  BY <1>3, ChangedEntryIs
<1>6. IsEntry(Hashed([record EXCEPT !.new_delta_g1 = One]))
  BY <1>5, ChangedEntryIs
<1> QED BY <1>1, <1>3, <1>4, <1>6

\* A round of other software, mistakes and all, leaves the directory well made.
LEMMA OutsideKeepsWellMade ==
  ASSUME WellMade, NEW p \in Outsiders, OutsideRound(p)
  PROVE  WellMade'
<1>1. PICK wrong \in {{}} \cup {m \cup n : m, n \in Mistakes} :
        /\ PutFile(Len(transcript), OutsideKey(<<p, runs[p] + 1>>, wrong))
        /\ transcript' = Append(transcript, OutsideRecord(p, <<p, runs[p] + 1>>, wrong))
  BY DEF OutsideRound
<1>2. files[Len(transcript) - 1] \in ProvingKey
  BY DEF OutsideRound, WellMade, TypesOK, KeysOnDisk
<1>3. /\ OutsideKey(<<p, runs[p] + 1>>, wrong) \in ProvingKey
      /\ IsEntry(OutsideRecord(p, <<p, runs[p] + 1>>, wrong))
  BY <1>2, OutsideIs
<1>4. IsTranscript(transcript')
  <2>1. IsTranscript(transcript)
    BY DEF OutsideRound, WellMade, TypesOK
  <2> QED BY <1>1, <1>3, <2>1, AppendIs
<1>5. KeysOnDisk(files') /\ DOMAIN files \subseteq DOMAIN files'
  <2>1. KeysOnDisk(files)
    BY DEF WellMade, TypesOK
  <2> QED BY <1>1, <1>3, <2>1 DEF PutFile, KeysOnDisk
<1>6. RunsOK'
  <2>1. run' = run
    BY DEF OutsideRound
  <2>2. \A q \in Runners : Reads(run[q], DOMAIN files) => Reads(run[q], DOMAIN files')
    BY <1>5 DEF Reads
  <2> QED BY <2>1, <2>2 DEF WellMade, RunsOK
<1>7. TypesOK'
  <2>1. runs' \in [Runners \cup Outsiders -> Nat] /\ announced' = announced
    BY DEF OutsideRound, WellMade, TypesOK
  <2> QED BY <1>4, <1>5, <2>1 DEF WellMade, TypesOK
<1> QED BY <1>6, <1>7 DEF WellMade

\* What is changed stays a key, or a record.
LEMMA AlterationKeepsWellMade ==
  ASSUME WellMade, Alteration
  PROVE  WellMade'
<1>1. KeysOnDisk(files') /\ DOMAIN files \subseteq DOMAIN files'
  <2>1. KeysOnDisk(files)
    BY DEF WellMade, TypesOK
  <2>2. ASSUME NEW r \in DOMAIN files, files[r] # Unreadable,
               PutFile(r, [files[r] EXCEPT !.fixed = 0])
        PROVE  KeysOnDisk(files') /\ DOMAIN files \subseteq DOMAIN files'
    <3>1. files[r] \in ProvingKey /\ 0 \in FixedParts
      BY <2>1, <2>2, CeremonyAssumption DEF KeysOnDisk
    <3>2. [files[r] EXCEPT !.fixed = 0] \in ProvingKey
      BY <3>1 DEF ProvingKey
    <3> QED BY <2>1, <2>2, <3>2, PutFileIs
  <2> QED BY <2>1, <2>2 DEF Alteration
<1>2. Readable' => IsTranscript(transcript')
  <2>1. CASE UNCHANGED transcript
    BY <2>1 DEF WellMade, TypesOK, Readable
  <2>2. CASE Readable /\ \E i \in DOMAIN transcript, rehash, relink \in BOOLEAN :
             LET changed == [transcript[i] EXCEPT !.participant = NobodyInParticular]
                 rec == IF rehash THEN Hashed(changed) ELSE changed
             IN transcript' = [j \in DOMAIN transcript |->
                  IF j = i THEN rec
                  ELSE IF relink /\ j = i + 1
                  THEN [transcript[j] EXCEPT !.prev_entry_hash = rec.entry_hash]
                  ELSE transcript[j]]
    <3>1. PICK i \in DOMAIN transcript, rehash \in BOOLEAN, relink \in BOOLEAN :
             LET changed == [transcript[i] EXCEPT !.participant = NobodyInParticular]
                 rec == IF rehash THEN Hashed(changed) ELSE changed
             IN transcript' = [j \in DOMAIN transcript |->
                  IF j = i THEN rec
                  ELSE IF relink /\ j = i + 1
                  THEN [transcript[j] EXCEPT !.prev_entry_hash = rec.entry_hash]
                  ELSE transcript[j]]
      BY <2>2
    <3> DEFINE changed == [transcript[i] EXCEPT !.participant = NobodyInParticular]
               rec == IF rehash THEN Hashed(changed) ELSE changed
               new(j) == IF j = i THEN rec
                         ELSE IF relink /\ j = i + 1
                         THEN [transcript[j] EXCEPT !.prev_entry_hash = rec.entry_hash]
                         ELSE transcript[j]
    <3>2. transcript' = [j \in DOMAIN transcript |-> new(j)]
      BY <3>1
    <3>3. /\ \A j \in DOMAIN transcript : IsEntry(transcript[j])
          /\ \E S : transcript \in Seq(S)
      BY <2>2 DEF WellMade, TypesOK, IsTranscript
    <3>4. IsEntry(changed) /\ IsEntry(Hashed(changed))
      BY <3>3, ChangedEntryIs
    <3>5. \A j \in DOMAIN transcript :
            IsEntry([transcript[j] EXCEPT !.prev_entry_hash = rec.entry_hash])
      <4> HIDE DEF rec
      <4> QED BY <3>3, ChangedEntryIs
    <3>6. \A j \in DOMAIN transcript : IsEntry(new(j))
      BY <3>3, <3>4, <3>5
    <3> HIDE DEF new
    <3>7. \E S : transcript' \in Seq(S)
      <4> DEFINE T == {new(j) : j \in DOMAIN transcript}
      <4>1. Len(transcript) \in Nat /\ DOMAIN transcript = 1..Len(transcript)
        BY <3>3
      <4>2. \A j \in 1..Len(transcript) : new(j) \in T
        BY <4>1
      <4>3. transcript' \in [1..Len(transcript) -> T]
        <5> HIDE DEF T
        <5> QED BY <3>2, <4>1, <4>2
      <4>4. transcript' \in Seq(T)
        <5> HIDE DEF T
        <5> QED BY <4>1, <4>3
      <4> QED BY <4>4
    <3> QED BY <3>2, <3>6, <3>7 DEF IsTranscript
  <2> QED BY <2>1, <2>2 DEF Alteration
<1>3. RunsOK'
  <2>1. run' = run
    BY DEF Alteration
  <2>2. \A q \in Runners : Reads(run[q], DOMAIN files) => Reads(run[q], DOMAIN files')
    BY <1>1 DEF Reads
  <2> QED BY <2>1, <2>2 DEF WellMade, RunsOK
<1>4. TypesOK'
  <2>1. runs' = runs /\ announced' = announced
    BY DEF Alteration
  <2> QED BY <1>1, <1>2, <2>1 DEF WellMade, TypesOK
<1> QED BY <1>3, <1>4 DEF WellMade

\* Every step keeps the directory and the programs well made.
LEMMA NextKeepsWellMade == WellMade /\ [Next]_vars => WellMade'
<1> SUFFICES ASSUME WellMade, [Next]_vars PROVE WellMade'
  OBVIOUS
<1>0. /\ DOMAIN run = Runners
      /\ runs \in [Runners \cup Outsiders -> Nat]
      /\ Participants \subseteq Runners /\ Operator \in Runners
  BY DEF WellMade, RunsOK, TypesOK, Runners
<1>1. CASE InitStarts
  <2>1. runs[Operator] \in Nat /\ runs[Operator] < MaxInits
    BY <1>0, <1>1 DEF InitStarts, MayStart
  <2>2. runs[Operator] + 1 \in FixedParts
    BY <2>1, CeremonyAssumption
  <2> DEFINE key == GenesisKey(runs[Operator] + 1)
             rounds == <<RoundRecord(0, Operator, key, One, One, NoHash)>>
  <2>3. key \in ProvingKey
    BY <2>2, GenesisKeyIsKey
  <2>4. EndsIn(rounds, key)
    <3> HIDE DEF key
    <3> QED BY <2>3, FirstRound
  <2>5. run' = [run EXCEPT ![Operator] = [pc |-> "openKey", key |-> key, rounds |-> rounds]]
    BY <1>1 DEF InitStarts
  <2>6. Writes([pc |-> "openKey", key |-> key, rounds |-> rounds])
    <3> HIDE DEF key, rounds
    <3> QED BY <2>4 DEF Writes
  <2>7. /\ UNCHANGED <<transcript, files, announced>>
        /\ runs' \in [Runners \cup Outsiders -> Nat]
    BY <1>0, <1>1 DEF InitStarts
  <2> HIDE DEF key, rounds
  <2> QED BY <1>0, <2>5, <2>6, <2>7, ProgramStep
<1>2. ASSUME NEW p \in Participants, LoadTranscript(p)
      PROVE  WellMade'
  <2> DEFINE r == [pc |-> "loaded", rounds |-> transcript]
  <2>1. Reads(r, DOMAIN files)
    BY <1>2 DEF LoadTranscript, WellMade, TypesOK, Reads
  <2>2. /\ run' = [run EXCEPT ![p] = r]
        /\ UNCHANGED <<transcript, files, announced>>
        /\ runs' \in [Runners \cup Outsiders -> Nat]
    BY <1>0, <1>2 DEF LoadTranscript
  <2> HIDE DEF r
  <2> QED BY <1>0, <2>1, <2>2, ProgramStep
<1>3. ASSUME NEW p \in Participants, VerifyLoaded(p)
      PROVE  WellMade'
  <2> DEFINE r == [run[p] EXCEPT !.pc = "verified"]
  <2>1. Reads(run[p], DOMAIN files)
    BY <1>0, <1>3 DEF VerifyLoaded, At, WellMade, RunsOK, Writes
  <2>2. r = [pc |-> "verified", rounds |-> run[p].rounds]
    BY <2>1 DEF Reads
  <2>3. verify_chain(run[p].rounds, files) => Reads(r, DOMAIN files)
    <3>1. IsTranscript(run[p].rounds) /\ run[p].rounds # <<>>
      BY <2>1 DEF Reads
    <3>2. verify_chain(run[p].rounds, files) =>
            Chained(run[p].rounds) /\ Last(run[p].rounds).round \in DOMAIN files
      BY <3>1, VerifiedIsChained
    <3> QED BY <2>2, <3>1, <3>2 DEF Reads
  <2>4. /\ \/ verify_chain(run[p].rounds, files) /\ run' = [run EXCEPT ![p] = r]
           \/ run' = [run EXCEPT ![p] = Idle]
        /\ UNCHANGED <<transcript, files, announced>>
        /\ runs' \in [Runners \cup Outsiders -> Nat]
    BY <1>0, <1>3 DEF VerifyLoaded, Goto, Exits
  <2> HIDE DEF r
  <2>5. CASE run' = [run EXCEPT ![p] = Idle]
    BY <1>0, <2>4, <2>5, ProgramStep
  <2>6. CASE verify_chain(run[p].rounds, files) /\ run' = [run EXCEPT ![p] = r]
    BY <1>0, <2>3, <2>4, <2>6, ProgramStep
  <2> QED BY <2>4, <2>5, <2>6
<1>4. ASSUME NEW p \in Participants, Contribute(p)
      PROVE  WellMade'
  <2> DEFINE s == <<p, runs[p]>>
             prev == files[PreviousRound(p)]
             key == apply_delta_contribution(prev, s)
             rec == RoundRecord(PreviousRound(p) + 1, p, key, By(One, s), By(One, s),
                                Last(run[p].rounds).entry_hash)
             r == [pc |-> "openKey", key |-> key, rounds |-> Append(run[p].rounds, rec)]
  <2>1. Reads(run[p], DOMAIN files) /\ run[p].pc = "verified"
    BY <1>0, <1>4 DEF Contribute, At, WellMade, RunsOK, Writes
  <2>2. prev \in ProvingKey \cup {Unreadable}
    BY <2>1 DEF Reads, WellMade, TypesOK, KeysOnDisk, PreviousRound
  <2>3. prev # Unreadable => EndsIn(r.rounds, r.key)
    <3>1. prev # Unreadable => key \in ProvingKey
      BY <2>2, ContributionIsKey
    <3>2. IsTranscript(run[p].rounds) /\ Chained(run[p].rounds)
      BY <2>1 DEF Reads
    <3> HIDE DEF key, prev, s
    <3> QED BY <3>1, <3>2, NextRound DEF PreviousRound
  <2>4. prev # Unreadable => Writes(r)
    <3> HIDE DEF key, prev, rec
    <3> QED BY <2>3 DEF Writes
  <2>5. /\ \/ prev # Unreadable /\ run' = [run EXCEPT ![p] = r]
           \/ run' = [run EXCEPT ![p] = Idle]
        /\ UNCHANGED <<transcript, files, announced>>
        /\ runs' \in [Runners \cup Outsiders -> Nat]
    BY <1>0, <1>4 DEF Contribute, Exits
  <2> HIDE DEF r, prev
  <2>6. CASE run' = [run EXCEPT ![p] = Idle]
    BY <1>0, <2>5, <2>6, ProgramStep
  <2>7. CASE prev # Unreadable /\ run' = [run EXCEPT ![p] = r]
    BY <1>0, <2>4, <2>5, <2>7, ProgramStep
  <2> QED BY <2>5, <2>6, <2>7
<1>5. ASSUME NEW p \in Runners, OpenKey(p)
      PROVE  WellMade'
  <2>1. /\ At(p, "openKey") /\ Goto(p, "fillKey")
        /\ PutFile(Last(run[p].rounds).round, Unreadable)
        /\ UNCHANGED <<transcript, runs, announced>>
    BY <1>5 DEF OpenKey
  <2> QED BY <2>1, KeyStep
<1>6. ASSUME NEW p \in Runners, FillKey(p)
      PROVE  WellMade'
  <2>1. /\ At(p, "fillKey") /\ Goto(p, "openTranscript")
        /\ PutFile(Last(run[p].rounds).round, run[p].key)
        /\ UNCHANGED <<transcript, runs, announced>>
    BY <1>6 DEF FillKey
  <2> QED BY <2>1, KeyStep
<1>7. ASSUME NEW p \in Runners, OpenTranscript(p)
      PROVE  WellMade'
  <2>1. /\ run' = [run EXCEPT ![p] = [run[p] EXCEPT !.pc = "fillTranscript"]]
        /\ Writes([run[p] EXCEPT !.pc = "fillTranscript"])
    BY <1>7, WriterMoves DEF OpenTranscript
  <2>2. RunsOK'
    BY <1>7, <2>1, OneRunMoves DEF WellMade, OpenTranscript
  <2>3. TypesOK'
    BY <1>7 DEF OpenTranscript, WellMade, TypesOK, Readable, KeysOnDisk
  <2> QED BY <2>2, <2>3 DEF WellMade
<1>8. ASSUME NEW p \in Runners, FillTranscript(p)
      PROVE  WellMade'
  <2>1. EndsIn(run[p].rounds, run[p].key)
    BY <1>8, WriterMoves DEF FillTranscript, Writes
  <2>2. RunsOK'
    BY <1>8, OneRunMoves DEF WellMade, FillTranscript, Exits
  <2>3. TypesOK'
    <3>1. Readable' => IsTranscript(transcript')
      BY <1>8, <2>1 DEF FillTranscript, Readable, EndsIn
    <3>2. \A a \in announced' : EndsIn(a.rounds, a.key)
      BY <1>8, <2>1 DEF FillTranscript, WellMade, TypesOK
    <3>3. files' = files /\ runs' = runs
      BY <1>8 DEF FillTranscript
    <3> QED BY <3>1, <3>2, <3>3 DEF WellMade, TypesOK, KeysOnDisk
  <2> QED BY <2>2, <2>3 DEF WellMade
<1>9. ASSUME NEW p \in Runners, Crash(p)
      PROVE  WellMade'
  BY <1>0, <1>9, ProgramStep DEF Crash, Exits
<1>10. ASSUME NEW p \in Outsiders, OutsideRound(p)
       PROVE  WellMade'
  BY <1>10, OutsideKeepsWellMade
<1>11. CASE Alteration
  BY <1>11, AlterationKeepsWellMade
<1>12. CASE UNCHANGED vars
  BY <1>12 DEF vars, WellMade, TypesOK, RunsOK, Readable, KeysOnDisk
<1> QED BY <1>1, <1>2, <1>3, <1>4, <1>5, <1>6, <1>7, <1>8, <1>9, <1>10, <1>11, <1>12 DEF Next

\* So they always are.
LEMMA AlwaysWellMade == Spec => []WellMade
<1>1. Init => WellMade
  BY InitWellMade
<1>2. WellMade /\ [Next]_vars => WellMade'
  BY NextKeepsWellMade
<1> QED BY <1>1, <1>2, PTL DEF Spec
-----------------------------------------------------------------------------
\* What a directory that verifies holds: a transcript, its product, its keys.
LEMMA VerifiedProduct ==
  ASSUME WellMade, Verifies
  PROVE  /\ IsTranscript(transcript) /\ transcript # <<>>
         /\ FinalKey = files[Len(transcript) - 1]
         /\ \E g : /\ Product(g, transcript)
                   /\ Contributed(transcript) = g[Len(transcript)]
                   /\ FinalKey = [fixed |-> files[0].fixed,
                                  delta_g1 |-> g[Len(transcript)],
                                  delta_g2 |-> g[Len(transcript)],
                                  l_query |-> Times(files[0].l_query, g[Len(transcript)]),
                                  h_query |-> Times(files[0].h_query, g[Len(transcript)])]
<1>1. /\ IsTranscript(transcript) /\ KeysOnDisk(files) /\ verify_chain(transcript, files)
      /\ transcript # <<>>
  BY DEF WellMade, TypesOK, Verifies, verify_chain
<1>2. /\ Len(transcript) \in 1..Len(transcript)
      /\ FinalKey = files[Len(transcript) - 1]
  BY <1>1, ChainKeys DEF FinalKey
<1>3. PICK g : Product(g, transcript) /\ Contributed(transcript) = g[Len(transcript)]
  BY <1>1, ContributedIs
<1>4. FinalKey = [fixed |-> files[0].fixed,
                  delta_g1 |-> g[Len(transcript)], delta_g2 |-> g[Len(transcript)],
                  l_query |-> Times(files[0].l_query, g[Len(transcript)]),
                  h_query |-> Times(files[0].h_query, g[Len(transcript)])]
  BY <1>1, <1>2, <1>3, ChainIsProduct
<1> QED BY <1>1, <1>2, <1>3, <1>4

\* Whatever the participants, outsiders and crashes did to the directory, when
\* it verifies its final key is round 0's, rotated by exactly the product of the
\* contributions that the transcript publishes (ceremony_verify.rs:7-15).
THEOREM CeremonyVerifiedIsWhole == Spec => []VerifiedIsWhole
<1>1. WellMade => VerifiedIsWhole
  BY VerifiedProduct DEF VerifiedIsWhole
<1> QED BY <1>1, AlwaysWellMade, PTL

\* And it holds the secret of every completed round whose record it has: one
\* honest contributor is enough, whoever the others were (CEREMONY_SPEC.md:51-53).
THEOREM CeremonyOneHonestSuffices == Spec => []OneHonestSuffices
<1>1. ASSUME WellMade PROVE OneHonestSuffices
  <2>1. ASSUME Verifies, NEW i \in DOMAIN transcript \ {1}, NEW s \in Secrets,
               HasSecret(transcript[i].contribution_g1, s)
        PROVE  HasSecret(FinalKey.delta_g1, s) /\ HasSecret(FinalKey.delta_g2, s)
    <3>1. PICK g :
            /\ Product(g, transcript)
            /\ FinalKey.delta_g1 = g[Len(transcript)]
            /\ FinalKey.delta_g2 = g[Len(transcript)]
      BY <1>1, <2>1, VerifiedProduct
    <3>2. IsTranscript(transcript) /\ transcript # <<>>
      BY <1>1, <2>1, VerifiedProduct
    <3>3. i \in 2..Len(transcript)
      <4>1. Len(transcript) \in Nat /\ i \in 1..Len(transcript) /\ i # 1
        BY <3>2, LastIs
      <4> QED BY <4>1
    <3>4. HasSecret(g[Len(transcript)], s)
      BY <2>1, <3>1, <3>2, <3>3, FactorStays
    <3> QED BY <3>1, <3>4
  <2> QED BY <2>1 DEF OneHonestSuffices
<1>2. WellMade => OneHonestSuffices
  BY <1>1
<1> QED BY <1>2, AlwaysWellMade, PTL

\* A record is its hash: two records whose hashes are right are the same when
\* the hashes are.
LEMMA HashPinsRecord ==
  ASSUME NEW a, IsEntry(a), a.entry_hash = record_hash(a),
         NEW b, IsEntry(b), b.entry_hash = record_hash(b),
         a.entry_hash = b.entry_hash
  PROVE  a = b
<1> DEFINE blankA == [a EXCEPT !.entry_hash = NoHash]
           blankB == [b EXCEPT !.entry_hash = NoHash]
<1>1. <<"sha256", blankA>> = <<"sha256", blankB>>
  BY DEF record_hash
<1>2. blankA = blankB
  <2> HIDE DEF blankA, blankB
  <2> QED BY <1>1
<1>3. /\ a.round = blankA.round /\ b.round = blankB.round
      /\ a.participant = blankA.participant /\ b.participant = blankB.participant
      /\ a.contribution_g1 = blankA.contribution_g1
      /\ b.contribution_g1 = blankB.contribution_g1
      /\ a.contribution_g2 = blankA.contribution_g2
      /\ b.contribution_g2 = blankB.contribution_g2
      /\ a.new_delta_g1 = blankA.new_delta_g1 /\ b.new_delta_g1 = blankB.new_delta_g1
      /\ a.new_delta_g2 = blankA.new_delta_g2 /\ b.new_delta_g2 = blankB.new_delta_g2
      /\ a.params_sha256 = blankA.params_sha256 /\ b.params_sha256 = blankB.params_sha256
      /\ a.prev_entry_hash = blankA.prev_entry_hash
      /\ b.prev_entry_hash = blankB.prev_entry_hash
  BY DEF IsEntry
<1> HIDE DEF blankA, blankB
<1> QED BY <1>2, <1>3 DEF IsEntry

\* A chain is its last hash: each record holds the hash of the one before it.
LEMMA HashPinsChain ==
  ASSUME NEW a, IsTranscript(a), Chained(a), NEW b, IsTranscript(b), Chained(b),
         Last(a).entry_hash = Last(b).entry_hash
  PROVE  a = b
<1> DEFINE d == Len(a)
           S == {n \in 0..(d - 1) : a[d - n] = b[d - n]}
<1>1. /\ d \in Nat \ {0} /\ DOMAIN a = 1..d /\ Last(a) = a[d]
      /\ Len(b) \in Nat \ {0} /\ DOMAIN b = 1..Len(b) /\ Last(b) = b[Len(b)]
  BY LastIs DEF Chained
<1>2. /\ \A i \in 1..d : IsEntry(a[i]) /\ a[i].entry_hash = record_hash(a[i])
      /\ \A i \in 1..Len(b) : IsEntry(b[i]) /\ b[i].entry_hash = record_hash(b[i])
  BY <1>1 DEF IsTranscript, Chained
<1>3. a[d] = b[Len(b)]
  <2>1. d \in 1..d /\ Len(b) \in 1..Len(b)
    BY <1>1
  <2> QED BY <1>1, <1>2, <2>1, HashPinsRecord
<1>4. Len(b) = d
  <2>1. d \in DOMAIN a /\ Len(b) \in DOMAIN b
    BY <1>1
  <2>2. a[d].round = d - 1 /\ b[Len(b)].round = Len(b) - 1
    BY <2>1 DEF Chained
  <2>3. d - 1 = Len(b) - 1
    BY <1>3, <2>2
  <2>4. \A m, n \in Nat : m - 1 = n - 1 => n = m
    OBVIOUS
  <2>5. d \in Nat /\ Len(b) \in Nat
    BY <1>1
  <2> HIDE DEF d
  <2> QED BY <2>3, <2>4, <2>5, Zenon
<1>5. 0 \in S
  BY <1>1, <1>3, <1>4
<1>6. ASSUME NEW n \in 0..((d - 1) - 1), n \in S
      PROVE  n + 1 \in S
  <2>1. /\ d - n \in 2..d /\ d - (n + 1) \in 1..d /\ (d - n) - 1 = d - (n + 1)
        /\ n + 1 \in 0..(d - 1)
    BY <1>1
  <2>2. /\ a[d - n].prev_entry_hash = a[d - (n + 1)].entry_hash
        /\ b[d - n].prev_entry_hash = b[d - (n + 1)].entry_hash
    BY <1>1, <1>4, <2>1 DEF Chained
  <2>3. a[d - (n + 1)] = b[d - (n + 1)]
    BY <1>2, <1>4, <1>6, <2>1, <2>2, HashPinsRecord
  <2> QED BY <2>1, <2>3
<1>7. 0..(d - 1) \subseteq S
  <2>1. d - 1 \in Nat
    BY <1>1
  <2> HIDE DEF S
  <2> QED BY <1>5, <1>6, <2>1, BoundedInduction
<1>8. ASSUME NEW i \in 1..d PROVE a[i] = b[i]
  <2>1. d - i \in 0..(d - 1) /\ d - (d - i) = i
    BY <1>1
  <2> QED BY <1>7, <2>1
<1>9. PICK S1, S2 : a \in Seq(S1) /\ b \in Seq(S2)
  BY DEF IsTranscript
<1>10. a \in Seq(S1 \cup S2) /\ b \in Seq(S1 \cup S2)
  BY <1>9
<1> QED BY <1>1, <1>4, <1>8, <1>10

\* Who remembers the last hash that a completed run published has pinned every
\* record of that run and its key, whatever is done to the directory afterwards
\* ("tamper-evident metadata", lib.rs:39-42).
THEOREM CeremonyAnnouncedIsPinned == Spec => []AnnouncedIsPinned
<1>1. ASSUME WellMade PROVE AnnouncedIsPinned
  <2>1. ASSUME Verifies, NEW a \in announced,
               Last(transcript).entry_hash = Last(a.rounds).entry_hash
        PROVE  transcript = a.rounds /\ FinalKey = a.key
    <3>1. /\ IsTranscript(transcript) /\ KeysOnDisk(files)
          /\ verify_chain(transcript, files)
          /\ IsTranscript(a.rounds) /\ Chained(a.rounds) /\ a.key \in ProvingKey
          /\ Last(a.rounds).params_sha256 = sha256(a.key)
      BY <1>1, <2>1 DEF WellMade, TypesOK, Verifies, EndsIn
    <3>2. transcript = a.rounds
      BY <2>1, <3>1, HashPinsChain, VerifiedIsChained
    <3>3. Last(transcript).params_sha256 = sha256(FinalKey)
      <4>1. /\ Len(transcript) \in 1..Len(transcript)
            /\ Last(transcript).round = Len(transcript) - 1
            /\ transcript[Len(transcript)].params_sha256 = sha256(files[Len(transcript) - 1])
        BY <3>1, ChainKeys
      <4> QED BY <4>1 DEF FinalKey, Last
    <3>4. FinalKey = a.key
      BY <3>1, <3>2, <3>3 DEF sha256
    <3> QED BY <3>2, <3>4
  <2> QED BY <2>1 DEF AnnouncedIsPinned
<1>2. WellMade => AnnouncedIsPinned
  BY <1>1
<1> QED BY <1>2, AlwaysWellMade, PTL
-----------------------------------------------------------------------------
\* While people keep to the procedure, one program runs at a time, what was
\* published stays in place, and a program that writes is about to complete a
\* chain that goes one round further than any that was published.
With(dir, round, content) ==
  [r \in DOMAIN dir \cup {round} |-> IF r = round THEN content ELSE dir[r]]

Placed(rounds, key, dir) ==
  verify_chain(rounds, dir) /\ dir[Last(rounds).round] = key

OneAtATime == \A p, q \in Runners : run[p] # Idle /\ run[q] # Idle => p = q

AnnouncedPlaced == \A a \in announced : Placed(a.rounds, a.key, files)

NothingLost ==
  Readable => /\ \A a \in announced : IsPrefix(a.rounds, transcript)
              /\ transcript # <<>> => verify_chain(transcript, files)

Reading(r, text) == text # Unreadable /\ r.rounds = text

Writing(r, text, dir, said) ==
  /\ \A a \in said : IsPrefix(a.rounds, r.rounds) /\ Len(a.rounds) < Len(r.rounds)
  /\ text # Unreadable => Len(text) < Len(r.rounds)
  /\ verify_chain(r.rounds, With(dir, Last(r.rounds).round, r.key))
  /\ r.pc \in {"openTranscript", "fillTranscript"} => Placed(r.rounds, r.key, dir)

OnCourse ==
  \A p \in Runners : \/ run[p] = Idle
                     \/ Reads(run[p], DOMAIN files) /\ Reading(run[p], transcript)
                     \/ Writes(run[p]) /\ Writing(run[p], transcript, files, announced)

InOrder == orderly => OneAtATime /\ AnnouncedPlaced /\ NothingLost /\ OnCourse

\* verify_chain looks at the files of the chain's own rounds only.
LEMMA ChainIsLocal ==
  ASSUME NEW rounds, IsTranscript(rounds), NEW dir, verify_chain(rounds, dir), NEW other,
         DOMAIN dir \subseteq DOMAIN other,
         \A n \in 0..(Len(rounds) - 1) : other[n] = dir[n]
  PROVE  verify_chain(rounds, other) /\ other[Last(rounds).round] = dir[Last(rounds).round]
<1>1. rounds # <<>>
  BY DEF verify_chain
<1>2. /\ Len(rounds) \in Nat \ {0} /\ DOMAIN rounds = 1..Len(rounds)
      /\ Len(rounds) \in DOMAIN rounds /\ Last(rounds) = rounds[Len(rounds)]
  BY <1>1, LastIs
<1>3. ASSUME NEW i \in DOMAIN rounds
      PROVE  /\ rounds[i].round = i - 1 /\ other[i - 1] = dir[i - 1]
             /\ i # 1 => other[i - 2] = dir[i - 2]
             /\ other[0] = dir[0]
  <2>1. /\ i - 1 \in 0..(Len(rounds) - 1) /\ 0 \in 0..(Len(rounds) - 1)
        /\ i # 1 => i - 2 \in 0..(Len(rounds) - 1)
    BY <1>2
  <2>2. rounds[i].round = i - 1
    BY DEF verify_chain
  <2> QED BY <2>1, <2>2
<1>4. ASSUME NEW i \in DOMAIN rounds
      PROVE  LET rec == rounds[i]
             IN /\ rec.round = i - 1
                /\ rec.prev_entry_hash = IF i = 1 THEN NoHash ELSE rounds[i - 1].entry_hash
                /\ rec.entry_hash = record_hash(rec)
                /\ rec.round \in DOMAIN other
                /\ other[rec.round] # Unreadable
                /\ rec.params_sha256 = sha256(other[rec.round])
                /\ IF i = 1 THEN /\ other[0].delta_g1 = One
                                 /\ other[0].delta_g2 = One
                            ELSE FollowsFrom(other[i - 2], other[i - 1], rec)
  <2>1. LET rec == rounds[i]
        IN /\ rec.round = i - 1
           /\ rec.prev_entry_hash = IF i = 1 THEN NoHash ELSE rounds[i - 1].entry_hash
           /\ rec.entry_hash = record_hash(rec)
           /\ rec.round \in DOMAIN dir
           /\ dir[rec.round] # Unreadable
           /\ rec.params_sha256 = sha256(dir[rec.round])
           /\ IF i = 1 THEN /\ dir[0].delta_g1 = One
                            /\ dir[0].delta_g2 = One
                       ELSE FollowsFrom(dir[i - 2], dir[i - 1], rec)
    BY DEF verify_chain
  <2> QED BY <1>3, <2>1
<1>5. verify_chain(rounds, other)
  BY <1>1, <1>4 DEF verify_chain
<1> QED BY <1>2, <1>3, <1>5

\* What is written in a later round's file leaves a chain as it is.
LEMMA LaterFile ==
  ASSUME NEW rounds, IsTranscript(rounds), NEW dir, verify_chain(rounds, dir),
         NEW n \in Nat, Len(rounds) <= n, NEW content
  PROVE  /\ verify_chain(rounds, With(dir, n, content))
         /\ With(dir, n, content)[Last(rounds).round] = dir[Last(rounds).round]
<1> DEFINE other == With(dir, n, content)
<1>1. Len(rounds) \in Nat \ {0} /\ DOMAIN rounds = 1..Len(rounds)
  BY LastIs DEF verify_chain
<1>2. DOMAIN dir \subseteq DOMAIN other
  BY DEF With
<1>3. ASSUME NEW m \in 0..(Len(rounds) - 1)
      PROVE  other[m] = dir[m]
  <2>1. m + 1 \in DOMAIN rounds /\ m # n /\ (m + 1) - 1 = m
    BY <1>1
  <2>2. m \in DOMAIN dir
    BY <2>1 DEF verify_chain
  <2> QED BY <2>1, <2>2 DEF With
<1> HIDE DEF other
<1>4. verify_chain(rounds, other) /\ other[Last(rounds).round] = dir[Last(rounds).round]
  BY <1>2, <1>3, ChainIsLocal
<1> QED BY <1>4 DEF other

\* Writing one file twice is writing it once.
LEMMA WithTwice ==
  ASSUME NEW dir, NEW n, NEW a, NEW b
  PROVE  /\ With(With(dir, n, a), n, b) = With(dir, n, b)
         /\ n \in DOMAIN With(dir, n, a) /\ With(dir, n, a)[n] = a
  BY DEF With

\* What ceremony_init is going to write verifies once its key is in place.
LEMMA FirstRoundVerifies ==
  ASSUME NEW key \in ProvingKey, key.delta_g1 = One, key.delta_g2 = One, NEW participant,
         NEW dir
  PROVE  LET rounds == <<RoundRecord(0, participant, key, One, One, NoHash)>>
         IN verify_chain(rounds, With(dir, 0, key)) /\ Last(rounds).round = 0
<1> DEFINE rec == RoundRecord(0, participant, key, One, One, NoHash)
           other == With(dir, 0, key)
<1>1. One \in Scalars
  BY DEF One, Scalars
<1>2. /\ rec.round = 0 /\ rec.prev_entry_hash = NoHash
      /\ rec.params_sha256 = sha256(key) /\ rec.entry_hash = record_hash(rec)
  BY <1>1, RecordIs
<1>3. 0 \in DOMAIN other /\ other[0] = key /\ key # Unreadable
  BY FileAssumption DEF With
<1> HIDE DEF rec, other
<1>4. /\ <<rec>> # <<>> /\ DOMAIN <<rec>> = {1} /\ <<rec>>[1] = rec /\ Len(<<rec>>) = 1
  OBVIOUS
<1>5. verify_chain(<<rec>>, other)
  BY <1>2, <1>3, <1>4 DEF verify_chain
<1>6. Last(<<rec>>) = rec
  BY <1>4 DEF Last
<1> QED BY <1>2, <1>5, <1>6 DEF rec, other

\* And what a contributor is going to write, once his is.
LEMMA NextRoundVerifies ==
  ASSUME NEW rounds, IsTranscript(rounds), NEW dir, KeysOnDisk(dir),
         verify_chain(rounds, dir), NEW participant, NEW s
  PROVE  LET key == apply_delta_contribution(dir[Last(rounds).round], s)
             rec == RoundRecord(Last(rounds).round + 1, participant, key, By(One, s),
                                By(One, s), Last(rounds).entry_hash)
             longer == Append(rounds, rec)
         IN /\ Last(longer).round = Len(rounds)
            /\ verify_chain(longer, With(dir, Len(rounds), key))
            /\ IsPrefix(rounds, longer) /\ Len(longer) = Len(rounds) + 1
<1> DEFINE d == Len(rounds)
           old == dir[Last(rounds).round]
           key == apply_delta_contribution(old, s)
           share == By(One, s)
           rec == RoundRecord(Last(rounds).round + 1, participant, key, share, share,
                              Last(rounds).entry_hash)
           longer == Append(rounds, rec)
           other == With(dir, d, key)
<1>1. /\ d \in Nat \ {0} /\ Last(rounds).round = d - 1 /\ old = dir[d - 1]
      /\ d - 1 \in DOMAIN dir /\ old \in ProvingKey /\ old # Unreadable
  <2>1. d \in Nat \ {0} /\ Last(rounds).round = d - 1
    BY ChainKeys
  <2>2. d \in 1..d
    BY <2>1
  <2>3. d - 1 \in DOMAIN dir /\ dir[d - 1] \in ProvingKey
    BY <2>2, ChainKeys
  <2> QED BY <2>1, <2>3, FileAssumption
<1>2. /\ key \in ProvingKey
      /\ key.fixed = old.fixed
      /\ key.delta_g1 = By(old.delta_g1, s) /\ key.delta_g2 = By(old.delta_g2, s)
      /\ key.l_query = By(old.l_query, s) /\ key.h_query = By(old.h_query, s)
  <2>1. key \in ProvingKey
    BY <1>1, ContributionIsKey
  <2> QED BY <1>1, <2>1 DEF apply_delta_contribution, ProvingKey
<1>3. share \in Scalars
  BY ByIsTimes DEF One, Scalars
<1> HIDE DEF key, share
<1>4. /\ IsEntry(rec) /\ rec.round = d /\ rec.contribution_g1 = share
      /\ rec.contribution_g2 = share /\ rec.params_sha256 = sha256(key)
      /\ rec.prev_entry_hash = Last(rounds).entry_hash /\ rec.entry_hash = record_hash(rec)
  BY <1>1, <1>3, RecordIs
<1> HIDE DEF rec
<1>5. FollowsFrom(old, key, rec)
  <2>1. ASSUME NEW a \in Scalars
        PROVE  By(a, s) = Times(a, share) /\ By(a, s) = Times(share, a)
    BY ByIsTimes DEF share
  <2>2. /\ old.delta_g1 \in Scalars /\ old.delta_g2 \in Scalars
        /\ old.l_query \in Scalars /\ old.h_query \in Scalars
    BY <1>1 DEF ProvingKey
  <2>3. ASSUME NEW a \in Scalars, NEW q \in Scalars
        PROVE  Times(By(a, s), q) = Times(a, By(q, s))
    <3>1. By(a, s) = Times(a, share) /\ By(q, s) = Times(share, q)
      BY <2>1
    <3> QED BY <1>3, <3>1, TimesLaws
  <2>4. check_contribution_well_formed(share, share)
    BY DEF check_contribution_well_formed
  <2>5. check_delta_ratio(old, key, share, share)
    BY <1>2, <2>1, <2>2 DEF check_delta_ratio
  <2>6. /\ check_query_vector_invariant(old.l_query, old.delta_g2, key.l_query, key.delta_g2)
        /\ check_query_vector_invariant(old.h_query, old.delta_g2, key.h_query, key.delta_g2)
    BY <1>2, <2>2, <2>3 DEF check_query_vector_invariant
  <2>7. fixed_fields_match(old, key)
    BY <1>2 DEF fixed_fields_match
  <2> HIDE DEF old
  <2> QED BY <1>4, <2>4, <2>5, <2>6, <2>7 DEF FollowsFrom
<1>6. /\ longer # <<>> /\ Len(longer) = d + 1 /\ DOMAIN longer = 1..(d + 1)
      /\ DOMAIN rounds = 1..d
      /\ \A i \in DOMAIN rounds : longer[i] = rounds[i]
      /\ longer[d + 1] = rec
      /\ IsPrefix(rounds, longer)
  BY <1>4, AppendIs
<1>7. verify_chain(rounds, other)
  BY <1>1, LaterFile
<1>8. d \in DOMAIN other /\ other[d] = key /\ other[d - 1] = old
  BY <1>1 DEF With
<1> HIDE DEF longer, other
<1>9. ASSUME NEW i \in DOMAIN longer
      PROVE  LET r == longer[i]
             IN /\ r.round = i - 1
                /\ r.prev_entry_hash = IF i = 1 THEN NoHash ELSE longer[i - 1].entry_hash
                /\ r.entry_hash = record_hash(r)
                /\ r.round \in DOMAIN other
                /\ other[r.round] # Unreadable
                /\ r.params_sha256 = sha256(other[r.round])
                /\ IF i = 1 THEN /\ other[0].delta_g1 = One
                                 /\ other[0].delta_g2 = One
                            ELSE FollowsFrom(other[i - 2], other[i - 1], r)
  <2>1. CASE i = d + 1
    <3>1. /\ longer[i] = rec /\ i # 1 /\ i - 1 = d /\ i - 2 = d - 1
          /\ longer[i - 1] = rounds[d]
      BY <1>1, <1>6, <2>1
    <3>2. key # Unreadable
      BY <1>2, FileAssumption
    <3>3. Last(rounds) = rounds[d]
      BY DEF Last
    <3> QED BY <1>4, <1>5, <1>8, <3>1, <3>2, <3>3
  <2>2. CASE i # d + 1
    <3>1. /\ i \in DOMAIN rounds /\ longer[i] = rounds[i]
          /\ i # 1 => longer[i - 1] = rounds[i - 1]
      BY <1>1, <1>6, <2>2
    <3> QED BY <1>7, <3>1 DEF verify_chain
  <2> QED BY <2>1, <2>2
<1>10. verify_chain(longer, other)
  BY <1>6, <1>9 DEF verify_chain
<1>11. Last(longer).round = d
  BY <1>4, <1>6 DEF Last
<1> QED BY <1>6, <1>10, <1>11 DEF longer, other, rec, key, share

\* Prefixes of transcripts.
LEMMA PrefixIs ==
  ASSUME NEW a, IsTranscript(a), NEW b, IsTranscript(b), NEW c, IsTranscript(c)
  PROVE  /\ IsPrefix(a, a)
         /\ IsPrefix(a, b) => Len(a) <= Len(b)
         /\ IsPrefix(a, b) /\ IsPrefix(b, c) => IsPrefix(a, c)
<1>1. ASSUME NEW x, IsTranscript(x)
      PROVE  Len(x) \in Nat /\ DOMAIN x = 1..Len(x)
  <2>1. PICK S : x \in Seq(S)
    BY <1>1 DEF IsTranscript
  <2> QED BY <2>1
<1>2. ASSUME NEW x, NEW y, IsTranscript(x), IsTranscript(y)
      PROVE  IsPrefix(x, y) <=> /\ Len(x) <= Len(y)
                                /\ \A i \in 1..Len(x) : x[i] = y[i]
  <2>1. PICK S, T : x \in Seq(S) /\ y \in Seq(T)
    BY <1>2 DEF IsTranscript
  <2>2. x \in Seq(S \cup T) /\ y \in Seq(S \cup T)
    BY <2>1
  <2> QED BY <2>2 DEF IsPrefix
<1>3. IsPrefix(a, a)
  BY <1>1, <1>2
<1>4. IsPrefix(a, b) => Len(a) <= Len(b)
  BY <1>2
<1>5. ASSUME IsPrefix(a, b), IsPrefix(b, c)
      PROVE  IsPrefix(a, c)
  <2>1. /\ Len(a) <= Len(b) /\ Len(b) <= Len(c)
        /\ Len(a) \in Nat /\ Len(b) \in Nat /\ Len(c) \in Nat
    BY <1>1, <1>2, <1>5
  <2>2. ASSUME NEW i \in 1..Len(a) PROVE a[i] = c[i]
    <3>1. i \in 1..Len(b)
      BY <2>1
    <3> QED BY <1>2, <1>5, <3>1
  <2>3. Len(a) <= Len(c)
    BY <2>1
  <2> QED BY <1>2, <2>2, <2>3
<1> QED BY <1>3, <1>4, <1>5

\* When one program moves and the others are idle, only its own course matters.
LEMMA OneMoves ==
  ASSUME DOMAIN run = Runners, NEW p \in Runners, \A q \in Runners \ {p} : run[q] = Idle,
         NEW r, run' = [run EXCEPT ![p] = r],
         \/ r = Idle
         \/ Reads(r, DOMAIN files') /\ Reading(r, transcript')
         \/ Writes(r) /\ Writing(r, transcript', files', announced')
  PROVE  OneAtATime' /\ OnCourse'
<1>1. run'[p] = r /\ \A q \in Runners \ {p} : run'[q] = Idle
  OBVIOUS
<1> QED BY <1>1 DEF OneAtATime, OnCourse

\* And when it writes to no file, nothing that was written changes.
LEMMA OneMovesSilently ==
  ASSUME WellMade, InOrder, NEW p \in Runners, NEW r, run' = [run EXCEPT ![p] = r],
         UNCHANGED <<transcript, files, announced>>,
         orderly' => orderly /\ \A q \in Runners \ {p} : run[q] = Idle,
         orderly' => \/ r = Idle
                     \/ Reads(r, DOMAIN files) /\ Reading(r, transcript)
                     \/ Writes(r) /\ Writing(r, transcript, files, announced)
  PROVE  InOrder'
<1>1. SUFFICES ASSUME orderly' PROVE (OneAtATime /\ AnnouncedPlaced /\ NothingLost /\ OnCourse)'
  BY DEF InOrder
<1>2. OneAtATime' /\ OnCourse'
  <2>1. DOMAIN run = Runners
    BY DEF WellMade, RunsOK
  <2>2. files' = files /\ transcript' = transcript /\ announced' = announced
    OBVIOUS
  <2> QED BY <1>1, <2>1, <2>2, OneMoves
<1>3. AnnouncedPlaced' /\ NothingLost'
  BY <1>1 DEF InOrder, AnnouncedPlaced, NothingLost, Readable
<1> QED BY <1>2, <1>3

\* Who is at work is alone at work, and on course.
LEMMA Working ==
  ASSUME WellMade, InOrder, orderly, NEW p \in Runners, NEW pc, At(p, pc)
  PROVE  /\ \A q \in Runners \ {p} : run[q] = Idle
         /\ pc \in {"loaded", "verified"} =>
              Reads(run[p], DOMAIN files) /\ Reading(run[p], transcript)
         /\ pc \notin {"loaded", "verified"} =>
              Writes(run[p]) /\ Writing(run[p], transcript, files, announced)
<1>1. run[p] # Idle /\ run[p].pc = pc /\ OneAtATime /\ OnCourse
  BY DEF At, InOrder
<1>2. \A q \in Runners \ {p} : run[q] = Idle
  BY <1>1 DEF OneAtATime
<1>3. \/ Reads(run[p], DOMAIN files) /\ Reading(run[p], transcript)
      \/ Writes(run[p]) /\ Writing(run[p], transcript, files, announced)
  BY <1>1 DEF OnCourse
<1> QED BY <1>1, <1>2, <1>3 DEF Reads, Writes

\* ceremony_init starts on an empty directory, alone.
LEMMA InitStartsInOrder ==
  ASSUME WellMade, InOrder, InitStarts
  PROVE  InOrder'
<1> DEFINE key == GenesisKey(runs[Operator] + 1)
           rounds == <<RoundRecord(0, Operator, key, One, One, NoHash)>>
           r == [pc |-> "openKey", key |-> key, rounds |-> rounds]
<1>1. /\ run' = [run EXCEPT ![Operator] = r] /\ Operator \in Runners
      /\ UNCHANGED <<transcript, files, announced>>
      /\ orderly' => orderly /\ Alone /\ transcript = <<>>
  BY DEF InitStarts, Runners
<1>2. ASSUME orderly'
      PROVE  Writes(r) /\ Writing(r, transcript, files, announced)
  <2>1. runs[Operator] + 1 \in FixedParts
    <3>1. Operator \in Runners \cup Outsiders
      BY DEF Runners
    <3>2. runs[Operator] \in Nat /\ runs[Operator] < MaxInits
      BY <3>1 DEF WellMade, TypesOK, InitStarts, MayStart
    <3> QED BY <3>2, CeremonyAssumption
  <2>2. key \in ProvingKey /\ key.delta_g1 = One /\ key.delta_g2 = One
    BY <2>1, GenesisKeyIsKey DEF GenesisKey
  <2> HIDE DEF key
  <2>3. EndsIn(rounds, key)
    BY <2>2, FirstRound
  <2>4. verify_chain(rounds, With(files, 0, key)) /\ Last(rounds).round = 0
    BY <2>2, FirstRoundVerifies
  <2>5. Len(rounds) = 1
    OBVIOUS
  <2>6. ASSUME NEW a \in announced PROVE FALSE
    <3>1. IsPrefix(a.rounds, <<>>)
      BY <1>1, <1>2, <2>6, FileAssumption DEF InOrder, NothingLost, Readable
    <3>2. IsTranscript(a.rounds) /\ a.rounds # <<>>
      BY DEF WellMade, TypesOK, EndsIn, Chained
    <3>3. Len(a.rounds) \in Nat \ {0}
      BY <3>2, LastIs
    <3> QED BY <3>1, <3>3 DEF IsPrefix
  <2> HIDE DEF rounds
  <2>7. Writes(r)
    BY <2>3 DEF Writes
  <2>8. Writing(r, transcript, files, announced)
    BY <1>1, <1>2, <2>4, <2>5, <2>6 DEF Writing
  <2> QED BY <2>7, <2>8
<1> HIDE DEF r
<1>3. orderly' => \A q \in Runners \ {Operator} : run[q] = Idle
  BY <1>1 DEF Alone
<1> QED BY <1>1, <1>2, <1>3, OneMovesSilently

\* A contributor who has verified goes one round further than what was published.
LEMMA ContributeInOrder ==
  ASSUME WellMade, InOrder, NEW p \in Runners, Contribute(p)
  PROVE  InOrder'
<1> DEFINE s == <<p, runs[p]>>
           rounds == run[p].rounds
           prev == files[PreviousRound(p)]
           key == apply_delta_contribution(prev, s)
           rec == RoundRecord(PreviousRound(p) + 1, p, key, By(One, s), By(One, s),
                              Last(rounds).entry_hash)
           longer == Append(rounds, rec)
           r == [pc |-> "openKey", key |-> key, rounds |-> longer]
<1>1. /\ At(p, "verified")
      /\ \/ prev # Unreadable /\ run' = [run EXCEPT ![p] = r]
         \/ run' = [run EXCEPT ![p] = Idle]
      /\ UNCHANGED <<transcript, files, announced, orderly>>
  BY DEF Contribute, Exits
<1>2. orderly => /\ \A q \in Runners \ {p} : run[q] = Idle
                 /\ Reads(run[p], DOMAIN files) /\ Reading(run[p], transcript)
  BY <1>1, Working
<1>3. ASSUME orderly, prev # Unreadable
      PROVE  Writes(r) /\ Writing(r, transcript, files, announced)
  <2>1. /\ rounds = transcript /\ Readable /\ rounds # <<>> /\ IsTranscript(rounds)
        /\ KeysOnDisk(files)
    BY <1>2, <1>3 DEF Reads, Reading, Readable, WellMade, TypesOK
  <2>2. verify_chain(rounds, files)
    BY <1>3, <2>1 DEF InOrder, NothingLost
  <2>3. PreviousRound(p) = Last(rounds).round
    BY DEF PreviousRound
  <2>4. /\ Last(longer).round = Len(rounds)
        /\ verify_chain(longer, With(files, Len(rounds), key))
        /\ IsPrefix(rounds, longer) /\ Len(longer) = Len(rounds) + 1
    BY <2>1, <2>2, <2>3, NextRoundVerifies
  <2>5. EndsIn(longer, key)
    <3>1. key \in ProvingKey
      <4>1. prev \in ProvingKey
        BY <1>3, <2>1, <2>2, <2>3, VerifiedIsChained DEF KeysOnDisk
      <4> QED BY <4>1, ContributionIsKey
    <3>2. Chained(rounds)
      BY <2>1, <2>2, VerifiedIsChained
    <3> HIDE DEF key, s
    <3> QED BY <2>1, <2>3, <3>1, <3>2, NextRound
  <2> HIDE DEF key, longer
  <2>6. Writes(r)
    BY <2>5 DEF Writes
  <2>7. ASSUME NEW a \in announced
        PROVE  IsPrefix(a.rounds, longer) /\ Len(a.rounds) < Len(longer)
    <3>1. IsTranscript(a.rounds) /\ IsTranscript(longer) /\ Len(a.rounds) \in Nat
          /\ Len(rounds) \in Nat
      BY <2>1, <2>5, LastIs DEF WellMade, TypesOK, EndsIn, Chained
    <3>2. IsPrefix(a.rounds, rounds)
      BY <1>3, <2>1 DEF InOrder, NothingLost
    <3>3. IsPrefix(a.rounds, longer) /\ Len(a.rounds) <= Len(rounds)
      BY <2>1, <2>4, <3>1, <3>2, PrefixIs
    <3> QED BY <2>4, <3>1, <3>3
  <2>8. Len(transcript) < Len(longer)
    <3>1. Len(rounds) \in Nat
      BY <2>1, LastIs
    <3> QED BY <2>1, <2>4, <3>1
  <2>9. Writing(r, transcript, files, announced)
    BY <2>4, <2>7, <2>8 DEF Writing
  <2> QED BY <2>6, <2>9
<1> HIDE DEF r, prev
<1>4. CASE run' = [run EXCEPT ![p] = Idle]
  BY <1>1, <1>2, <1>4, OneMovesSilently
<1>5. CASE prev # Unreadable /\ run' = [run EXCEPT ![p] = r]
  BY <1>1, <1>2, <1>3, <1>5, OneMovesSilently
<1> QED BY <1>1, <1>4, <1>5

\* What is published of the rounds before one's own stays when one's key is written.
LEMMA KeyWrittenInOrder ==
  ASSUME WellMade, InOrder, NEW p \in Runners, NEW pc, At(p, pc),
         pc \notin {"loaded", "verified"},
         NEW next \in {"fillKey", "openTranscript"},
         NEW content, files' = With(files, Last(run[p].rounds).round, content),
         Goto(p, next),
         next = "openTranscript" => content = run[p].key,
         UNCHANGED <<transcript, announced, orderly>>
  PROVE  InOrder'
<1> SUFFICES ASSUME orderly' PROVE (OneAtATime /\ AnnouncedPlaced /\ NothingLost /\ OnCourse)'
  BY DEF InOrder
<1> DEFINE rounds == run[p].rounds
           n == Last(rounds).round
           r == [run[p] EXCEPT !.pc = next]
<1>1. /\ \A q \in Runners \ {p} : run[q] = Idle
      /\ Writes(run[p]) /\ Writing(run[p], transcript, files, announced)
      /\ AnnouncedPlaced /\ NothingLost
  BY Working DEF InOrder
<1>2. run' = [run EXCEPT ![p] = r] /\ Writes(r)
  BY WriterMoves
<1>3. r.pc = next /\ r.key = run[p].key /\ r.rounds = rounds
  BY <1>1 DEF Writes
<1>4. Len(rounds) \in Nat \ {0} /\ n = Len(rounds) - 1 /\ n \in Nat
  <2>1. IsTranscript(rounds) /\ Chained(rounds)
    BY <1>1 DEF Writes, EndsIn
  <2>2. Len(rounds) \in Nat \ {0} /\ Len(rounds) \in DOMAIN rounds /\ Last(rounds) = rounds[Len(rounds)]
    BY <2>1, LastIs DEF Chained
  <2>3. n = Len(rounds) - 1
    BY <2>1, <2>2 DEF Chained
  <2> QED BY <2>2, <2>3
<1>5. ASSUME NEW shorter, IsTranscript(shorter), verify_chain(shorter, files),
             Len(shorter) < Len(rounds)
      PROVE  /\ verify_chain(shorter, files')
             /\ files'[Last(shorter).round] = files[Last(shorter).round]
  <2>1. Len(shorter) <= n
    <3>1. Len(shorter) \in Nat
      BY <1>5, LastIs DEF verify_chain
    <3> QED BY <1>4, <1>5, <3>1
  <2> HIDE DEF n
  <2>2. files' = With(files, n, content)
    BY DEF n
  <2> QED BY <1>4, <1>5, <2>1, <2>2, LaterFile
<1>6. AnnouncedPlaced'
  <2>1. ASSUME NEW a \in announced PROVE Placed(a.rounds, a.key, files')
    <3>1. IsTranscript(a.rounds) /\ Len(a.rounds) < Len(rounds)
      BY <1>1 DEF Writing, WellMade, TypesOK, EndsIn
    <3>2. verify_chain(a.rounds, files) /\ files[Last(a.rounds).round] = a.key
      BY <1>1 DEF AnnouncedPlaced, Placed
    <3> QED BY <1>5, <3>1, <3>2 DEF Placed
  <2> QED BY <2>1 DEF AnnouncedPlaced
<1>7. NothingLost'
  <2>1. ASSUME Readable, transcript # <<>> PROVE verify_chain(transcript, files')
    <3>1. /\ IsTranscript(transcript) /\ verify_chain(transcript, files)
          /\ Len(transcript) < Len(rounds)
      BY <1>1, <2>1 DEF Writing, WellMade, TypesOK, NothingLost, Readable
    <3> QED BY <1>5, <3>1
  <2> QED BY <1>1, <2>1 DEF NothingLost, Readable
<1>8. Writing(r, transcript', files', announced')
  <2>1. With(files', n, run[p].key) = With(files, n, run[p].key)
    <3> HIDE DEF n
    <3>1. files' = With(files, n, content)
      BY DEF n
    <3> QED BY <3>1, WithTwice
  <2>2. verify_chain(rounds, With(files', n, run[p].key))
    BY <1>1, <2>1 DEF Writing
  <2>3. next = "openTranscript" => Placed(rounds, run[p].key, files')
    <3>1. ASSUME content = run[p].key
          PROVE  files' = With(files', n, run[p].key) /\ files'[n] = run[p].key
      BY <3>1, WithTwice
    <3>2. content = run[p].key => verify_chain(rounds, files') /\ files'[n] = run[p].key
      BY <2>2, <3>1
    <3> QED BY <3>2 DEF Placed
  <2>4. /\ \A a \in announced : IsPrefix(a.rounds, rounds) /\ Len(a.rounds) < Len(rounds)
        /\ transcript # Unreadable => Len(transcript) < Len(rounds)
    BY <1>1 DEF Writing
  <2>5. transcript' = transcript /\ announced' = announced
    OBVIOUS
  <2>6. r.pc \in {"openTranscript", "fillTranscript"} => Placed(rounds, run[p].key, files')
    BY <1>3, <2>3
  <2> HIDE DEF r
  <2> QED BY <1>3, <2>2, <2>4, <2>5, <2>6 DEF Writing
<1>9. OneAtATime' /\ OnCourse'
  <2>1. DOMAIN run = Runners
    BY DEF WellMade, RunsOK
  <2> HIDE DEF r
  <2> QED BY <1>1, <1>2, <1>8, <2>1, OneMoves
<1> QED BY <1>6, <1>7, <1>9

\* Writing the transcript loses none: the one in its place is shorter.
LEMMA OpenTranscriptInOrder ==
  ASSUME WellMade, InOrder, NEW p \in Runners, OpenTranscript(p)
  PROVE  InOrder'
<1> SUFFICES ASSUME orderly' PROVE (OneAtATime /\ AnnouncedPlaced /\ NothingLost /\ OnCourse)'
  BY DEF InOrder
<1> DEFINE r == [run[p] EXCEPT !.pc = "fillTranscript"]
<1>1. /\ At(p, "openTranscript") /\ Goto(p, "fillTranscript") /\ transcript' = Unreadable
      /\ UNCHANGED <<files, announced, orderly>>
  BY DEF OpenTranscript
<1>2. /\ \A q \in Runners \ {p} : run[q] = Idle
      /\ Writes(run[p]) /\ Writing(run[p], transcript, files, announced)
      /\ AnnouncedPlaced
      /\ run[p].pc = "openTranscript"
  BY <1>1, Working DEF InOrder, At
<1>3. run' = [run EXCEPT ![p] = r] /\ Writes(r)
  BY <1>1, WriterMoves
<1>4. r.pc = "fillTranscript" /\ r.key = run[p].key /\ r.rounds = run[p].rounds
  BY <1>2 DEF Writes
<1> HIDE DEF r
<1>5. Writing(r, transcript', files', announced')
  BY <1>1, <1>2, <1>4 DEF Writing
<1>6. OneAtATime' /\ OnCourse'
  <2>1. DOMAIN run = Runners
    BY DEF WellMade, RunsOK
  <2> QED BY <1>2, <1>3, <1>5, <2>1, OneMoves
<1>7. AnnouncedPlaced' /\ NothingLost'
  BY <1>1, <1>2 DEF AnnouncedPlaced, NothingLost, Readable
<1> QED BY <1>6, <1>7

\* And what it has written is the longest that was published.
LEMMA FillTranscriptInOrder ==
  ASSUME WellMade, InOrder, NEW p \in Runners, FillTranscript(p)
  PROVE  InOrder'
<1> SUFFICES ASSUME orderly' PROVE (OneAtATime /\ AnnouncedPlaced /\ NothingLost /\ OnCourse)'
  BY DEF InOrder
<1>1. /\ At(p, "fillTranscript") /\ run' = [run EXCEPT ![p] = Idle]
      /\ transcript' = run[p].rounds \/ transcript' = Unreadable
      /\ announced' = announced \cup {[rounds |-> run[p].rounds, key |-> run[p].key]}
      /\ UNCHANGED <<files, orderly>>
  BY DEF FillTranscript, Exits
<1>2. /\ \A q \in Runners \ {p} : run[q] = Idle
      /\ Writes(run[p]) /\ Writing(run[p], transcript, files, announced)
      /\ AnnouncedPlaced
      /\ run[p].pc = "fillTranscript"
  BY <1>1, Working DEF InOrder, At
<1>3. Placed(run[p].rounds, run[p].key, files) /\ IsTranscript(run[p].rounds)
  BY <1>2 DEF Writing, Writes, EndsIn
<1>4. AnnouncedPlaced'
  BY <1>1, <1>2, <1>3 DEF AnnouncedPlaced
<1>5. NothingLost'
  <2>1. IsPrefix(run[p].rounds, run[p].rounds)
    BY <1>3, PrefixIs
  <2>2. \A a \in announced' : IsPrefix(a.rounds, run[p].rounds)
    BY <1>1, <1>2, <2>1 DEF Writing
  <2>3. verify_chain(run[p].rounds, files')
    BY <1>1, <1>3 DEF Placed
  <2> QED BY <1>1, <2>2, <2>3 DEF NothingLost, Readable
<1>6. OneAtATime' /\ OnCourse'
  <2>1. DOMAIN run = Runners
    BY DEF WellMade, RunsOK
  <2> QED BY <1>1, <1>2, <2>1, OneMoves
<1> QED BY <1>4, <1>5, <1>6

\* Every step of the procedure, and every crash, keeps it in order.
LEMMA NextKeepsOrder == WellMade /\ InOrder /\ [Next]_vars => InOrder'
<1> SUFFICES ASSUME WellMade, InOrder, [Next]_vars PROVE InOrder'
  OBVIOUS
<1>0. DOMAIN run = Runners /\ Participants \subseteq Runners
  BY DEF WellMade, RunsOK, Runners
<1>1. CASE InitStarts
  BY <1>1, InitStartsInOrder
<1>2. ASSUME NEW p \in Participants, LoadTranscript(p)
      PROVE  InOrder'
  <2> DEFINE r == [pc |-> "loaded", rounds |-> transcript]
  <2>1. Reads(r, DOMAIN files) /\ Reading(r, transcript)
    BY <1>2 DEF LoadTranscript, WellMade, TypesOK, Reads, Reading, Readable
  <2>2. /\ p \in Runners /\ run' = [run EXCEPT ![p] = r]
        /\ UNCHANGED <<transcript, files, announced>>
        /\ orderly' => orderly /\ \A q \in Runners \ {p} : run[q] = Idle
    BY <1>0, <1>2 DEF LoadTranscript, Alone
  <2> HIDE DEF r
  <2> QED BY <2>1, <2>2, OneMovesSilently
<1>3. ASSUME NEW p \in Participants, VerifyLoaded(p)
      PROVE  InOrder'
  <2> DEFINE r == [run[p] EXCEPT !.pc = "verified"]
  <2>1. /\ p \in Runners /\ At(p, "loaded")
        /\ \/ verify_chain(run[p].rounds, files) /\ run' = [run EXCEPT ![p] = r]
           \/ run' = [run EXCEPT ![p] = Idle]
        /\ UNCHANGED <<transcript, files, announced, orderly>>
    BY <1>0, <1>3 DEF VerifyLoaded, Goto, Exits
  <2>2. orderly => /\ \A q \in Runners \ {p} : run[q] = Idle
                   /\ Reads(run[p], DOMAIN files) /\ Reading(run[p], transcript)
    BY <2>1, Working
  <2>3. ASSUME orderly, verify_chain(run[p].rounds, files)
        PROVE  Reads(r, DOMAIN files) /\ Reading(r, transcript)
    <3>1. r = [pc |-> "verified", rounds |-> run[p].rounds]
      BY <2>2, <2>3 DEF Reads
    <3>2. IsTranscript(run[p].rounds) /\ run[p].rounds # <<>>
      BY <2>2, <2>3 DEF Reads
    <3>3. Chained(run[p].rounds) /\ Last(run[p].rounds).round \in DOMAIN files
      BY <2>3, <3>2, VerifiedIsChained
    <3> QED BY <2>2, <2>3, <3>1, <3>2, <3>3 DEF Reads, Reading
  <2> HIDE DEF r
  <2>4. CASE run' = [run EXCEPT ![p] = Idle]
    BY <2>1, <2>2, <2>4, OneMovesSilently
  <2>5. CASE verify_chain(run[p].rounds, files) /\ run' = [run EXCEPT ![p] = r]
    BY <2>1, <2>2, <2>3, <2>5, OneMovesSilently
  <2> QED BY <2>1, <2>4, <2>5
<1>4. ASSUME NEW p \in Participants, Contribute(p)
      PROVE  InOrder'
  BY <1>0, <1>4, ContributeInOrder
<1>5. ASSUME NEW p \in Runners, OpenKey(p)
      PROVE  InOrder'
  <2>1. /\ At(p, "openKey") /\ Goto(p, "fillKey")
        /\ files' = With(files, Last(run[p].rounds).round, Unreadable)
        /\ UNCHANGED <<transcript, announced, orderly>>
    BY <1>5 DEF OpenKey, PutFile, With
  <2>2. "fillKey" # "openTranscript" /\ "openKey" \notin {"loaded", "verified"}
    OBVIOUS
  <2> QED BY <2>1, <2>2, KeyWrittenInOrder
<1>6. ASSUME NEW p \in Runners, FillKey(p)
      PROVE  InOrder'
  <2>1. /\ At(p, "fillKey") /\ Goto(p, "openTranscript")
        /\ files' = With(files, Last(run[p].rounds).round, run[p].key)
        /\ UNCHANGED <<transcript, announced, orderly>>
    BY <1>6 DEF FillKey, PutFile, With
  <2> QED BY <2>1, KeyWrittenInOrder
<1>7. ASSUME NEW p \in Runners, OpenTranscript(p)
      PROVE  InOrder'
  BY <1>7, OpenTranscriptInOrder
<1>8. ASSUME NEW p \in Runners, FillTranscript(p)
      PROVE  InOrder'
  BY <1>8, FillTranscriptInOrder
<1>9. ASSUME NEW p \in Runners, Crash(p)
      PROVE  InOrder'
  <2>1. /\ run' = [run EXCEPT ![p] = Idle]
        /\ UNCHANGED <<transcript, files, announced, orderly>>
        /\ run[p] # Idle
    BY <1>9 DEF Crash, Exits
  <2>2. orderly => \A q \in Runners \ {p} : run[q] = Idle
    BY <2>1 DEF InOrder, OneAtATime
  <2> QED BY <2>1, <2>2, OneMovesSilently
<1>10. ASSUME NEW p \in Outsiders, OutsideRound(p)
       PROVE  InOrder'
  BY <1>10 DEF OutsideRound, InOrder
<1>11. CASE Alteration
  BY <1>11 DEF Alteration, InOrder
<1>12. CASE UNCHANGED vars
  BY <1>12 DEF vars, InOrder, OneAtATime, AnnouncedPlaced, NothingLost, OnCourse, Readable
<1> QED BY <1>1, <1>2, <1>3, <1>4, <1>5, <1>6, <1>7, <1>8, <1>9, <1>10, <1>11, <1>12 DEF Next

\* So it always is in order.
LEMMA AlwaysInOrder == Spec => []InOrder
<1>1. Init => InOrder
  BY DEF Init, InOrder, OneAtATime, AnnouncedPlaced, NothingLost, OnCourse
<1>2. WellMade /\ InOrder /\ [Next]_vars => InOrder'
  BY NextKeepsOrder
<1> QED BY <1>1, <1>2, AlwaysWellMade, PTL DEF Spec

\* While rounds are run one after the other on one ceremony_init, no crash at
\* any step loses a completed round, unless it made the transcript unreadable,
\* and the directory verifies (ceremony_contribute.rs:4-5).
THEOREM CeremonyNoRoundLost == Spec => []NoRoundLost
<1>1. InOrder => NoRoundLost
  BY DEF InOrder, NothingLost, NoRoundLost, Verifies
<1> QED BY <1>1, AlwaysInOrder, PTL

\* And a copy of the transcript as any completed run published it restores the
\* ceremony at any moment (ceremony_contribute.rs:168-169).
THEOREM CeremonyPublishedCopyRestores == Spec => []PublishedCopyRestores
<1>1. InOrder => PublishedCopyRestores
  BY DEF InOrder, AnnouncedPlaced, Placed, PublishedCopyRestores
<1> QED BY <1>1, AlwaysInOrder, PTL
=============================================================================
