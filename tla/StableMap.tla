----------------------------- MODULE StableMap ------------------------------
(***************************************************************************)
(* The canister keeps every collection twice: a HashMap, which lives on    *)
(* the heap and is lost by an upgrade, and a stable array of key/value     *)
(* pairs that the upgrade hooks fill and drain.  A HashMap is a function   *)
(* over the keys present; the array is the set of its pairs, because no    *)
(* code reads its order.  HashMap itself is mo:base, modelled from its use.*)
(***************************************************************************)

EmptyMap == [k \in {} |-> {}]

Put(m, k, v) == [x \in DOMAIN m \cup {k} |-> IF x = k THEN v ELSE m[x]]

Delete(m, S) == [x \in DOMAIN m \ S |-> m[x]]

\* Iter.toArray(m.entries())
Entries(m) == {<<k, m[k]>> : k \in DOMAIN m}

\* HashMap.fromIter(entries.vals(), ...)
FromIter(entries) ==
  [k \in {e[1] : e \in entries} |-> (CHOOSE e \in entries : e[1] = k)[2]]
=============================================================================
