---------------------------- MODULE LedgerProofs ----------------------------
(***************************************************************************)
(* What all proofs about records and policies use: facts about sequences,  *)
(* the sets of their elements and the sequences a scan of the store lists, *)
(* and what the fee registry promises for every list of policies and every *)
(* transaction context, not only for those of the runs.                    *)
(***************************************************************************)
EXTENDS Ledger, FeePolicy, SequencesExt, TLAPS, SequenceTheorems,
        FiniteSetTheorems, FunctionTheorems, WellFoundedInduction

IsSequence(s) == s \in Seq(ToSet(s))

\* A sequence over any set is one over its elements.
LEMMA SequenceOfItsElements ==
  ASSUME NEW S, NEW s \in Seq(S)
  PROVE  IsSequence(s)
<1>1. PICK n \in Nat : s \in [1 .. n -> S]
  BY SeqDef
<1>2. \A i \in 1 .. n : s[i] \in ToSet(s)
  BY <1>1 DEF ToSet
<1>3. s \in [1 .. n -> ToSet(s)]
  BY <1>1, <1>2
<1> QED BY <1>1, <1>3, SeqDef DEF IsSequence

\* The elements of a concatenation are those of its parts.
LEMMA ElementsOfConcat ==
  ASSUME NEW s, IsSequence(s), NEW t, IsSequence(t)
  PROVE  IsSequence(s \o t) /\ ToSet(s \o t) = ToSet(s) \cup ToSet(t)
<1> DEFINE S == ToSet(s) \cup ToSet(t)
<1>1. s \in Seq(S) /\ t \in Seq(S)
  BY DEF IsSequence
<1>2. s \o t \in Seq(S) /\ DOMAIN (s \o t) = 1 .. Len(s) + Len(t)
  BY <1>1
<1>3. ASSUME NEW x \in ToSet(s \o t) PROVE x \in S
  BY <1>2 DEF ToSet
<1>4. ASSUME NEW x \in ToSet(s) PROVE x \in ToSet(s \o t)
  <2>1. PICK i \in 1 .. Len(s) : x = s[i]
    BY <1>1 DEF ToSet
  <2>2. (s \o t)[i] = x /\ i \in 1 .. Len(s) + Len(t)
    BY <1>1, <2>1
  <2> QED BY <1>2, <2>2 DEF ToSet
<1>5. ASSUME NEW x \in ToSet(t) PROVE x \in ToSet(s \o t)
  <2>1. PICK i \in 1 .. Len(t) : x = t[i]
    BY <1>1 DEF ToSet
  <2>2. (s \o t)[Len(s) + i] = x /\ Len(s) + i \in 1 .. Len(s) + Len(t)
    BY <1>1, <2>1
  <2> QED BY <1>2, <2>2 DEF ToSet
<1>6. ToSet(s \o t) = S
  BY <1>3, <1>4, <1>5
<1> QED BY <1>2, <1>6 DEF IsSequence

\* Taking the first element off leaves the others.
LEMMA HeadOrTail ==
  ASSUME NEW s, IsSequence(s), s # <<>>
  PROVE  /\ IsSequence(Tail(s))
         /\ Head(s) \in ToSet(s)
         /\ ToSet(s) = {Head(s)} \cup ToSet(Tail(s))
<1>1. /\ Len(s) \in Nat \ {0} /\ DOMAIN s = 1 .. Len(s) /\ Head(s) = s[1]
      /\ Len(Tail(s)) = Len(s) - 1 /\ DOMAIN Tail(s) = 1 .. Len(s) - 1
      /\ \A i \in 1 .. Len(s) - 1 : Tail(s)[i] = s[i + 1]
  BY DEF IsSequence
<1>2. Head(s) \in ToSet(s)
  BY <1>1 DEF ToSet
<1>3. ASSUME NEW x \in ToSet(s), x # Head(s) PROVE x \in ToSet(Tail(s))
  <2>1. PICK i \in 1 .. Len(s) : x = s[i]
    BY <1>1 DEF ToSet
  <2>2. i - 1 \in 1 .. Len(s) - 1 /\ Tail(s)[i - 1] = x
    BY <1>1, <1>3, <2>1
  <2> QED BY <1>1, <2>2 DEF ToSet
<1>4. ASSUME NEW x \in ToSet(Tail(s)) PROVE x \in ToSet(s)
  <2>1. PICK i \in 1 .. Len(s) - 1 : x = Tail(s)[i]
    BY <1>1 DEF ToSet
  <2>2. i + 1 \in 1 .. Len(s) /\ s[i + 1] = x
    BY <1>1, <2>1
  <2> QED BY <1>1, <2>2 DEF ToSet
<1>5. IsSequence(Tail(s))
  <2>1. Tail(s) \in Seq(ToSet(s))
    BY DEF IsSequence
  <2> QED BY <2>1, SequenceOfItsElements
<1> QED BY <1>2, <1>3, <1>4, <1>5

\* An index entry leads to the record it is for.
LEMMA EntryLeadsHome ==
  \A r : \A e \in IndexEntries(r) : e = [by |-> e.by, to |-> Key(r)]
BY DEF IndexEntries

\* A scan lists each key once: the keys below a key determine its place.
LEMMA ListedEnumerates ==
  ASSUME NEW keys, IsFiniteSet(keys), \A k \in keys : k.id \in Nat,
         \A j, k \in keys : j.id = k.id => j = k
  PROVE  /\ IsSequence(Listed(keys)) /\ ToSet(Listed(keys)) = keys
         /\ Listed(keys) \in [1 .. Cardinality(keys) -> keys]
         /\ \A i, j \in 1 .. Cardinality(keys) :
              Listed(keys)[i] = Listed(keys)[j] => i = j
<1> DEFINE n == Cardinality(keys)
           rank == [k \in keys |-> Cardinality(Before(keys, k))]
<1>1. n \in Nat /\ IsFiniteSet(0 .. n - 1) /\ Cardinality(0 .. n - 1) = n
  <2>1. n \in Nat
    BY FS_CardinalityType
  <2> HIDE DEF n
  <2>2. 0 \in Int /\ n - 1 \in Int /\ (0 > n - 1 => n = 0) /\ n - 1 - 0 + 1 = n
    BY <2>1
  <2> QED BY <2>1, <2>2, FS_Interval
<1>2. ASSUME NEW k \in keys
      PROVE  /\ IsFiniteSet(Before(keys, k))
             /\ Cardinality(Before(keys, k)) \in 0 .. n - 1
  <2>1. Before(keys, k) \subseteq keys /\ k \notin Before(keys, k)
    BY DEF Before
  <2>2. /\ IsFiniteSet(Before(keys, k))
        /\ Cardinality(Before(keys, k)) <= n
        /\ Cardinality(Before(keys, k)) # n
    BY <2>1, FS_Subset
  <2>3. Cardinality(Before(keys, k)) \in Nat
    BY <2>2, FS_CardinalityType
  <2> QED BY <1>1, <2>2, <2>3
<1>3. ASSUME NEW j \in keys, NEW k \in keys, j.id < k.id
      PROVE  Cardinality(Before(keys, j)) # Cardinality(Before(keys, k))
  <2>1. /\ Before(keys, j) \subseteq Before(keys, k)
        /\ j \in Before(keys, k) /\ j \notin Before(keys, j)
    BY <1>3 DEF Before
  <2> QED BY <1>2, <2>1, FS_Subset
<1>4. \A j, k \in keys : rank[j] = rank[k] => j = k
  <2> SUFFICES ASSUME NEW j \in keys, NEW k \in keys, j # k
               PROVE  Cardinality(Before(keys, j)) # Cardinality(Before(keys, k))
    OBVIOUS
  <2>1. j.id < k.id \/ k.id < j.id
    OBVIOUS
  <2> QED BY <1>3, <2>1
<1>5. rank \in [keys -> 0 .. n - 1]
  BY <1>2
<1>6. rank \in Injection(keys, 0 .. n - 1)
  BY <1>4, <1>5 DEF Injection, IsInjective
<1>7. rank \in Surjection(keys, 0 .. n - 1)
  BY <1>1, <1>6, FS_Injection
<1>8. \A i \in 1 .. n : \E k \in keys : Cardinality(Before(keys, k)) = i - 1
  <2> TAKE i \in 1 .. n
  <2>1. i - 1 \in 0 .. n - 1
    BY <1>1
  <2>2. \E k \in keys : rank[k] = i - 1
    BY <1>7, <2>1 DEF Surjection
  <2> QED BY <2>2
<1>9. \A i \in 1 .. n : /\ Listed(keys)[i] \in keys
                        /\ Cardinality(Before(keys, Listed(keys)[i])) = i - 1
  BY <1>8 DEF Listed
<1>10. Listed(keys) \in [1 .. n -> keys]
  BY <1>9 DEF Listed
<1>11. Listed(keys) \in Seq(keys)
  BY <1>1, <1>10, SeqDef
<1>12. ASSUME NEW k \in keys PROVE \E i \in 1 .. n : Listed(keys)[i] = k
  <2> DEFINE i == Cardinality(Before(keys, k)) + 1
  <2>1. i \in 1 .. n /\ i - 1 = Cardinality(Before(keys, k))
    BY <1>1, <1>2
  <2> HIDE DEF i
  <2>2. rank[Listed(keys)[i]] = rank[k] /\ Listed(keys)[i] \in keys
    BY <1>9, <2>1
  <2> QED BY <1>4, <2>1, <2>2
<1>13. ToSet(Listed(keys)) = keys
  BY <1>10, <1>12 DEF ToSet
<1>14. \A i, j \in 1 .. n : Listed(keys)[i] = Listed(keys)[j] => i = j
  <2> SUFFICES ASSUME NEW i \in 1 .. n, NEW j \in 1 .. n,
                      Listed(keys)[i] = Listed(keys)[j]
               PROVE  i = j
    OBVIOUS
  <2>1. i - 1 = j - 1
    BY <1>9
  <2> HIDE DEF n
  <2> QED BY <1>1, <2>1
<1> QED BY <1>10, <1>11, <1>13, <1>14, SequenceOfItsElements
-----------------------------------------------------------------------------
(* The least element of a set of naturals, which finds the last index of a *)
(* tier.                                                                   *)
LEMMA MinimalIn ==
  ASSUME NEW R, IsWellFoundedOn(R, Nat), NEW T, T \subseteq Nat, T # {}
  PROVE  \E n \in T : \A m \in T : ~(<<m, n>> \in R)
BY WFMin, ZenonT(60)

(* Less-than on the naturals as the relation MinimalIn needs.              *)
LEMMA LeastNatural ==
  ASSUME NEW T, T \subseteq Nat, T # {}
  PROVE  \E n \in T : \A m \in T : n <= m
<1>1. \E R : /\ IsWellFoundedOn(R, Nat)
             /\ \A m, n \in Nat : <<m, n>> \in R <=> m < n
  <2> DEFINE R == OpToRel(<, Nat)
  <2>1. IsWellFoundedOn(R, Nat)
    BY NatLessThanWellFounded
  <2>2. \A m, n \in Nat : <<m, n>> \in R <=> m < n
    BY DEF OpToRel
  <2> HIDE DEF R
  <2> QED BY <2>1, <2>2
<1>2. PICK R : /\ IsWellFoundedOn(R, Nat)
               /\ \A m, n \in Nat : <<m, n>> \in R <=> m < n
  BY <1>1
<1>3. PICK n \in T : \A m \in T : ~(<<m, n>> \in R)
  <2>1. IsWellFoundedOn(R, Nat)
    BY <1>2
  <2> QED BY <2>1, MinimalIn
<1>4. \A m \in T : n \in Nat /\ m \in Nat /\ ~(m < n)
  BY <1>2, <1>3
<1> QED BY <1>3, <1>4
-----------------------------------------------------------------------------
(* A policy that neither covers the context nor replaces one that does     *)
(* leaves the policies of every tier where they were (register).           *)
LEMMA FittingKept ==
  ASSUME NEW S, NEW policies \in Seq(S), NEW p, NEW c,
         ~Covers(p, c),
         \A i \in DOMAIN policies :
           policies[i].id = p.id => ~Covers(policies[i], c)
  PROVE  Fitting(Register(policies, p), c) = Fitting(policies, c)
<1> DEFINE new == Register(policies, p)
           At(r, t) == {i \in DOMAIN r : Applies(t, r[i], c)}
<1> SUFFICES ASSUME NEW tier \in Tiers PROVE At(new, tier) = At(policies, tier)
  BY DEF Fitting
<1>1. CASE \E i \in DOMAIN policies : policies[i].id = p.id
  <2>1. new = [i \in DOMAIN policies |->
                 IF policies[i].id = p.id THEN p ELSE policies[i]]
    BY <1>1 DEF Register
  <2>2. DOMAIN new = DOMAIN policies
    BY <2>1
  <2>3. ASSUME NEW i \in DOMAIN policies
        PROVE  Applies(tier, new[i], c) <=> Applies(tier, policies[i], c)
    <3>1. CASE policies[i].id = p.id
      <4>1. new[i] = p
        BY <2>1, <3>1
      <4>2. ~Applies(tier, p, c) /\ ~Applies(tier, policies[i], c)
        BY <3>1 DEF Covers
      <4> QED BY <4>1, <4>2
    <3>2. CASE policies[i].id # p.id
      BY <2>1, <3>2
    <3> QED BY <3>1, <3>2
  <2> QED BY <2>2, <2>3
<1>2. CASE ~\E i \in DOMAIN policies : policies[i].id = p.id
  <2>1. new = Append(policies, p)
    BY <1>2 DEF Register
  <2>2. /\ Len(policies) \in Nat
        /\ DOMAIN policies = 1 .. Len(policies)
        /\ DOMAIN new = 1 .. Len(policies) + 1
        /\ new[Len(policies) + 1] = p
    BY <2>1
  <2>3. \A i \in DOMAIN policies : new[i] = policies[i]
    BY <2>1
  <2>4. ~Applies(tier, p, c)
    BY DEF Covers
  <2>5. \A i \in DOMAIN new : i \in DOMAIN policies \/ i = Len(policies) + 1
    BY <2>2
  <2>6. DOMAIN policies \subseteq DOMAIN new
    BY <2>2
  <2> QED BY <2>2, <2>3, <2>4, <2>5, <2>6
<1> QED BY <1>1, <1>2

(* Outside the replaced place, the registry keeps its entries.             *)
LEMMA CoveringKept ==
  ASSUME NEW S, NEW policies \in Seq(S), NEW p, NEW c, NEW i \in DOMAIN policies,
         Covers(policies[i], c),
         \A j \in DOMAIN policies :
           policies[j].id = p.id => ~Covers(policies[j], c)
  PROVE  Register(policies, p)[i] = policies[i]
<1>1. policies[i].id # p.id
  OBVIOUS
<1>2. CASE \E j \in DOMAIN policies : policies[j].id = p.id
  BY <1>1, <1>2 DEF Register
<1>3. CASE ~\E j \in DOMAIN policies : policies[j].id = p.id
  <2>1. Register(policies, p) = Append(policies, p)
    BY <1>3 DEF Register
  <2> QED BY <2>1
<1> QED BY <1>2, <1>3

(* A context some policy covers is served from the best tier reached, by   *)
(* the policy registered last in it.                                       *)
LEMMA BestIsChosen ==
  ASSUME NEW S, NEW policies \in Seq(S), NEW c,
         NEW fit, fit = Fitting(policies, c),
         \E t \in Tiers : fit[t] # {}
  PROVE  /\ BestTier(fit) \in Tiers
         /\ fit[BestTier(fit)] \subseteq Nat
         /\ \E i \in fit[BestTier(fit)] :
              /\ \A j \in fit[BestTier(fit)] : j <= i
              /\ MatchPolicy(policies, c) = policies[i]
              /\ i \in DOMAIN policies /\ Covers(policies[i], c)
<1>1. \E t \in Tiers : fit[t] # {} /\ \A s \in Tiers : s < t => fit[s] = {}
  <2>1. Tiers = {1, 2, 3, 4}
    BY DEF Tiers
  <2> QED BY <2>1
<1>2. BestTier(fit) \in Tiers /\ fit[BestTier(fit)] # {}
  BY <1>1 DEF BestTier
<1> DEFINE best == fit[BestTier(fit)]
<1>3. best \subseteq DOMAIN policies /\ \A i \in best : Covers(policies[i], c)
  BY <1>2 DEF Fitting, Covers
<1>4. Len(policies) \in Nat /\ DOMAIN policies = 1 .. Len(policies)
  OBVIOUS
<1>5. \E i \in best : \A j \in best : j <= i
  <2> DEFINE N == Len(policies)
             back == {N - i : i \in best}
  <2>1. back \in SUBSET Nat /\ back # {}
    BY <1>2, <1>3, <1>4
  <2>2. PICK n \in back : \A m \in back : n <= m
    BY <2>1, LeastNatural
  <2>3. PICK i \in best : n = N - i
    BY <2>2
  <2>4. ASSUME NEW j \in best PROVE j <= i
    <3>1. N - i <= N - j
      BY <2>2, <2>3
    <3> QED BY <3>1, <1>3, <1>4
  <2> QED BY <2>4
<1> QED BY <1>2, <1>3, <1>5 DEF MatchPolicy

(* match_policy answers whenever some registered policy covers the         *)
(* context, and then with a registered policy that covers it: the          *)
(* UNKNOWN_FEE_POLICY finding of reconcile_order means that none does.     *)
THEOREM PolicyFoundCovers ==
  ASSUME NEW S, NEW policies \in Seq(S), NEW c,
         \E i \in DOMAIN policies : Covers(policies[i], c)
  PROVE  \E i \in DOMAIN policies : /\ MatchPolicy(policies, c) = policies[i]
                                    /\ Covers(policies[i], c)
<1> DEFINE fit == Fitting(policies, c)
<1>1. \E t \in Tiers : fit[t] # {}
  BY DEF Covers, Fitting
<1> QED BY <1>1, BestIsChosen

(* Registering a policy changes the policy found for no transaction the    *)
(* policy does not cover, unless it replaces one that does: what one data  *)
(* set registers in the shared GLOBAL_FEE_REGISTRY (run_reconciliation.py, *)
(* stress_test/runner.py) reaches another data set only through contexts   *)
(* both use.                                                               *)
THEOREM RegisterIsLocal ==
  ASSUME NEW S, NEW policies \in Seq(S), NEW p, NEW c,
         ~Covers(p, c),
         \A i \in DOMAIN policies :
           policies[i].id = p.id => ~Covers(policies[i], c)
  PROVE  MatchPolicy(Register(policies, p), c) = MatchPolicy(policies, c)
<1> DEFINE fit == Fitting(policies, c)
<1>1. Fitting(Register(policies, p), c) = fit
  BY FittingKept
<1>2. CASE \A t \in Tiers : fit[t] = {}
  BY <1>1, <1>2 DEF MatchPolicy
<1>3. CASE \E t \in Tiers : fit[t] # {}
  <2> DEFINE best == fit[BestTier(fit)]
             last == CHOOSE i \in best : \A j \in best : j <= i
  <2>1. MatchPolicy(Register(policies, p), c) = Register(policies, p)[last]
    BY <1>1, <1>3 DEF MatchPolicy
  <2>2. MatchPolicy(policies, c) = policies[last]
    BY <1>3 DEF MatchPolicy
  <2>3. PICK i \in best : /\ \A j \in best : j <= i
                          /\ i \in DOMAIN policies /\ Covers(policies[i], c)
    BY <1>3, BestIsChosen
  <2>4. last \in best /\ \A j \in best : j <= last
    BY <2>3
  <2>5. last = i
    <3>1. best \subseteq Nat
      BY <1>3, BestIsChosen
    <3>2. last \in Nat /\ i \in Nat /\ last <= i /\ i <= last
      BY <3>1, <2>3, <2>4
    <3> HIDE DEF last
    <3> QED BY <3>2
  <2> QED BY <2>1, <2>2, <2>3, <2>5, CoveringKept
<1> QED BY <1>2, <1>3
=============================================================================
