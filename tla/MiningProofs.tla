---------------------------- MODULE MiningProofs ----------------------------
(***************************************************************************)
(* Theorems about skill mining, for any digests, likeness of digests,      *)
(* request threads and floors.                                             *)
(***************************************************************************)
EXTENDS Mining, DeskProofs

-----------------------------------------------------------------------------
\* Induction on finite sets and sums over them

LEMMA SetSteps ==
    ASSUME NEW S, IsFiniteSet(S), NEW W, {} \in W,
           \A T \in SUBSET S, x \in S : T \in W => T \cup {x} \in W
    PROVE  S \in W
  <1> DEFINE Bad == {T \in SUBSET S : T \notin W}
  <1>1. FiniteSubsetsOf(S) = SUBSET S
    BY FS_FiniteSubsetsOfFinite
  <1>2. SUFFICES ASSUME S \notin W PROVE FALSE
    OBVIOUS
  <1>3. Bad \subseteq FiniteSubsetsOf(S) /\ Bad # {}
    BY <1>1, <1>2
  <1>4. IsWellFoundedOn(StrictSubsetOrdering(S), FiniteSubsetsOf(S))
    BY FS_StrictSubsetOrderingWellFounded
  <1>5. PICK T \in Bad : \A U \in Bad : ~(<<U, T>> \in StrictSubsetOrdering(S))
    <2> HIDE DEF Bad
    <2>1. QED
      BY <1>3, <1>4, WFMin
  <1>6. PICK x \in T : TRUE
    BY <1>5
  <1>7. T \ {x} \in W
    <2>1. T \ {x} \in SUBSET S /\ T \ {x} # T
      BY <1>5, <1>6
    <2>2. <<T \ {x}, T>> \in StrictSubsetOrdering(S)
      BY <2>1, <1>5 DEF StrictSubsetOrdering
    <2>3. QED
      BY <1>5, <2>1, <2>2
  <1>8. (T \ {x}) \cup {x} = T
    BY <1>6
  <1>9. QED
    BY <1>5, <1>6, <1>7, <1>8

\* A sum over a finite set adds one element at a time.
Rest(s) == s \ {CHOOSE x \in s : TRUE}
Adds(v, D, f) == f = [s \in D |-> IF s = {} THEN 0 ELSE v[CHOOSE x \in s : TRUE] + f[Rest(s)]]
UpTo(S, n) == {s \in SUBSET S : Cardinality(s) <= n}

LEMMA RestSmaller ==
    ASSUME NEW S, IsFiniteSet(S), NEW n \in Nat, NEW s \in UpTo(S, n + 1), s # {}
    PROVE  Rest(s) \in UpTo(S, n) /\ (CHOOSE x \in s : TRUE) \in s /\ Cardinality(Rest(s)) = Cardinality(s) - 1
  <1>1. IsFiniteSet(s) /\ (CHOOSE x \in s : TRUE) \in s
    BY FS_Subset DEF UpTo
  <1>2. Cardinality(Rest(s)) = Cardinality(s) - 1 /\ Cardinality(s) \in Nat
    BY <1>1, FS_RemoveElement, FS_CardinalityType DEF Rest
  <1>3. QED
    BY <1>1, <1>2 DEF UpTo, Rest

LEMMA SumExists ==
    ASSUME NEW v, NEW S, IsFiniteSet(S)
    PROVE  \E f : Adds(v, SUBSET S, f)
  <1> DEFINE W == {n \in Nat : \E f : Adds(v, UpTo(S, n), f)}
  <1>1. 0 \in W
    <2>1. UpTo(S, 0) = {{}}
      BY FS_Subset, FS_EmptySet, FS_CardinalityType DEF UpTo
    <2>2. Adds(v, UpTo(S, 0), [s \in UpTo(S, 0) |-> 0])
      BY <2>1 DEF Adds
    <2>3. QED
      BY <2>2
  <1>2. ASSUME NEW n \in Nat, n \in W PROVE n + 1 \in W
    <2>1. PICK f : Adds(v, UpTo(S, n), f)
      BY <1>2
    <2> DEFINE g == [s \in UpTo(S, n + 1) |-> IF s = {} THEN 0 ELSE v[CHOOSE x \in s : TRUE] + f[Rest(s)]]
    <2>2. ASSUME NEW s \in UpTo(S, n) PROVE s \in UpTo(S, n + 1) /\ g[s] = f[s]
      <3>1. s \in UpTo(S, n + 1)
        BY FS_CardinalityType, FS_Subset DEF UpTo
      <3>2. f[s] = IF s = {} THEN 0 ELSE v[CHOOSE x \in s : TRUE] + f[Rest(s)]
        BY <2>1 DEF Adds
      <3>3. QED
        BY <3>1, <3>2
    <2>3. ASSUME NEW s \in UpTo(S, n + 1), s # {} PROVE g[Rest(s)] = f[Rest(s)]
      BY <2>2, <2>3, RestSmaller
    <2>4. Adds(v, UpTo(S, n + 1), g)
      BY <2>3 DEF Adds
    <2> HIDE DEF g
    <2>5. QED
      BY <2>4
  <1>3. Cardinality(S) \in W
    <2> HIDE DEF W
    <2>1. QED
      BY <1>1, <1>2, NatSteps, FS_CardinalityType
  <1>4. UpTo(S, Cardinality(S)) = SUBSET S
    BY FS_Subset DEF UpTo
  <1>5. QED
    BY <1>3, <1>4

LEMMA SumIs ==
    ASSUME NEW v, IsFiniteSet(DOMAIN v)
    PROVE  \E f : Adds(v, SUBSET (DOMAIN v), f) /\ SumFunction(v) = f[DOMAIN v]
  <1>1. SumFunction(v) = (CHOOSE f : Adds(v, SUBSET (DOMAIN v), f))[DOMAIN v]
    BY DEF SumFunction, SumFunctionOnSet, FoldFunctionOnSet, MapThenFoldSet, Adds, Rest
  <1>2. QED
    BY <1>1, SumExists

\* A sum of no larger terms is no larger.
LEMMA SumMonotone ==
    ASSUME NEW S, IsFiniteSet(S), NEW v \in [S -> Nat], NEW w \in [S -> Nat], \A x \in S : v[x] <= w[x]
    PROVE  SumFunction(v) \in Nat /\ SumFunction(w) \in Nat /\ SumFunction(v) <= SumFunction(w)
  <1>1. PICK f : Adds(v, SUBSET S, f) /\ SumFunction(v) = f[S]
    BY SumIs
  <1>2. PICK g : Adds(w, SUBSET S, g) /\ SumFunction(w) = g[S]
    BY SumIs
  <1> DEFINE W == {n \in Nat : \A s \in UpTo(S, n) : f[s] \in Nat /\ g[s] \in Nat /\ f[s] <= g[s]}
  <1>3. ASSUME NEW s \in SUBSET S
        PROVE  /\ f[s] = IF s = {} THEN 0 ELSE v[CHOOSE x \in s : TRUE] + f[Rest(s)]
               /\ g[s] = IF s = {} THEN 0 ELSE w[CHOOSE x \in s : TRUE] + g[Rest(s)]
    BY <1>1, <1>2 DEF Adds
  <1>4. 0 \in W
    <2>1. UpTo(S, 0) = {{}}
      BY SMTT(30), FS_Subset, FS_EmptySet, FS_CardinalityType DEF UpTo
    <2>2. f[{}] = 0 /\ g[{}] = 0
      BY <1>3
    <2>3. QED
      BY <2>1, <2>2
  <1>5. ASSUME NEW n \in Nat, n \in W PROVE n + 1 \in W
    <2>1. SUFFICES ASSUME NEW s \in UpTo(S, n + 1) PROVE f[s] \in Nat /\ g[s] \in Nat /\ f[s] <= g[s]
      OBVIOUS
    <2>2. s \in SUBSET S
      BY <2>1 DEF UpTo
    <2>3. CASE s = {}
      BY <1>3, <2>2, <2>3
    <2>4. CASE s # {}
      <3>1. PICK y : y = (CHOOSE x \in s : TRUE) /\ y \in s
        BY <2>1, <2>4
      <3>2. Rest(s) \in UpTo(S, n)
        BY <2>1, <2>4, RestSmaller
      <3>3. f[Rest(s)] \in Nat /\ g[Rest(s)] \in Nat /\ f[Rest(s)] <= g[Rest(s)]
        BY <1>5, <3>2
      <3>4. f[s] = v[y] + f[Rest(s)] /\ g[s] = w[y] + g[Rest(s)]
        BY <1>3, <2>2, <2>4, <3>1
      <3>5. v[y] \in Nat /\ w[y] \in Nat /\ v[y] <= w[y]
        BY <2>2, <3>1
      <3>6. QED
        BY <3>3, <3>4, <3>5
    <2>5. QED
      BY <2>3, <2>4
  <1>6. Cardinality(S) \in W
    <2> HIDE DEF W
    <2>1. QED
      BY <1>4, <1>5, NatSteps, FS_CardinalityType
  <1>7. S \in UpTo(S, Cardinality(S))
    BY FS_CardinalityType DEF UpTo
  <1>8. QED
    BY <1>1, <1>2, <1>6, <1>7

-----------------------------------------------------------------------------
\* Clusters are disjoint sets of digests

\* What the assumption says of the digests.
LEMMA MinedFacts ==
    /\ IsFiniteSet(Mined)
    /\ \A c \in Mined : c.at \in Nat /\ c.tokens \in Nat \cup {None}
    /\ \A c, d \in Mined : c.id = d.id => c = d
    /\ min_cluster_size \in Nat /\ KFloor \in Nat /\ KServer \in Nat /\ None \notin Nat
  BY MiningAssumption DEF MiningAssumption

\* Of some digests there is one that comes first.
LEMMA LargestFirst ==
    ASSUME NEW items, items \subseteq Mined, NEW near, \A c \in items : Cardinality(near[c]) \in Nat,
           NEW left, left \subseteq items, left # {}
    PROVE  \E c \in left : \A d \in left : Larger(near, c, d)
  <1> DEFINE W == {T \in SUBSET left : T # {} => \E c \in T : \A d \in T : Larger(near, c, d)}
  <1>1. \A c \in left : c.at \in Nat /\ Cardinality(near[c]) \in Nat
    BY MinedFacts
  <1>2. \A c \in left : Larger(near, c, c)
    BY <1>1 DEF Larger
  <1>3. \A c, d \in left : Larger(near, c, d) \/ Larger(near, d, c)
    BY <1>1 DEF Larger
  <1>4. \A b, c, d \in left : Larger(near, b, c) /\ Larger(near, c, d) => Larger(near, b, d)
    BY <1>1 DEF Larger
  <1>5. {} \in W
    OBVIOUS
  <1>6. ASSUME NEW T \in SUBSET left, NEW x \in left, T \in W PROVE T \cup {x} \in W
    <2>1. CASE T = {}
      BY <1>2, <2>1
    <2>2. CASE T # {}
      <3>1. PICK c \in T : \A d \in T : Larger(near, c, d)
        BY <1>6, <2>2
      <3>2. CASE Larger(near, c, x)
        BY <3>1, <3>2
      <3>3. CASE Larger(near, x, c)
        <4>1. \A d \in T : Larger(near, x, d)
          BY <1>4, <3>1, <3>3
        <4>2. QED
          BY <1>2, <4>1
      <3>4. QED
        BY <1>3, <3>1, <3>2, <3>3
    <2>3. QED
      BY <2>1, <2>2
  <1>7. left \in W
    <2>1. IsFiniteSet(left)
      BY MinedFacts, FS_Subset
    <2> HIDE DEF W
    <2>2. QED
      BY <1>5, <1>6, <2>1, SetSteps
  <1>8. QED
    BY <1>7

\* What the greedy rounds keep: sets of the digests at hand, none in two of them.
RoundOK(items, round) ==
    /\ round.left \subseteq items /\ round.found \in Seq(SUBSET items)
    /\ \A k, l \in DOMAIN round.found : k # l => round.found[k] \cap round.found[l] = {}

LEMMA ConsiderOK ==
    ASSUME NEW items, items \subseteq Mined, NEW round, RoundOK(items, round), round.left # {}
    PROVE  RoundOK(items, Consider(_neighbor_sets(items), round))
  <1> DEFINE near == _neighbor_sets(items)
  <1>1. \A c \in items : near[c] \subseteq items
    BY DEF _neighbor_sets
  <1>2. \A c \in items : Cardinality(near[c]) \in Nat
    BY <1>1, MinedFacts, FS_Subset, FS_CardinalityType
  <1> HIDE DEF near
  <1>3. \E c \in round.left : \A d \in round.left : Larger(near, c, d)
    BY <1>2, LargestFirst DEF RoundOK
  <1>4. PICK first : first = (CHOOSE c \in round.left : \A d \in round.left : Larger(near, c, d))
    OBVIOUS
  <1>5. first \in items
    BY <1>3, <1>4 DEF RoundOK
  <1> DEFINE found == round.found
             fresh == near[first] \ UNION ToSet(found)
             more == IF Cardinality(fresh) >= min_cluster_size THEN Append(found, fresh) ELSE found
  <1>6. Consider(near, round) = [left |-> round.left \ {first}, found |-> more]
    BY <1>4 DEF Consider
  <1>7. fresh \in SUBSET items /\ found \in Seq(SUBSET items)
    BY <1>1, <1>5 DEF RoundOK
  <1>8. \A k \in DOMAIN found : found[k] \cap fresh = {}
    BY DEF ToSet
  <1>9. \A k, l \in DOMAIN found : k # l => found[k] \cap found[l] = {}
    BY DEF RoundOK
  <1> HIDE DEF fresh, found
  <1>10. /\ Append(found, fresh) \in Seq(SUBSET items)
         /\ \A k, l \in DOMAIN Append(found, fresh) : k # l => Append(found, fresh)[k] \cap Append(found, fresh)[l] = {}
    <2>1. /\ DOMAIN Append(found, fresh) = 1 .. Len(found) + 1 /\ DOMAIN found = 1 .. Len(found) /\ Len(found) \in Nat
          /\ Append(found, fresh)[Len(found) + 1] = fresh
          /\ \A k \in 1 .. Len(found) : Append(found, fresh)[k] = found[k]
          /\ Append(found, fresh) \in Seq(SUBSET items)
      BY <1>7
    <2>2. \A k \in DOMAIN Append(found, fresh) : k \in DOMAIN found \/ k = Len(found) + 1
      BY <2>1
    <2>3. QED
      BY <1>8, <1>9, <2>1, <2>2
  <1>11. more \in Seq(SUBSET items) /\ \A k, l \in DOMAIN more : k # l => more[k] \cap more[l] = {}
    BY <1>7, <1>9, <1>10
  <1> HIDE DEF more
  <1>12. QED
    BY <1>6, <1>11 DEF RoundOK, near

FirstRound(items) ==
    [left |-> {c \in items : Cardinality(_neighbor_sets(items)[c]) >= min_cluster_size}, found |-> <<>>]
NextRound(items, round) == IF round.left = {} THEN round ELSE Consider(_neighbor_sets(items), round)
Runs(items, m, after) ==
    after = [n \in 0 .. m |-> IF n = 0 THEN FirstRound(items) ELSE NextRound(items, after[n - 1])]

LEMMA RoundsAre ==
    ASSUME NEW items, Cardinality(items) \in Nat
    PROVE  Runs(items, Cardinality(items), Rounds(items))
  <1> DEFINE W == {m \in Nat : \E after : Runs(items, m, after)}
  <1>1. 0 \in W
    <2>1. Runs(items, 0, [n \in 0 .. 0 |-> FirstRound(items)])
      BY DEF Runs
    <2>2. QED
      BY <2>1
  <1>2. ASSUME NEW m \in Nat, m \in W PROVE m + 1 \in W
    <2>1. PICK after : Runs(items, m, after)
      BY <1>2
    <2> DEFINE longer == [n \in 0 .. m + 1 |-> IF n = 0 THEN FirstRound(items) ELSE NextRound(items, after[n - 1])]
    <2>2. \A n \in 0 .. m : longer[n] = after[n]
      BY <2>1 DEF Runs
    <2>3. \A n \in 1 .. m + 1 : longer[n - 1] = after[n - 1]
      BY SMTT(30), <2>2
    <2>4. \A n \in 0 .. m + 1 : longer[n] = IF n = 0 THEN FirstRound(items) ELSE NextRound(items, longer[n - 1])
      <3>1. ASSUME NEW n \in 0 .. m + 1, n # 0 PROVE longer[n - 1] = after[n - 1]
        <4>1. n \in 1 .. m + 1
          BY <3>1
        <4>2. QED
          BY <2>3, <4>1
      <3>2. QED
        BY <3>1, Zenon
    <2>5. longer = [n \in 0 .. m + 1 |-> longer[n]]
      OBVIOUS
    <2> HIDE DEF longer
    <2>6. Runs(items, m + 1, longer)
      BY <2>4, <2>5, Zenon DEF Runs
    <2>7. QED
      BY <2>6
  <1>3. Cardinality(items) \in W
    <2> HIDE DEF W
    <2>1. QED
      BY <1>1, <1>2, NatSteps
  <1>4. Rounds(items) = CHOOSE after : Runs(items, Cardinality(items), after)
    BY DEF Rounds, Runs, FirstRound, NextRound
  <1>5. QED
    BY <1>3, <1>4

\* Disjoint groups of digests.
Groups(clusters, items) ==
    /\ clusters \in Seq(SUBSET items)
    /\ \A k, l \in DOMAIN clusters : k # l => clusters[k] \cap clusters[l] = {}

LEMMA CommunitiesDisjoint ==
    ASSUME NEW items, items \subseteq Mined
    PROVE  Groups(community_detection(items), items)
  <1> DEFINE N == Cardinality(items)
             after == Rounds(items)
             W == {n \in Nat : n <= N => RoundOK(items, after[n])}
  <1>1. N \in Nat
    BY MinedFacts, FS_Subset, FS_CardinalityType
  <1>2. Runs(items, N, after)
    BY <1>1, RoundsAre
  <1> HIDE DEF after, N
  <1>3. 0 \in W
    <2>1. after[0] = FirstRound(items)
      BY <1>1, <1>2 DEF Runs
    <2>2. FirstRound(items).left \subseteq items /\ FirstRound(items).found = <<>>
      BY DEF FirstRound
    <2>3. <<>> \in Seq(SUBSET items) /\ DOMAIN <<>> = {}
      OBVIOUS
    <2>4. QED
      BY <2>1, <2>2, <2>3 DEF RoundOK
  <1>4. ASSUME NEW n \in Nat, n \in W PROVE n + 1 \in W
    <2>1. SUFFICES ASSUME n + 1 <= N PROVE RoundOK(items, after[n + 1])
      OBVIOUS
    <2>2. after[n + 1] = NextRound(items, after[n]) /\ RoundOK(items, after[n])
      BY <1>1, <1>2, <1>4, <2>1 DEF Runs
    <2>3. QED
      BY <2>2, ConsiderOK DEF NextRound
  <1>5. N \in W
    <2> HIDE DEF W
    <2>1. QED
      BY <1>1, <1>3, <1>4, NatSteps
  <1>6. QED
    BY <1>1, <1>5 DEF community_detection, Groups, RoundOK, N, after

-----------------------------------------------------------------------------
\* Kept clusters

LEMMA RecurringKeeps ==
    ASSUME NEW clusters, NEW contributors, NEW enough,
           NEW k \in DOMAIN recurring(clusters, contributors, enough)
    PROVE  /\ k \in DOMAIN clusters /\ recurring(clusters, contributors, enough)[k] = clusters[k]
           /\ Cardinality(ClusterContributors(clusters[k])) >= contributors
  BY DEF recurring

\* The actors and the sessions of finitely many digests are finitely many.
ValuesOf(f) == {f[x] : x \in DOMAIN f}

LEMMA ImageFinite ==
    ASSUME NEW f, IsFiniteSet(DOMAIN f)
    PROVE  IsFiniteSet(ValuesOf(f))
  <1> DEFINE D == DOMAIN f
             g == [x \in D |-> f[x]]
             T == {f[x] : x \in D}
  <1>1. g \in Surjection(D, T)
    BY DEF Surjection
  <1> HIDE DEF g, T
  <1>2. IsFiniteSet(T)
    BY <1>1, FS_Surjection
  <1>3. QED
    BY <1>2 DEF T, ValuesOf

LEMMA PartsFinite ==
    ASSUME NEW cluster, IsFiniteSet(cluster)
    PROVE  IsFiniteSet(ClusterContributors(cluster)) /\ IsFiniteSet({c.session : c \in cluster})
  <1> DEFINE actors == [c \in cluster |-> c.actor]
             ids == [c \in cluster |-> c.session]
  <1>1. ClusterContributors(cluster) = ValuesOf(actors)
    BY DEF ClusterContributors, ValuesOf
  <1>2. {c.session : c \in cluster} = ValuesOf(ids)
    BY DEF ValuesOf
  <1>3. DOMAIN actors = cluster /\ DOMAIN ids = cluster
    OBVIOUS
  <1> HIDE DEF actors, ids
  <1>4. QED
    BY <1>1, <1>2, <1>3, ImageFinite

\* Kept groups of digests: a function on some numbers whose values are
\* disjoint, and have contributors enough.
Grouped(todo) ==
    /\ todo = [k \in DOMAIN todo |-> todo[k]]
    /\ DOMAIN todo \subseteq Nat
    /\ \A k \in DOMAIN todo : /\ todo[k] \subseteq Mined /\ todo[k] # {}
                             /\ Cardinality(ClusterContributors(todo[k])) >= KFloor
    /\ \A k, l \in DOMAIN todo : k # l => todo[k] \cap todo[l] = {}

LEMMA FloorOrOne == Max({KFloor, 1}) \in Nat /\ Max({KFloor, 1}) >= KFloor /\ Max({KFloor, 1}) >= 1
  <1>1. \E m \in {KFloor, 1} : \A y \in {KFloor, 1} : m >= y
    BY MinedFacts
  <1>2. Max({KFloor, 1}) \in {KFloor, 1} /\ \A y \in {KFloor, 1} : Max({KFloor, 1}) >= y
    BY <1>1 DEF Max
  <1>3. QED
    BY <1>2, MinedFacts

LEMMA MinedGroups ==
    ASSUME NEW items, items \subseteq Mined
    PROVE  Grouped(mine_org(items))
  <1> DEFINE clusters == cluster_compactions(items)
             kept == mine_org(items)
  <1>1. Groups(clusters, items)
    <2>1. Newest(items) \subseteq items
      BY DEF Newest
    <2>2. Groups(community_detection(Newest(items)), Newest(items))
      BY <2>1, CommunitiesDisjoint
    <2>3. \A S : S \in Seq(SUBSET Newest(items)) => S \in Seq(SUBSET items)
      BY <2>1
    <2>4. QED
      BY <2>2, <2>3 DEF Groups, cluster_compactions
  <1>2. kept = recurring(clusters, Max({KFloor, 1}), 1)
    BY DEF mine_org
  <1>3. kept = [k \in DOMAIN kept |-> kept[k]]
    BY DEF mine_org, recurring
  <1> HIDE DEF clusters, kept
  <1>4. ASSUME NEW k \in DOMAIN kept
        PROVE  /\ k \in DOMAIN clusters /\ k \in Nat /\ kept[k] = clusters[k] /\ clusters[k] \subseteq Mined
               /\ Cardinality(ClusterContributors(kept[k])) >= KFloor /\ kept[k] # {}
    <2>1. /\ k \in DOMAIN clusters /\ kept[k] = clusters[k]
          /\ Cardinality(ClusterContributors(clusters[k])) >= Max({KFloor, 1})
      BY <1>2, RecurringKeeps
    <2>2. clusters[k] \subseteq items /\ k \in Nat
      BY <1>1, <2>1 DEF Groups
    <2>3. IsFiniteSet(clusters[k])
      BY <2>2, MinedFacts, FS_Subset
    <2>4. IsFiniteSet(ClusterContributors(clusters[k]))
      BY <2>3, PartsFinite
    <2>5. Cardinality(ClusterContributors(clusters[k])) \in Nat
      BY <2>4, FS_CardinalityType
    <2>6. ClusterContributors(clusters[k]) # {}
      BY <2>1, FloorOrOne, FS_EmptySet
    <2>7. clusters[k] # {}
      BY <2>6 DEF ClusterContributors
    <2>8. QED
      BY <2>1, <2>2, <2>5, <2>7, FloorOrOne, MinedFacts
  <1>5. QED
    BY <1>1, <1>3, <1>4 DEF Grouped, Groups, kept

LEMMA KeptIs ==
    ASSUME NEW items, items \subseteq Mined
    PROVE  Kept[items] = mine_org(items)
  BY DEF Kept, Table

-----------------------------------------------------------------------------
\* Skills

LEMMA DraftsValid == \A draft \in Drafts : validate_draft(draft) = {}
  <1>1. validate_draft(fallback_draft) = {}
    BY DEF fallback_draft, repair_draft, validate_draft, validate_name, validate_description, slugify_name
  <1>2. ASSUME NEW reply \in Replies PROVE validate_draft(synthesize(reply)) = {}
    BY <1>1 DEF synthesize
  <1>3. QED
    BY <1>2 DEF Drafts

LEMMA RefusedFallsBack == synthesize(None) \in Drafts
  BY DEF Drafts, Replies

LEMMA ProvenanceSound ==
    ASSUME NEW todo, Grouped(todo), NEW k \in DOMAIN todo
    PROVE  /\ make_provenance(todo[k]).contributor_count >= KFloor
           /\ validate_provenance(make_provenance(todo[k]))
           /\ make_provenance(todo[k]).evidence = {c.id : c \in todo[k]}
  <1>1. todo[k] \subseteq Mined /\ todo[k] # {} /\ Cardinality(ClusterContributors(todo[k])) >= KFloor
    BY DEF Grouped
  <1>2. IsFiniteSet(todo[k])
    BY <1>1, MinedFacts, FS_Subset
  <1>3. IsFiniteSet(ClusterContributors(todo[k])) /\ IsFiniteSet({c.session : c \in todo[k]})
    BY <1>2, PartsFinite
  <1>4. /\ Cardinality(ClusterContributors(todo[k])) \in Nat
        /\ Cardinality({c.session : c \in todo[k]}) \in Nat
    BY <1>3, FS_CardinalityType
  <1>5. {c.id : c \in todo[k]} # {}
    BY <1>1
  <1>6. QED
    BY <1>1, <1>4, <1>5 DEF make_provenance, validate_provenance

-----------------------------------------------------------------------------
\* Reports

\* The router never prices a session above what it cost.
LEMMA Dearer ==
    ASSUME NEW c \in Mined, c.tier \in DOMAIN Rate, _has_breakdown(c)
    PROVE  projected(c) \in Nat /\ _price(c, c.tier) \in Nat /\ projected(c) <= _price(c, c.tier)
  <1>1. c.tokens \in Nat /\ c.tier \in {"opus", "sonnet", "haiku"}
    BY MinedFacts DEF _has_breakdown, Rate
  <1>2. None \notin {"opus", "sonnet", "haiku"}
    BY MiningAssumption DEF MiningAssumption
  <1>3. Rate["opus"] = 15 /\ Rate["sonnet"] = 3 /\ Rate["haiku"] = 1
    BY DEF Rate
  <1>4. Cheaper["opus"] = "sonnet" /\ Cheaper["sonnet"] = "haiku" /\ Cheaper["haiku"] = None
    BY DEF Cheaper
  <1>5. \/ target(c) = None
        \/ c.tier = "opus" /\ target(c) = "sonnet"
        \/ c.tier = "sonnet" /\ target(c) = "haiku"
    BY <1>1, <1>4 DEF target
  <1>6. projected(c) = _price(c, c.tier) \/ (projected(c) = _price(c, target(c)) /\ target(c) # None)
    BY DEF projected
  <1>7. _price(c, c.tier) \in Nat
    BY <1>1, <1>3 DEF _price
  <1>8. CASE projected(c) = _price(c, c.tier)
    BY <1>7, <1>8
  <1>9. CASE projected(c) = _price(c, target(c)) /\ c.tier = "opus" /\ target(c) = "sonnet"
    BY <1>1, <1>3, <1>9 DEF _price
  <1>10. CASE projected(c) = _price(c, target(c)) /\ c.tier = "sonnet" /\ target(c) = "haiku"
    BY <1>1, <1>3, <1>10 DEF _price
  <1>11. QED
    BY <1>5, <1>6, <1>8, <1>9, <1>10

Priced(S) == {c \in S : c.tier \in DOMAIN Rate /\ _has_breakdown(c)}

LEMMA CostsAccount ==
    ASSUME NEW S, S \subseteq Mined, NEW r, r = Costs[S]
    PROVE  r.priced + r.skipped = r.sessions /\ r.projected <= r.current
  <1> DEFINE now == [c \in Priced(S) |-> _price(c, c.tier)]
             then == [c \in Priced(S) |-> projected(c)]
  <1>1. r = analyze_counterfactual_costs(S)
    BY DEF Costs, Table
  <1>2. /\ r.sessions = Cardinality(S) /\ r.priced = Cardinality(Priced(S))
        /\ r.skipped = Cardinality(S \ Priced(S))
        /\ r.current = SumFunction(now) /\ r.projected = SumFunction(then)
    BY <1>1 DEF analyze_counterfactual_costs, Priced
  <1>3. IsFiniteSet(S) /\ Priced(S) \subseteq S /\ IsFiniteSet(Priced(S)) /\ IsFiniteSet(S \ Priced(S))
    BY MinedFacts, FS_Subset DEF Priced
  <1>4. Cardinality(Priced(S)) + Cardinality(S \ Priced(S)) = Cardinality(S)
    <2>1. S \cap Priced(S) = Priced(S)
      BY <1>3
    <2>2. Cardinality(S \ Priced(S)) = Cardinality(S) - Cardinality(S \cap Priced(S))
      BY <1>3, FS_Difference
    <2>3. Cardinality(S) \in Nat /\ Cardinality(Priced(S)) \in Nat
      BY <1>3, FS_CardinalityType
    <2>4. QED
      BY <2>1, <2>2, <2>3
  <1>5. \A c \in Priced(S) : now[c] \in Nat /\ then[c] \in Nat /\ then[c] <= now[c]
    BY Dearer DEF Priced
  <1>6. now \in [Priced(S) -> Nat] /\ then \in [Priced(S) -> Nat]
    BY <1>5
  <1> HIDE DEF now, then
  <1>7. SumFunction(then) <= SumFunction(now)
    BY <1>3, <1>5, <1>6, SumMonotone
  <1>8. QED
    BY <1>2, <1>4, <1>7

LEMMA TopicsAnonymous ==
    ASSUME released \subseteq Mined
    PROVE  \A k \in DOMAIN founder_topics(FALSE) :
             founder_topics(FALSE)[k].count >= KServer /\ founder_topics(FALSE)[k].people = {}
  <1> DEFINE shown == team_topics(FALSE)
  <1>1. shown = recurring(cluster_compactions(released), KServer, 1)
    <2>1. Topics[released] = [named \in BOOLEAN |-> topics(released, IF named THEN 1 ELSE KServer)]
      BY DEF Topics, Table
    <2>2. QED
      BY <2>1 DEF team_topics, topics
  <1>2. \A k \in DOMAIN shown : Cardinality(ClusterContributors(shown[k])) >= KServer
    <2> HIDE DEF shown
    <2>1. QED
      BY <1>1, RecurringKeeps
  <1>3. PICK page : page = founder_topics(FALSE)
    OBVIOUS
  <1>4. page = [k \in DOMAIN shown |-> [count |-> Cardinality(ClusterContributors(shown[k])), people |-> {}]]
    BY <1>3 DEF founder_topics
  <1> HIDE DEF shown
  <1>5. \A k \in DOMAIN page : page[k].count >= KServer /\ page[k].people = {}
    BY <1>2, <1>4
  <1>6. QED
    BY <1>3, <1>5, Zenon

-----------------------------------------------------------------------------
\* The inductive invariant

Ids(cluster) == {c.id : c \in cluster}
Evidence(p) == p.provenance.evidence
QueueOf(Q, r) == {p \in Q : p.run = r}

\* Proposals as drafts and clusters make them: they speak for contributors
\* enough, have evidence, and their skill is valid.
Provenances == [contributor_count : {n \in Nat : n >= KFloor}, evidence : (SUBSET Ids(Mined)) \ {{}},
                confident : BOOLEAN, session_count : Nat]
Proposal == [run : Nat, n : Nat, draft : Drafts, provenance : Provenances]
Todos == UNION {[D -> SUBSET Mined] : D \in SUBSET Nat}
Busy == {"scope", "cluster", "draft"}
MineJobs == [pc : {"idle", "look", "start", "provider", "run"} \cup Busy, run : Nat, listed : BOOLEAN,
             items : SUBSET Mined, todo : Todos, drafted : Seq(Proposal)]
MineRuns == [state : {"running", "done", "failed", "quota"}, matched : Nat, scanned : Nat, queued : Nat,
             proposals : Nat]

MiningTypeOK ==
    /\ released \in SUBSET Mined /\ queue \in SUBSET Proposal /\ IsFiniteSet(queue)
    /\ runs \in Seq(MineRuns) /\ registry \in 0 .. Len(runs) /\ mining \in [Clickers -> MineJobs]

\* What a run has in the queue, has drafted and has still to draft shares no
\* digest.
DraftFine(j, queued) ==
    /\ Grouped(j.todo)
    /\ \A i \in DOMAIN j.drafted : j.drafted[i].run = j.run
    /\ \A i, k \in DOMAIN j.drafted : i # k => Evidence(j.drafted[i]) \cap Evidence(j.drafted[k]) = {}
    /\ \A i \in DOMAIN j.drafted, k \in DOMAIN j.todo : Evidence(j.drafted[i]) \cap Ids(j.todo[k]) = {}
    /\ \A p \in queued : /\ \A i \in DOMAIN j.drafted : Evidence(p) \cap Evidence(j.drafted[i]) = {}
                         /\ \A k \in DOMAIN j.todo : Evidence(p) \cap Ids(j.todo[k]) = {}

\* A thread at work has a run of its own, still running, that has counted
\* what it queued.
ThreadFine(j, rs, Q) ==
    /\ j.pc \in {"idle", "look", "start"} => j.run = 0
    /\ j.pc \in {"provider", "run"} => j.run \in 0 .. Len(rs) /\ (~j.listed => j.run = 0)
    /\ j.pc \in Busy => /\ j.run \in 1 .. Len(rs) /\ rs[j.run].state = "running" /\ rs[j.run].queued = 0
                        /\ rs[j.run].proposals = Cardinality(QueueOf(Q, j.run))
    /\ j.pc # "draft" => j.drafted = <<>>
    /\ j.pc \in {"scope", "cluster"} => QueueOf(Q, j.run) = {}
    /\ j.pc = "draft" => DraftFine(j, QueueOf(Q, j.run))

RunFine(run, queued) ==
    run.queued = IF run.state = "done" THEN Cardinality(queued) ELSE 0

QueueFine(Q, rs) ==
    /\ \A p \in Q : p.run \in 1 .. Len(rs)
    /\ \A p, q \in Q : p.run = q.run /\ p # q => Evidence(p) \cap Evidence(q) = {}

\* Somebody is on the run that is shown as running, or its click failed.
Watched(shown, rs, jobs, lost) ==
    shown # 0 /\ rs[shown].state = "running" =>
        shown \in lost \/ \E t \in Clickers : jobs[t].run = shown /\ jobs[t].pc # "idle"

MiningInv ==
    /\ MiningTypeOK
    /\ QueueFine(queue, runs)
    /\ \A t \in Clickers : ThreadFine(mining[t], runs, queue)
    /\ \A t, u \in Clickers : t # u /\ mining[t].pc \in Busy /\ mining[u].pc \in Busy => mining[t].run # mining[u].run
    /\ \A r \in 1 .. Len(runs) : RunFine(runs[r], QueueOf(queue, r))
    /\ Watched(registry, runs, mining, stranded)

LEMMA ProposalSound ==
    ASSUME NEW p \in Proposal
    PROVE  /\ p.provenance.contributor_count >= KFloor
           /\ validate_provenance(p.provenance) /\ validate_draft(p.draft) = {}
  <1>1. p.draft \in Drafts /\ p.provenance \in Provenances
    BY DEF Proposal
  <1>2. p.provenance.contributor_count \in Nat /\ p.provenance.contributor_count >= KFloor
        /\ p.provenance.session_count \in Nat /\ p.provenance.evidence # {}
    BY <1>1 DEF Provenances
  <1>3. validate_draft(p.draft) = {}
    BY <1>1, DraftsValid
  <1>4. QED
    BY <1>2, <1>3 DEF validate_provenance

LEMMA MiningInvHonest == MiningInv => MiningHonest
  <1>1. SUFFICES ASSUME MiningInv PROVE MiningHonest
    OBVIOUS
  <1>2. ProposalsSound
    BY <1>1, ProposalSound DEF MiningInv, MiningTypeOK, QueueFine, ProposalsSound, Evidence
  <1>3. StatusHonest
    <2>1. SUFFICES ASSUME mine_status # None
                   PROVE  /\ mine_status.state = "running" =>
                                \/ \E t \in Clickers : mining[t].run = registry /\ mining[t].pc # "idle"
                                \/ registry \in stranded
                          /\ mine_status.state = "done" => mine_status.queued = Cardinality(list_queue(registry))
                          /\ mine_status.queued <= ui_mine_status.pending
      BY DEF StatusHonest
    <2>2. registry # 0 /\ registry \in 1 .. Len(runs) /\ runs[registry] \in MineRuns
      BY <1>1, <2>1 DEF mine_status, MiningInv, MiningTypeOK
    <2>3. /\ mine_status.state = runs[registry].state /\ mine_status.queued = runs[registry].queued
          /\ mine_status.pending = Cardinality(queue)
      BY <2>1, <2>2 DEF mine_status
    <2>4. list_queue(registry) = QueueOf(queue, registry) /\ QueueOf(queue, registry) \subseteq queue
      BY DEF list_queue, QueueOf
    <2>5. /\ IsFiniteSet(queue) /\ Cardinality(queue) \in Nat /\ Cardinality(QueueOf(queue, registry)) <= Cardinality(queue)
      BY <1>1, <2>4, FS_Subset, FS_CardinalityType DEF MiningInv, MiningTypeOK
    <2>6. RunFine(runs[registry], QueueOf(queue, registry)) /\ Watched(registry, runs, mining, stranded)
      BY <1>1, <2>2 DEF MiningInv
    <2>7. QED
      BY <2>2, <2>3, <2>4, <2>5, <2>6 DEF RunFine, Watched, ui_mine_status
  <1>4. ReportsSound
    <2>1. released \subseteq Mined
      BY <1>1 DEF MiningInv, MiningTypeOK
    <2>2. QED
      BY <2>1, TopicsAnonymous, CostsAccount DEF ReportsSound
  <1>5. QED
    BY <1>2, <1>3, <1>4 DEF MiningHonest

LEMMA NothingToDo == <<>> \in Todos /\ Grouped(<<>>)
  <1>1. <<>> \in [{} -> SUBSET Mined]
    OBVIOUS
  <1>2. QED
    BY <1>1 DEF Todos, Grouped

LEMMA GroupedIsTodo ==
    ASSUME NEW todo, Grouped(todo)
    PROVE  todo \in Todos
  <1>1. todo \in [DOMAIN todo -> SUBSET Mined] /\ DOMAIN todo \in SUBSET Nat
    BY DEF Grouped
  <1>2. QED
    BY <1>1 DEF Todos

LEMMA Idle == NoJob \in MineJobs
  BY NothingToDo DEF NoJob, MineJobs, Busy

LEMMA NewRun == MineRun \in MineRuns /\ [MineRun EXCEPT !.state = "quota"] \in MineRuns
  BY DEF MineRun, MineRuns

LEMMA MiningInitInv == MiningInit => MiningInv
  <1>1. SUFFICES ASSUME MiningInit PROVE MiningInv
    OBVIOUS
  <1>2. released = Mined /\ queue = {} /\ runs = <<>> /\ registry = 0 /\ mining = [t \in Clickers |-> NoJob]
    BY <1>1 DEF MiningInit
  <1>3. MiningTypeOK
    BY <1>2, Idle, FS_EmptySet DEF MiningTypeOK
  <1>4. \A t \in Clickers : mining[t].pc = "idle" /\ mining[t].run = 0 /\ mining[t].drafted = <<>>
    BY <1>2 DEF NoJob
  <1>5. \A t \in Clickers : ThreadFine(mining[t], runs, queue)
    BY <1>4 DEF ThreadFine, Busy
  <1>6. QED
    BY <1>2, <1>3, <1>4, <1>5 DEF MiningInv, QueueFine, Watched, Busy

\* A step of one thread that touches no run but its own and new ones.
LEMMA StepOf ==
    ASSUME MiningInv, NEW t \in Clickers, NEW j \in MineJobs, mining' = [mining EXCEPT ![t] = j],
           runs' \in Seq(MineRuns), Len(runs) <= Len(runs'), queue' \in SUBSET Proposal, IsFiniteSet(queue'),
           registry' \in 0 .. Len(runs'), released' \in SUBSET Mined,
           \A r \in 1 .. Len(runs) : \/ mining[t].pc \in Busy /\ r = mining[t].run
                                     \/ runs'[r] = runs[r] /\ QueueOf(queue', r) = QueueOf(queue, r),
           j.pc \in Busy => j.run = Len(runs) + 1 \/ (mining[t].pc \in Busy /\ j.run = mining[t].run),
           ThreadFine(j, runs', queue'), QueueFine(queue', runs'), Watched(registry', runs', mining', stranded'),
           \A r \in 1 .. Len(runs') :
             r > Len(runs) \/ (mining[t].pc \in Busy /\ r = mining[t].run) => RunFine(runs'[r], QueueOf(queue', r))
    PROVE  MiningInv'
  <1>1. runs \in Seq(MineRuns) /\ Len(runs) \in Nat /\ Len(runs') \in Nat /\ mining \in [Clickers -> MineJobs]
    BY DEF MiningInv, MiningTypeOK
  <1>2. mining' \in [Clickers -> MineJobs] /\ mining'[t] = j /\ \A u \in Clickers : u # t => mining'[u] = mining[u]
    BY <1>1
  <1>3. ASSUME NEW u \in Clickers PROVE ThreadFine(mining'[u], runs', queue')
    <2>1. CASE u = t
      BY <1>2, <2>1
    <2>2. CASE u # t
      <3>1. mining'[u] = mining[u] /\ ThreadFine(mining[u], runs, queue)
        BY <1>2, <2>2 DEF MiningInv
      <3>2. CASE mining[u].pc \in Busy
        <4>1. mining[u].run \in 1 .. Len(runs)
          BY <3>1, <3>2 DEF ThreadFine
        <4>2. ~(mining[t].pc \in Busy /\ mining[u].run = mining[t].run)
          BY <2>2, <3>2 DEF MiningInv
        <4>3. /\ runs'[mining[u].run] = runs[mining[u].run]
              /\ QueueOf(queue', mining[u].run) = QueueOf(queue, mining[u].run)
          BY <4>1, <4>2
        <4>4. mining[u].run \in 1 .. Len(runs')
          BY <1>1, <4>1
        <4>5. QED
          BY <3>1, <3>2, <4>3, <4>4 DEF ThreadFine, Busy
      <3>3. CASE mining[u].pc \notin Busy
        <4>1. mining[u].run \in 0 .. Len(runs) => mining[u].run \in 0 .. Len(runs')
          BY <1>1
        <4>2. QED
          BY <3>1, <3>3, <4>1 DEF ThreadFine, Busy
      <3>4. QED
        BY <3>2, <3>3
    <2>3. QED
      BY <2>1, <2>2
  <1>4. ASSUME NEW s \in Clickers, NEW u \in Clickers, s # u, mining'[s].pc \in Busy, mining'[u].pc \in Busy
        PROVE  mining'[s].run # mining'[u].run
    <2>1. ASSUME NEW w \in Clickers, w # t, mining'[w].pc \in Busy, j.pc \in Busy
          PROVE  mining'[w].run # j.run
      <3>1. mining'[w] = mining[w] /\ mining[w].pc \in Busy /\ mining[w].run \in 1 .. Len(runs)
        BY <1>2, <2>1 DEF MiningInv, ThreadFine
      <3>2. mining[w].run # Len(runs) + 1
        BY <1>1, <3>1
      <3>3. mining[t].pc \in Busy => mining[w].run # mining[t].run
        BY <2>1, <3>1 DEF MiningInv
      <3>4. QED
        BY <2>1, <3>1, <3>2, <3>3
    <2>2. CASE s = t \/ u = t
      BY <1>2, <1>4, <2>1, <2>2
    <2>3. CASE s # t /\ u # t
      BY <1>2, <1>4, <2>3 DEF MiningInv
    <2>4. QED
      BY <2>2, <2>3
  <1>5. ASSUME NEW r \in 1 .. Len(runs') PROVE RunFine(runs'[r], QueueOf(queue', r))
    <2>1. CASE r > Len(runs) \/ (mining[t].pc \in Busy /\ r = mining[t].run)
      BY <2>1
    <2>2. CASE ~(r > Len(runs)) /\ ~(mining[t].pc \in Busy /\ r = mining[t].run)
      <3>1. r \in 1 .. Len(runs)
        BY <1>1, <2>2
      <3>2. runs'[r] = runs[r] /\ QueueOf(queue', r) = QueueOf(queue, r)
        BY <2>2, <3>1
      <3>3. RunFine(runs[r], QueueOf(queue, r))
        BY <3>1 DEF MiningInv
      <3>4. QED
        BY <3>2, <3>3
    <2>3. QED
      BY <2>1, <2>2
  <1>6. MiningTypeOK'
    BY <1>2 DEF MiningTypeOK
  <1>7. QED
    BY <1>3, <1>4, <1>5, <1>6 DEF MiningInv

\* ... and one that touches nothing but its thread.
LEMMA StillStep ==
    ASSUME MiningInv, NEW t \in Clickers, NEW j \in MineJobs, mining' = [mining EXCEPT ![t] = j],
           UNCHANGED <<released, queue, runs, registry>>, stranded \subseteq stranded',
           j.pc \in Busy => mining[t].pc \in Busy /\ j.run = mining[t].run,
           mining[t].run # 0 => (j.run = mining[t].run /\ j.pc # "idle") \/ mining[t].run \in stranded',
           ThreadFine(j, runs, queue)
    PROVE  MiningInv'
  <1>1. /\ runs' = runs /\ queue' = queue /\ registry' = registry /\ released' = released
        /\ runs \in Seq(MineRuns) /\ Len(runs) \in Nat /\ mining \in [Clickers -> MineJobs]
        /\ queue \in SUBSET Proposal /\ IsFiniteSet(queue) /\ registry \in 0 .. Len(runs) /\ released \in SUBSET Mined
    BY DEF MiningInv, MiningTypeOK
  <1>2. mining'[t] = j /\ \A u \in Clickers : u # t => mining'[u] = mining[u]
    BY <1>1
  <1>3. mining[t].pc \in Busy => mining[t].run \in 1 .. Len(runs)
    BY DEF MiningInv, ThreadFine
  <1>4. Watched(registry, runs, mining', stranded')
    <2>1. SUFFICES ASSUME registry # 0, runs[registry].state = "running"
                   PROVE  registry \in stranded' \/ \E u \in Clickers : mining'[u].run = registry /\ mining'[u].pc # "idle"
      BY DEF Watched
    <2>2. CASE registry \in stranded
      BY <2>2
    <2>3. CASE registry \notin stranded
      <3>1. PICK u \in Clickers : mining[u].run = registry /\ mining[u].pc # "idle"
        BY <2>1, <2>3 DEF MiningInv, Watched
      <3>2. (mining'[u].run = registry /\ mining'[u].pc # "idle") \/ registry \in stranded'
        BY <1>2, <2>1, <3>1
      <3>3. QED
        BY <3>2
    <2>4. QED
      BY <2>2, <2>3
  <1>5. \A r \in 1 .. Len(runs) : RunFine(runs[r], QueueOf(queue, r))
    BY DEF MiningInv
  <1>6. QueueFine(queue, runs)
    BY DEF MiningInv
  <1>7. j.pc \in Busy => mining[t].pc \in Busy /\ j.run = mining[t].run
    OBVIOUS
  <1>8. /\ runs' \in Seq(MineRuns) /\ Len(runs) <= Len(runs') /\ queue' \in SUBSET Proposal /\ IsFiniteSet(queue')
        /\ registry' \in 0 .. Len(runs') /\ released' \in SUBSET Mined
    BY <1>1
  <1>9. /\ \A r \in 1 .. Len(runs) : runs'[r] = runs[r] /\ QueueOf(queue', r) = QueueOf(queue, r)
        /\ \A r \in 1 .. Len(runs') : RunFine(runs'[r], QueueOf(queue', r))
    BY <1>1, <1>5
  <1>10. ThreadFine(j, runs', queue') /\ QueueFine(queue', runs') /\ Watched(registry', runs', mining', stranded')
    BY <1>1, <1>4, <1>6
  <1>11. QED
    BY <1>7, <1>8, <1>9, <1>10, StepOf

LEMMA LookStep ==
    ASSUME MiningInv, NEW t \in Clickers, mine(t) \/ Look(t) \/ mine_skills(t)
    PROVE  MiningInv'
  <1>1. PICK pc \in {"idle", "look", "start", "run"} : mining' = [mining EXCEPT ![t] = [NoJob EXCEPT !.pc = pc]]
    <2>1. NoJob = [NoJob EXCEPT !.pc = "idle"]
      BY DEF NoJob
    <2>2. QED
      BY <2>1 DEF mine, Look, mine_skills, Mine
  <1>2. UNCHANGED <<released, queue, runs, registry, stranded>> /\ mining[t].pc \in {"idle", "look"}
    BY DEF mine, Look, mine_skills, Calm
  <1>3. mining[t].run = 0
    BY <1>2 DEF MiningInv, ThreadFine
  <1>4. PICK j : j = [NoJob EXCEPT !.pc = pc]
    OBVIOUS
  <1>5. j.pc = pc /\ j.run = 0 /\ j.listed = FALSE /\ j.drafted = <<>> /\ j \in MineJobs
    BY <1>4, Idle DEF NoJob, MineJobs
  <1>6. Len(runs) \in Nat
    BY DEF MiningInv, MiningTypeOK
  <1>7. ThreadFine(j, runs, queue)
    BY <1>5, <1>6 DEF ThreadFine, Busy
  <1>8. QED
    BY <1>1, <1>2, <1>3, <1>4, <1>5, <1>7, StillStep DEF Busy

\* A new run: nothing is queued for it yet.
LEMMA Started ==
    ASSUME MiningInv, NEW run \in MineRuns, runs' = Append(runs, run)
    PROVE  /\ runs' \in Seq(MineRuns) /\ Len(runs') = Len(runs) + 1 /\ Len(runs) \in Nat
           /\ runs'[Len(runs) + 1] = run /\ \A r \in 1 .. Len(runs) : runs'[r] = runs[r]
           /\ QueueOf(queue, Len(runs) + 1) = {} /\ QueueFine(queue, runs')
  <1>1. runs \in Seq(MineRuns) /\ QueueFine(queue, runs) /\ Len(runs) \in Nat
    BY DEF MiningInv, MiningTypeOK
  <1>2. /\ runs' \in Seq(MineRuns) /\ Len(runs') = Len(runs) + 1
        /\ runs'[Len(runs) + 1] = run /\ \A r \in 1 .. Len(runs) : runs'[r] = runs[r]
    BY <1>1
  <1>3. \A p \in queue : p.run # Len(runs) + 1 /\ p.run \in 1 .. Len(runs')
    BY <1>1, <1>2 DEF QueueFine
  <1>4. QED
    BY <1>1, <1>2, <1>3 DEF QueueOf, QueueFine

LEMMA StartStep ==
    ASSUME MiningInv, NEW t \in Clickers, StartMine(t)
    PROVE  MiningInv'
  <1>1. /\ mining[t].pc = "start" /\ runs' = Append(runs, MineRun) /\ registry' = Len(runs) + 1
        /\ mining' = [mining EXCEPT ![t] = [NoJob EXCEPT !.pc = "provider", !.run = Len(runs) + 1, !.listed = TRUE]]
        /\ released' = released /\ queue' = queue
    BY DEF StartMine, Mine, start, Calm
  <1>2. /\ runs' \in Seq(MineRuns) /\ Len(runs') = Len(runs) + 1 /\ Len(runs) \in Nat
        /\ runs'[Len(runs) + 1] = MineRun /\ \A r \in 1 .. Len(runs) : runs'[r] = runs[r]
        /\ QueueOf(queue, Len(runs) + 1) = {} /\ QueueFine(queue, runs')
    BY <1>1, Started, NewRun
  <1>3. PICK n \in Nat : n = Len(runs) + 1
    BY <1>2
  <1>4. PICK j : j = [NoJob EXCEPT !.pc = "provider", !.run = n, !.listed = TRUE]
    OBVIOUS
  <1>5. j.pc = "provider" /\ j.run = n /\ j.listed = TRUE /\ j.drafted = <<>> /\ j \in MineJobs
    BY <1>4, Idle DEF NoJob, MineJobs
  <1>6. mining' = [mining EXCEPT ![t] = j] /\ mining \in [Clickers -> MineJobs]
        /\ queue \in SUBSET Proposal /\ IsFiniteSet(queue) /\ released \in SUBSET Mined
    BY <1>1, <1>3, <1>4 DEF MiningInv, MiningTypeOK
  <1>7. ThreadFine(j, runs', queue')
    BY <1>1, <1>2, <1>3, <1>5 DEF ThreadFine, Busy
  <1>8. Watched(registry', runs', mining', stranded')
    <2>1. mining'[t].run = registry' /\ mining'[t].pc # "idle"
      BY <1>1, <1>3, <1>5, <1>6
    <2>2. QED
      BY <2>1 DEF Watched
  <1>9. RunFine(runs'[Len(runs) + 1], QueueOf(queue', Len(runs) + 1))
    BY <1>2 DEF RunFine, MineRun
  <1>10. mining[t].pc \notin Busy /\ j.pc \notin Busy
    BY <1>1, <1>5 DEF Busy
  <1>11. registry' \in 0 .. Len(runs') /\ \A r \in 1 .. Len(runs') : r > Len(runs) => r = Len(runs) + 1
    BY <1>1, <1>2
  <1>12. /\ runs' \in Seq(MineRuns) /\ Len(runs) <= Len(runs') /\ queue' \in SUBSET Proposal /\ IsFiniteSet(queue')
         /\ released' \in SUBSET Mined /\ QueueFine(queue', runs')
    BY <1>1, <1>2, <1>6
  <1>13. \A r \in 1 .. Len(runs) : runs'[r] = runs[r] /\ QueueOf(queue', r) = QueueOf(queue, r)
    BY <1>1, <1>2
  <1>14. QED
    BY <1>5, <1>6, <1>7, <1>8, <1>9, <1>10, <1>11, <1>12, <1>13, StepOf

\* Between start and the thread: the task is made, or the click fails and its run is lost.
LEMMA ScheduleStep ==
    ASSUME MiningInv, NEW t \in Clickers, Schedule(t) \/ ProviderFails(t)
    PROVE  MiningInv'
  <1>1. /\ mining[t].pc = "provider" /\ UNCHANGED <<released, queue, runs, registry>>
        /\ stranded \subseteq stranded'
    BY DEF Schedule, ProviderFails, Calm
  <1>2. mining \in [Clickers -> MineJobs] /\ mining[t] \in MineJobs /\ ThreadFine(mining[t], runs, queue)
    BY DEF MiningInv, MiningTypeOK
  <1>3. CASE Schedule(t)
    <2>1. PICK j : j = [mining[t] EXCEPT !.pc = "run"]
      OBVIOUS
    <2>2. mining' = [mining EXCEPT ![t] = j]
      BY <1>3, <2>1 DEF Schedule, Mine
    <2>3. /\ j \in MineJobs /\ j.pc = "run" /\ j.run = mining[t].run /\ j.listed = mining[t].listed
          /\ j.drafted = mining[t].drafted
      BY <1>2, <2>1 DEF MineJobs, Busy
    <2>4. ThreadFine(j, runs, queue) /\ j.pc \notin Busy
      BY <1>1, <1>2, <2>3 DEF ThreadFine, Busy
    <2>5. QED
      BY <1>1, <2>2, <2>3, <2>4, StillStep
  <1>4. CASE ProviderFails(t)
    <2>1. mining' = [mining EXCEPT ![t] = NoJob] /\ mining[t].run \in stranded'
      BY <1>4 DEF ProviderFails, Mine
    <2>2. NoJob \in MineJobs /\ NoJob.pc = "idle" /\ NoJob.run = 0 /\ NoJob.drafted = <<>>
      BY Idle DEF NoJob
    <2>3. ThreadFine(NoJob, runs, queue) /\ NoJob.pc \notin Busy
      BY <2>2 DEF ThreadFine, Busy
    <2>4. QED
      BY <1>1, <2>1, <2>2, <2>3, StillStep
  <1>5. QED
    BY <1>3, <1>4

LEMMA RunMiningStep ==
    ASSUME MiningInv, NEW t \in Clickers, run_mining(t)
    PROVE  MiningInv'
  <1>1. PICK run \in MineRuns :
          /\ run = IF check_quota THEN MineRun ELSE [MineRun EXCEPT !.state = "quota"]
          /\ runs' = Append(runs, run)
    BY NewRun DEF run_mining, start
  <1>2. /\ mining[t].pc = "run" /\ registry' = (IF mining[t].listed THEN Len(runs) + 1 ELSE registry)
        /\ mining' = [mining EXCEPT ![t] = IF check_quota THEN [mining[t] EXCEPT !.pc = "scope", !.run = Len(runs) + 1]
                                           ELSE NoJob]
        /\ released' = released /\ queue' = queue /\ stranded' = stranded
    BY DEF run_mining, Mine, start, Calm
  <1>3. /\ runs' \in Seq(MineRuns) /\ Len(runs') = Len(runs) + 1 /\ Len(runs) \in Nat
        /\ runs'[Len(runs) + 1] = run /\ \A r \in 1 .. Len(runs) : runs'[r] = runs[r]
        /\ QueueOf(queue, Len(runs) + 1) = {} /\ QueueFine(queue, runs')
    BY <1>1, Started
  <1>4. PICK n \in Nat : n = Len(runs) + 1
    BY <1>3
  <1>5. PICK j : j = IF check_quota THEN [mining[t] EXCEPT !.pc = "scope", !.run = n] ELSE NoJob
    OBVIOUS
  <1>6. /\ mining' = [mining EXCEPT ![t] = j] /\ mining \in [Clickers -> MineJobs] /\ mining[t] \in MineJobs
        /\ queue \in SUBSET Proposal /\ IsFiniteSet(queue) /\ released \in SUBSET Mined /\ registry \in 0 .. Len(runs)
    BY <1>2, <1>4, <1>5 DEF MiningInv, MiningTypeOK
  <1>7. /\ run.queued = 0 /\ run.proposals = 0 /\ run.state = (IF check_quota THEN "running" ELSE "quota")
    BY <1>1 DEF MineRun
  <1>8. /\ j \in MineJobs
        /\ check_quota => j.pc = "scope" /\ j.run = n /\ j.drafted = mining[t].drafted
        /\ ~check_quota => j.pc = "idle" /\ j.run = 0
    BY <1>5, <1>6, Idle DEF MineJobs, NoJob, Busy
  <1>9. mining[t].drafted = <<>> /\ mining[t].pc \notin Busy
        /\ mining[t].run \in 0 .. Len(runs) /\ (~mining[t].listed => mining[t].run = 0)
    BY <1>2 DEF MiningInv, ThreadFine, Busy
  <1>10. ThreadFine(j, runs', queue')
    <2>1. CASE check_quota
      <3>1. j.pc = "scope" /\ j.run \in 1 .. Len(runs') /\ runs'[j.run] = run /\ QueueOf(queue', j.run) = {}
        BY <1>2, <1>3, <1>4, <1>8, <2>1
      <3>2. run.state = "running" /\ run.queued = 0 /\ run.proposals = Cardinality(QueueOf(queue', j.run))
        BY <1>7, <2>1, <3>1, FS_EmptySet
      <3>3. j.drafted = <<>>
        BY <1>8, <1>9, <2>1
      <3>4. QED
        BY <3>1, <3>2, <3>3 DEF ThreadFine
    <2>2. CASE ~check_quota
      BY <1>8, <1>5, <2>2 DEF ThreadFine, Busy, NoJob
    <2>3. QED
      BY <2>1, <2>2
  <1>11. Watched(registry', runs', mining', stranded')
    <2>1. SUFFICES ASSUME registry' # 0, runs'[registry'].state = "running", registry' \notin stranded
                   PROVE  \E u \in Clickers : mining'[u].run = registry' /\ mining'[u].pc # "idle"
      BY <1>2 DEF Watched
    <2>2. CASE mining[t].listed
      <3>1. registry' = n /\ runs'[n] = run
        BY <1>2, <1>3, <1>4, <2>2
      <3>2. check_quota
        BY <1>7, <2>1, <3>1
      <3>3. QED
        BY <1>6, <1>8, <3>1, <3>2
    <2>3. CASE ~mining[t].listed
      <3>1. registry' = registry /\ registry \in 1 .. Len(runs)
        BY <1>2, <1>3, <1>6, <2>1, <2>3
      <3>2. runs[registry].state = "running"
        BY <1>3, <2>1, <3>1
      <3>3. PICK u \in Clickers : mining[u].run = registry /\ mining[u].pc # "idle"
        BY <2>1, <3>1, <3>2 DEF MiningInv, Watched
      <3>4. u # t
        BY <1>9, <2>3, <3>1, <3>3
      <3>5. QED
        BY <1>6, <3>1, <3>3, <3>4
    <2>4. QED
      BY <2>2, <2>3
  <1>12. RunFine(runs'[Len(runs) + 1], QueueOf(queue', Len(runs) + 1))
    BY <1>3, <1>7 DEF RunFine
  <1>13. /\ runs' \in Seq(MineRuns) /\ Len(runs) <= Len(runs') /\ queue' \in SUBSET Proposal /\ IsFiniteSet(queue')
         /\ released' \in SUBSET Mined /\ QueueFine(queue', runs') /\ registry' \in 0 .. Len(runs')
    BY <1>2, <1>3, <1>6
  <1>14. /\ \A r \in 1 .. Len(runs) : runs'[r] = runs[r] /\ QueueOf(queue', r) = QueueOf(queue, r)
         /\ \A r \in 1 .. Len(runs') : r > Len(runs) => r = Len(runs) + 1
    BY <1>2, <1>3
  <1>15. j.pc \in Busy => j.run = Len(runs) + 1
    BY <1>4, <1>8 DEF Busy
  <1>16. QED
    BY <1>6, <1>8, <1>9, <1>10, <1>11, <1>12, <1>13, <1>14, <1>15, StepOf

\* A thread at work on its run.
LEMMA AtWork ==
    ASSUME MiningInv, NEW t \in Clickers, mining[t].pc \in Busy
    PROVE  /\ mining \in [Clickers -> MineJobs] /\ mining[t] \in MineJobs /\ mining[t].run \in 1 .. Len(runs)
           /\ mining[t].run \in Nat /\ runs \in Seq(MineRuns) /\ Len(runs) \in Nat /\ runs[mining[t].run] \in MineRuns
           /\ runs[mining[t].run].state = "running" /\ runs[mining[t].run].queued = 0
           /\ runs[mining[t].run].proposals = Cardinality(QueueOf(queue, mining[t].run))
           /\ queue \in SUBSET Proposal /\ IsFiniteSet(queue) /\ registry \in 0 .. Len(runs) /\ released \in SUBSET Mined
           /\ RunFine(runs[mining[t].run], QueueOf(queue, mining[t].run)) /\ QueueFine(queue, runs)
  BY DEF MiningInv, MiningTypeOK, ThreadFine

LEMMA OwnStep ==
    ASSUME MiningInv, NEW t \in Clickers, mining[t].pc \in Busy, NEW j \in MineJobs, mining' = [mining EXCEPT ![t] = j],
           NEW run \in MineRuns, runs' = [runs EXCEPT ![mining[t].run] = run], registry' = registry, released' = released,
           stranded' = stranded,
           queue' \in SUBSET Proposal, IsFiniteSet(queue'),
           \A s \in 1 .. Len(runs) : s # mining[t].run => QueueOf(queue', s) = QueueOf(queue, s),
           \/ j.pc \notin Busy /\ run.state # "running"
           \/ j.pc \in Busy /\ j.run = mining[t].run,
           ThreadFine(j, runs', queue'), RunFine(run, QueueOf(queue', mining[t].run)), QueueFine(queue', runs')
    PROVE  MiningInv'
  <1>1. /\ mining \in [Clickers -> MineJobs] /\ mining[t].run \in 1 .. Len(runs) /\ Len(runs) \in Nat
        /\ runs \in Seq(MineRuns) /\ registry \in 0 .. Len(runs) /\ released \in SUBSET Mined
    BY AtWork
  <1>2. /\ runs' \in Seq(MineRuns) /\ Len(runs') = Len(runs) /\ runs'[mining[t].run] = run
        /\ \A s \in 1 .. Len(runs) : s # mining[t].run => runs'[s] = runs[s]
    BY <1>1
  <1>3. mining'[t] = j /\ \A u \in Clickers : u # t => mining'[u] = mining[u]
    BY <1>1
  <1>4. Watched(registry', runs', mining', stranded')
    <2>1. SUFFICES ASSUME registry # 0, runs'[registry].state = "running", registry \notin stranded
                   PROVE  \E u \in Clickers : mining'[u].run = registry /\ mining'[u].pc # "idle"
      BY DEF Watched
    <2>2. CASE registry = mining[t].run
      <3>1. j.pc \in Busy /\ j.run = registry
        BY <1>2, <2>1, <2>2
      <3>2. QED
        BY <1>3, <3>1 DEF Busy
    <2>3. CASE registry # mining[t].run
      <3>1. registry \in 1 .. Len(runs) /\ runs[registry].state = "running"
        BY <1>1, <1>2, <2>1, <2>3
      <3>2. PICK u \in Clickers : mining[u].run = registry /\ mining[u].pc # "idle"
        BY <2>1, <3>1 DEF MiningInv, Watched
      <3>3. QED
        BY <1>3, <2>3, <3>2
    <2>4. QED
      BY <2>2, <2>3
  <1>5. \A s \in 1 .. Len(runs) : \/ mining[t].pc \in Busy /\ s = mining[t].run
                                  \/ runs'[s] = runs[s] /\ QueueOf(queue', s) = QueueOf(queue, s)
    BY <1>2
  <1>6. \A s \in 1 .. Len(runs') : s > Len(runs) \/ (mining[t].pc \in Busy /\ s = mining[t].run) => RunFine(runs'[s], QueueOf(queue', s))
    BY <1>1, <1>2
  <1>7. Len(runs) <= Len(runs') /\ registry' \in 0 .. Len(runs') /\ released' \in SUBSET Mined
    BY <1>1, <1>2
  <1>8. QED
    BY <1>2, <1>4, <1>5, <1>6, <1>7, StepOf

\* A run ends: its thread is free again.
LEMMA EndStep ==
    ASSUME MiningInv, NEW t \in Clickers, mining[t].pc \in Busy, mining' = [mining EXCEPT ![t] = NoJob],
           NEW run \in MineRuns, runs' = [runs EXCEPT ![mining[t].run] = run], run.state # "running",
           RunFine(run, QueueOf(queue, mining[t].run)), UNCHANGED <<registry, released, queue, stranded>>
    PROVE  MiningInv'
  <1>1. /\ queue \in SUBSET Proposal /\ IsFiniteSet(queue) /\ QueueFine(queue, runs) /\ runs \in Seq(MineRuns)
        /\ Len(runs) \in Nat /\ mining[t].run \in 1 .. Len(runs)
    BY AtWork
  <1>2. Len(runs') = Len(runs)
    BY <1>1
  <1>3. NoJob \in MineJobs /\ NoJob.pc = "idle" /\ NoJob.run = 0 /\ NoJob.drafted = <<>>
    BY Idle DEF NoJob
  <1>4. ThreadFine(NoJob, runs', queue') /\ QueueFine(queue', runs')
    BY <1>1, <1>2, <1>3 DEF ThreadFine, QueueFine, Busy
  <1>5. NoJob.pc \notin Busy
    BY <1>3 DEF Busy
  <1>6. /\ queue' \in SUBSET Proposal /\ IsFiniteSet(queue') /\ registry' = registry /\ released' = released
        /\ stranded' = stranded /\ RunFine(run, QueueOf(queue', mining[t].run))
        /\ \A s \in 1 .. Len(runs) : s # mining[t].run => QueueOf(queue', s) = QueueOf(queue, s)
    BY <1>1
  <1>7. QED
    BY <1>3, <1>4, <1>5, <1>6, OwnStep

LEMMA InScope ==
    ASSUME MiningInv
    PROVE  mining_scope \in SUBSET Mined /\ Cardinality(InWindow) \in Nat /\ Cardinality(mining_scope) \in Nat
  <1>1. InWindow \in SUBSET Mined
    BY DEF MiningInv, MiningTypeOK, InWindow
  <1>2. mining_scope \in SUBSET Mined
    BY <1>1 DEF mining_scope, Newest
  <1>3. QED
    BY <1>1, <1>2, MinedFacts, FS_Subset, FS_CardinalityType

LEMMA ScopeStep ==
    ASSUME MiningInv, NEW t \in Clickers, Scope(t)
    PROVE  MiningInv'
  <1> DEFINE r == mining[t].run
  <1>1. mining[t].pc = "scope" /\ mining[t].pc \in Busy
    BY DEF Scope, Busy
  <1>2. /\ mining \in [Clickers -> MineJobs] /\ mining[t] \in MineJobs /\ r \in 1 .. Len(runs) /\ runs \in Seq(MineRuns)
        /\ runs[r] \in MineRuns /\ runs[r].state = "running" /\ runs[r].queued = 0
        /\ runs[r].proposals = Cardinality(QueueOf(queue, r)) /\ Len(runs) \in Nat
        /\ queue \in SUBSET Proposal /\ IsFiniteSet(queue) /\ QueueFine(queue, runs)
    BY <1>1, AtWork
  <1>3. QueueOf(queue, r) = {} /\ mining[t].drafted = <<>>
    BY <1>1 DEF MiningInv, ThreadFine
  <1>4. PICK scope \in SUBSET Mined : scope = mining_scope
    BY InScope
  <1>5. PICK a \in Nat, b \in Nat : a = Cardinality(InWindow) /\ b = Cardinality(mining_scope)
    BY InScope
  <1>6. PICK state \in {"running", "done"} : state = IF scope = {} THEN "done" ELSE "running"
    OBVIOUS
  <1>7. PICK run : run = [runs[r] EXCEPT !.matched = a, !.scanned = b, !.state = state]
    OBVIOUS
  <1>8. run \in MineRuns /\ run.state = state /\ run.queued = 0 /\ run.proposals = runs[r].proposals
    BY <1>2, <1>6, <1>7 DEF MineRuns
  <1>9. runs' = [runs EXCEPT ![r] = run]
    <2>1. runs' = [runs EXCEPT ![r].matched = a, ![r].scanned = b, ![r].state = IF scope = {} THEN "done" ELSE @]
      BY <1>4, <1>5 DEF Scope
    <2>2. QED
      BY <1>2, <1>6, <1>7, <2>1
  <1>10. UNCHANGED <<released, registry, queue, stranded>>
    BY DEF Scope, Calm
  <1>11. CASE scope = {}
    <2>1. mining' = [mining EXCEPT ![t] = NoJob]
      BY <1>4, <1>11 DEF Scope, Mine
    <2>2. RunFine(run, QueueOf(queue, r))
      BY <1>3, <1>6, <1>8, <1>11, FS_EmptySet DEF RunFine
    <2>3. QED
      BY <1>1, <1>6, <1>8, <1>9, <1>10, <1>11, <2>1, <2>2, EndStep
  <1>12. CASE scope # {}
    <2>1. PICK j : j = [mining[t] EXCEPT !.pc = "cluster", !.items = scope]
      OBVIOUS
    <2>2. mining' = [mining EXCEPT ![t] = j]
      BY <1>4, <1>12, <2>1 DEF Scope, Mine
    <2>3. j \in MineJobs /\ j.pc = "cluster" /\ j.run = r /\ j.drafted = <<>>
      BY <1>2, <1>3, <2>1 DEF MineJobs, Busy
    <2>4. runs'[r] = run /\ Len(runs') = Len(runs)
      BY <1>2, <1>9
    <2>5. ThreadFine(j, runs', queue')
      BY <1>2, <1>3, <1>6, <1>8, <1>10, <1>12, <2>3, <2>4 DEF ThreadFine
    <2>6. RunFine(run, QueueOf(queue', r)) /\ QueueFine(queue', runs')
      BY <1>2, <1>6, <1>8, <1>10, <1>12, <2>4 DEF RunFine, QueueFine
    <2>7. j.pc \in Busy /\ queue' \in SUBSET Proposal /\ IsFiniteSet(queue') /\ registry' = registry /\ released' = released
          /\ stranded' = stranded /\ \A s \in 1 .. Len(runs) : QueueOf(queue', s) = QueueOf(queue, s)
      BY <1>2, <1>10, <2>3 DEF Busy
    <2>8. QED
      BY <1>1, <1>8, <1>9, <2>2, <2>3, <2>5, <2>6, <2>7, OwnStep
  <1>13. QED
    BY <1>11, <1>12

LEMMA ClusterStep ==
    ASSUME MiningInv, NEW t \in Clickers, Cluster(t)
    PROVE  MiningInv'
  <1>1. mining[t].pc = "cluster" /\ mining[t].pc \in Busy
    BY DEF Cluster, Busy
  <1>2. /\ mining \in [Clickers -> MineJobs] /\ mining[t] \in MineJobs /\ ThreadFine(mining[t], runs, queue)
        /\ mining[t].run \in 1 .. Len(runs)
    BY <1>1, AtWork DEF MiningInv
  <1>3. PICK todo : todo = Kept[mining[t].items]
    OBVIOUS
  <1>4. Grouped(todo) /\ todo \in Todos
    <2>1. mining[t].items \in SUBSET Mined
      BY <1>2 DEF MineJobs
    <2>2. QED
      BY <1>3, <2>1, KeptIs, MinedGroups, GroupedIsTodo
  <1>5. PICK j : j = [mining[t] EXCEPT !.pc = "draft", !.todo = todo, !.items = {}]
    OBVIOUS
  <1>6. mining' = [mining EXCEPT ![t] = j] /\ UNCHANGED <<released, queue, runs, registry, stranded>>
    BY <1>3, <1>5 DEF Cluster, Mine, Calm
  <1>7. j \in MineJobs /\ j.pc = "draft" /\ j.run = mining[t].run /\ j.drafted = mining[t].drafted /\ j.todo = todo
    BY <1>2, <1>4, <1>5 DEF MineJobs, Busy
  <1>8. j.drafted = <<>> /\ QueueOf(queue, j.run) = {}
    BY <1>1, <1>2, <1>7 DEF ThreadFine
  <1>9. DraftFine(j, QueueOf(queue, j.run))
    BY <1>4, <1>7, <1>8 DEF DraftFine
  <1>10. ThreadFine(j, runs, queue)
    BY <1>1, <1>2, <1>7, <1>9 DEF ThreadFine, Busy
  <1>11. QED
    BY <1>1, <1>6, <1>7, <1>10, StillStep

LEMMA DoneStep ==
    ASSUME MiningInv, NEW t \in Clickers, Done(t) \/ Failed(t)
    PROVE  MiningInv'
  <1> DEFINE r == mining[t].run
  <1>1. mining[t].pc \in Busy /\ mining' = [mining EXCEPT ![t] = NoJob] /\ UNCHANGED <<registry, released, queue, stranded>>
    BY DEF Done, Failed, Busy, Mine, Calm
  <1>2. /\ r \in 1 .. Len(runs) /\ runs \in Seq(MineRuns) /\ runs[r] \in MineRuns /\ runs[r].queued = 0
        /\ runs[r].proposals = Cardinality(QueueOf(queue, r)) /\ runs[r].proposals \in Nat
    BY <1>1, AtWork DEF MineRuns
  <1>3. CASE Done(t)
    <2>1. PICK n \in Nat : n = runs[r].queued + runs[r].proposals
      BY <1>2
    <2>2. PICK run : run = [runs[r] EXCEPT !.state = "done", !.queued = n]
      OBVIOUS
    <2>3. run \in MineRuns /\ run.state = "done" /\ run.queued = n
      BY <1>2, <2>2 DEF MineRuns
    <2>4. runs' = [runs EXCEPT ![r] = run]
      <3>1. runs' = [runs EXCEPT ![r].state = "done", ![r].queued = @ + runs[r].proposals]
        BY <1>3 DEF Done
      <3>2. QED
        BY <1>2, <2>1, <2>2, <3>1
    <2>5. RunFine(run, QueueOf(queue, r))
      BY <1>2, <2>1, <2>3 DEF RunFine
    <2>6. QED
      BY <1>1, <2>3, <2>4, <2>5, EndStep
  <1>4. CASE Failed(t)
    <2>1. PICK run : run = [runs[r] EXCEPT !.state = "failed"]
      OBVIOUS
    <2>2. run \in MineRuns /\ run.state = "failed" /\ run.queued = 0
      BY <1>2, <2>1 DEF MineRuns
    <2>3. runs' = [runs EXCEPT ![r] = run]
      BY <1>2, <1>4, <2>1 DEF Failed, State
    <2>4. RunFine(run, QueueOf(queue, r))
      BY <2>2 DEF RunFine
    <2>5. QED
      BY <1>1, <2>2, <2>3, <2>4, EndStep
  <1>5. QED
    BY <1>3, <1>4

\* Different digests have different ids.
LEMMA IdsApart ==
    ASSUME NEW S \in SUBSET Mined, NEW T \in SUBSET Mined, S \cap T = {}
    PROVE  Ids(S) \cap Ids(T) = {}
  BY MinedFacts DEF Ids

LEMMA LeastOf ==
    ASSUME NEW S \in SUBSET Nat, S # {}
    PROVE  Min(S) \in S
  <1>1. \E m \in S : \A n \in S : m <= n
    BY NatLeast
  <1>2. QED
    BY <1>1 DEF Min

\* What is left to draft when one group is taken.
LEMMA GroupTaken ==
    ASSUME NEW todo, Grouped(todo), NEW k \in DOMAIN todo, NEW left, left = Restrict(todo, DOMAIN todo \ {k})
    PROVE  /\ Grouped(left) /\ DOMAIN left = DOMAIN todo \ {k} /\ \A l \in DOMAIN left : left[l] = todo[l]
           /\ \A l \in DOMAIN left : Ids(todo[k]) \cap Ids(left[l]) = {}
  <1>1. DOMAIN left = DOMAIN todo \ {k} /\ left = [l \in DOMAIN left |-> left[l]]
        /\ \A l \in DOMAIN left : left[l] = todo[l]
    BY DEF Restrict
  <1>2. \A l \in DOMAIN left : left[l] \cap todo[k] = {} /\ left[l] \subseteq Mined /\ todo[k] \subseteq Mined
    BY <1>1 DEF Grouped
  <1>3. \A l \in DOMAIN left : Ids(todo[k]) \cap Ids(left[l]) = {}
    <2>1. \A l \in DOMAIN left : left[l] \in SUBSET Mined /\ todo[k] \in SUBSET Mined /\ todo[k] \cap left[l] = {}
      BY <1>2
    <2>2. QED
      BY <2>1, IdsApart
  <1>4. /\ DOMAIN todo \subseteq Nat
        /\ \A l \in DOMAIN todo : /\ todo[l] \subseteq Mined /\ todo[l] # {}
                                 /\ Cardinality(ClusterContributors(todo[l])) >= KFloor
        /\ \A l, m \in DOMAIN todo : l # m => todo[l] \cap todo[m] = {}
    BY Zenon DEF Grouped
  <1>5. /\ DOMAIN left \subseteq Nat
        /\ \A l \in DOMAIN left : /\ left[l] \subseteq Mined /\ left[l] # {}
                                 /\ Cardinality(ClusterContributors(left[l])) >= KFloor
        /\ \A l, m \in DOMAIN left : l # m => left[l] \cap left[m] = {}
    <2>1. \A l \in DOMAIN left : l \in DOMAIN todo /\ left[l] = todo[l]
      BY <1>1
    <2>2. QED
      BY <1>4, <2>1
  <1>6. Grouped(left)
    BY <1>1, <1>5, Zenon DEF Grouped
  <1>7. QED
    BY <1>1, <1>3, <1>6

LEMMA ProposalOf ==
    ASSUME NEW todo, Grouped(todo), NEW k \in DOMAIN todo, NEW r \in Nat, NEW n \in Nat, NEW draft \in Drafts,
           NEW p, p = [run |-> r, n |-> n, draft |-> draft, provenance |-> make_provenance(todo[k])]
    PROVE  p \in Proposal /\ p.run = r /\ Evidence(p) = Ids(todo[k])
  <1>1. todo[k] \subseteq Mined /\ todo[k] # {} /\ Cardinality(ClusterContributors(todo[k])) >= KFloor
    BY DEF Grouped
  <1>2. IsFiniteSet(todo[k])
    BY <1>1, MinedFacts, FS_Subset
  <1>3. /\ Cardinality(ClusterContributors(todo[k])) \in Nat
        /\ Cardinality({c.session : c \in todo[k]}) \in Nat
    BY <1>2, PartsFinite, FS_CardinalityType
  <1>4. Ids(todo[k]) \in (SUBSET Ids(Mined)) \ {{}}
    BY <1>1 DEF Ids
  <1>5. PICK a \in Nat, b \in Nat, e \in (SUBSET Ids(Mined)) \ {{}}, c \in BOOLEAN :
          a = Cardinality(ClusterContributors(todo[k])) /\ b = Cardinality({d.session : d \in todo[k]})
          /\ e = Ids(todo[k]) /\ c = _cohesion(todo[k])
    BY <1>3, <1>4 DEF _cohesion
  <1>6. make_provenance(todo[k]) = [contributor_count |-> a, evidence |-> e, confident |-> c, session_count |-> b]
    BY <1>5, Zenon DEF make_provenance, Ids
  <1>7. make_provenance(todo[k]) \in Provenances /\ make_provenance(todo[k]).evidence = Ids(todo[k])
    BY <1>1, <1>5, <1>6 DEF Provenances
  <1>8. QED
    BY <1>7 DEF Proposal, Evidence

LEMMA DraftStep ==
    ASSUME MiningInv, NEW t \in Clickers, Draft(t)
    PROVE  MiningInv'
  <1> DEFINE j == mining[t]
  <1>1. j.pc = "draft" /\ j.pc \in Busy /\ DOMAIN j.todo # {} /\ UNCHANGED <<released, queue, runs, registry, stranded>>
    BY DEF Draft, Busy, Calm
  <1>2. /\ mining \in [Clickers -> MineJobs] /\ j \in MineJobs /\ ThreadFine(j, runs, queue) /\ j.run \in 1 .. Len(runs)
        /\ j.run \in Nat
    BY <1>1, AtWork DEF MiningInv
  <1>3. DraftFine(j, QueueOf(queue, j.run)) /\ Grouped(j.todo) /\ j.drafted \in Seq(Proposal) /\ Len(j.drafted) \in Nat
    BY <1>1, <1>2 DEF ThreadFine, DraftFine, MineJobs
  <1>4. PICK k : k = Min(DOMAIN j.todo)
    OBVIOUS
  <1>5. k \in DOMAIN j.todo
    BY <1>1, <1>3, <1>4, LeastOf DEF Grouped
  <1>6. PICK draft \in Drafts :
          mining' = [mining EXCEPT ![t] = [j EXCEPT !.todo = Restrict(@, DOMAIN @ \ {k}), !.drafted = Append(@,
                       [run |-> j.run, n |-> Len(@) + 1, draft |-> draft, provenance |-> make_provenance(j.todo[k])])]]
    BY <1>4, RefusedFallsBack DEF Draft, Mine
  <1>7. PICK p : p = [run |-> j.run, n |-> Len(j.drafted) + 1, draft |-> draft, provenance |-> make_provenance(j.todo[k])]
    OBVIOUS
  <1>8. p \in Proposal /\ p.run = j.run /\ Evidence(p) = Ids(j.todo[k])
    BY <1>2, <1>3, <1>5, <1>7, ProposalOf
  <1>9. PICK left : left = Restrict(j.todo, DOMAIN j.todo \ {k})
    OBVIOUS
  <1>10. /\ Grouped(left) /\ DOMAIN left = DOMAIN j.todo \ {k} /\ \A l \in DOMAIN left : left[l] = j.todo[l]
         /\ \A l \in DOMAIN left : Ids(j.todo[k]) \cap Ids(left[l]) = {}
    <2>1. PICK todo : todo = j.todo
      OBVIOUS
    <2>2. Grouped(todo) /\ k \in DOMAIN todo /\ left = Restrict(todo, DOMAIN todo \ {k})
      BY <1>3, <1>5, <1>9, <2>1
    <2> HIDE DEF j
    <2>3. QED
      BY <2>1, <2>2, GroupTaken
  <1>11. PICK more : more = Append(j.drafted, p)
    OBVIOUS
  <1>12. /\ more \in Seq(Proposal) /\ DOMAIN more = 1 .. Len(j.drafted) + 1 /\ DOMAIN j.drafted = 1 .. Len(j.drafted)
         /\ more[Len(j.drafted) + 1] = p /\ \A i \in 1 .. Len(j.drafted) : more[i] = j.drafted[i]
    BY <1>3, <1>8, <1>11
  <1>13. PICK moved : moved = [j EXCEPT !.todo = left, !.drafted = more]
    OBVIOUS
  <1>14. mining' = [mining EXCEPT ![t] = moved]
    <2>1. moved = [j EXCEPT !.todo = Restrict(@, DOMAIN @ \ {k}), !.drafted = Append(@,
                  [run |-> j.run, n |-> Len(@) + 1, draft |-> draft, provenance |-> make_provenance(j.todo[k])])]
      BY <1>7, <1>9, <1>11, <1>13
    <2>2. QED
      BY <1>6, <2>1
  <1>15. moved \in MineJobs /\ moved.pc = "draft" /\ moved.run = j.run /\ moved.todo = left /\ moved.drafted = more
    BY <1>1, <1>2, <1>10, <1>12, <1>13, GroupedIsTodo DEF MineJobs
  <1>16. DraftFine(moved, QueueOf(queue, j.run))
    <2>1. \A i \in DOMAIN more : i \in DOMAIN j.drafted \/ i = Len(j.drafted) + 1
      BY <1>3, <1>12
    <2>2. \A i \in DOMAIN j.drafted : /\ more[i] = j.drafted[i] /\ more[i].run = j.run
                                      /\ Evidence(more[i]) \cap Ids(j.todo[k]) = {}
      BY <1>3, <1>5, <1>12 DEF DraftFine
    <2>3. \A i \in DOMAIN more : more[i].run = j.run
      BY <1>8, <1>12, <2>1, <2>2
    <2>4. \A i, l \in DOMAIN more : i # l => Evidence(more[i]) \cap Evidence(more[l]) = {}
      <3>1. \A i, l \in DOMAIN j.drafted : i # l => Evidence(more[i]) \cap Evidence(more[l]) = {}
        BY <1>3, <2>2 DEF DraftFine
      <3>2. \A i \in DOMAIN j.drafted : Evidence(more[i]) \cap Evidence(p) = {}
        BY <1>8, <2>2
      <3>3. more[Len(j.drafted) + 1] = p
        BY <1>12
      <3> HIDE DEF j
      <3>4. QED
        BY <2>1, <3>1, <3>2, <3>3
    <2>5. \A i \in DOMAIN more, l \in DOMAIN left : Evidence(more[i]) \cap Ids(left[l]) = {}
      BY <1>3, <1>8, <1>10, <1>12, <2>1, <2>2 DEF DraftFine
    <2>6. \A q \in QueueOf(queue, j.run) : /\ \A i \in DOMAIN more : Evidence(q) \cap Evidence(more[i]) = {}
                                           /\ \A l \in DOMAIN left : Evidence(q) \cap Ids(left[l]) = {}
      BY <1>3, <1>5, <1>8, <1>10, <1>12, <2>1, <2>2 DEF DraftFine
    <2>7. QED
      BY <1>10, <1>15, <2>3, <2>4, <2>5, <2>6 DEF DraftFine
  <1>17. ThreadFine(moved, runs, queue)
    BY <1>1, <1>2, <1>15, <1>16 DEF ThreadFine, Busy
  <1>18. QED
    BY <1>1, <1>14, <1>15, <1>17, StillStep

LEMMA EnqueueStep ==
    ASSUME MiningInv, NEW t \in Clickers, Enqueue(t)
    PROVE  MiningInv'
  <1> DEFINE j == mining[t]
             r == j.run
  <1>1. /\ j.pc = "draft" /\ j.pc \in Busy /\ j.drafted # <<>> /\ registry' = registry /\ released' = released
        /\ stranded' = stranded
    BY DEF Enqueue, Busy, Calm
  <1>2. /\ mining \in [Clickers -> MineJobs] /\ j \in MineJobs /\ r \in 1 .. Len(runs) /\ runs \in Seq(MineRuns)
        /\ runs[r] \in MineRuns /\ runs[r].state = "running" /\ runs[r].queued = 0
        /\ runs[r].proposals = Cardinality(QueueOf(queue, r)) /\ Len(runs) \in Nat
        /\ queue \in SUBSET Proposal /\ IsFiniteSet(queue) /\ QueueFine(queue, runs) /\ ThreadFine(j, runs, queue)
    BY <1>1, AtWork DEF MiningInv
  <1>3. DraftFine(j, QueueOf(queue, r)) /\ j.drafted \in Seq(Proposal) /\ Len(j.drafted) \in Nat
    BY <1>1, <1>2 DEF ThreadFine, MineJobs
  <1>4. PICK p : p = Head(j.drafted)
    OBVIOUS
  <1>5. PICK rest : rest = Tail(j.drafted)
    OBVIOUS
  <1>6. /\ p \in Proposal /\ p = j.drafted[1] /\ rest \in Seq(Proposal) /\ DOMAIN rest = 1 .. Len(j.drafted) - 1
        /\ DOMAIN j.drafted = 1 .. Len(j.drafted) /\ 1 \in DOMAIN j.drafted
        /\ \A i \in DOMAIN rest : rest[i] = j.drafted[i + 1]
    BY <1>1, <1>3, <1>4, <1>5
  <1>7. \A i \in DOMAIN rest : i + 1 \in DOMAIN j.drafted /\ i + 1 # 1 /\ i \in Nat
    BY <1>3, <1>6
  <1>8. p.run = r /\ \A q \in QueueOf(queue, r) : Evidence(q) \cap Evidence(p) = {}
    BY <1>3, <1>6 DEF DraftFine
  <1>9. Evidence(p) # {}
    BY <1>6 DEF Evidence, Proposal, Provenances
  <1>10. p \notin queue
    BY <1>8, <1>9 DEF QueueOf
  <1>11. queue' = queue \cup {p} /\ IsFiniteSet(queue') /\ queue' \in SUBSET Proposal
    <2>1. queue' = queue \cup {p}
      BY <1>4 DEF Enqueue, enqueue_action
    <2>2. QED
      BY <1>2, <1>6, <2>1, FS_AddElement
  <1>12. QueueOf(queue', r) = QueueOf(queue, r) \cup {p} /\ \A s \in 1 .. Len(runs) : s # r => QueueOf(queue', s) = QueueOf(queue, s)
    BY <1>8, <1>11 DEF QueueOf
  <1>13. Cardinality(QueueOf(queue', r)) = runs[r].proposals + 1 /\ runs[r].proposals \in Nat
    <2>1. IsFiniteSet(QueueOf(queue, r)) /\ p \notin QueueOf(queue, r)
      BY <1>2, <1>10, FS_Subset DEF QueueOf
    <2>2. Cardinality(QueueOf(queue, r)) \in Nat /\ Cardinality(QueueOf(queue, r) \cup {p}) = Cardinality(QueueOf(queue, r)) + 1
      BY <2>1, FS_AddElement, FS_CardinalityType
    <2>3. QED
      BY <1>2, <1>12, <2>2
  <1>14. PICK n \in Nat : n = runs[r].proposals + 1
    BY <1>13
  <1>15. PICK run : run = [runs[r] EXCEPT !.proposals = n]
    OBVIOUS
  <1>16. run \in MineRuns /\ run.state = "running" /\ run.queued = 0 /\ run.proposals = n
    BY <1>2, <1>15 DEF MineRuns
  <1>17. runs' = [runs EXCEPT ![r] = run]
    <2>1. runs' = [runs EXCEPT ![r].proposals = @ + 1]
      BY DEF Enqueue
    <2>2. QED
      BY <1>2, <1>14, <1>15, <2>1
  <1>18. runs'[r] = run /\ Len(runs') = Len(runs)
    BY <1>2, <1>17
  <1>19. PICK moved : moved = [j EXCEPT !.drafted = rest]
    OBVIOUS
  <1>20. mining' = [mining EXCEPT ![t] = moved]
    BY <1>5, <1>19 DEF Enqueue, Mine
  <1>21. moved \in MineJobs /\ moved.pc = "draft" /\ moved.run = r /\ moved.todo = j.todo /\ moved.drafted = rest
    BY <1>1, <1>2, <1>6, <1>19 DEF MineJobs
  <1>22. DraftFine(moved, QueueOf(queue', r))
    <2>1. \A i \in DOMAIN rest : /\ rest[i] = j.drafted[i + 1] /\ rest[i].run = r
                                 /\ Evidence(p) \cap Evidence(rest[i]) = {}
      BY <1>3, <1>6, <1>7 DEF DraftFine
    <2>2. \A i, k \in DOMAIN rest : i # k => Evidence(rest[i]) \cap Evidence(rest[k]) = {}
      <3>1. SUFFICES ASSUME NEW i \in DOMAIN rest, NEW k \in DOMAIN rest, i # k
                     PROVE  Evidence(rest[i]) \cap Evidence(rest[k]) = {}
        OBVIOUS
      <3>2. i + 1 # k + 1 /\ i + 1 \in DOMAIN j.drafted /\ k + 1 \in DOMAIN j.drafted
        BY <1>7, <3>1
      <3>3. QED
        BY <1>3, <1>6, <3>2 DEF DraftFine
    <2>3. \A i \in DOMAIN rest, k \in DOMAIN j.todo : Evidence(rest[i]) \cap Ids(j.todo[k]) = {}
      BY <1>3, <1>7, <2>1 DEF DraftFine
    <2>4. \A k \in DOMAIN j.todo : Evidence(p) \cap Ids(j.todo[k]) = {}
      BY <1>3, <1>6 DEF DraftFine
    <2>5. \A q \in QueueOf(queue, r) : /\ \A i \in DOMAIN rest : Evidence(q) \cap Evidence(rest[i]) = {}
                                       /\ \A k \in DOMAIN j.todo : Evidence(q) \cap Ids(j.todo[k]) = {}
      BY <1>3, <1>7, <2>1 DEF DraftFine
    <2>6. Grouped(j.todo)
      BY <1>3 DEF DraftFine
    <2>7. QED
      BY <1>12, <1>21, <2>1, <2>2, <2>3, <2>4, <2>5, <2>6 DEF DraftFine
  <1>23. ThreadFine(moved, runs', queue')
    BY <1>2, <1>13, <1>14, <1>16, <1>18, <1>21, <1>22 DEF ThreadFine
  <1>24. RunFine(run, QueueOf(queue', r))
    BY <1>16 DEF RunFine
  <1>25. QueueFine(queue', runs')
    <2>1. \A q \in queue' : q.run \in 1 .. Len(runs')
      BY <1>2, <1>8, <1>11, <1>18 DEF QueueFine
    <2>2. \A q \in queue : q.run = p.run => Evidence(q) \cap Evidence(p) = {}
      BY <1>8 DEF QueueOf
    <2>3. \A q, s \in queue' : q.run = s.run /\ q # s => Evidence(q) \cap Evidence(s) = {}
      BY <1>2, <1>11, <2>2 DEF QueueFine
    <2>4. QED
      BY <2>1, <2>3 DEF QueueFine
  <1>26. moved.pc \in Busy
    BY <1>21 DEF Busy
  <1>27. QED
    BY <1>1, <1>11, <1>12, <1>16, <1>17, <1>20, <1>21, <1>23, <1>24, <1>25, <1>26, OwnStep

LEMMA AroundMining ==
    ASSUME MiningInv, BudgetSpent \/ Purged \/ Restart \/ UNCHANGED mvars
    PROVE  MiningInv'
  <1>1. /\ released \in SUBSET Mined /\ queue \in SUBSET Proposal /\ IsFiniteSet(queue) /\ Len(runs) \in Nat
        /\ runs \in Seq(MineRuns) /\ registry \in 0 .. Len(runs) /\ mining \in [Clickers -> MineJobs]
    BY DEF MiningInv, MiningTypeOK
  <1>2. CASE BudgetSpent \/ Purged \/ UNCHANGED mvars
    <2>1. released' \in SUBSET Mined
      BY <1>1, <1>2 DEF BudgetSpent, Purged, mvars
    <2>2. queue' = queue /\ runs' = runs /\ registry' = registry /\ mining' = mining
          /\ stranded' = stranded
      BY <1>2 DEF BudgetSpent, Purged, mvars
    <2>3. MiningTypeOK'
      BY <1>1, <2>1, <2>2 DEF MiningTypeOK
    <2>4. QED
      BY <2>2, <2>3 DEF MiningInv
  <1>3. CASE Restart
    <2>1. /\ released' = released /\ queue' = queue /\ registry' = 0 /\ mining' = [t \in Clickers |-> NoJob]
          /\ runs' = [r \in DOMAIN runs |-> MineRun]
      BY <1>3 DEF Restart
    <2>2. runs' \in Seq(MineRuns) /\ Len(runs') = Len(runs) /\ \A r \in 1 .. Len(runs') : runs'[r] = MineRun
      <3>1. DOMAIN runs = 1 .. Len(runs)
        BY <1>1
      <3>2. runs' \in [1 .. Len(runs) -> MineRuns]
        BY <2>1, <3>1, NewRun
      <3>3. QED
        BY <1>1, <2>1, <3>1, <3>2
    <2>3. NoJob.pc = "idle" /\ NoJob.run = 0 /\ NoJob.drafted = <<>>
      BY DEF NoJob
    <2>4. \A t \in Clickers : mining'[t].pc = "idle" /\ mining'[t].run = 0 /\ mining'[t].drafted = <<>>
      BY <2>1, <2>3
    <2>5. MiningTypeOK'
      BY <1>1, <2>1, <2>2, Idle DEF MiningTypeOK
    <2>6. \A t \in Clickers : ThreadFine(mining'[t], runs', queue')
      BY <2>4 DEF ThreadFine, Busy
    <2>7. \A r \in 1 .. Len(runs') : RunFine(runs'[r], QueueOf(queue', r))
      BY <2>2 DEF RunFine, MineRun
    <2>8. QueueFine(queue', runs')
      BY <2>1, <2>2 DEF MiningInv, QueueFine
    <2>9. QED
      BY <2>1, <2>4, <2>5, <2>6, <2>7, <2>8 DEF MiningInv, Watched, Busy
  <1>4. QED
    BY <1>2, <1>3

LEMMA MiningStep == MiningInv /\ [MiningNext]_mvars => MiningInv'
  <1>1. SUFFICES ASSUME MiningInv, [MiningNext]_mvars PROVE MiningInv'
    OBVIOUS
  <1>2. ASSUME NEW t \in Clickers,
               \/ mine(t) \/ Look(t) \/ StartMine(t) \/ Schedule(t) \/ ProviderFails(t)
               \/ mine_skills(t) \/ run_mining(t) \/ Scope(t) \/ Cluster(t) \/ Draft(t) \/ Enqueue(t) \/ Done(t) \/ Failed(t)
        PROVE  MiningInv'
    BY <1>1, <1>2, LookStep, StartStep, ScheduleStep, RunMiningStep, ScopeStep, ClusterStep, DraftStep, EnqueueStep, DoneStep
  <1>3. QED
    BY <1>1, <1>2, AroundMining DEF MiningNext

-----------------------------------------------------------------------------
\* Whatever the digests, the threads that mine at once, the purges, the failures and the
\* restarts are: a proposed skill speaks for as many contributors as the miner's own fixed
\* floor asks for (K_ANON_FLOOR, not the floor the server is configured with) and shares
\* no session with another of its run; a run shown as running has a thread on it, unless
\* the click that registered it failed before its task was made; a run shown as done has
\* queued what it says; topics keep the configured floor; and the cost report accounts for
\* every session (mine_org, run_mining, MineRunRegistry, team_topics).
THEOREM MinesHonestly == MiningSpec => []MiningHonest
  <1>1. MiningInit => MiningInv
    BY MiningInitInv
  <1>2. MiningInv /\ [MiningNext]_mvars => MiningInv'
    BY MiningStep
  <1>3. MiningInv => MiningHonest
    BY MiningInvHonest
  <1>4. QED
    BY <1>1, <1>2, <1>3, PTL DEF MiningSpec
=============================================================================
