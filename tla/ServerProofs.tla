----------------------------- MODULE ServerProofs -----------------------------
(***************************************************************************)
(* Theorems about the server.  Ledger: however calls to a model race, each *)
(* reply is counted once, the overshoot past a cap is bounded by the       *)
(* number of callers, and no window holds more requests than its limit.    *)
(* Questions: nobody a question names is left out of its ranking, and no   *)
(* session of a list a reader pages through is skipped.  Access: answers   *)
(* that name nobody come from groups of enough people, every answer is in  *)
(* the audit, the pages agree with each other, and no door opens to a      *)
(* revoked token.                                                          *)
(***************************************************************************)
EXTENDS Ledger, Access, FiniteSetTheorems, SequenceTheorems, TLAPS

USE LedgerAssumption

-----------------------------------------------------------------------------
\* The inductive invariants

Row == [calls : Nat, cost : Nat]
Call == [pc : {"idle", "check", "send", "sent", "metering", "update", "insert", "purpose"},
         cap : Nat, month : Months, cost : 0 .. MaxCost, tries : Nat, purpose : Purposes]
Price == (1 .. MaxCost) \cup {None}

LedgerTypeOK ==
    /\ provider \in [Purposes -> Providers \cup {"mock"}] /\ reported \in [Purposes -> Price]
    /\ quota \in Nat \cup {None} /\ month \in Months
    /\ usage \in [Months -> Row \cup {None}] /\ purposes \in [Months -> [Purposes -> Row \cup {None}]]
    /\ call \in [Callers -> Call]
    /\ replied \in [Months -> Nat] /\ permitted \in [Months -> Nat \cup {None}]

Owing == {"metering", "update", "insert"}
Admitting == {"send", "sent"} \cup Owing

\* The callers whose reply is not in the usage row yet, and those let in by Check.
InFlight(m) == {t \in Callers : call[t].pc \in Owing /\ call[t].month = m}
Admitted(m) == {t \in Callers : call[t].pc \in Admitting /\ call[t].month = m}
\* One element for each unit of cost that is in the month's row and not yet in the purpose's.
Unsplit(m, p) ==
    {u \in Callers \X (1 .. MaxCost) :
        /\ call[u[1]].pc = "purpose" /\ call[u[1]].month = m /\ call[u[1]].purpose = p
        /\ u[2] <= call[u[1]].cost}

Counted == \A m \in Months : get_llm_usage(m).calls + Cardinality(InFlight(m)) = replied[m]

PurposeCost(m, p) == IF purposes[m][p] = None THEN 0 ELSE purposes[m][p].cost
Split ==
    /\ \A t \in Callers : call[t].pc = "purpose" => usage[call[t].month] # None
    /\ \A m \in Months : \A p \in Purposes :
          /\ purposes[m][p] # None => usage[m] # None
          /\ PurposeCost(m, p) + Cardinality(Unsplit(m, p)) <= get_llm_usage(m).cost

\* Whoever is let in may add a call's cost to a row that was below the cap.
WithinCap(m) ==
    \/ permitted[m] = None
    \/ get_llm_usage(m).cost = 0 /\ Admitted(m) = {}
    \/ get_llm_usage(m).cost + Cardinality(Admitted(m)) * MaxCost
           < permitted[m] + Cardinality(Callers) * MaxCost
Capped == \A m \in Months : WithinCap(m)

SpendInv == LedgerTypeOK /\ Counted /\ Split /\ Capped

\* The limiter's hits are the last of those served, and the ones before them are too old.
RateInv ==
    /\ clock \in Nat /\ served \in Seq(Nat)
    /\ \A i \in 1 .. Len(served) : served[i] <= clock
    /\ \E k \in 0 .. Len(served) :
          /\ hits = SubSeq(served, k + 1, Len(served))
          /\ \A i \in 1 .. k : served[i] <= clock - WINDOW
    /\ RateBounded
-----------------------------------------------------------------------------
\* Numbers

\* A set of natural numbers has a least element.
LEMMA Least ==
    ASSUME NEW T \in SUBSET Nat, T # {}
    PROVE  \E n \in T : \A m \in T : n <= m
  <1> DEFINE R == StrictSubsetOrdering(Nat)
             F == FiniteSubsetsOf(Nat)
             U == {0 .. n : n \in T}
  <1>1. IsWellFoundedOn(R, F)
    BY FS_StrictSubsetOrderingWellFounded
  <1>2. U \subseteq F /\ U # {}
    <2>1. \A n \in T : 0 .. n \in SUBSET Nat /\ IsFiniteSet(0 .. n)
      BY FS_Interval
    <2>2. \A n \in T : 0 .. n \in F
      BY <2>1 DEF FiniteSubsetsOf
    <2>3. U \subseteq F
      <3> HIDE DEF F
      <3>1. QED
        BY <2>2
    <2>4. PICK n \in T : TRUE
      OBVIOUS
    <2>5. 0 .. n \in U
      OBVIOUS
    <2>6. QED
      BY <2>3, <2>5
  <1>3. \E x \in U : \A y \in U : ~(<<y, x>> \in R)
    <2> HIDE DEF R, F, U
    <2>1. QED
      BY <1>1, <1>2, WFMin
  <1>4. PICK n \in T : \A m \in T : ~(<<0 .. m, 0 .. n>> \in R)
    BY <1>3
  <1>5. ASSUME NEW m \in T, ~(n <= m)
        PROVE  FALSE
    <2>1. 0 .. m \subseteq 0 .. n /\ n \in 0 .. n /\ n \notin 0 .. m
      BY <1>5
    <2>2. 0 .. m # 0 .. n
      BY <2>1
    <2>3. <<0 .. m, 0 .. n>> \in R
      BY <2>1, <2>2 DEF StrictSubsetOrdering
    <2>4. QED
      BY <2>3, <1>4
  <1>6. QED
    BY <1>5

LEMMA LeastIsMin ==
    ASSUME NEW T \in SUBSET Nat, T # {}
    PROVE  Min(T) \in T /\ \A m \in T : Min(T) <= m
  <1>1. \E n \in T : \A m \in T : n <= m
    BY Least
  <1>2. QED
    BY <1>1 DEF Min

LEMMA MaxOfTwo ==
    ASSUME NEW a \in Nat, NEW b \in Nat
    PROVE  Max({a, b}) \in Nat /\ a <= Max({a, b}) /\ b <= Max({a, b})
  <1>1. \E x \in {a, b} : \A y \in {a, b} : x >= y
    OBVIOUS
  <1>2. Max({a, b}) \in {a, b} /\ \A y \in {a, b} : Max({a, b}) >= y
    BY <1>1 DEF Max
  <1>3. QED
    BY <1>2

LEMMA Times ==
    ASSUME NEW k \in Nat, NEW n \in Nat, NEW c \in Nat
    PROVE  /\ k * c \in Nat /\ (k + 1) * c = k * c + c
           /\ k <= n => k * c <= n * c
  <1>1. k * c \in Nat /\ n * c \in Nat /\ (k + 1) * c = k * c + c
    OBVIOUS
  <1>2. ASSUME k <= n
        PROVE  k * c <= n * c
    <2>1. PICK d \in Nat : n = k + d
      <3>1. n - k \in Nat /\ n = k + (n - k)
        BY <1>2
      <3>2. QED
        BY <3>1
    <2>2. (k + d) * c = k * c + d * c /\ d * c \in Nat
      OBVIOUS
    <2>3. QED
      BY <1>1, <2>1, <2>2
  <1>3. QED
    BY <1>1, <1>2

-----------------------------------------------------------------------------
\* Counting callers

LEMMA CallerSets ==
    ASSUME NEW m, NEW p
    PROVE  /\ IsFiniteSet(InFlight(m)) /\ Cardinality(InFlight(m)) \in Nat
           /\ IsFiniteSet(Admitted(m)) /\ Cardinality(Admitted(m)) \in Nat
           /\ Cardinality(Admitted(m)) <= Cardinality(Callers) /\ Cardinality(Callers) \in Nat
           /\ IsFiniteSet(Unsplit(m, p)) /\ Cardinality(Unsplit(m, p)) \in Nat
  <1>1. InFlight(m) \in SUBSET Callers /\ Admitted(m) \in SUBSET Callers
    BY DEF InFlight, Admitted
  <1>2. IsFiniteSet(1 .. MaxCost)
    BY FS_Interval
  <1>3. IsFiniteSet(Callers \X (1 .. MaxCost))
    BY <1>2, FS_Product
  <1>4. Unsplit(m, p) \in SUBSET (Callers \X (1 .. MaxCost))
    BY DEF Unsplit
  <1>5. IsFiniteSet(Unsplit(m, p))
    BY <1>3, <1>4, FS_Subset
  <1>6. IsFiniteSet(InFlight(m)) /\ IsFiniteSet(Admitted(m)) /\ Cardinality(Admitted(m)) <= Cardinality(Callers)
    BY <1>1, FS_Subset
  <1>7. QED
    BY <1>5, <1>6, FS_CardinalityType

\* How the sets change when one caller's call does.
LEMMA CallMoves ==
    ASSUME LedgerTypeOK, NEW t \in Callers, NEW c \in Call, call' = [call EXCEPT ![t] = c], NEW m
    PROVE  /\ InFlight(m)' = IF c.pc \in Owing /\ c.month = m THEN InFlight(m) \cup {t} ELSE InFlight(m) \ {t}
           /\ Admitted(m)' = IF c.pc \in Admitting /\ c.month = m THEN Admitted(m) \cup {t} ELSE Admitted(m) \ {t}
  <1>1. call'[t] = c /\ \A u \in Callers : u # t => call'[u] = call[u]
    BY DEF LedgerTypeOK
  <1>2. QED
    BY <1>1 DEF InFlight, Admitted

\* A call that keeps its side of the tally changes none of it.
LEMMA StillOwing ==
    ASSUME LedgerTypeOK, NEW t \in Callers, NEW c \in Call, call' = [call EXCEPT ![t] = c],
           call[t].pc \in Owing <=> c.pc \in Owing, c.pc \in Owing => c.month = call[t].month
    PROVE  \A m : InFlight(m)' = InFlight(m)
  <1>1. call'[t] = c /\ \A u \in Callers : u # t => call'[u] = call[u]
    BY DEF LedgerTypeOK
  <1>2. QED
    BY <1>1 DEF InFlight

LEMMA StillUnsplit ==
    ASSUME LedgerTypeOK, NEW t \in Callers, NEW c \in Call, call' = [call EXCEPT ![t] = c],
           call[t].pc # "purpose", c.pc # "purpose"
    PROVE  \A m, p : Unsplit(m, p)' = Unsplit(m, p)
  <1>1. call'[t] = c /\ \A u \in Callers : u # t => call'[u] = call[u]
    BY DEF LedgerTypeOK
  <1>2. ASSUME NEW u \in Callers \X (1 .. MaxCost), u[1] = t
        PROVE  call'[u[1]].pc # "purpose" /\ call[u[1]].pc # "purpose"
    BY <1>1, <1>2
  <1>3. ASSUME NEW u \in Callers \X (1 .. MaxCost), u[1] # t
        PROVE  call'[u[1]] = call[u[1]]
    BY <1>1, <1>3
  <1>4. QED
    BY <1>2, <1>3 DEF Unsplit
-----------------------------------------------------------------------------
\* The metering step by step

\* A step of a call that neither pays nor is let in.
Quiet(t, c) ==
    /\ c \in Call /\ call' = [call EXCEPT ![t] = c]
    /\ UNCHANGED <<usage, purposes, replied, permitted>>
    /\ call[t].pc # "purpose" /\ c.pc # "purpose"
    /\ call[t].pc \in Owing <=> c.pc \in Owing
    /\ c.pc \in Admitting => call[t].pc \in Admitting /\ c.month = call[t].month

LEMMA QuietKeeps ==
    ASSUME SpendInv, NEW t \in Callers, NEW c, Quiet(t, c)
    PROVE  Counted' /\ Split' /\ Capped'
  <1>1. c.pc \in Owing => c.month = call[t].month
    BY DEF Quiet, Admitting
  <1>2. \A m : InFlight(m)' = InFlight(m)
    BY <1>1, StillOwing DEF Quiet, SpendInv
  <1>3. Counted'
    BY <1>2 DEF Quiet, SpendInv, Counted, get_llm_usage
  <1>4. \A m, p : Unsplit(m, p)' = Unsplit(m, p)
    BY StillUnsplit DEF Quiet, SpendInv
  <1>5. Split'
    <2>1. ASSUME NEW u \in Callers, call'[u].pc = "purpose"
          PROVE  call[u] = call'[u]
      BY <2>1 DEF Quiet, SpendInv, LedgerTypeOK
    <2>2. QED
      BY <1>4, <2>1 DEF Quiet, SpendInv, Split, PurposeCost, get_llm_usage
  <1>6. Capped'
    <2>1. \A m : Admitted(m)' \subseteq Admitted(m)
      <3>1. call'[t] = c /\ \A u \in Callers : u # t => call'[u] = call[u]
        BY DEF Quiet, SpendInv, LedgerTypeOK
      <3>2. QED
        BY <3>1 DEF Quiet, Admitted
    <2>2. ASSUME NEW m \in Months
          PROVE  WithinCap(m)'
      <3>1. /\ Cardinality(Admitted(m)) \in Nat /\ Cardinality(Admitted(m)') \in Nat
            /\ Cardinality(Admitted(m)') <= Cardinality(Admitted(m)) /\ Cardinality(Callers) \in Nat
        BY <2>1, CallerSets, FS_Subset, FS_CardinalityType
      <3>2. /\ Cardinality(Admitted(m)') * MaxCost \in Nat /\ Cardinality(Admitted(m)) * MaxCost \in Nat
            /\ Cardinality(Admitted(m)') * MaxCost <= Cardinality(Admitted(m)) * MaxCost
            /\ Cardinality(Callers) * MaxCost \in Nat
        BY <3>1, Times
      <3>3. get_llm_usage(m)' = get_llm_usage(m) /\ permitted' = permitted /\ get_llm_usage(m).cost \in Nat
            /\ (permitted[m] # None => permitted[m] \in Nat)
        BY DEF Quiet, SpendInv, LedgerTypeOK, get_llm_usage, Row, NoUsage
      <3>4. WithinCap(m)
        BY DEF SpendInv, Capped
      <3>5. QED
        BY <2>1, <3>2, <3>3, <3>4 DEF WithinCap
    <2>3. QED
      BY <2>2 DEF Capped
  <1>7. QED
    BY <1>3, <1>5, <1>6

\* What one call's joining or leaving a set does to its count.
LEMMA Joins ==
    ASSUME NEW S, IsFiniteSet(S), NEW t, t \notin S
    PROVE  IsFiniteSet(S \cup {t}) /\ Cardinality(S \cup {t}) = Cardinality(S) + 1
  BY FS_AddElement

LEMMA Leaves ==
    ASSUME NEW S, IsFiniteSet(S), NEW t, t \in S
    PROVE  IsFiniteSet(S \ {t}) /\ Cardinality(S \ {t}) + 1 = Cardinality(S)
  <1>1. IsFiniteSet(S \ {t}) /\ Cardinality(S \ {t}) = Cardinality(S) - 1
    BY FS_RemoveElement
  <1>2. Cardinality(S) \in Nat
    BY FS_CardinalityType
  <1>3. QED
    BY <1>1, <1>2

LEMMA Usages ==
    ASSUME LedgerTypeOK, NEW m \in Months
    PROVE  /\ get_llm_usage(m) \in Row /\ get_llm_usage(m).calls \in Nat /\ get_llm_usage(m).cost \in Nat
           /\ permitted[m] # None => permitted[m] \in Nat
           /\ replied[m] \in Nat
           /\ \A p \in Purposes : PurposeCost(m, p) \in Nat
  <1>1. NoUsage \in Row
    BY DEF NoUsage, Row
  <1>2. get_llm_usage(m) \in Row
    BY <1>1 DEF LedgerTypeOK, get_llm_usage
  <1>3. ASSUME NEW p \in Purposes
        PROVE  PurposeCost(m, p) \in Nat
    <2>1. purposes[m][p] \in Row \cup {None}
      BY DEF LedgerTypeOK
    <2>2. QED
      BY <2>1 DEF PurposeCost, Row
  <1>4. permitted[m] \in Nat \cup {None} /\ replied[m] \in Nat
    BY DEF LedgerTypeOK
  <1>5. QED
    BY <1>2, <1>3, <1>4 DEF Row

LEMMA CallIs ==
    ASSUME LedgerTypeOK, NEW t \in Callers
    PROVE  /\ call[t] \in Call /\ call[t].pc \in {"idle", "check", "send", "sent", "metering", "update", "insert", "purpose"}
           /\ call[t].cap \in Nat /\ call[t].month \in Months /\ call[t].cost \in 0 .. MaxCost
           /\ call[t].tries \in Nat /\ call[t].purpose \in Purposes
           /\ NoCall \in Call
  <1>1. NoCall \in Call
    BY DEF NoCall, Call, Months, Purposes
  <1>2. QED
    BY <1>1 DEF LedgerTypeOK, Call

\* A reply is in flight from the moment it is counted.
LEMMA ReplyKeeps ==
    ASSUME SpendInv, NEW t \in Callers, Reply(t)
    PROVE  Counted' /\ Split' /\ Capped'
  <1> DEFINE c == [call[t] EXCEPT !.pc = "metering"]
             m == call[t].month
  <1>1. /\ c \in Call /\ c.pc = "metering" /\ c.month = m /\ m \in Months
        /\ call' = [call EXCEPT ![t] = c] /\ call[t].pc = "sent"
    BY CallIs DEF SpendInv, Reply, To, Set, Call
  <1> HIDE DEF c
  <1>2. UNCHANGED <<usage, purposes, permitted>> /\ replied' = [replied EXCEPT ![m] = @ + 1]
    BY DEF Reply
  <1>3. \A n : InFlight(n)' = IF n = m THEN InFlight(n) \cup {t} ELSE InFlight(n)
    <2>1. ASSUME NEW n
          PROVE  InFlight(n)' = IF c.pc \in Owing /\ c.month = n THEN InFlight(n) \cup {t} ELSE InFlight(n) \ {t}
      BY <1>1, CallMoves DEF SpendInv
    <2>2. \A n : t \notin InFlight(n)
      BY <1>1 DEF InFlight, Owing
    <2>3. QED
      BY <1>1, <2>1, <2>2 DEF Owing
  <1>4. Counted'
    <2>1. ASSUME NEW n \in Months
          PROVE  (get_llm_usage(n).calls + Cardinality(InFlight(n)) = replied[n])'
      <3>1. t \notin InFlight(n)
        BY <1>1 DEF InFlight, Owing
      <3>2. Cardinality(InFlight(n)') = IF n = m THEN Cardinality(InFlight(n)) + 1 ELSE Cardinality(InFlight(n))
        BY <1>3, <3>1, Joins, CallerSets
      <3>3. replied'[n] = IF n = m THEN replied[n] + 1 ELSE replied[n]
        BY <1>2 DEF SpendInv, LedgerTypeOK
      <3>4. get_llm_usage(n)' = get_llm_usage(n)
        BY <1>2 DEF get_llm_usage
      <3>5. get_llm_usage(n).calls + Cardinality(InFlight(n)) = replied[n]
        BY DEF SpendInv, Counted
      <3>6. QED
        BY <3>2, <3>3, <3>4, <3>5, Usages, CallerSets DEF SpendInv
    <2>2. QED
      BY <2>1 DEF Counted
  <1>5. Split'
    <2>1. ASSUME NEW u \in Callers, call'[u].pc = "purpose"
          PROVE  call[u] = call'[u]
      BY <1>1, <2>1 DEF SpendInv, LedgerTypeOK
    <2>2. \A n, p : Unsplit(n, p)' = Unsplit(n, p)
      BY <1>1, StillUnsplit DEF SpendInv
    <2>3. QED
      BY <1>2, <2>1, <2>2 DEF SpendInv, Split, PurposeCost, get_llm_usage
  <1>6. Capped'
    <2>1. \A n : Admitted(n)' = Admitted(n)
      <3>1. ASSUME NEW n
            PROVE  Admitted(n)' = IF c.pc \in Admitting /\ c.month = n THEN Admitted(n) \cup {t} ELSE Admitted(n) \ {t}
        BY <1>1, CallMoves DEF SpendInv
      <3>2. QED
        BY <1>1, <3>1 DEF Admitted, Admitting, Owing
    <2>2. QED
      BY <1>2, <2>1 DEF SpendInv, Capped, WithinCap, get_llm_usage
  <1>7. QED
    BY <1>4, <1>5, <1>6

\* Whoever is let in has seen a month's cost below the cap.
LEMMA AdmitKeeps ==
    ASSUME SpendInv, NEW t \in Callers, Check(t), ~Spent(call[t].cap, month)
    PROVE  Counted' /\ Split' /\ Capped'
  <1> DEFINE c == [call[t] EXCEPT !.pc = "send", !.month = month]
             m == month
  <1>1. /\ c \in Call /\ c.pc = "send" /\ c.month = m /\ m \in Months
        /\ call' = [call EXCEPT ![t] = c] /\ call[t].pc = "check" /\ call[t].cap \in Nat
    BY CallIs, ZenonT(60) DEF SpendInv, Check, Set, Call, LedgerTypeOK
  <1> HIDE DEF c
  <1>2. /\ UNCHANGED <<usage, purposes, replied>>
        /\ permitted' = [permitted EXCEPT ![m] = IF call[t].cap = 0 \/ @ = None THEN None ELSE Max({@, call[t].cap})]
    BY DEF Check
  <1>3. \A n : InFlight(n)' = InFlight(n)
    BY <1>1, StillOwing DEF SpendInv, Owing
  <1>4. Counted'
    BY <1>2, <1>3 DEF SpendInv, Counted, get_llm_usage
  <1>5. Split'
    <2>1. ASSUME NEW u \in Callers, call'[u].pc = "purpose"
          PROVE  call[u] = call'[u]
      BY <1>1, <2>1 DEF SpendInv, LedgerTypeOK
    <2>2. \A n, p : Unsplit(n, p)' = Unsplit(n, p)
      BY <1>1, StillUnsplit DEF SpendInv
    <2>3. QED
      BY <1>2, <2>1, <2>2 DEF SpendInv, Split, PurposeCost, get_llm_usage
  <1>6. ASSUME NEW n \in Months
        PROVE  Admitted(n)' = IF n = m THEN Admitted(n) \cup {t} ELSE Admitted(n)
    <2>1. Admitted(n)' = IF c.pc \in Admitting /\ c.month = n THEN Admitted(n) \cup {t} ELSE Admitted(n) \ {t}
      BY <1>1, CallMoves DEF SpendInv
    <2>2. t \notin Admitted(n)
      BY <1>1 DEF Admitted, Admitting, Owing
    <2>3. QED
      BY <1>1, <2>1, <2>2 DEF Admitting
  <1>7. ASSUME NEW n \in Months
        PROVE  WithinCap(n)'
    <2>1. get_llm_usage(n)' = get_llm_usage(n)
      BY <1>2 DEF get_llm_usage
    <2>2. CASE n # m
      <3>1. permitted'[n] = permitted[n]
        BY <1>2, <2>2 DEF SpendInv, LedgerTypeOK
      <3>2. QED
        BY <1>6, <2>1, <2>2, <3>1 DEF SpendInv, Capped, WithinCap
    <2>3. CASE n = m
      <3>1. permitted'[m] = IF call[t].cap = 0 \/ permitted[m] = None THEN None ELSE Max({permitted[m], call[t].cap})
        BY <1>1, <1>2 DEF SpendInv, LedgerTypeOK
      <3>2. CASE call[t].cap = 0 \/ permitted[m] = None
        BY <2>3, <3>1, <3>2 DEF WithinCap
      <3>3. CASE call[t].cap # 0 /\ permitted[m] # None
        <4>1. get_llm_usage(n).cost \in Nat /\ permitted[n] \in Nat
          BY <2>3, <1>1, <3>3, Usages DEF SpendInv
        <4>2. permitted'[n] \in Nat /\ call[t].cap <= permitted'[n]
          BY <2>3, <1>1, <3>1, <3>3, <4>1, MaxOfTwo
        <4>3. get_llm_usage(n).cost < call[t].cap
          BY <2>3, <1>1, <3>3, <4>1 DEF Spent
        <4>4. /\ Cardinality(Admitted(n)') \in Nat /\ Cardinality(Callers) \in Nat
              /\ Cardinality(Admitted(n)') <= Cardinality(Callers)
          <5>1. Admitted(n)' \in SUBSET Callers
            BY DEF Admitted
          <5>2. QED
            BY <5>1, FS_Subset, FS_CardinalityType
        <4>5. /\ Cardinality(Admitted(n)') * MaxCost \in Nat /\ Cardinality(Callers) * MaxCost \in Nat
              /\ Cardinality(Admitted(n)') * MaxCost <= Cardinality(Callers) * MaxCost
          BY <4>4, Times
        <4>6. get_llm_usage(n).cost + Cardinality(Admitted(n)') * MaxCost
                  < permitted'[n] + Cardinality(Callers) * MaxCost
          BY <1>1, <4>1, <4>2, <4>3, <4>5
        <4>7. QED
          BY <2>1, <4>6 DEF WithinCap
      <3>4. QED
        BY <3>2, <3>3
    <2>4. QED
      BY <2>2, <2>3
  <1>8. QED
    BY <1>4, <1>5, <1>7 DEF Capped

\* The units of one call's cost are as many as it costs, and apart from other calls'.
LEMMA UnitsAdd ==
    ASSUME NEW S, IsFiniteSet(S), NEW t, NEW k \in 0 .. MaxCost, S \cap ({t} \X (1 .. k)) = {}
    PROVE  /\ IsFiniteSet(S \cup ({t} \X (1 .. k)))
           /\ Cardinality(S \cup ({t} \X (1 .. k))) = Cardinality(S) + k
           /\ Cardinality(S) \in Nat
  <1>1. IsFiniteSet({t}) /\ Cardinality({t}) = 1
    BY FS_Singleton
  <1>2. IsFiniteSet(1 .. k) /\ Cardinality(1 .. k) = k
    BY FS_Interval
  <1>3. IsFiniteSet({t} \X (1 .. k)) /\ Cardinality({t} \X (1 .. k)) = k
    <2>1. IsFiniteSet({t} \X (1 .. k)) /\ Cardinality({t} \X (1 .. k)) = 1 * k
      BY <1>1, <1>2, FS_Product, ZenonT(60)
    <2>2. QED
      BY <2>1
  <1>4. /\ IsFiniteSet(S \cup ({t} \X (1 .. k)))
        /\ Cardinality(S \cup ({t} \X (1 .. k))) = Cardinality(S) + k - Cardinality({})
    BY <1>3, FS_Union
  <1>5. Cardinality(S) \in Nat /\ Cardinality({}) = 0
    BY FS_CardinalityType, FS_EmptySet
  <1>6. QED
    BY <1>4, <1>5

\* add_llm_usage, whether it updates the row or makes it.
Charge(t) ==
    /\ call[t].pc \in {"update", "insert"} /\ To(t, "purpose")
    /\ usage' = [usage EXCEPT ![call[t].month] = Plus(get_llm_usage(call[t].month), call[t].cost)]
    /\ UNCHANGED <<purposes, replied, permitted>>

LEMMA ChargedUsage ==
    ASSUME LedgerTypeOK, NEW t \in Callers, Charge(t), NEW n \in Months
    PROVE  /\ get_llm_usage(n)' = IF n = call[t].month THEN Plus(get_llm_usage(n), call[t].cost) ELSE get_llm_usage(n)
           /\ n = call[t].month => usage'[n] # None
           /\ n # call[t].month => usage'[n] = usage[n]
  <1>1. Plus(get_llm_usage(n), call[t].cost) \in Row
    BY Usages, CallIs DEF Plus, Row
  <1>2. Plus(get_llm_usage(n), call[t].cost) # None
    BY <1>1 DEF Row
  <1>3. usage'[n] = IF n = call[t].month THEN Plus(get_llm_usage(n), call[t].cost) ELSE usage[n]
    BY CallIs DEF LedgerTypeOK, Charge
  <1>4. QED
    BY <1>2, <1>3 DEF get_llm_usage

LEMMA ChargeCounts ==
    ASSUME SpendInv, NEW t \in Callers, Charge(t)
    PROVE  Counted' /\ Capped'
  <1>1. PICK c : c = [call[t] EXCEPT !.pc = "purpose"]
    OBVIOUS
  <1>2. PICK m : m = call[t].month
    OBVIOUS
  <1>3. /\ c \in Call /\ c.pc = "purpose" /\ c.month = m /\ m \in Months
        /\ call' = [call EXCEPT ![t] = c] /\ call[t].pc \in {"update", "insert"}
    BY <1>1, <1>2, CallIs DEF SpendInv, Charge, To, Set, Call
  <1>4. ASSUME NEW n \in Months
        PROVE  /\ Cardinality(InFlight(n)') + (IF n = m THEN 1 ELSE 0) = Cardinality(InFlight(n))
               /\ Cardinality(Admitted(n)') + (IF n = m THEN 1 ELSE 0) = Cardinality(Admitted(n))
               /\ Cardinality(InFlight(n)') \in Nat /\ Cardinality(Admitted(n)') \in Nat
               /\ n = m => Admitted(n) # {}
               /\ n # m => Admitted(n)' = Admitted(n)
    <2>1. InFlight(n)' = InFlight(n) \ {t} /\ Admitted(n)' = Admitted(n) \ {t}
      BY <1>3, CallMoves DEF SpendInv, Owing, Admitting
    <2>2. (t \in InFlight(n) <=> n = m) /\ (t \in Admitted(n) <=> n = m)
      BY <1>2, <1>3 DEF InFlight, Admitted, Owing, Admitting
    <2>3. IsFiniteSet(InFlight(n)) /\ IsFiniteSet(Admitted(n))
      BY CallerSets
    <2>4. IsFiniteSet(InFlight(n) \ {t}) /\ IsFiniteSet(Admitted(n) \ {t})
      BY <2>3, FS_RemoveElement
    <2>5. CASE n = m
      BY <2>1, <2>2, <2>3, <2>4, <2>5, Leaves, FS_CardinalityType
    <2>6. CASE n # m
      <3>1. InFlight(n)' = InFlight(n) /\ Admitted(n)' = Admitted(n)
        BY <2>1, <2>2, <2>6
      <3>2. QED
        BY <2>6, <3>1, CallerSets
    <2>7. QED
      BY <2>5, <2>6
  <1>5. ASSUME NEW n \in Months
        PROVE  /\ get_llm_usage(n)'.calls = get_llm_usage(n).calls + (IF n = m THEN 1 ELSE 0)
               /\ get_llm_usage(n)'.cost \in Nat
               /\ n # m => get_llm_usage(n)' = get_llm_usage(n)
               /\ get_llm_usage(n)'.cost <= get_llm_usage(n).cost + MaxCost
               /\ get_llm_usage(n).calls \in Nat /\ get_llm_usage(n).cost \in Nat
    <2>1. get_llm_usage(n)' = IF n = m THEN Plus(get_llm_usage(n), call[t].cost) ELSE get_llm_usage(n)
      BY <1>2, ChargedUsage DEF SpendInv
    <2>2. get_llm_usage(n).calls \in Nat /\ get_llm_usage(n).cost \in Nat /\ call[t].cost \in 0 .. MaxCost
      BY Usages, CallIs DEF SpendInv
    <2>3. QED
      BY <2>1, <2>2 DEF Plus
  <1>6. replied' = replied /\ permitted' = permitted
    BY DEF Charge
  <1>7. Counted'
    <2>1. ASSUME NEW n \in Months
          PROVE  (get_llm_usage(n).calls + Cardinality(InFlight(n)) = replied[n])'
      <3>1. get_llm_usage(n).calls + Cardinality(InFlight(n)) = replied[n]
        BY DEF SpendInv, Counted
      <3>2. QED
        BY <1>4, <1>5, <1>6, <3>1
    <2>2. QED
      BY <2>1 DEF Counted
  <1>8. ASSUME NEW n \in Months
        PROVE  WithinCap(n)'
    <2>1. WithinCap(n)
      BY DEF SpendInv, Capped
    <2>2. CASE n # m
      BY <1>4, <1>5, <1>6, <2>1, <2>2 DEF WithinCap
    <2>3. CASE n = m /\ permitted[n] # None
      <3>1. permitted[n] \in Nat /\ Cardinality(Callers) \in Nat
        BY <2>3, Usages, CallerSets DEF SpendInv
      <3>2. get_llm_usage(n).cost + Cardinality(Admitted(n)) * MaxCost < permitted[n] + Cardinality(Callers) * MaxCost
        BY <1>4, <2>1, <2>3 DEF WithinCap
      <3>3. /\ Cardinality(Admitted(n)) = Cardinality(Admitted(n)') + 1 /\ Cardinality(Admitted(n)') \in Nat
        BY <1>4, <2>3
      <3>4. /\ Cardinality(Admitted(n)) * MaxCost = Cardinality(Admitted(n)') * MaxCost + MaxCost
            /\ Cardinality(Admitted(n)') * MaxCost \in Nat /\ Cardinality(Callers) * MaxCost \in Nat
        BY <3>1, <3>3, Times
      <3>5. get_llm_usage(n)'.cost + Cardinality(Admitted(n)') * MaxCost < permitted[n] + Cardinality(Callers) * MaxCost
        BY <1>5, <3>1, <3>2, <3>4
      <3>6. QED
        BY <1>6, <3>5 DEF WithinCap
    <2>4. CASE permitted[n] = None
      BY <1>6, <2>4 DEF WithinCap
    <2>5. QED
      BY <2>2, <2>3, <2>4
  <1>9. QED
    BY <1>7, <1>8 DEF Capped

LEMMA ChargeSplits ==
    ASSUME SpendInv, NEW t \in Callers, Charge(t)
    PROVE  Split'
  <1>1. PICK c : c = [call[t] EXCEPT !.pc = "purpose"]
    OBVIOUS
  <1>2. PICK m, q, k : m = call[t].month /\ q = call[t].purpose /\ k = call[t].cost
    OBVIOUS
  <1>3. /\ c.pc = "purpose" /\ c.month = m /\ c.purpose = q /\ c.cost = k /\ m \in Months /\ q \in Purposes
        /\ k \in 0 .. MaxCost /\ call[t].pc # "purpose"
        /\ call'[t] = c /\ \A u \in Callers : u # t => call'[u] = call[u]
    BY <1>1, <1>2, CallIs DEF SpendInv, LedgerTypeOK, Charge, To, Set, Call
  <1>4. purposes' = purposes
    BY DEF Charge
  <1>5. ASSUME NEW u \in Callers, call'[u].pc = "purpose"
        PROVE  usage'[call'[u].month] # None
    <2>1. CASE u = t
      BY <1>2, <1>3, <2>1, ChargedUsage DEF SpendInv
    <2>2. CASE u # t
      <3>1. call'[u] = call[u] /\ usage[call[u].month] # None /\ call[u].month \in Months
        BY <1>3, <1>5, <2>2, CallIs DEF SpendInv, Split
      <3>2. QED
        BY <3>1, ChargedUsage DEF SpendInv
    <2>3. QED
      BY <2>1, <2>2
  <1>6. ASSUME NEW n \in Months, NEW p \in Purposes
        PROVE  Unsplit(n, p)' = IF n = m /\ p = q THEN Unsplit(n, p) \cup ({t} \X (1 .. k)) ELSE Unsplit(n, p)
    <2>1. ASSUME NEW u \in Callers \X (1 .. MaxCost)
          PROVE  u \in Unsplit(n, p)' <=> IF u[1] = t THEN n = m /\ p = q /\ u[2] <= k ELSE u \in Unsplit(n, p)
      BY <1>3 DEF Unsplit
    <2>2. \A u \in Unsplit(n, p) : u \in Callers \X (1 .. MaxCost) /\ u[1] # t
      BY <1>3 DEF Unsplit
    <2>3. \A u \in Unsplit(n, p)' : u \in Callers \X (1 .. MaxCost)
      BY DEF Unsplit
    <2>4. {t} \X (1 .. k) \subseteq Callers \X (1 .. MaxCost)
      BY <1>3
    <2>5. \A u \in Callers \X (1 .. MaxCost) : u \in {t} \X (1 .. k) <=> u[1] = t /\ u[2] <= k
      BY <1>3
    <2>6. QED
      BY <2>1, <2>2, <2>3, <2>4, <2>5
  <1>7. ASSUME NEW n \in Months, NEW p \in Purposes
        PROVE  /\ purposes'[n][p] # None => usage'[n] # None
               /\ PurposeCost(n, p)' + Cardinality(Unsplit(n, p)') <= get_llm_usage(n)'.cost
    <2>1. purposes[n][p] # None => usage[n] # None
      BY DEF SpendInv, Split
    <2>2. PurposeCost(n, p) + Cardinality(Unsplit(n, p)) <= get_llm_usage(n).cost
      BY DEF SpendInv, Split
    <2>3. PurposeCost(n, p)' = PurposeCost(n, p) /\ PurposeCost(n, p) \in Nat
      BY <1>4, Usages DEF PurposeCost, SpendInv
    <2>4. Cardinality(Unsplit(n, p)') \in Nat /\ Cardinality(Unsplit(n, p)') <= Cardinality(Unsplit(n, p)) + (IF n = m THEN k ELSE 0)
      <3>1. IsFiniteSet(Unsplit(n, p)) /\ Cardinality(Unsplit(n, p)) \in Nat
        BY CallerSets
      <3>2. CASE n = m /\ p = q
        <4>1. Unsplit(n, p) \cap ({t} \X (1 .. k)) = {}
          BY <1>3 DEF Unsplit
        <4>2. Cardinality(Unsplit(n, p) \cup ({t} \X (1 .. k))) = Cardinality(Unsplit(n, p)) + k
          BY <1>3, <3>1, <4>1, UnitsAdd, ZenonT(60)
        <4>3. QED
          BY <1>3, <1>6, <3>1, <3>2, <4>2
      <3>3. CASE ~(n = m /\ p = q)
        BY <1>3, <1>6, <3>1, <3>3
      <3>4. QED
        BY <3>2, <3>3
    <2>5. get_llm_usage(n)'.cost = get_llm_usage(n).cost + (IF n = m THEN k ELSE 0) /\ get_llm_usage(n).cost \in Nat
      BY <1>2, <1>3, ChargedUsage, Usages DEF SpendInv, Plus
    <2>6. purposes'[n][p] # None => usage'[n] # None
      BY <1>2, <1>4, <2>1, ChargedUsage DEF SpendInv
    <2>7. QED
      BY <1>3, <2>2, <2>3, <2>4, <2>5, <2>6, CallerSets
  <1>8. QED
    BY <1>5, <1>7 DEF Split

\* A purpose's row takes over what is in the month's already, or fails to.
LEMMA PurposeKeeps ==
    ASSUME SpendInv, NEW t \in Callers, AddPurpose(t)
    PROVE  Counted' /\ Split' /\ Capped'
  <1>1. PICK m, q, k : m = call[t].month /\ q = call[t].purpose /\ k = call[t].cost
    OBVIOUS
  <1>2. /\ call' = [call EXCEPT ![t] = NoCall] /\ NoCall \in Call /\ NoCall.pc = "idle"
        /\ call[t].pc = "purpose" /\ m \in Months /\ q \in Purposes /\ k \in 0 .. MaxCost
        /\ call'[t] = NoCall /\ \A u \in Callers : u # t => call'[u] = call[u]
    BY <1>1, CallIs DEF SpendInv, LedgerTypeOK, AddPurpose, Set, NoCall
  <1>3. UNCHANGED <<usage, replied, permitted>>
    BY DEF AddPurpose
  <1>4. \A n : InFlight(n)' = InFlight(n) /\ Admitted(n)' = Admitted(n)
    BY <1>2 DEF InFlight, Admitted, Owing, Admitting
  <1>5. Counted' /\ Capped'
    BY <1>3, <1>4 DEF SpendInv, Counted, Capped, WithinCap, get_llm_usage
  <1>6. ASSUME NEW u \in Callers, call'[u].pc = "purpose"
        PROVE  usage'[call'[u].month] # None
    BY <1>2, <1>3, <1>6 DEF SpendInv, Split
  <1>7. usage[m] # None
    BY <1>1, <1>2 DEF SpendInv, Split
  <1>8. ASSUME NEW n \in Months, NEW p \in Purposes
        PROVE  Unsplit(n, p) = IF n = m /\ p = q THEN Unsplit(n, p)' \cup ({t} \X (1 .. k)) ELSE Unsplit(n, p)'
    <2>1. ASSUME NEW u \in Callers \X (1 .. MaxCost)
          PROVE  u \in Unsplit(n, p) <=> IF u[1] = t THEN n = m /\ p = q /\ u[2] <= k ELSE u \in Unsplit(n, p)'
      BY <1>1, <1>2 DEF Unsplit
    <2>2. \A u \in Unsplit(n, p)' : u \in Callers \X (1 .. MaxCost) /\ u[1] # t
      BY <1>2 DEF Unsplit
    <2>3. \A u \in Unsplit(n, p) : u \in Callers \X (1 .. MaxCost)
      BY DEF Unsplit
    <2>4. {t} \X (1 .. k) \subseteq Callers \X (1 .. MaxCost)
      BY <1>2
    <2>5. \A u \in Callers \X (1 .. MaxCost) : u \in {t} \X (1 .. k) <=> u[1] = t /\ u[2] <= k
      BY <1>2
    <2>6. QED
      BY <2>1, <2>2, <2>3, <2>4, <2>5
  <1>9. ASSUME NEW n \in Months, NEW p \in Purposes
        PROVE  /\ purposes'[n][p] # None => usage'[n] # None
               /\ PurposeCost(n, p)' + Cardinality(Unsplit(n, p)') <= get_llm_usage(n)'.cost
    <2>1. PurposeCost(n, p) + Cardinality(Unsplit(n, p)) <= get_llm_usage(n).cost
      BY DEF SpendInv, Split
    <2>2. get_llm_usage(n)' = get_llm_usage(n) /\ get_llm_usage(n).cost \in Nat /\ PurposeCost(n, p) \in Nat
      BY <1>3, Usages DEF SpendInv, get_llm_usage
    <2>3. IsFiniteSet(Unsplit(n, p)') /\ Cardinality(Unsplit(n, p)') \in Nat
      <3>1. Unsplit(n, p)' \in SUBSET Unsplit(n, p)
        BY <1>8
      <3>2. QED
        BY <3>1, CallerSets, FS_Subset, FS_CardinalityType
    <2>4. CASE n = m /\ p = q
      <3>1. Unsplit(n, p)' \cap ({t} \X (1 .. k)) = {}
        BY <1>2 DEF Unsplit
      <3>2. Cardinality(Unsplit(n, p)) = Cardinality(Unsplit(n, p)') + k
        <4>1. PICK S : S = Unsplit(n, p)'
          OBVIOUS
        <4>2. Cardinality(S \cup ({t} \X (1 .. k))) = Cardinality(S) + k
          BY <1>2, <2>3, <3>1, <4>1, UnitsAdd, ZenonT(60)
        <4>3. Unsplit(n, p) = S \cup ({t} \X (1 .. k))
          BY <1>8, <2>4, <4>1
        <4>4. QED
          BY <4>1, <4>2, <4>3
      <3>3. PurposeCost(n, p)' <= PurposeCost(n, p) + k /\ PurposeCost(n, p)' \in Nat
        <4>1. CASE purposes' = purposes
          BY <1>2, <2>2, <4>1 DEF PurposeCost
        <4>2. CASE purposes' = [purposes EXCEPT ![m][q] = Plus(IF @ = None THEN NoUsage ELSE @, k)]
          <5>1. purposes'[n][p] = Plus(IF purposes[n][p] = None THEN NoUsage ELSE purposes[n][p], k)
            BY <1>2, <2>4, <4>2 DEF SpendInv, LedgerTypeOK
          <5>2. (IF purposes[n][p] = None THEN NoUsage ELSE purposes[n][p]).cost = PurposeCost(n, p)
            BY DEF PurposeCost, NoUsage
          <5>3. /\ purposes'[n][p].cost = PurposeCost(n, p) + k
            BY <5>1, <5>2 DEF Plus
          <5>4. PurposeCost(n, p)' = 0 \/ PurposeCost(n, p)' = purposes'[n][p].cost
            BY DEF PurposeCost
          <5>5. QED
            BY <1>2, <2>2, <5>3, <5>4
        <4>3. QED
          BY <1>1, <4>1, <4>2 DEF AddPurpose
      <3>4. QED
        BY <1>2, <1>3, <1>7, <2>1, <2>2, <2>3, <2>4, <3>2, <3>3
    <2>5. CASE ~(n = m /\ p = q)
      <3>1. purposes'[n][p] = purposes[n][p]
        <4>1. CASE purposes' = purposes
          BY <4>1
        <4>2. CASE purposes' = [purposes EXCEPT ![m][q] = Plus(IF @ = None THEN NoUsage ELSE @, k)]
          BY <1>2, <2>5, <4>2 DEF SpendInv, LedgerTypeOK
        <4>3. QED
          BY <1>1, <4>1, <4>2 DEF AddPurpose
      <3>2. PurposeCost(n, p)' = PurposeCost(n, p)
        BY <3>1 DEF PurposeCost
      <3>3. purposes[n][p] # None => usage[n] # None
        BY DEF SpendInv, Split
      <3>4. QED
        BY <1>3, <1>8, <2>1, <2>2, <2>3, <2>5, <3>1, <3>2, <3>3
    <2>6. QED
      BY <2>4, <2>5
  <1>10. QED
    BY <1>5, <1>6, <1>9 DEF Split

\* What a step of a call is to the tallies.
LEMMA CallSteps ==
    ASSUME SpendInv, NEW t \in Callers, MeteredCall(t)
    PROVE  Counted' /\ Split' /\ Capped'
  <1>1. CASE Begin(t)
    <2>1. PICK p \in Purposes : call' = [call EXCEPT ![t] = [NoCall EXCEPT !.pc = "check", !.cap = CapOf(p), !.purpose = p]]
      BY <1>1 DEF Begin, Set
    <2>2. CapOf(p) \in Nat
      BY DEF CapOf, org_provider, enrichment_cap, SpendInv, LedgerTypeOK
    <2>3. PICK c : c = [NoCall EXCEPT !.pc = "check", !.cap = CapOf(p), !.purpose = p]
      OBVIOUS
    <2>4. c \in Call /\ c.pc = "check" /\ call[t].pc = "idle"
      BY <1>1, <2>2, <2>3, CallIs DEF SpendInv, Call, NoCall, Begin, Months
    <2>5. UNCHANGED <<usage, purposes, replied, permitted>>
      BY <1>1 DEF Begin
    <2>6. Quiet(t, c)
      BY <2>1, <2>3, <2>4, <2>5 DEF Quiet, Owing, Admitting
    <2>7. QED
      BY <2>6, QuietKeeps
  <1>2. CASE Check(t)
    <2>1. CASE Spent(call[t].cap, month)
      <3>1. Quiet(t, NoCall)
        BY <1>2, <2>1, CallIs DEF SpendInv, Check, Set, Quiet, NoCall, Owing, Admitting
      <3>2. QED
        BY <3>1, QuietKeeps
    <2>2. CASE ~Spent(call[t].cap, month)
      BY <1>2, <2>2, AdmitKeeps
    <2>3. QED
      BY <2>1, <2>2
  <1>3. CASE Send(t)
    <2>1. PICK n : n = call[t].tries + 1
      OBVIOUS
    <2>2. PICK c : c = [call[t] EXCEPT !.pc = "sent", !.tries = n]
      OBVIOUS
    <2>3. n \in Nat /\ call[t] \in Call /\ call[t].pc = "send"
      BY <1>3, <2>1, CallIs DEF SpendInv, Send
    <2>4. c \in Call /\ c.pc = "sent" /\ c.month = call[t].month
      BY <2>2, <2>3 DEF Call
    <2>5. call' = [call EXCEPT ![t] = c] /\ UNCHANGED <<usage, purposes, replied, permitted>>
      BY <1>3, <2>1, <2>2 DEF Send, Set
    <2>6. Quiet(t, c)
      BY <2>3, <2>4, <2>5 DEF Quiet, Owing, Admitting
    <2>7. QED
      BY <2>6, QuietKeeps
  <1>4. CASE Fail(t)
    <2>1. UNCHANGED <<usage, purposes, replied, permitted>> /\ call[t].pc = "sent"
      BY <1>4 DEF Fail
    <2>2. To(t, "send") \/ Set(t, NoCall)
      BY <1>4 DEF Fail
    <2>3. CASE Set(t, NoCall)
      <3>1. Quiet(t, NoCall)
        BY <2>1, <2>3, CallIs DEF SpendInv, Set, Quiet, NoCall, Owing, Admitting
      <3>2. QED
        BY <3>1, QuietKeeps
    <2>4. CASE To(t, "send")
      <3>1. PICK c : c = [call[t] EXCEPT !.pc = "send"]
        OBVIOUS
      <3>2. c \in Call /\ c.pc = "send" /\ c.month = call[t].month
        BY <3>1, CallIs DEF SpendInv, Call
      <3>3. Quiet(t, c)
        BY <2>1, <2>4, <3>1, <3>2 DEF Quiet, Owing, Admitting, To, Set
      <3>4. QED
        BY <3>3, QuietKeeps
    <2>5. QED
      BY <2>2, <2>3, <2>4
  <1>5. CASE Meter(t)
    <2>1. PICK k : k = IF reported[Shared(t)] = None THEN Estimate ELSE reported[Shared(t)]
      OBVIOUS
    <2>2. k \in 0 .. MaxCost
      <3>1. reported[Shared(t)] \in Price
        BY CallIs DEF SpendInv, LedgerTypeOK, Shared
      <3>2. QED
        BY <2>1, <3>1 DEF Price, Estimate
    <2>3. PICK c : c = [call[t] EXCEPT !.pc = "update", !.cost = k]
      OBVIOUS
    <2>4. c \in Call /\ c.pc = "update" /\ c.month = call[t].month /\ call[t].pc = "metering"
      BY <1>5, <2>2, <2>3, CallIs DEF SpendInv, Call, Meter
    <2>5. call' = [call EXCEPT ![t] = c] /\ UNCHANGED <<usage, purposes, replied, permitted>>
      BY <1>5, <2>1, <2>3 DEF Meter, Set
    <2>6. Quiet(t, c)
      BY <2>4, <2>5 DEF Quiet, Owing, Admitting
    <2>7. QED
      BY <2>6, QuietKeeps
  <1>6. CASE UpdateUsage(t) /\ usage[call[t].month] = None
    <2>1. PICK c : c = [call[t] EXCEPT !.pc = "insert"]
      OBVIOUS
    <2>2. c \in Call /\ c.pc = "insert" /\ c.month = call[t].month /\ call[t].pc = "update"
      BY <1>6, <2>1, CallIs DEF SpendInv, Call, UpdateUsage
    <2>3. call' = [call EXCEPT ![t] = c] /\ UNCHANGED <<usage, purposes, replied, permitted>>
      BY <1>6, <2>1 DEF UpdateUsage, To, Set
    <2>4. Quiet(t, c)
      BY <2>2, <2>3 DEF Quiet, Owing, Admitting
    <2>5. QED
      BY <2>4, QuietKeeps
  <1>7. CASE (UpdateUsage(t) /\ usage[call[t].month] # None) \/ InsertUsage(t)
    <2>1. Charge(t)
      <3>1. call[t].month \in Months /\ usage \in [Months -> Row \cup {None}]
        BY CallIs DEF SpendInv, LedgerTypeOK
      <3>2. CASE UpdateUsage(t) /\ usage[call[t].month] # None
        BY <3>1, <3>2 DEF UpdateUsage, Added, Charge, get_llm_usage
      <3>3. CASE InsertUsage(t)
        BY <3>1, <3>3 DEF InsertUsage, Added, Charge, get_llm_usage
      <3>4. QED
        BY <1>7, <3>2, <3>3
    <2>2. QED
      BY <2>1, ChargeCounts, ChargeSplits
  <1>8. CASE Reply(t)
    BY <1>8, ReplyKeeps
  <1>9. CASE AddPurpose(t)
    BY <1>9, PurposeKeeps
  <1>10. QED
    BY <1>1, <1>2, <1>3, <1>4, <1>5, <1>6, <1>7, <1>8, <1>9 DEF MeteredCall

-----------------------------------------------------------------------------
\* Types

LEMMA InitTypes == LedgerInit => LedgerTypeOK
  <1> SUFFICES ASSUME LedgerInit
               PROVE  LedgerTypeOK
    OBVIOUS
  <1>1. NoCall \in Call
    BY DEF NoCall, Call, Months, Purposes
  <1>2. QED
    BY <1>1 DEF LedgerInit, LedgerTypeOK, Price, Months

\* What a reply leaves on the shared provider is a price or nothing.
LEMMA Prices ==
    ASSUME LedgerTypeOK, NEW t \in Callers, NEW r \in Answered(t)
    PROVE  r \in [Purposes -> Price]
  <1>1. PICK p : p = Shared(t)
    OBVIOUS
  <1>2. p \in Purposes /\ reported \in [Purposes -> Price]
    BY <1>1, CallIs DEF Shared, LedgerTypeOK
  <1>3. ASSUME NEW x \in Price
        PROVE  [reported EXCEPT ![p] = x] \in [Purposes -> Price]
    BY <1>2
  <1>4. 1 .. MaxCost \subseteq Price /\ (1 .. MaxCost) \cup {None} = Price
    BY DEF Price
  <1>5. provider[p] \in {"anthropic", "openai", "cli", "mock"}
    BY <1>2 DEF LedgerTypeOK
  <1>6. CASE provider[p] = "anthropic"
    <2>1. r \in {[reported EXCEPT ![p] = x] : x \in 1 .. MaxCost}
      BY <1>1, <1>6 DEF Answered, Anthropic_complete
    <2>2. QED
      BY <1>3, <1>4, <2>1
  <1>7. CASE provider[p] = "openai"
    <2>1. r \in {[reported EXCEPT ![p] = x] : x \in (1 .. MaxCost) \cup {None}}
      BY <1>1, <1>7 DEF Answered, OpenAI_complete
    <2>2. QED
      BY <1>3, <1>4, <2>1
  <1>8. CASE provider[p] = "cli"
    <2>1. r \in {[reported EXCEPT ![p] = x] : x \in (1 .. MaxCost) \cup {None}}
      BY <1>1, <1>8 DEF Answered, CLI_complete
    <2>2. QED
      BY <1>3, <1>4, <2>1
  <1>9. CASE provider[p] = "mock"
    BY <1>1, <1>2, <1>9 DEF Answered, Mock_complete
  <1>10. QED
    BY <1>5, <1>6, <1>7, <1>8, <1>9

LEMMA CallTypes ==
    ASSUME LedgerTypeOK, NEW t \in Callers, MeteredCall(t)
    PROVE  call' \in [Callers -> Call]
  <1> SUFFICES \E c \in Call : call' = [call EXCEPT ![t] = c]
    BY DEF LedgerTypeOK
  <1>1. ASSUME NEW pc \in {"send", "metering", "insert", "purpose"}, To(t, pc)
        PROVE  \E c \in Call : call' = [call EXCEPT ![t] = c]
    <2>1. [call[t] EXCEPT !.pc = pc] \in Call
      BY CallIs DEF Call
    <2>2. QED
      BY <1>1, <2>1 DEF To, Set
  <1>2. ASSUME Set(t, NoCall)
        PROVE  \E c \in Call : call' = [call EXCEPT ![t] = c]
    BY <1>2, CallIs DEF Set
  <1>3. CASE Begin(t)
    <2>1. PICK p \in Purposes : call' = [call EXCEPT ![t] = [NoCall EXCEPT !.pc = "check", !.cap = CapOf(p), !.purpose = p]]
      BY <1>3 DEF Begin, Set
    <2>2. CapOf(p) \in Nat
      BY DEF CapOf, org_provider, enrichment_cap, LedgerTypeOK
    <2>3. PICK n : n = CapOf(p)
      OBVIOUS
    <2>4. n \in Nat /\ NoCall \in Call
      BY <2>2, <2>3, CallIs
    <2>5. [NoCall EXCEPT !.pc = "check", !.cap = n, !.purpose = p] \in Call
      BY <2>4 DEF Call
    <2>6. QED
      BY <2>1, <2>3, <2>5
  <1>4. CASE Check(t)
    <2>1. [call[t] EXCEPT !.pc = "send", !.month = month] \in Call
      BY CallIs, ZenonT(60) DEF Call, LedgerTypeOK
    <2>2. Set(t, NoCall) \/ Set(t, [call[t] EXCEPT !.pc = "send", !.month = month])
      BY <1>4 DEF Check
    <2>3. QED
      BY <1>2, <2>1, <2>2 DEF Set
  <1>5. CASE Send(t)
    <2>1. PICK n : n = call[t].tries + 1
      OBVIOUS
    <2>2. n \in Nat /\ call[t] \in Call
      BY <2>1, CallIs
    <2>3. [call[t] EXCEPT !.pc = "sent", !.tries = n] \in Call
      BY <2>2 DEF Call
    <2>4. QED
      BY <1>5, <2>1, <2>3 DEF Send, Set
  <1>6. CASE Meter(t)
    <2>1. PICK k : k = IF reported[Shared(t)] = None THEN Estimate ELSE reported[Shared(t)]
      OBVIOUS
    <2>2. k \in 0 .. MaxCost
      <3>1. reported[Shared(t)] \in Price
        BY CallIs DEF LedgerTypeOK, Shared
      <3>2. QED
        BY <2>1, <3>1 DEF Price, Estimate
    <2>3. [call[t] EXCEPT !.pc = "update", !.cost = k] \in Call
      BY <2>2, CallIs DEF Call
    <2>4. QED
      BY <1>6, <2>1, <2>3 DEF Meter, Set
  <1>7. CASE Reply(t)
    BY <1>1, <1>7 DEF Reply
  <1>8. CASE Fail(t)
    BY <1>1, <1>2, <1>8 DEF Fail
  <1>9. CASE UpdateUsage(t)
    BY <1>1, <1>9 DEF UpdateUsage
  <1>10. CASE InsertUsage(t)
    BY <1>1, <1>10 DEF InsertUsage
  <1>11. CASE AddPurpose(t)
    BY <1>2, <1>11 DEF AddPurpose
  <1>12. QED
    BY <1>3, <1>4, <1>5, <1>6, <1>7, <1>8, <1>9, <1>10, <1>11 DEF MeteredCall

LEMMA PlusTyped ==
    ASSUME NEW row \in Row, NEW k \in Nat
    PROVE  Plus(row, k) \in Row /\ NoUsage \in Row
  BY DEF Plus, Row, NoUsage

LEMMA TableTypes ==
    ASSUME LedgerTypeOK, NEW t \in Callers, MeteredCall(t)
    PROVE  /\ usage' \in [Months -> Row \cup {None}] /\ purposes' \in [Months -> [Purposes -> Row \cup {None}]]
           /\ replied' \in [Months -> Nat] /\ permitted' \in [Months -> Nat \cup {None}]
           /\ reported' \in [Purposes -> Price]
  <1>1. PICK m, q, k : m = call[t].month /\ q = call[t].purpose /\ k = call[t].cost
    OBVIOUS
  <1>2. m \in Months /\ q \in Purposes /\ k \in Nat /\ month \in Months /\ call[t].cap \in Nat
    BY <1>1, CallIs DEF LedgerTypeOK
  <1>3. CASE Begin(t) \/ Fail(t) \/ Meter(t)
    BY <1>3 DEF Begin, Fail, Meter, LedgerTypeOK
  <1>4. CASE Check(t)
    <2>1. ASSUME permitted[month] # None
          PROVE  Max({permitted[month], call[t].cap}) \in Nat
      BY <1>2, <2>1, MaxOfTwo DEF LedgerTypeOK
    <2>2. permitted' \in [Months -> Nat \cup {None}]
      BY <1>2, <1>4, <2>1 DEF Check, LedgerTypeOK
    <2>3. QED
      BY <1>4, <2>2 DEF Check, LedgerTypeOK
  <1>5. CASE Send(t)
    <2>1. reported' \in [Purposes -> Price]
      BY <1>5 DEF Send, LedgerTypeOK, Price
    <2>2. QED
      BY <1>5, <2>1 DEF Send, LedgerTypeOK
  <1>6. CASE Reply(t)
    <2>1. reported' \in [Purposes -> Price]
      BY <1>6, Prices DEF Reply
    <2>2. replied' \in [Months -> Nat]
      <3>1. replied[m] + 1 \in Nat
        BY <1>2 DEF LedgerTypeOK
      <3>2. replied' = [replied EXCEPT ![m] = replied[m] + 1]
        BY <1>1, <1>6 DEF Reply
      <3>3. QED
        BY <3>1, <3>2 DEF LedgerTypeOK
    <2>3. QED
      BY <1>6, <2>1, <2>2 DEF Reply, LedgerTypeOK
  <1>7. CASE UpdateUsage(t) \/ InsertUsage(t)
    <2>1. usage[m] \in Row \cup {None} /\ Plus(NoUsage, k) \in Row
      <3>1. NoUsage \in Row
        BY DEF NoUsage, Row
      <3>2. QED
        BY <1>2, <3>1, PlusTyped DEF LedgerTypeOK
    <2>2. usage' \in [Months -> Row \cup {None}]
      <3>1. CASE usage[m] # None
        <4>1. Plus(usage[m], k) \in Row
          BY <1>2, <2>1, <3>1, PlusTyped
        <4>2. usage' = usage \/ usage' = [usage EXCEPT ![m] = Plus(@, k)]
          BY <1>1, <1>7, <3>1 DEF UpdateUsage, InsertUsage, Added
        <4>3. QED
          BY <1>2, <4>1, <4>2 DEF LedgerTypeOK
      <3>2. CASE usage[m] = None
        <4>1. usage' = usage \/ usage' = [usage EXCEPT ![m] = Plus(NoUsage, k)]
          BY <1>1, <1>7, <3>2 DEF UpdateUsage, InsertUsage, Added
        <4>2. QED
          BY <1>2, <2>1, <4>1 DEF LedgerTypeOK
      <3>3. QED
        BY <3>1, <3>2
    <2>3. UNCHANGED <<purposes, replied, permitted, reported>>
      BY <1>7 DEF UpdateUsage, InsertUsage
    <2>4. QED
      BY <2>2, <2>3 DEF LedgerTypeOK
  <1>8. CASE AddPurpose(t)
    <2>1. purposes[m][q] \in Row \cup {None} /\ NoUsage \in Row
      BY <1>2, PlusTyped DEF LedgerTypeOK, NoUsage, Row
    <2>2. PICK row : row = IF purposes[m][q] = None THEN NoUsage ELSE purposes[m][q]
      OBVIOUS
    <2>3. Plus(row, k) \in Row
      BY <1>2, <2>1, <2>2, PlusTyped
    <2>4. purposes' = purposes \/ purposes' = [purposes EXCEPT ![m][q] = Plus(row, k)]
      BY <1>1, <1>2, <1>8, <2>2 DEF AddPurpose, LedgerTypeOK
    <2>5. purposes' \in [Months -> [Purposes -> Row \cup {None}]]
      <3>1. PICK f \in [Months -> [Purposes -> Row \cup {None}]] : f = purposes
        BY DEF LedgerTypeOK
      <3>2. PICK v \in Row : v = Plus(row, k)
        BY <2>3
      <3>3. [f EXCEPT ![m][q] = v] \in [Months -> [Purposes -> Row \cup {None}]]
        OBVIOUS
      <3>4. QED
        BY <2>4, <3>1, <3>2, <3>3
    <2>6. QED
      BY <1>8, <2>5 DEF AddPurpose, LedgerTypeOK
  <1>9. QED
    BY <1>3, <1>4, <1>5, <1>6, <1>7, <1>8 DEF MeteredCall

LEMMA CallKeepsRest ==
    ASSUME NEW t \in Callers, MeteredCall(t)
    PROVE  UNCHANGED <<provider, quota, month, desk>>
  BY DEF MeteredCall, Begin, Check, Send, Reply, Fail, Meter, UpdateUsage, InsertUsage, AddPurpose, lane, desk

LEMMA InitSpend == LedgerInit => SpendInv
  <1> SUFFICES ASSUME LedgerInit
               PROVE  SpendInv
    OBVIOUS
  <1>1. LedgerTypeOK
    BY InitTypes
  <1>2. ASSUME NEW m \in Months
        PROVE  /\ InFlight(m) = {} /\ Admitted(m) = {} /\ get_llm_usage(m) = NoUsage
               /\ replied[m] = 0
               /\ \A p \in Purposes : Unsplit(m, p) = {} /\ purposes[m][p] = None
    BY DEF LedgerInit, NoCall, InFlight, Admitted, Unsplit, Owing, Admitting, get_llm_usage
  <1>3. Cardinality({}) = 0 /\ NoUsage.calls = 0 /\ NoUsage.cost = 0
    BY FS_EmptySet DEF NoUsage
  <1>4. Counted
    <2>1. ASSUME NEW m \in Months
          PROVE  get_llm_usage(m).calls + Cardinality(InFlight(m)) = replied[m]
      <3>1. get_llm_usage(m).calls = 0 /\ Cardinality(InFlight(m)) = 0 /\ replied[m] = 0
        BY <1>2, <1>3
      <3>2. QED
        BY <3>1
    <2>2. QED
      BY <2>1 DEF Counted
  <1>5. Split
    <2>1. ASSUME NEW m \in Months, NEW p \in Purposes
          PROVE  /\ purposes[m][p] = None
                 /\ PurposeCost(m, p) + Cardinality(Unsplit(m, p)) <= get_llm_usage(m).cost
      <3>1. PurposeCost(m, p) = 0 /\ Cardinality(Unsplit(m, p)) = 0 /\ get_llm_usage(m).cost = 0
        BY <1>2, <1>3 DEF PurposeCost
      <3>2. QED
        BY <1>2, <3>1
    <2>2. \A t \in Callers : call[t].pc = "idle"
      BY DEF LedgerInit, NoCall
    <2>3. QED
      BY <2>1, <2>2 DEF Split
  <1>6. Capped
    BY <1>2 DEF Capped, WithinCap, NoUsage
  <1>7. QED
    BY <1>1, <1>4, <1>5, <1>6 DEF SpendInv

LEMMA SpendElsewhere ==
    ASSUME SpendInv, UNCHANGED <<usage, purposes, call, replied, permitted, provider, reported>>,
           quota' \in Nat \cup {None}, month' \in Months
    PROVE  SpendInv'
  <1>1. \A m, p : InFlight(m)' = InFlight(m) /\ Admitted(m)' = Admitted(m) /\ Unsplit(m, p)' = Unsplit(m, p)
    BY DEF InFlight, Admitted, Unsplit
  <1>2. QED
    BY <1>1 DEF SpendInv, LedgerTypeOK, Counted, Split, Capped, WithinCap, PurposeCost, get_llm_usage

LEMMA NextSpend == SpendInv /\ [LedgerNext \/ RateNext]_lvars => SpendInv'
  <1> SUFFICES ASSUME SpendInv, [LedgerNext \/ RateNext]_lvars
               PROVE  SpendInv'
    OBVIOUS
  <1>1. ASSUME NEW t \in Callers, MeteredCall(t)
        PROVE  SpendInv'
    <2>1. LedgerTypeOK'
      BY <1>1, CallTypes, TableTypes, CallKeepsRest DEF SpendInv, LedgerTypeOK
    <2>2. QED
      BY <1>1, <2>1, CallSteps DEF SpendInv
  <1>2. CASE set_quota
    <2>1. quota' \in Nat \cup {None}
      BY <1>2 DEF set_quota
    <2>2. QED
      BY <1>2, <2>1, SpendElsewhere DEF set_quota, SpendInv, LedgerTypeOK
  <1>3. CASE MonthTurns
    BY <1>3, SpendElsewhere DEF MonthTurns, SpendInv, LedgerTypeOK
  <1>4. CASE RateNext \/ UNCHANGED lvars
    BY <1>4, SpendElsewhere DEF RateNext, guard, Tick, lvars, SpendInv, LedgerTypeOK
  <1>5. QED
    BY <1>1, <1>2, <1>3, <1>4 DEF LedgerNext

-----------------------------------------------------------------------------
\* The limiter

\* What is left of the hits are the last served, all those inside the window among them.
LEMMA LiveIsSuffix ==
    ASSUME RateInv
    PROVE  \E k \in 0 .. Len(served) :
              /\ Live(hits, clock) = SubSeq(served, k + 1, Len(served))
              /\ Len(Live(hits, clock)) = Len(served) - k
              /\ \A i \in 1 .. k : served[i] <= clock - WINDOW
  <1> DEFINE n == Len(served)
  <1>1. n \in Nat /\ served \in Seq(Nat) /\ clock \in Nat /\ \A i \in 1 .. n : served[i] \in Nat
    BY DEF RateInv
  <1>2. PICK j \in 0 .. n : /\ hits = SubSeq(served, j + 1, n)
                            /\ \A i \in 1 .. j : served[i] <= clock - WINDOW
    BY DEF RateInv
  <1>3. /\ hits \in Seq(Nat) /\ Len(hits) = n - j
        /\ \A i \in 1 .. n - j : hits[i] = served[j + i]
    BY <1>1, <1>2, SMTT(30)
  <1>4. PICK first : first = Min({i \in 1 .. Len(hits) : hits[i] > clock - WINDOW} \cup {Len(hits) + 1})
    OBVIOUS
  <1>5. /\ first \in 1 .. Len(hits) + 1
        /\ \A i \in 1 .. Len(hits) : i < first => ~(hits[i] > clock - WINDOW)
    <2> DEFINE T == {i \in 1 .. Len(hits) : hits[i] > clock - WINDOW} \cup {Len(hits) + 1}
    <2>1. T \in SUBSET Nat /\ T # {} /\ T \subseteq 1 .. Len(hits) + 1
      BY <1>1, <1>2, <1>3
    <2>2. Min(T) \in T /\ \A i \in T : Min(T) <= i
      BY <2>1, LeastIsMin
    <2>3. first = Min(T)
      BY <1>4
    <2> HIDE DEF T
    <2>4. first \in 1 .. Len(hits) + 1 /\ \A i \in T : first <= i
      BY <2>1, <2>2, <2>3
    <2>5. ASSUME NEW i \in 1 .. Len(hits), i < first, hits[i] > clock - WINDOW
          PROVE  FALSE
      <3>1. i \in T
        BY <2>5 DEF T
      <3>2. QED
        BY <2>4, <2>5, <3>1
    <2>6. QED
      BY <2>4, <2>5
  <1>6. Live(hits, clock) = SubSeq(hits, first, Len(hits))
    BY <1>4 DEF Live
  <1>7. PICK k \in 0 .. n : k = j + first - 1
    BY <1>1, <1>2, <1>3, <1>5
  <1>8. SubSeq(hits, first, Len(hits)) = SubSeq(served, k + 1, n) /\ Len(SubSeq(served, k + 1, n)) = n - k
    BY <1>1, <1>2, <1>3, <1>5, <1>7
  <1>9. ASSUME NEW i \in 1 .. k
        PROVE  served[i] <= clock - WINDOW
    <2>1. CASE i <= j
      BY <1>2, <1>9, <2>1
    <2>2. CASE i > j
      <3>1. PICK m \in 1 .. n - j : m = i - j /\ j + m = i /\ m \in 1 .. Len(hits) /\ m < first
        BY <1>1, <1>2, <1>3, <1>5, <1>7, <1>9, <2>2
      <3>2. hits[m] = served[i]
        <4>1. hits[m] = served[j + m]
          BY <1>3
        <4>2. QED
          BY <3>1, <4>1
      <3>3. ~(served[i] > clock - WINDOW) /\ served[i] \in Nat
        BY <1>1, <1>5, <1>7, <1>9, <3>1, <3>2
      <3>4. QED
        BY <1>1, <3>3
    <2>3. QED
      BY <1>2, <1>7, <1>9, <2>1, <2>2
  <1>10. QED
    BY <1>6, <1>7, <1>8, <1>9

LEMMA SuffixAt ==
    ASSUME NEW t \in Seq(Nat), NEW h \in 1 .. Len(t) + 1, NEW i \in 1 .. Len(t) - h + 1
    PROVE  SubSeq(t, h, Len(t))[i] = t[h + i - 1]
  OBVIOUS

LEMMA SuffixGrows ==
    ASSUME NEW s \in Seq(Nat), NEW k \in 0 .. Len(s), NEW x \in Nat
    PROVE  Append(SubSeq(s, k + 1, Len(s)), x) = SubSeq(Append(s, x), k + 1, Len(s) + 1)
  <1> DEFINE l == Append(SubSeq(s, k + 1, Len(s)), x)
             r == SubSeq(Append(s, x), k + 1, Len(s) + 1)
  <1>1. Len(s) \in Nat /\ l \in Seq(Nat) /\ Len(l) = Len(s) + 1 - k
    OBVIOUS
  <1>2. r \in Seq(Nat) /\ Len(r) = Len(s) + 1 - k
    OBVIOUS
  <1>3. ASSUME NEW i \in 1 .. Len(s) + 1 - k
        PROVE  l[i] = r[i]
    <2>1. r[i] = Append(s, x)[k + i]
      <3>1. PICK t \in Seq(Nat) : t = Append(s, x) /\ Len(t) = Len(s) + 1
        <4>1. Append(s, x) \in Seq(Nat) /\ Len(Append(s, x)) = Len(s) + 1
          OBVIOUS
        <4>2. QED
          BY <4>1, Zenon
      <3>2. k + 1 \in 1 .. Len(t) + 1 /\ i \in 1 .. Len(t) - (k + 1) + 1 /\ (k + 1) + i - 1 = k + i
        BY <1>1, <3>1
      <3>3. r = SubSeq(t, k + 1, Len(t))
        BY <3>1
      <3>4. SubSeq(t, k + 1, Len(t))[i] = t[k + 1 + i - 1]
        BY <3>2, SuffixAt
      <3>5. QED
        BY <3>1, <3>2, <3>3, <3>4
    <2>2. CASE i = Len(s) + 1 - k
      BY <1>1, <2>1, <2>2
    <2>3. CASE i # Len(s) + 1 - k
      BY <1>1, <2>1, <2>3, SMTT(30)
    <2>4. QED
      BY <2>2, <2>3
  <1> HIDE DEF l, r
  <1>4. l = r
    BY <1>1, <1>2, <1>3, SeqEqual
  <1>5. QED
    BY <1>4 DEF l, r

LEMMA NextRate == RateInv /\ [LedgerNext \/ RateNext]_lvars => RateInv'
  <1> SUFFICES ASSUME RateInv, [LedgerNext \/ RateNext]_lvars
               PROVE  RateInv'
    OBVIOUS
  <1>1. CASE UNCHANGED desk
    BY <1>1 DEF RateInv, RateBounded, desk
  <1>2. CASE Tick
    <2>1. clock' = clock + 1 /\ UNCHANGED <<hits, served>>
      BY <1>2 DEF Tick
    <2>2. clock \in Nat /\ served \in Seq(Nat) /\ \A i \in 1 .. Len(served) : served[i] \in Nat
      BY DEF RateInv
    <2>3. \A i \in 1 .. Len(served) : served[i] <= clock'
      BY <2>1, <2>2 DEF RateInv
    <2>4. PICK k \in 0 .. Len(served) :
             /\ hits = SubSeq(served, k + 1, Len(served))
             /\ \A i \in 1 .. k : served[i] <= clock - WINDOW
      BY DEF RateInv
    <2>5. \A i \in 1 .. k : served[i] <= clock' - WINDOW
      BY <2>1, <2>2, <2>4
    <2>6. RateBounded'
      BY <2>1 DEF RateInv, RateBounded
    <2>7. clock' \in Nat /\ served' \in Seq(Nat) /\ \A i \in 1 .. Len(served') : served'[i] <= clock'
      BY <2>1, <2>2, <2>3
    <2>8. \E j \in 0 .. Len(served') :
             /\ hits' = SubSeq(served', j + 1, Len(served'))
             /\ \A i \in 1 .. j : served'[i] <= clock' - WINDOW
      BY <2>1, <2>4, <2>5
    <2>9. QED
      BY <2>6, <2>7, <2>8 DEF RateInv
  <1>3. CASE guard
    <2>1. PICK k \in 0 .. Len(served) :
              /\ Live(hits, clock) = SubSeq(served, k + 1, Len(served))
              /\ Len(Live(hits, clock)) = Len(served) - k
              /\ \A i \in 1 .. k : served[i] <= clock - WINDOW
      BY LiveIsSuffix
    <2>2. clock \in Nat /\ served \in Seq(Nat) /\ Len(served) \in Nat /\ \A i \in 1 .. Len(served) : served[i] \in Nat
      BY DEF RateInv
    <2>3. clock' = clock
      BY <1>3 DEF guard
    <2>4. CASE Len(Live(hits, clock)) >= LIMIT
      <3>1. hits' = Live(hits, clock) /\ served' = served
        <4>1. allow(hits, clock).hits = Live(hits, clock) /\ ~allow(hits, clock).ok
          <5>1. PICK live : live = Live(hits, clock)
            OBVIOUS
          <5>2. Len(live) \in Nat /\ Len(live) >= LIMIT /\ ~(Len(live) < LIMIT)
            BY <2>1, <2>2, <2>4, <5>1
          <5>3. allow(hits, clock) =
                    [hits |-> IF Len(live) >= LIMIT THEN live ELSE Append(live, clock), ok |-> Len(live) < LIMIT]
            BY <5>1, Zenon DEF allow
          <5>4. allow(hits, clock).hits = live
            BY <5>2, <5>3
          <5>5. PICK ok : ok = (Len(live) < LIMIT)
            OBVIOUS
          <5>6. ~ok
            BY <5>2, <5>5
          <5>7. allow(hits, clock) = [hits |-> IF Len(live) >= LIMIT THEN live ELSE Append(live, clock), ok |-> ok]
            BY <5>3, <5>5, Zenon
          <5>8. allow(hits, clock).ok = ok
            BY <5>7
          <5>9. QED
            BY <5>1, <5>4, <5>6, <5>8
        <4>2. QED
          BY <1>3, <4>1 DEF guard
      <3>2. QED
        BY <2>1, <2>2, <2>3, <3>1 DEF RateInv, RateBounded
    <2>5. CASE ~(Len(Live(hits, clock)) >= LIMIT)
      <3>1. hits' = Append(Live(hits, clock), clock) /\ served' = Append(served, clock)
        <4>1. allow(hits, clock).hits = Append(Live(hits, clock), clock) /\ allow(hits, clock).ok
          <5>1. PICK live : live = Live(hits, clock)
            OBVIOUS
          <5>2. Len(live) \in Nat /\ ~(Len(live) >= LIMIT) /\ Len(live) < LIMIT
            BY <2>1, <2>2, <2>5, <5>1
          <5>3. allow(hits, clock) = [hits |-> Append(live, clock), ok |-> TRUE]
            BY <5>1, <5>2 DEF allow
          <5>4. QED
            BY <5>1, <5>3
        <4>2. QED
          BY <1>3, <4>1 DEF guard
      <3> DEFINE n == Len(served)
      <3>2. /\ served' \in Seq(Nat) /\ Len(served') = n + 1 /\ served'[n + 1] = clock
            /\ \A i \in 1 .. n : served'[i] = served[i]
        BY <2>2, <3>1
      <3>3. hits' = SubSeq(served', k + 1, n + 1)
        BY <2>1, <2>2, <3>1, SuffixGrows
      <3>4. \A i \in 1 .. n + 1 : i \in 1 .. n \/ i = n + 1
        BY <2>2
      <3>5. /\ \A i \in 1 .. n + 1 : served'[i] <= clock
            /\ k \in 0 .. n + 1 /\ \A i \in 1 .. k : served'[i] <= clock - WINDOW
        <4>1. \A i \in 1 .. n + 1 : served'[i] <= clock
          <5>1. \A i \in 1 .. n : served[i] <= clock
            BY DEF RateInv
          <5>2. clock <= clock
            BY <2>2
          <5>3. QED
            BY <3>2, <3>4, <5>1, <5>2
        <4>2. k \in 0 .. n + 1 /\ \A i \in 1 .. k : i \in 1 .. n
          BY <2>1, <2>2
        <4>3. QED
          BY <2>1, <3>2, <4>1, <4>2
      <3>6. ASSUME NEW i \in 1 .. n + 1
            PROVE  Cardinality({j \in 1 .. n + 1 : served'[j] <= served'[i] /\ served'[j] > served'[i] - WINDOW}) <= LIMIT
        <4>1. CASE served'[i] = clock
          <5>1. {j \in 1 .. n + 1 : served'[j] <= served'[i] /\ served'[j] > served'[i] - WINDOW} \in SUBSET (k + 1 .. n + 1)
            <6> SUFFICES ASSUME NEW j \in 1 .. n + 1, served'[j] > clock - WINDOW
                         PROVE  j \in k + 1 .. n + 1
              BY <4>1
            <6>1. k \in Nat /\ n \in Nat /\ j \in Int /\ clock \in Nat /\ 1 <= j /\ j <= n + 1
              BY <2>1, <2>2
            <6>2. j \notin 1 .. k
              <7> SUFFICES ASSUME j \in 1 .. k
                           PROVE  FALSE
                OBVIOUS
              <7>1. served'[j] <= clock - WINDOW
                BY <3>5
              <7>2. served'[j] \in Nat /\ WINDOW \in Nat
                BY <3>2, <6>1, LedgerAssumption
              <7>3. QED
                BY <6>1, <7>1, <7>2
            <6>3. QED
              BY <6>1, <6>2
          <5>2. IsFiniteSet(k + 1 .. n + 1) /\ Cardinality(k + 1 .. n + 1) = n + 1 - k
            BY <2>1, <2>2, FS_Interval
          <5>3. n + 1 - k <= LIMIT
            BY <2>1, <2>2, <2>5, SMTT(30)
          <5> DEFINE W == {j \in 1 .. n + 1 : served'[j] <= served'[i] /\ served'[j] > served'[i] - WINDOW}
          <5>4. IsFiniteSet(W) /\ Cardinality(W) <= n + 1 - k
            BY <5>1, <5>2, FS_Subset
          <5>5. Cardinality(W) \in Nat
            BY <5>4, FS_CardinalityType
          <5> HIDE DEF W
          <5>6. Cardinality(W) <= LIMIT
            BY <2>1, <2>2, <5>3, <5>4, <5>5
          <5>7. QED
            BY <5>6 DEF W
        <4>2. CASE served'[i] # clock
          <5>1. i \in 1 .. n /\ served'[i] = served[i] /\ served[i] < clock
            BY <2>2, <3>2, <4>2, SMTT(30) DEF RateInv
          <5>2. {j \in 1 .. n + 1 : served'[j] <= served'[i] /\ served'[j] > served'[i] - WINDOW}
                  = {j \in 1 .. n : served[j] <= served[i] /\ served[j] > served[i] - WINDOW}
            <6>1. ~(served'[n + 1] <= served'[i])
              BY <2>2, <3>2, <5>1
            <6>2. \A j \in 1 .. n + 1 : j \in 1 .. n \/ j = n + 1
              BY <3>4
            <6>3. 1 .. n \subseteq 1 .. n + 1
              BY <2>2
            <6>4. QED
              BY <3>2, <5>1, <6>1, <6>2, <6>3
          <5>3. QED
            BY <5>1, <5>2 DEF RateInv, RateBounded
        <4>3. QED
          BY <4>1, <4>2
      <3>7. QED
        BY <2>2, <2>3, <3>2, <3>3, <3>5, <3>6 DEF RateInv, RateBounded
    <2>6. QED
      BY <2>4, <2>5
  <1>4. QED
    BY <1>1, <1>2, <1>3, CallKeepsRest DEF LedgerNext, RateNext, set_quota, MonthTurns, lane, desk, lvars


-----------------------------------------------------------------------------
\* Pages of a list

\* Of a filter's finite result, the newest are some.
LEMMA NewestSome ==
    ASSUME NEW S \in SUBSET Digests, S # {}, NEW n \in Nat \ {0}
    PROVE  Newest(S, n) # {}
  <1> DEFINE newer(d) == {e \in S : e.at > d.at}
             T == {Cardinality(newer(d)) : d \in S}
  <1>1. IsFiniteSet(S)
    BY PagesAssumption, FS_Subset
  <1>2. ASSUME NEW d \in S
        PROVE  IsFiniteSet(newer(d)) /\ Cardinality(newer(d)) \in Nat
    <2>1. newer(d) \in SUBSET S
      OBVIOUS
    <2>2. QED
      BY <1>1, <2>1, FS_Subset, FS_CardinalityType
  <1>3. \E c \in T : \A m \in T : c <= m
    <2>1. T \in SUBSET Nat
      BY <1>2
    <2>2. PICK d \in S : TRUE
      OBVIOUS
    <2>3. Cardinality(newer(d)) \in T
      OBVIOUS
    <2> HIDE DEF T
    <2>4. QED
      BY <2>1, <2>3, Least
  <1>4. PICK d \in S : \A e \in S : Cardinality(newer(d)) <= Cardinality(newer(e))
    <2>1. PICK c \in T : \A m \in T : c <= m
      BY <1>3
    <2>2. PICK d \in S : c = Cardinality(newer(d))
      BY <2>1
    <2>3. \A e \in S : Cardinality(newer(e)) \in T
      OBVIOUS
    <2>4. \A e \in S : Cardinality(newer(d)) <= Cardinality(newer(e))
      <3> HIDE DEF T, newer
      <3>1. QED
        BY <2>1, <2>2, <2>3
    <2>5. QED
      BY <2>4
  <1>5. ASSUME NEW e \in newer(d)
        PROVE  FALSE
    <2>1. e \in S /\ e.at > d.at /\ \A x \in S : x.at \in Nat
      BY PagesAssumption
    <2>2. newer(e) \in SUBSET newer(d) /\ e \notin newer(e)
      BY <2>1
    <2>3. Cardinality(newer(e)) <= Cardinality(newer(d)) /\ Cardinality(newer(e)) # Cardinality(newer(d))
      BY <1>2, <1>5, <2>2, FS_Subset
    <2>4. Cardinality(newer(e)) \in Nat /\ Cardinality(newer(d)) \in Nat
      BY <1>2, <2>1
    <2>5. Cardinality(newer(d)) <= Cardinality(newer(e))
      BY <1>4, <2>1
    <2> HIDE DEF newer
    <2>6. QED
      BY <2>3, <2>4, <2>5
  <1>6. newer(d) = {}
    BY <1>5
  <1>7. Cardinality(newer(d)) < n
    BY <1>6, FS_EmptySet
  <1>8. QED
    BY <1>7 DEF Newest

\* A page that offers a cursor leaves out only what is older than it.
LEMMA PageCut ==
    ASSUME stored \subseteq Digests, NEW org, NEW f, NEW page,
           page = wiki_sessions([org |-> org], org, f), page.next_cursor # None
    PROVE  /\ page.next_cursor \in Nat
           /\ \A d \in stored : d.org = org /\ Matches(d, f) /\ ~is_structural_junk(d)
                  => d \in page.items \/ d.at < page.next_cursor
  <1> DEFINE S == {d \in stored : d.org = org /\ Matches(d, f)}
             newer(d) == {e \in S : e.at > d.at}
             cards == {d \in S : Cardinality(newer(d)) < PAGE /\ ~is_structural_junk(d)}
             T == {d.at : d \in cards}
  <1>1. page = [items |-> cards, next_cursor |-> IF Cardinality(cards) >= PAGE THEN Min(T) ELSE None]
    <2>1. scope([org |-> org], org) = org
      BY DEF scope
    <2>2. query_compactions(org, f, PAGE) = {d \in S : Cardinality(newer(d)) < PAGE}
      BY DEF query_compactions, Newest
    <2>3. _readable(query_compactions(org, f, PAGE)) = cards
      BY <2>2 DEF _readable
    <2>4. QED
      BY <2>1, <2>3 DEF wiki_sessions
  <1>2. page.items = cards /\ page.next_cursor = Min(T) /\ Cardinality(cards) >= PAGE
    BY <1>1, SMTT(30)
  <1>3. S \in SUBSET Digests /\ IsFiniteSet(S) /\ \A d \in S : d.at \in Nat /\ d.org = org
    <2>1. S \in SUBSET Digests
      OBVIOUS
    <2>2. QED
      BY <2>1, PagesAssumption, FS_Subset
  <1>4. cards # {}
    <2>1. PAGE \in Nat \ {0} /\ Cardinality({}) = 0
      BY PagesAssumption, FS_EmptySet
    <2>2. Cardinality(cards) >= PAGE
      BY <1>2
    <2> HIDE DEF cards
    <2>3. QED
      BY <2>1, <2>2
  <1>5. Min(T) \in T /\ \A m \in T : Min(T) <= m
    <2>1. T \in SUBSET Nat
      BY <1>3
    <2>2. PICK d \in cards : TRUE
      BY <1>4
    <2>3. d.at \in T
      OBVIOUS
    <2> HIDE DEF T
    <2>4. QED
      BY <2>1, <2>3, LeastIsMin
  <1>6. PICK c \in cards : c.at = page.next_cursor
    BY <1>2, <1>5
  <1>7. ASSUME NEW d \in S, ~is_structural_junk(d), d \notin cards, ~(d.at < c.at)
        PROVE  FALSE
    <2>1. d.at \in Nat /\ c.at \in Nat /\ c \in S /\ Cardinality(newer(c)) < PAGE
      BY <1>3
    <2>2. ~(Cardinality(newer(d)) < PAGE)
      BY <1>7
    <2>3. newer(d) \in SUBSET newer(c)
      BY <1>3, <1>7, <2>1
    <2>4. newer(c) \in SUBSET S
      OBVIOUS
    <2>5. /\ IsFiniteSet(newer(c)) /\ Cardinality(newer(c)) \in Nat
      BY <1>3, <2>4, FS_Subset, FS_CardinalityType
    <2>6. Cardinality(newer(d)) <= Cardinality(newer(c)) /\ Cardinality(newer(d)) \in Nat
      BY <2>3, <2>5, FS_Subset, FS_CardinalityType
    <2>7. PAGE \in Nat
      BY PagesAssumption
    <2>8. QED
      BY <2>1, <2>2, <2>5, <2>6, <2>7
  <1>8. page.next_cursor \in Nat
    BY <1>3, <1>6
  <1>9. QED
    BY <1>2, <1>6, <1>7, <1>8
-----------------------------------------------------------------------------
\* Readers

\* What is in the tables comes from Digests; the actors of the roster have names, and
\* whoever has a session is among them.
RowsInv ==
    /\ stored \subseteq Digests /\ roster \subseteq Orgs \X Actors
    /\ \A d \in stored : <<d.org, d.actor>> \in roster

\* A reader's list holds rows that are still stored and that its filter matches.
Fields(r) == [org |-> r.org, f |-> r.f, page |-> r.page, seen |-> r.seen, was |-> r.was]
ReadingInv ==
    reading # None =>
        /\ reading = Fields(reading) /\ DOMAIN reading.f = DOMAIN Anything
        /\ reading.page.next_cursor # None => reading.page.next_cursor \in Nat
        /\ \A d \in reading.was :
              d \in stored /\ d.org = reading.org /\ Matches(d, reading.f) /\ ~is_structural_junk(d)

\* Whoever is named is somebody, and has the sessions read.
NamedInv ==
    /\ question.step \in {"notes", "activity", "drill"} => question.mentioned \subseteq Actors
    /\ question.step \in {"activity", "drill"} => question.mentioned = {} \/ question.drilled

ReadersInv == RowsInv /\ ReadingInv /\ PagesNeverSkip /\ NamedInv

LEMMA InitReaders == QuestionsInit => ReadersInv
  <1> SUFFICES ASSUME QuestionsInit
               PROVE  ReadersInv
    OBVIOUS
  <1>1. stored = {} /\ roster = {} /\ reading = None /\ question.step = "none"
    BY DEF QuestionsInit, Silent
  <1>2. QED
    BY <1>1 DEF ReadersInv, RowsInv, ReadingInv, PagesNeverSkip, NamedInv

LEMMA NextRows ==
    ASSUME RowsInv, QuestionsNext
    PROVE  RowsInv'
  <1>1. ASSUME NEW d \in Digests, Sync(d)
        PROVE  RowsInv'
    <2>1. stored' = stored \cup {d} /\ roster' = roster \cup {<<d.org, d.actor>>}
      BY <1>1 DEF Sync
    <2>2. <<d.org, d.actor>> \in Orgs \X Actors
      BY DEF Orgs, Actors
    <2>3. QED
      BY <2>1, <2>2 DEF RowsInv, Orgs, Actors
  <1>2. ASSUME NEW d \in Digests, Purge(d)
        PROVE  RowsInv'
    BY <1>2 DEF Purge, RowsInv, Orgs, Actors
  <1>3. ASSUME NEW n \in NoteRows, Learn(n) \/ Forget(n)
        PROVE  RowsInv'
    BY <1>3 DEF Learn, Forget, RowsInv, Orgs, Actors
  <1>4. ASSUME UNCHANGED pagevars
        PROVE  RowsInv'
    BY <1>4 DEF pagevars, RowsInv, Orgs, Actors
  <1>5. QED
    BY <1>1, <1>2, <1>3, <1>4
    DEF QuestionsNext, Query, Asking, ReadNotes, ReadActivity, Drill, Answer, OpenSessions, TurnPage, CloseSessions

\* A list is opened with every row its first page leaves out older than the cursor.
LEMMA OpenReads ==
    ASSUME RowsInv, NEW org, NEW f \in Specs, OpenSessions(org, f)
    PROVE  ReadingInv' /\ PagesNeverSkip'
  <1>1. PICK page : page = wiki_sessions([org |-> org], org, f)
    OBVIOUS
  <1>2. PICK was : was = _readable(query_compactions(org, f, All))
    OBVIOUS
  <1>3. reading' = [org |-> org, f |-> f, page |-> page, seen |-> {}, was |-> was] /\ stored' = stored
    BY <1>1, <1>2 DEF OpenSessions, pagevars
  <1>4. /\ reading'.org = org /\ reading'.f = f /\ reading'.page = page
        /\ reading'.seen = {} /\ reading'.was = was
    BY <1>3
  <1>5. \A d \in was : d \in stored /\ d.org = org /\ Matches(d, f) /\ ~is_structural_junk(d)
    BY <1>2 DEF _readable, query_compactions, Newest
  <1>6. page.next_cursor # None =>
            page.next_cursor \in Nat /\ \A d \in was : d \in page.items \/ d.at < page.next_cursor
    BY <1>1, <1>5, PageCut DEF RowsInv
  <1>7. DOMAIN f = DOMAIN Anything
    BY QuestionsAssumption
  <1>8. ReadingInv'
    BY <1>3, <1>4, <1>5, <1>6, <1>7, ZenonT(60) DEF ReadingInv, Fields, Matches, is_structural_junk, Anything
  <1>9. PagesNeverSkip'
    BY <1>4, <1>6 DEF PagesNeverSkip
  <1>10. QED
    BY <1>8, <1>9

\* The next page begins where the last left off.
LEMMA TurnReads ==
    ASSUME RowsInv, ReadingInv, PagesNeverSkip, TurnPage
    PROVE  ReadingInv' /\ PagesNeverSkip'
  <1>1. PICK c : c = reading.page.next_cursor
    OBVIOUS
  <1>2. PICK g : g = [reading.f EXCEPT !.until = c]
    OBVIOUS
  <1>3. PICK page : page = wiki_sessions([org |-> reading.org], reading.org, g)
    OBVIOUS
  <1>4. PICK seen : seen = reading.seen \cup reading.page.items
    OBVIOUS
  <1>5. reading # None /\ c # None /\ c \in Nat
    BY <1>1 DEF TurnPage, ReadingInv
  <1>6. /\ reading' = [reading EXCEPT !.page = page, !.seen = seen] /\ stored' = stored
    BY <1>1, <1>2, <1>3, <1>4 DEF TurnPage, pagevars
  <1>7. reading = Fields(reading) /\ DOMAIN reading.f = DOMAIN Anything
    BY <1>5 DEF ReadingInv
  <1>8. reading' = [org |-> reading.org, f |-> reading.f, page |-> page, seen |-> seen, was |-> reading.was]
    BY <1>6, <1>7 DEF Fields
  <1>9. /\ reading'.org = reading.org /\ reading'.f = reading.f /\ reading'.page = page
        /\ reading'.seen = seen /\ reading'.was = reading.was
    BY <1>8
  <1>10. \A d \in reading.was :
            d \in stored /\ d.org = reading.org /\ Matches(d, reading.f) /\ ~is_structural_junk(d)
    BY <1>5 DEF ReadingInv
  <1>11. \A d \in reading.was : d \in seen \/ d.at < c
    BY <1>1, <1>4, <1>5 DEF PagesNeverSkip
  <1>12. ASSUME NEW d \in reading.was, d.at < c
         PROVE  Matches(d, g)
    <2>1. DOMAIN reading.f = {"project", "outcome", "actor", "since", "until"}
      BY <1>7 DEF Anything
    <2>2. /\ g.project = reading.f.project /\ g.outcome = reading.f.outcome /\ g.actor = reading.f.actor
          /\ g.since = reading.f.since /\ g.until = c
      BY <1>2, <2>1
    <2>3. d.at \in Nat
      BY <1>10, PagesAssumption DEF RowsInv
    <2>4. QED
      BY <1>5, <1>10, <1>12, <2>2, <2>3 DEF Matches
  <1>13. page.next_cursor # None =>
            /\ page.next_cursor \in Nat
            /\ \A d \in reading.was : d \in seen \cup page.items \/ d.at < page.next_cursor
    BY <1>3, <1>10, <1>11, <1>12, PageCut DEF RowsInv
  <1>14. ReadingInv'
    BY ZenonT(60), <1>6, <1>7, <1>8, <1>9, <1>10, <1>13 DEF ReadingInv, Fields, Matches, is_structural_junk, Anything
  <1>15. PagesNeverSkip'
    BY <1>9, <1>13 DEF PagesNeverSkip
  <1>16. QED
    BY <1>14, <1>15

LEMMA PurgeReads ==
    ASSUME ReadingInv, PagesNeverSkip, NEW d \in Digests, Purge(d)
    PROVE  ReadingInv' /\ PagesNeverSkip'
  <1>1. CASE reading = None
    BY <1>1 DEF Purge, ReadingInv, PagesNeverSkip
  <1>2. CASE reading # None
    <2>1. PICK was : was = reading.was \ {d}
      OBVIOUS
    <2>2. reading' = [reading EXCEPT !.was = was] /\ stored' = stored \ {d}
      BY <1>2, <2>1 DEF Purge
    <2>3. reading = Fields(reading) /\ DOMAIN reading.f = DOMAIN Anything
      BY <1>2 DEF ReadingInv
    <2>4. reading' =
            [org |-> reading.org, f |-> reading.f, page |-> reading.page, seen |-> reading.seen, was |-> was]
      BY <2>2, <2>3 DEF Fields
    <2>5. /\ reading'.org = reading.org /\ reading'.f = reading.f /\ reading'.page = reading.page
          /\ reading'.seen = reading.seen /\ reading'.was = was
      BY <2>4
    <2>6. \A e \in was :
            e \in stored' /\ e.org = reading.org /\ Matches(e, reading.f) /\ ~is_structural_junk(e)
      BY <1>2, <2>1, <2>2 DEF ReadingInv
    <2>7. ReadingInv'
      BY <1>2, <2>3, <2>4, <2>5, <2>6 DEF ReadingInv, Fields, Matches, is_structural_junk, Anything
    <2>8. PagesNeverSkip'
      BY <1>2, <2>1, <2>5 DEF PagesNeverSkip
    <2>9. QED
      BY <2>7, <2>8
  <1>3. QED
    BY <1>1, <1>2

LEMMA ReadsElsewhere ==
    ASSUME ReadingInv, PagesNeverSkip, reading' = reading, stored \subseteq stored'
    PROVE  ReadingInv' /\ PagesNeverSkip'
  BY DEF ReadingInv, PagesNeverSkip, Fields, Matches, is_structural_junk, Anything

LEMMA NextReads ==
    ASSUME RowsInv, ReadingInv, PagesNeverSkip, QuestionsNext
    PROVE  ReadingInv' /\ PagesNeverSkip'
  <1>1. ASSUME NEW d \in Digests, Sync(d)
        PROVE  reading' = reading /\ stored \subseteq stored'
    BY <1>1 DEF Sync, qvars
  <1>2. ASSUME NEW n \in NoteRows, Learn(n) \/ Forget(n)
        PROVE  reading' = reading /\ stored \subseteq stored'
    BY <1>2 DEF Learn, Forget, qvars
  <1>3. ASSUME NEW org, NEW spec, NEW named, Query(org, spec, named) \/ Asking(org, spec, named)
        PROVE  reading' = reading /\ stored \subseteq stored'
    BY <1>3 DEF Query, Asking, pagevars
  <1>4. ASSUME ReadNotes \/ ReadActivity \/ Drill \/ Answer
        PROVE  reading' = reading /\ stored \subseteq stored'
    BY <1>4 DEF ReadNotes, ReadActivity, Drill, Answer, pagevars
  <1>5. ASSUME CloseSessions
        PROVE  ReadingInv' /\ PagesNeverSkip'
    BY <1>5 DEF CloseSessions, ReadingInv, PagesNeverSkip
  <1>6. QED
    BY <1>1, <1>2, <1>3, <1>4, <1>5, ReadsElsewhere, PurgeReads, OpenReads, TurnReads DEF QuestionsNext

LEMMA NextNamed ==
    ASSUME RowsInv, NamedInv, QuestionsNext
    PROVE  NamedInv'
  <1>1. ASSUME question' = question
        PROVE  NamedInv'
    BY <1>1 DEF NamedInv, Actors
  <1>2. ASSUME NEW org, NEW spec, NEW mentioned, Asking(org, spec, mentioned)
        PROVE  NamedInv'
    <2>1. question'.step = "notes" /\ question'.mentioned = mentioned \cap list_actors(org)
      BY <1>2 DEF Asking
    <2>2. list_actors(org) \subseteq Actors
      BY DEF list_actors, RowsInv
    <2>3. QED
      BY <2>1, <2>2 DEF NamedInv, Actors
  <1>3. ASSUME ReadNotes
        PROVE  NamedInv'
    <2>1. /\ question.step = "notes" /\ question'.step = "activity" /\ question'.mentioned = question.mentioned
          /\ question.mentioned # {} => question'.drilled
      BY <1>3 DEF ReadNotes
    <2>2. QED
      BY <2>1 DEF NamedInv, Actors
  <1>4. ASSUME ReadActivity
        PROVE  NamedInv'
    <2>1. /\ question.step = "activity" /\ question'.step = "drill" /\ question'.mentioned = question.mentioned
          /\ question'.drilled = question.drilled
      BY <1>4 DEF ReadActivity
    <2>2. QED
      BY <2>1 DEF NamedInv, Actors
  <1>5. ASSUME Drill \/ Answer
        PROVE  NamedInv'
    <2>1. question'.step \in {"none", "model"}
      BY <1>5 DEF Drill, Answer, Silent
    <2>2. QED
      BY <2>1 DEF NamedInv
  <1>6. ASSUME NEW d \in Digests, Sync(d) \/ Purge(d)
        PROVE  question' = question
    BY <1>6 DEF Sync, Purge, qvars
  <1>7. ASSUME NEW n \in NoteRows, Learn(n) \/ Forget(n)
        PROVE  question' = question
    BY <1>7 DEF Learn, Forget, qvars
  <1>8. ASSUME NEW org, NEW spec, NEW named, Query(org, spec, named) \/ OpenSessions(org, spec)
        PROVE  question' = question
    BY <1>8 DEF Query, OpenSessions
  <1>9. ASSUME TurnPage \/ CloseSessions
        PROVE  question' = question
    BY <1>9 DEF TurnPage, CloseSessions
  <1>10. QED
    BY <1>1, <1>2, <1>3, <1>4, <1>5, <1>6, <1>7, <1>8, <1>9 DEF QuestionsNext

\* Of somebody named who has sessions in the window, the newest is a candidate.
LEMMA NamedAreCandidates ==
    ASSUME RowsInv, NamedInv
    PROVE  NamedAreRead
  <1> DEFINE q == question
             since == IF q.spec.since = None THEN Now - 14 ELSE q.spec.since
             F(who) == [Of(who) EXCEPT !.since = since]
  <1> SUFFICES ASSUME q.step = "drill", NEW who \in q.mentioned, query_compactions(q.org, F(who), All) # {}
               PROVE  q.drilled /\ who \in Contributors(Candidates(q))
    BY DEF NamedAreRead
  <1>1. q.drilled
    BY DEF NamedInv
  <1>2. who # None
    BY PagesAssumption DEF NamedInv, Actors
  <1> DEFINE S == {d \in stored : d.org = q.org /\ Matches(d, F(who))}
  <1>3. S # {} /\ S \subseteq Digests
    BY DEF query_compactions, Newest, RowsInv
  <1>4. PICK d \in Newest(S, PER_ACTOR_DRILL) : TRUE
    <2>1. PER_ACTOR_DRILL \in Nat \ {0}
      BY QuestionsAssumption
    <2> HIDE DEF S
    <2>2. QED
      BY <1>3, <2>1, NewestSome
  <1>5. d \in S
    BY <1>4 DEF Newest
  <1>6. d.actor = who
    <2>1. Matches(d, F(who))
      BY <1>5
    <2>2. F(who).actor = who
      BY DEF Of, Anything
    <2>3. QED
      BY <1>2, <2>1, <2>2 DEF Matches
  <1>7. d \in query_compactions(q.org, F(who), PER_ACTOR_DRILL)
    BY <1>4 DEF query_compactions
  <1>8. d \in Candidates(q)
    BY <1>7 DEF Candidates
  <1>9. QED
    BY <1>1, <1>6, <1>8 DEF Contributors

LEMMA NextReaders == ReadersInv /\ [QuestionsNext]_<<pagevars, qvars>> => ReadersInv'
  <1> SUFFICES ASSUME ReadersInv, [QuestionsNext]_<<pagevars, qvars>>
               PROVE  ReadersInv'
    OBVIOUS
  <1>1. CASE QuestionsNext
    BY <1>1, NextRows, NextReads, NextNamed DEF ReadersInv
  <1>2. CASE UNCHANGED <<pagevars, qvars>>
    <2>1. stored' = stored /\ roster' = roster /\ reading' = reading /\ question' = question
      BY <1>2 DEF pagevars, qvars
    <2>2. RowsInv' /\ NamedInv'
      BY <2>1 DEF ReadersInv, RowsInv, NamedInv, Orgs, Actors
    <2>3. QED
      BY <2>1, <2>2, ReadsElsewhere DEF ReadersInv
  <1>3. QED
    BY <1>1, <1>2
-----------------------------------------------------------------------------
\* Answers

Ids == {d.id : d \in Digests}
Entry == [n : Nat, kind : Kinds, individual : BOOLEAN, cites : SUBSET Ids, insufficient : BOOLEAN]
Visit == [step : {"privacy", "read", "record", "answer"}, kind : Kinds, org : Orgs, n : Nat,
          late : BOOLEAN, swept : BOOLEAN, named : BOOLEAN, names : SUBSET Actors, cites : SUBSET Ids]

AccessTypeOK ==
    /\ minted \subseteq Tokens /\ tenants \subseteq Orgs /\ visits \in 0 .. MaxVisits
    /\ audit \in [Orgs -> Seq(Entry)] /\ visit \in Visit \cup {NoVisit}

\* The row a question is still going to write.
Pending == IF visit.step \in {"privacy", "read", "record"} THEN 1 ELSE 0

\* An answer of a door that keeps an audit has its row in its org's; of the others only
\* the consoles' session lists name anybody.
Documents(e, a) ==
    e.n = a.n /\ e.kind = a.kind /\ e.cites = a.cites /\ (a.names # {} => e.individual)
Recorded(a) ==
    /\ a.kind \in Audited => \E e \in Range(audit[a.org]) : Documents(e, a)
    /\ a.names # {} => a.kind \in Audited \cup {"browse"}

RowsCounted == \A o \in Orgs : Len(audit[o]) + Pending <= visits
VisitSound ==
    visit # NoVisit =>
        /\ visit.names # {} => visit.named
        /\ visit.kind \in {"digest", "drill"} => ~visit.named
        /\ visit.kind = "console_topics" => visit.names = {}
        /\ visit.step \in {"privacy", "read"} => visit.names = {}
        /\ visit.step = "answer" /\ ~visit.swept => Recorded(visit)
HandedSound == \A h \in handed : h.org \in Orgs /\ Recorded(h)

AuditInv == AccessTypeOK /\ RowsCounted /\ VisitSound /\ HandedSound
AnswersInv == stored \subseteq Digests /\ KAnonymous /\ AuditInv

\* What a question may be about is stored.
LEMMA VisibleStored ==
    ASSUME NEW o, NEW spec, NEW named
    PROVE  run_query(o, spec, named).visible \subseteq stored
  <1> DEFINE S == query_compactions(o, ResolvedActor(o, spec, named), All)
             visible == IF named THEN S ELSE kept_cells(S)
             Enough(T) == named \/ Cardinality(Contributors(T)) >= K_ANON_FLOOR
  <1>1. S \subseteq stored
    BY DEF query_compactions, Newest
  <1>2. visible \subseteq stored
    BY <1>1 DEF kept_cells
  <1>3. run_query(o, spec, named).visible = IF Enough(S) /\ Enough(visible) THEN visible ELSE {}
    BY DEF run_query
  <1> HIDE DEF S, visible, Enough
  <1>4. QED
    BY <1>2, <1>3

LEMMA MatchedStored ==
    ASSUME NEW kind \in Kinds, NEW o, NEW named, NEW S \in Matched(kind, o, named)
    PROVE  S \subseteq stored
  <1>1. ASSUME NEW spec
        PROVE  query_compactions(o, spec, All) \subseteq stored
    BY DEF query_compactions, Newest
  <1>2. CASE kind = "query"
    BY <1>2, VisibleStored DEF Matched
  <1>3. CASE kind = "ask"
    BY <1>1, <1>3 DEF Matched
  <1>4. CASE kind \in {"topics", "console_topics"}
    BY <1>1, <1>4 DEF Matched
  <1>5. CASE kind = "digest"
    <2>1. S = UNION {s.visible : s \in digest_sections(o)}
      BY <1>5 DEF Matched
    <2>2. \A s \in digest_sections(o) : s.visible \subseteq stored
      BY VisibleStored DEF digest_sections
    <2>3. QED
      BY <2>1, <2>2
  <1>6. CASE kind = "thread"
    BY <1>1, <1>6 DEF Matched, thread
  <1>7. CASE kind = "drill"
    BY <1>7 DEF Matched, get_compaction
  <1>8. CASE kind = "browse"
    <2>1. ASSUME NEW spec
          PROVE  query_compactions(o, spec, SESSION_LIMIT) \subseteq stored
      BY DEF query_compactions, Newest
    <2>2. QED
      BY <1>8, <2>1 DEF Matched, get_compaction
  <1>9. QED
    BY <1>2, <1>3, <1>4, <1>5, <1>6, <1>7, <1>8 DEF Kinds

LEMMA CitableShown ==
    ASSUME NEW kind \in Kinds, NEW ids, NEW cited \in Citable(kind, ids)
    PROVE  cited \subseteq ids
  <1>1. \A pieces : _match_citations(pieces, ids) \subseteq ids
    BY DEF _match_citations
  <1>2. QED
    BY <1>1 DEF Citable

\* Whoever is let in is let in to an org there is.
LEMMA DoorsLeadToOrgs ==
    ASSUME AccessTypeOK, NEW kind, NEW t \in Credentials, NEW requested \in Orgs
    PROVE  Doors(kind, t, requested) \subseteq Orgs
  <1>1. ASSUME NEW s \in session_for(t)
        PROVE  scope(s, requested) \in Orgs
    <2>1. CASE s.org = None
      BY <2>1 DEF scope
    <2>2. CASE s.org # None
      <3>1. PICK r \in {"founder", "engineer"} : verified(t, r) /\ s.org = t.org
        BY <2>2 DEF session_for
      <3>2. t \in minted
        BY <3>1 DEF verified
      <3>3. t.org \in Orgs
        BY <3>2, AccessAssumption DEF AccessTypeOK
      <3>4. QED
        BY <2>2, <3>1, <3>3 DEF scope
    <2>3. QED
      BY <2>1, <2>2
  <1>2. _founder_session(t) \subseteq session_for(t)
    BY DEF _founder_session
  <1>3. html(t, requested) \subseteq Orgs /\ console(t, requested) \subseteq Orgs
    BY <1>1, <1>2 DEF html, console
  <1>4. wiki(t, requested) \subseteq Orgs
    BY <1>1 DEF wiki, AccessTypeOK
  <1>5. founder_api(t, requested) \subseteq Orgs
    BY DEF founder_api
  <1>6. QED
    BY <1>3, <1>4, <1>5 DEF Doors

\* What an answer keeps of the tables: its row stays while the audit only grows.
LEMMA StillRecorded ==
    ASSUME NEW a, NEW T \in SUBSET Orgs, a.org \in T, Recorded(a),
           \A o \in T : Range(audit[o]) \subseteq Range(audit'[o])
    PROVE  Recorded(a)'
  BY DEF Recorded, Documents, Audited, Kinds

LEMMA QuietAudit ==
    ASSUME AuditInv, UNCHANGED <<audit, visit, handed, visits>>,
           minted' \subseteq Tokens, tenants' \subseteq Orgs
    PROVE  AuditInv'
  <1>1. Orgs' = Orgs /\ Actors' = Actors /\ Ids' = Ids
    BY DEF Orgs, Actors, Ids
  <1>2. AccessTypeOK'
    BY DEF AuditInv, AccessTypeOK, Entry, Visit, NoVisit, Kinds, Orgs, Actors, Ids
  <1>3. RowsCounted'
    BY DEF AuditInv, RowsCounted, Pending, Orgs
  <1>4. VisitSound' /\ HandedSound'
    BY DEF AuditInv, VisitSound, HandedSound, Recorded, Documents, NoVisit, Orgs, Audited, Kinds
  <1>5. QED
    BY <1>2, <1>3, <1>4 DEF AuditInv

LEMMA InitAudit == AccessInit => AuditInv
  <1> SUFFICES ASSUME AccessInit
               PROVE  AuditInv
    OBVIOUS
  <1>1. /\ tenants = Orgs /\ minted \subseteq Tokens /\ audit = [o \in Orgs |-> <<>>]
        /\ visit = NoVisit /\ visits = 0 /\ handed = {}
    BY DEF AccessInit
  <1>2. <<>> \in Seq(Entry) /\ Len(<<>>) = 0
    OBVIOUS
  <1>3. AccessTypeOK
    BY <1>1, <1>2, AccessAssumption DEF AccessTypeOK
  <1>4. RowsCounted
    BY <1>1, <1>2 DEF RowsCounted, Pending, NoVisit
  <1>5. VisitSound /\ HandedSound
    BY <1>1 DEF VisitSound, HandedSound
  <1>6. QED
    BY <1>3, <1>4, <1>5 DEF AuditInv

\* Somebody asks: one more question, one more row to come.
LEMMA ArriveKeeps ==
    ASSUME AuditInv, NEW kind \in Kinds, NEW t \in Credentials, NEW requested \in Orgs,
           Arrive(kind, t, requested)
    PROVE  AuditInv'
  <1>1. PICK o \in Doors(kind, t, requested) :
            visit' = [step |-> "privacy", kind |-> kind, org |-> o, n |-> visits, late |-> t \in killed,
                      swept |-> FALSE, named |-> FALSE, names |-> {}, cites |-> {}]
    BY DEF Arrive
  <1>2. PICK late \in BOOLEAN : late = (t \in killed)
    <2>1. CASE t \in killed
      <3>1. TRUE = (t \in killed)
        BY <2>1
      <3>2. QED
        BY <3>1
    <2>2. CASE t \notin killed
      <3>1. FALSE = (t \in killed)
        BY <2>2
      <3>2. QED
        BY <3>1
    <2>3. QED
      BY <2>1, <2>2
  <1>3. visit' = [step |-> "privacy", kind |-> kind, org |-> o, n |-> visits, late |-> late,
                  swept |-> FALSE, named |-> FALSE, names |-> {}, cites |-> {}]
    BY <1>1, <1>2
  <1>4. /\ visit = NoVisit /\ visits < MaxVisits /\ visits' = visits + 1
        /\ audit' = audit /\ minted' = minted /\ tenants' = tenants /\ handed' = handed
    BY DEF Arrive, tables, tokens
  <1>5. o \in Orgs /\ visits \in Nat /\ MaxVisits \in Nat
    BY DoorsLeadToOrgs, AccessAssumption DEF AuditInv, AccessTypeOK
  <1>6. visit' \in Visit /\ visit'.step = "privacy" /\ visit'.names = {} /\ visit'.named = FALSE
    BY <1>3, <1>5 DEF Visit
  <1>7. visits' \in 0 .. MaxVisits
    BY <1>4, <1>5
  <1>8. AccessTypeOK'
    BY <1>4, <1>6, <1>7 DEF AuditInv, AccessTypeOK, Entry, Visit, NoVisit, Kinds, Orgs, Actors, Ids
  <1>9. RowsCounted'
    <2>1. ASSUME NEW p \in Orgs
          PROVE  Len(audit'[p]) + 1 <= visits'
      <3>1. Len(audit[p]) + 0 <= visits /\ audit[p] \in Seq(Entry)
        BY <1>4 DEF AuditInv, RowsCounted, Pending, NoVisit, AccessTypeOK
      <3>2. QED
        BY <1>4, <1>5, <3>1
    <2>2. QED
      BY <1>6, <2>1 DEF RowsCounted, Pending, Orgs
  <1>10. VisitSound'
    BY <1>6 DEF VisitSound
  <1>11. HandedSound'
    BY <1>4 DEF AuditInv, HandedSound, Recorded, Documents, Orgs, Audited, Kinds
  <1>12. QED
    BY <1>8, <1>9, <1>10, <1>11 DEF AuditInv

\* A step of a visit that writes no row keeps what is counted and what was handed out.
LEMMA VisitMoves ==
    ASSUME AuditInv, visit \in Visit, visit' \in Visit, VisitSound',
           visit.step \in {"privacy", "read"}, visit'.step # "privacy",
           UNCHANGED <<audit, minted, tenants, handed, visits>>
    PROVE  AuditInv'
  <1>1. AccessTypeOK'
    BY DEF AuditInv, AccessTypeOK, Entry, Visit, NoVisit, Kinds, Orgs, Actors, Ids
  <1>2. RowsCounted'
    <2>1. ASSUME NEW p \in Orgs
          PROVE  Len(audit[p]) + 1 <= visits
      BY DEF AuditInv, RowsCounted, Pending
    <2>2. Pending' \in {0, 1}
      BY DEF Pending
    <2>3. ASSUME NEW p \in Orgs
          PROVE  Len(audit'[p]) + Pending' <= visits'
      <3>1. Len(audit[p]) \in Nat /\ visits \in Nat /\ Len(audit[p]) + 1 <= visits
        BY <2>1 DEF AuditInv, AccessTypeOK
      <3>2. audit'[p] = audit[p] /\ visits' = visits
        OBVIOUS
      <3> HIDE DEF Pending
      <3>3. QED
        BY <2>2, <3>1, <3>2
    <2>4. QED
      BY <2>3 DEF RowsCounted, Orgs
  <1>3. HandedSound'
    BY DEF AuditInv, HandedSound, Recorded, Documents, Orgs, Audited, Kinds
  <1>4. QED
    BY <1>1, <1>2, <1>3 DEF AuditInv

LEMMA VisitIs ==
    ASSUME AuditInv, visit.step # "none"
    PROVE  /\ visit \in Visit /\ visit # NoVisit
           /\ visit.names # {} => visit.named
           /\ visit.kind \in {"digest", "drill"} => ~visit.named
           /\ visit.kind = "console_topics" => visit.names = {}
           /\ visit.step \in {"privacy", "read"} => visit.names = {}
  BY DEF AuditInv, AccessTypeOK, VisitSound, NoVisit

LEMMA PrivacyKeeps ==
    ASSUME AuditInv, ReadPrivacy
    PROVE  AuditInv'
  <1>1. PICK named \in BOOLEAN :
            named = (visit.kind = "ask" \/ (visit.kind \notin {"digest", "drill"} /\ privacy_open(visit.org)))
    OBVIOUS
  <1>2. /\ visit' = [visit EXCEPT !.step = "read", !.named = named] /\ visit.step = "privacy"
        /\ UNCHANGED <<audit, minted, tenants, handed, visits>>
    BY <1>1 DEF ReadPrivacy, tables, tokens
  <1>3. visit \in Visit
    BY <1>2, VisitIs
  <1>4. /\ visit' \in Visit /\ visit'.step = "read" /\ visit'.named = named
        /\ visit'.kind = visit.kind /\ visit'.names = visit.names
    BY <1>2, <1>3 DEF Visit
  <1>5. visit.names = {}
    BY <1>2, VisitIs
  <1>6. QED
    BY <1>1, <1>2, <1>3, <1>4, <1>5, VisitMoves DEF VisitSound

LEMMA ReadKeeps ==
    ASSUME AuditInv, stored \subseteq Digests, ReadSessions
    PROVE  AuditInv'
  <1> DEFINE Read(S, cited) ==
                visit' = [visit EXCEPT !.step = IF visit.kind \in Audited THEN "record" ELSE "answer",
                             !.names = IF visit.named /\ visit.kind # "console_topics" THEN Contributors(S) ELSE {},
                             !.cites = cited]
  <1>0. PICK S \in Matched(visit.kind, visit.org, visit.named) :
            \E cited \in Citable(visit.kind, {d.id : d \in S}) : Read(S, cited)
    BY DEF ReadSessions
  <1>1. PICK cited \in Citable(visit.kind, {d.id : d \in S}) : Read(S, cited)
    BY <1>0
  <1>2. PICK step : step = IF visit.kind \in Audited THEN "record" ELSE "answer"
    OBVIOUS
  <1>3. PICK names : names = IF visit.named /\ visit.kind # "console_topics" THEN Contributors(S) ELSE {}
    OBVIOUS
  <1>4. /\ visit' = [visit EXCEPT !.step = step, !.names = names, !.cites = cited] /\ visit.step = "read"
        /\ UNCHANGED <<audit, minted, tenants, handed, visits>>
    BY <1>1, <1>2, <1>3 DEF ReadSessions, tables, tokens
  <1>5. visit \in Visit
    BY <1>4, VisitIs
  <1>6. visit.kind \in Kinds
    BY <1>5 DEF Visit
  <1>7. S \subseteq Digests
    BY <1>6, MatchedStored
  <1>8. names \in SUBSET Actors
    BY <1>3, <1>7 DEF Contributors, Actors
  <1>9. cited \in SUBSET Ids
    BY <1>6, <1>7, CitableShown DEF Ids
  <1>10. /\ visit' \in Visit /\ visit'.step = step /\ visit'.named = visit.named
         /\ visit'.kind = visit.kind /\ visit'.names = names
    BY <1>2, <1>4, <1>5, <1>8, <1>9 DEF Visit
  <1>11. VisitSound'
    <2>1. names # {} => visit.named /\ visit.kind # "console_topics"
      BY <1>3
    <2>2. visit.kind \in {"digest", "drill"} => ~visit.named
      BY <1>4, VisitIs
    <2>3. step = "answer" => visit.kind \notin Audited /\ (names # {} => visit.kind = "browse")
      BY <1>2, <1>6, <2>1, <2>2 DEF Audited, Kinds
    <2>4. step \in {"answer", "record"}
      BY <1>2
    <2>5. QED
      BY <1>10, <2>1, <2>2, <2>3, <2>4 DEF VisitSound, Recorded, Audited, Kinds
  <1>12. QED
    BY <1>2, <1>4, <1>5, <1>10, <1>11, VisitMoves

\* Writing the row: the audit of the org grows by it, and every other stays.
LEMMA RecordKeeps ==
    ASSUME AuditInv, RecordFounderQuery
    PROVE  AuditInv'
  <1>1. visit.step = "record" /\ UNCHANGED <<minted, tenants, handed, visits>>
    BY DEF RecordFounderQuery, tokens
  <1>2. visit \in Visit
    BY <1>1, VisitIs
  <1>3. /\ visit.kind \in Kinds /\ visit.org \in Orgs /\ visit.n \in Nat
        /\ visit.named \in BOOLEAN /\ visit.cites \in SUBSET Ids
    BY <1>2 DEF Visit
  <1>4. PICK individual \in BOOLEAN : individual = Individual(visit)
    BY <1>3 DEF Individual, privacy_open
  <1>5. PICK insufficient \in BOOLEAN : insufficient = (visit.kind # "topics" /\ visit.cites = {})
    OBVIOUS
  <1>6. PICK e : e = [n |-> visit.n, kind |-> visit.kind, individual |-> individual, cites |-> visit.cites,
                      insufficient |-> insufficient]
    OBVIOUS
  <1>7. PICK o \in Orgs : o = visit.org
    BY <1>3
  <1>8. audit' = [audit EXCEPT ![o] = Append(@, e)]
    BY <1>4, <1>5, <1>6, <1>7 DEF RecordFounderQuery
  <1>9. e \in Entry
    BY <1>3, <1>6 DEF Entry
  <1>10. audit \in [Orgs -> Seq(Entry)]
    BY DEF AuditInv, AccessTypeOK
  <1>11. /\ audit' \in [Orgs -> Seq(Entry)] /\ audit'[o] = Append(audit[o], e)
         /\ \A p \in Orgs : p # o => audit'[p] = audit[p]
    BY <1>8, <1>9, <1>10
  <1>12. /\ Len(audit'[o]) = Len(audit[o]) + 1 /\ e \in Range(audit'[o])
         /\ Range(audit[o]) \subseteq Range(audit'[o])
    <2>1. audit[o] \in Seq(Entry)
      BY <1>10
    <2>2. /\ Len(Append(audit[o], e)) = Len(audit[o]) + 1 /\ Append(audit[o], e)[Len(audit[o]) + 1] = e
          /\ \A i \in 1 .. Len(audit[o]) : Append(audit[o], e)[i] = audit[o][i]
          /\ DOMAIN Append(audit[o], e) = 1 .. Len(audit[o]) + 1 /\ Len(audit[o]) \in Nat
          /\ DOMAIN audit[o] = 1 .. Len(audit[o])
      BY <1>9, <2>1
    <2>3. QED
      BY <1>11, <2>2, SMTT(30) DEF Range
  <1>13. \A p \in Orgs : Range(audit[p]) \subseteq Range(audit'[p])
    BY <1>11, <1>12
  <1>14. visit' = [visit EXCEPT !.step = "answer"]
    BY DEF RecordFounderQuery
  <1>15. /\ visit' \in Visit /\ visit'.step = "answer" /\ visit'.kind = visit.kind /\ visit'.n = visit.n
         /\ visit'.org = o /\ visit'.named = visit.named /\ visit'.names = visit.names
         /\ visit'.cites = visit.cites
    BY <1>2, <1>7, <1>14 DEF Visit
  <1>16. AccessTypeOK'
    BY <1>1, <1>11, <1>15 DEF AuditInv, AccessTypeOK, Entry, Visit, NoVisit, Kinds, Orgs, Actors, Ids
  <1>17. RowsCounted'
    <2>1. Pending' = 0 /\ Pending = 1
      BY <1>1, <1>15 DEF Pending
    <2>2. ASSUME NEW p \in Orgs
          PROVE  Len(audit'[p]) <= visits'
      <3>1. Len(audit[p]) \in Nat /\ visits \in Nat /\ Len(audit[p]) + 1 <= visits
        BY <1>10, <2>1 DEF AuditInv, RowsCounted, AccessTypeOK
      <3>2. Len(audit'[p]) = Len(audit[p]) + 1 \/ Len(audit'[p]) = Len(audit[p])
        BY <1>11, <1>12
      <3>3. QED
        BY <1>1, <3>1, <3>2
    <2>3. \A p \in Orgs : Len(audit'[p]) \in Nat
      BY <1>11
    <2>4. QED
      BY <2>1, <2>2, <2>3 DEF RowsCounted, Orgs
  <1>18. VisitSound'
    <2>1. visit.names # {} => visit.named /\ visit.kind # "drill"
      BY <1>1, VisitIs
    <2>2. visit.names # {} => individual
      BY <1>4, <2>1 DEF Individual
    <2>3. Documents(e, visit')
      BY <1>6, <1>15, <2>2 DEF Documents
    <2>4. visit'.names # {} => visit'.kind \in Audited \cup {"browse"}
      BY <1>1, <1>3, <1>15, VisitIs DEF Audited, Kinds
    <2>5. Recorded(visit)'
      BY <1>12, <1>15, <2>3, <2>4 DEF Recorded, Documents, Audited, Kinds
    <2>6. QED
      BY <1>1, <1>15, <2>5, VisitIs DEF VisitSound
  <1>19. HandedSound'
    <2>1. ASSUME NEW h \in handed
          PROVE  h.org \in Orgs /\ Recorded(h)'
      <3>1. h.org \in Orgs /\ Recorded(h)
        BY DEF AuditInv, HandedSound
      <3>2. QED
        BY <1>13, <3>1, StillRecorded
    <2>2. QED
      BY <1>1, <2>1 DEF HandedSound, Recorded, Documents, Orgs, Audited, Kinds
  <1>20. QED
    BY <1>16, <1>17, <1>18, <1>19 DEF AuditInv

\* A visit ends: what it handed out was recorded.
LEMMA LeaveKeeps ==
    ASSUME AuditInv, visit' = NoVisit, UNCHANGED <<audit, minted, tenants, visits>>,
           \A h \in handed' : h \in handed \/ (h.org \in Orgs /\ Recorded(h))
    PROVE  AuditInv'
  <1>1. AccessTypeOK'
    BY DEF AuditInv, AccessTypeOK, Entry, Visit, NoVisit, Kinds, Orgs, Actors, Ids
  <1>2. RowsCounted'
    <2>1. ASSUME NEW p \in Orgs
          PROVE  Len(audit[p]) + 0 <= visits
      <3>1. Len(audit[p]) + Pending <= visits /\ Len(audit[p]) \in Nat /\ visits \in Nat
        BY DEF AuditInv, RowsCounted, AccessTypeOK
      <3>2. Pending \in {0, 1}
        BY DEF Pending
      <3> HIDE DEF Pending
      <3>3. QED
        BY <3>1, <3>2
    <2>2. Pending' = 0
      BY DEF Pending, NoVisit
    <2>3. QED
      BY <2>1, <2>2 DEF RowsCounted, Orgs
  <1>3. VisitSound'
    BY DEF VisitSound, NoVisit
  <1>4. HandedSound'
    BY DEF AuditInv, HandedSound, Recorded, Documents, Orgs, Audited, Kinds
  <1>5. QED
    BY <1>1, <1>2, <1>3, <1>4 DEF AuditInv

LEMMA HandOutKeeps ==
    ASSUME AuditInv, HandOut
    PROVE  AuditInv'
  <1>1. PICK h : h = [n |-> visit.n, kind |-> visit.kind, org |-> visit.org, names |-> visit.names,
                      cites |-> visit.cites, late |-> visit.late]
    OBVIOUS
  <1>2. /\ visit.step = "answer" /\ visit' = NoVisit
        /\ handed' = IF visit.swept THEN handed ELSE handed \cup {h}
        /\ UNCHANGED <<audit, minted, tenants, visits>>
    BY <1>1 DEF HandOut, tables, tokens
  <1>3. visit \in Visit /\ visit # NoVisit
    BY <1>2, VisitIs
  <1>4. ASSUME ~visit.swept
        PROVE  h.org \in Orgs /\ Recorded(h)
    <2>1. Recorded(visit)
      BY <1>2, <1>3, <1>4 DEF AuditInv, VisitSound
    <2>2. /\ h.n = visit.n /\ h.kind = visit.kind /\ h.org = visit.org /\ h.names = visit.names
          /\ h.cites = visit.cites
      BY <1>1
    <2>3. Recorded(h)
      BY <2>1, <2>2 DEF Recorded, Documents
    <2>4. h.org \in Orgs
      BY <1>3, <2>2 DEF Visit
    <2>5. QED
      BY <2>3, <2>4
  <1>5. \A g \in handed' : g \in handed \/ (g.org \in Orgs /\ Recorded(g))
    BY <1>2, <1>4
  <1>6. QED
    BY <1>2, <1>5, LeaveKeeps

LEMMA NoAnswerKeeps ==
    ASSUME AuditInv, NoAnswer
    PROVE  AuditInv'
  <1>1. visit' = NoVisit /\ UNCHANGED <<audit, minted, tenants, visits, handed>>
    BY DEF NoAnswer, tables, tokens
  <1>2. QED
    BY <1>1, LeaveKeeps

\* Deleting an org empties its audit, and forgets the answers handed out about it.
LEMMA DeleteKeeps ==
    ASSUME AuditInv, NEW by, NEW o \in Orgs, delete_org(by, o)
    PROVE  AuditInv'
  <1>1. /\ audit' = [audit EXCEPT ![o] = <<>>] /\ handed' = {h \in handed : h.org # o}
        /\ tenants' = tenants \ {o} /\ minted' = minted /\ visits' = visits
        /\ visit' = IF visit # NoVisit /\ visit.org = o THEN [visit EXCEPT !.swept = TRUE] ELSE visit
    BY DEF delete_org, tokens, Acts
  <1>2. <<>> \in Seq(Entry) /\ Len(<<>>) = 0
    OBVIOUS
  <1>3. audit \in [Orgs -> Seq(Entry)] /\ visit \in Visit \cup {NoVisit} /\ visits \in Nat
    BY DEF AuditInv, AccessTypeOK
  <1>4. /\ audit' \in [Orgs -> Seq(Entry)] /\ audit'[o] = <<>>
        /\ \A p \in Orgs : p # o => audit'[p] = audit[p]
    BY <1>1, <1>2, <1>3
  <1>5. /\ visit' \in Visit \cup {NoVisit} /\ visit'.step = visit.step
        /\ visit' # NoVisit => visit # NoVisit
    <2>1. CASE visit # NoVisit /\ visit.org = o
      <3>1. visit \in Visit /\ visit' = [visit EXCEPT !.swept = TRUE]
        BY <1>1, <1>3, <2>1
      <3>2. QED
        BY <2>1, <3>1 DEF Visit
    <2>2. CASE ~(visit # NoVisit /\ visit.org = o)
      BY <1>1, <1>3, <2>2
    <2>3. QED
      BY <2>1, <2>2
  <1>6. AccessTypeOK'
    BY <1>1, <1>4, <1>5 DEF AuditInv, AccessTypeOK, Entry, Visit, NoVisit, Kinds, Orgs, Actors, Ids
  <1>7. RowsCounted'
    <2>1. Pending' = Pending
      BY <1>5 DEF Pending
    <2>2. ASSUME NEW p \in Orgs
          PROVE  Len(audit'[p]) + Pending <= visits
      <3>1. Len(audit[p]) + Pending <= visits /\ Len(audit[p]) \in Nat
        BY <1>3 DEF AuditInv, RowsCounted
      <3>2. Pending \in {0, 1}
        BY DEF Pending
      <3>3. audit'[p] = audit[p] \/ Len(audit'[p]) = 0
        BY <1>2, <1>4
      <3> HIDE DEF Pending
      <3>4. QED
        BY <1>3, <3>1, <3>2, <3>3
    <2>3. QED
      BY <1>1, <2>1, <2>2 DEF RowsCounted, Orgs
  <1>8. \A p \in Orgs \ {o} : Range(audit[p]) \subseteq Range(audit'[p])
    BY <1>4
  <1>9. VisitSound'
    <2>1. CASE visit = NoVisit
      BY <1>1, <2>1 DEF VisitSound, NoVisit
    <2>2. CASE visit # NoVisit /\ visit.org = o
      <3>1. visit \in Visit /\ visit' = [visit EXCEPT !.swept = TRUE]
        BY <1>1, <1>3, <2>2
      <3>2. /\ visit'.swept = TRUE /\ visit'.names = visit.names /\ visit'.named = visit.named
            /\ visit'.kind = visit.kind /\ visit'.step = visit.step
        BY <3>1 DEF Visit
      <3>3. QED
        BY <2>2, <3>2 DEF AuditInv, VisitSound
    <2>3. CASE visit # NoVisit /\ visit.org # o
      <3>1. visit' = visit /\ visit.org \in Orgs \ {o}
        BY <1>1, <1>3, <2>3 DEF Visit
      <3>2. visit.step = "answer" /\ ~visit.swept => Recorded(visit)
        BY <2>3 DEF AuditInv, VisitSound
      <3>3. visit.step = "answer" /\ ~visit.swept => Recorded(visit)'
        BY <1>8, <3>1, <3>2, StillRecorded
      <3>4. QED
        BY <2>3, <3>1, <3>3 DEF AuditInv, VisitSound
    <2>4. QED
      BY <2>1, <2>2, <2>3
  <1>10. HandedSound'
    <2>1. ASSUME NEW h \in handed'
          PROVE  h.org \in Orgs /\ Recorded(h)'
      <3>1. h \in handed /\ h.org \in Orgs \ {o} /\ Recorded(h)
        BY <1>1 DEF AuditInv, HandedSound
      <3>2. QED
        BY <1>8, <3>1, StillRecorded
    <2>2. QED
      BY <2>1 DEF HandedSound, Recorded, Documents, Orgs, Audited, Kinds
  <1>11. QED
    BY <1>6, <1>7, <1>9, <1>10 DEF AuditInv

\* A token that was revoked at some time is among the revoked ones still.
TokensShut == killed \subseteq revoked /\ revoked \subseteq Tokens

\* Every other request leaves the visit, the audit and what was handed out alone.
Elsewhere ==
    /\ UNCHANGED <<audit, visit, handed, visits>> /\ minted' \subseteq Tokens /\ tenants' \subseteq Orgs
    /\ TokensShut => TokensShut'

LEMMA TokensElsewhere ==
    ASSUME AccessTypeOK, NEW by, NEW t \in Tokens,
           Minted(by, t) \/ revoke_token(by, t) \/ Expire(t)
    PROVE  Elsewhere
  <1>1. ASSUME Mint(t), Acts
        PROVE  Elsewhere
    BY <1>1 DEF Mint, Acts, tables, tokens, AccessTypeOK, Elsewhere, TokensShut
  <1>2. ASSUME Minted(by, t)
        PROVE  Mint(t) /\ Acts
    BY <1>2 DEF Minted, mint_token, mint_founder_token, api_token, ui_engineer_token, engineer_token,
                mint_engineer_token, MintsEngineer
  <1>3. ASSUME revoke_token(by, t) \/ Expire(t)
        PROVE  Elsewhere
    BY <1>3 DEF revoke_token, Expire, Acts, tables, tokens, AccessTypeOK, Elsewhere, TokensShut
  <1>4. QED
    BY <1>1, <1>2, <1>3

LEMMA InvitesElsewhere ==
    ASSUME AccessTypeOK, NEW by, NEW o, NEW c, Invited(by, o, c)
    PROVE  Elsewhere
  <1>1. ASSUME NEW p, NEW team, NEW bound, Offer(by, c, p, team, bound)
        PROVE  Elsewhere
    BY <1>1 DEF Offer, Acts, tokens, AccessTypeOK, Elsewhere, TokensShut
  <1>2. ASSUME NEW p, revoke_invite(by, p, c)
        PROVE  Elsewhere
    BY <1>2 DEF revoke_invite, Acts, tokens, AccessTypeOK, Elsewhere, TokensShut
  <1>3. QED
    BY <1>1, <1>2 DEF Invited, ui_invite, create_invite, founder_create_invite, ui_invite_revoke,
                      capi_revoke_invite, founder_revoke_invite

LEMMA OthersElsewhere ==
    ASSUME AccessTypeOK, NEW by, NEW o \in Orgs,
           \/ create_org(by, o)
           \/ \E c \in Codes : Invited(by, o, c)
           \/ \E m \in DOMAIN MemberOf : ui_promote(by, m) \/ promote(by, o, m)
           \/ \E mode \in {"open", "k_anon"} : set_privacy(by, o, mode)
    PROVE  Elsewhere
  <1>1. ASSUME create_org(by, o)
        PROVE  Elsewhere
    BY <1>1 DEF create_org, Acts, tokens, AccessTypeOK, Elsewhere, TokensShut
  <1>2. ASSUME NEW c \in Codes, Invited(by, o, c)
        PROVE  Elsewhere
    BY <1>2, InvitesElsewhere
  <1>3. ASSUME NEW m \in DOMAIN MemberOf, ui_promote(by, m) \/ promote(by, o, m)
        PROVE  Elsewhere
    <2>1. ASSUME NEW p, set_identity_role(by, p, m)
          PROVE  Elsewhere
      BY <2>1 DEF set_identity_role, Acts, tokens, AccessTypeOK, Elsewhere, TokensShut
    <2>2. QED
      BY <1>3, <2>1 DEF ui_promote, promote
  <1>4. ASSUME NEW mode, set_privacy(by, o, mode)
        PROVE  Elsewhere
    BY <1>4 DEF set_privacy, Acts, tokens, AccessTypeOK, Elsewhere, TokensShut
  <1>5. QED
    BY <1>1, <1>2, <1>3, <1>4

LEMMA EnrollElsewhere ==
    ASSUME AccessTypeOK, NEW t \in Tokens, NEW c, enroll(c, t)
    PROVE  Elsewhere
  BY DEF enroll, Acts, AccessTypeOK, Elsewhere, TokensShut

LEMMA NextAudit ==
    ASSUME AuditInv, stored \subseteq Digests, AccessNext
    PROVE  AuditInv' /\ stored' \subseteq Digests
  <1>1. stored' \subseteq Digests
    <2>1. CASE UNCHANGED pagevars
      BY <2>1 DEF pagevars
    <2>2. CASE \E by \in Credentials, o \in Orgs : delete_org(by, o)
      BY <2>2 DEF delete_org, Emptied
    <2>3. QED
      BY <2>1, <2>2 DEF AccessNext
  <1>2. ASSUME Elsewhere
        PROVE  AuditInv'
    BY <1>2, QuietAudit DEF Elsewhere
  <1>3. ASSUME NEW by \in Credentials, NEW o \in Orgs, Asked(by, o)
        PROVE  AuditInv'
    BY <1>3, ArriveKeeps DEF Asked
  <1>4. AccessTypeOK
    BY DEF AuditInv
  <1>5. ASSUME NEW by \in Credentials, NEW o \in Orgs,
               \/ create_org(by, o)
               \/ \E c \in Codes : Invited(by, o, c)
               \/ \E m \in DOMAIN MemberOf : ui_promote(by, m) \/ promote(by, o, m)
               \/ \E mode \in {"open", "k_anon"} : set_privacy(by, o, mode)
        PROVE  Elsewhere
    BY <1>4, <1>5, OthersElsewhere
  <1>6. ASSUME NEW by, NEW t \in Tokens, Minted(by, t) \/ revoke_token(by, t) \/ Expire(t)
        PROVE  Elsewhere
    BY <1>4, <1>6, TokensElsewhere
  <1>7. ASSUME NEW t \in Tokens, NEW c \in Codes, enroll(c, t)
        PROVE  Elsewhere
    BY <1>4, <1>7, EnrollElsewhere
  <1>8. AuditInv'
    BY <1>2, <1>3, <1>5, <1>6, <1>7, PrivacyKeeps, ReadKeeps, RecordKeeps, HandOutKeeps, NoAnswerKeeps,
       DeleteKeeps DEF AccessNext
  <1>9. QED
    BY <1>1, <1>8

\* A question that names nobody is shown only cells and groups of enough people.
LEMMA QueryAnonymous ==
    ASSUME stored \subseteq Digests, NEW org, NEW spec, NEW named \in BOOLEAN, Query(org, spec, named)
    PROVE  KAnonymous'
  <1> DEFINE S == query_compactions(org, ResolvedActor(org, spec, named), All)
             R == run_query(org, spec, named)
             ids == {d.id : d \in R.visible}
  <1>1. PICK piece \in PiecesOver(ids) :
            answer' = [given |-> _match_citations({piece}, ids) # {}, cites |-> _match_citations({piece}, ids),
                       org |-> org, named |-> named, matched |-> R.matched, rollup |-> R.rollup]
    BY DEF Query
  <1>2. PICK cited : cited = _match_citations({piece}, ids)
    OBVIOUS
  <1>3. /\ answer'.cites = cited /\ answer'.named = named
        /\ answer'.matched = R.matched /\ answer'.rollup = R.rollup
    BY <1>1, <1>2
  <1>4. cited \subseteq ids
    BY <1>2 DEF _match_citations
  <1> SUFFICES ASSUME ~named
               PROVE  KAnonymous'
    BY <1>3 DEF KAnonymous
  <1>5. /\ R.matched = S /\ R.visible \subseteq kept_cells(S)
        /\ R.rollup \subseteq Groups(S, "project") \cup Groups(S, "outcome")
    BY DEF run_query
  <1>6. S \subseteq Digests
    BY DEF query_compactions, Newest
  <1> HIDE DEF S, R
  <1>7. ASSUME NEW d \in S, d.id \in cited
        PROVE  Cardinality(Contributors(Cell(S, d))) >= K_ANON_FLOOR
    <2>1. PICK e \in R.visible : e.id = d.id
      BY <1>4, <1>7
    <2>2. e \in kept_cells(S) /\ e \in S
      BY <1>5, <2>1 DEF kept_cells
    <2>3. e = d
      BY <1>6, <2>1, <2>2, PagesAssumption
    <2>4. QED
      BY <2>2, <2>3 DEF kept_cells
  <1>8. ASSUME NEW v \in R.rollup
        PROVE  \E k \in {"project", "outcome"} : Cardinality(Contributors(Of3(S, k, v))) >= K_ANON_FLOOR
    BY <1>5 DEF Groups
  <1>9. PICK T, rollup : T = S /\ rollup = R.rollup
    OBVIOUS
  <1>10. answer'.cites = cited /\ answer'.matched = T /\ answer'.rollup = rollup
    BY <1>3, <1>5, <1>9
  <1>11. /\ \A d \in T : d.id \in cited => Cardinality(Contributors(Cell(T, d))) >= K_ANON_FLOOR
         /\ \A v \in rollup :
               \E k \in {"project", "outcome"} : Cardinality(Contributors(Of3(T, k, v))) >= K_ANON_FLOOR
    BY <1>7, <1>8, <1>9
  <1>12. QED
    BY <1>10, <1>11 DEF KAnonymous, Contributors, Cell, Of3

LEMMA NextAnonymous ==
    ASSUME stored \subseteq Digests, KAnonymous, QuestionsNext
    PROVE  KAnonymous'
  <1>1. ASSUME answer' = answer
        PROVE  KAnonymous'
    BY <1>1 DEF KAnonymous, Contributors, Cell, Of3
  <1>2. ASSUME Drill
        PROVE  answer' = answer \/ answer' = InsufficientData
    BY <1>2 DEF Drill
  <1>3. ASSUME answer' = InsufficientData
        PROVE  KAnonymous'
    BY <1>3 DEF KAnonymous, InsufficientData
  <1>4. ASSUME Answer
        PROVE  KAnonymous'
    <2>1. PICK piece :
             answer' = IF _match_citations({piece}, Shown(question)) = {} THEN InsufficientData
                       ELSE [given |-> TRUE, cites |-> _match_citations({piece}, Shown(question)), org |-> question.org,
                             named |-> TRUE, matched |-> question.sessions, rollup |-> {}]
      BY <1>4 DEF Answer
    <2>2. answer' = InsufficientData \/ answer'.named = TRUE
      BY <2>1
    <2>3. QED
      BY <1>3, <2>2 DEF KAnonymous
  <1>5. ASSUME NEW d \in Digests, Sync(d) \/ Purge(d)
        PROVE  answer' = answer
    BY <1>5 DEF Sync, Purge, qvars
  <1>6. ASSUME NEW n \in NoteRows, Learn(n) \/ Forget(n)
        PROVE  answer' = answer
    BY <1>6 DEF Learn, Forget, qvars
  <1>7. ASSUME NEW org, NEW spec, NEW m, Asking(org, spec, m) \/ OpenSessions(org, spec)
        PROVE  answer' = answer
    BY <1>7 DEF Asking, OpenSessions
  <1>8. ASSUME ReadNotes \/ ReadActivity \/ TurnPage \/ CloseSessions
        PROVE  answer' = answer
    BY <1>8 DEF ReadNotes, ReadActivity, TurnPage, CloseSessions
  <1>9. QED
    BY <1>1, <1>2, <1>3, <1>4, <1>5, <1>6, <1>7, <1>8, QueryAnonymous DEF QuestionsNext

LEMMA NextAnswers ==
    ASSUME AnswersInv,
           [(AccessNext /\ UNCHANGED qvars) \/ (QuestionsNext /\ UNCHANGED accessvars)]_<<accessvars, pagevars, qvars>>
    PROVE  AnswersInv'
  <1>1. ASSUME answer' = answer
        PROVE  KAnonymous'
    BY <1>1 DEF AnswersInv, KAnonymous, Contributors, Cell, Of3
  <1>2. ASSUME UNCHANGED accessvars
        PROVE  AuditInv'
    <2>1. AccessTypeOK
      BY DEF AnswersInv, AuditInv
    <2>2. UNCHANGED <<audit, visit, handed, visits>> /\ minted' \subseteq Tokens /\ tenants' \subseteq Orgs
      BY <1>2, <2>1 DEF accessvars, tables, tokens, AccessTypeOK
    <2>3. QED
      BY <2>2, QuietAudit DEF AnswersInv
  <1>3. CASE AccessNext /\ UNCHANGED qvars
    <2>1. answer' = answer
      BY <1>3 DEF qvars
    <2>2. QED
      BY <1>1, <1>3, <2>1, NextAudit DEF AnswersInv
  <1>4. CASE QuestionsNext /\ UNCHANGED accessvars
    <2>1. stored' \subseteq Digests
      <3>1. ASSUME NEW d \in Digests, Sync(d) \/ Purge(d)
            PROVE  stored' \subseteq Digests
        BY <3>1 DEF AnswersInv, Sync, Purge
      <3>2. ASSUME NEW n \in NoteRows, Learn(n) \/ Forget(n)
            PROVE  stored' \subseteq Digests
        BY <3>2 DEF AnswersInv, Learn, Forget
      <3>3. ASSUME UNCHANGED pagevars
            PROVE  stored' \subseteq Digests
        BY <3>3 DEF AnswersInv, pagevars
      <3>4. QED
        BY <1>4, <3>1, <3>2, <3>3
        DEF QuestionsNext, Query, Asking, ReadNotes, ReadActivity, Drill, Answer, OpenSessions, TurnPage, CloseSessions
    <2>2. QED
      BY <1>2, <1>4, <2>1, NextAnonymous DEF AnswersInv
  <1>5. CASE UNCHANGED <<accessvars, pagevars, qvars>>
    <2>1. answer' = answer /\ stored' = stored /\ UNCHANGED accessvars
      BY <1>5 DEF pagevars, qvars
    <2>2. QED
      BY <1>1, <1>2, <2>1 DEF AnswersInv
  <1>6. QED
    BY <1>3, <1>4, <1>5

\* The last hundred rows are all there are, and the audit page shows them.
LEMMA AuditShown ==
    ASSUME AuditInv, MaxVisits <= 100, NEW o \in Orgs
    PROVE  Range(audit[o]) \subseteq Range(founder_audit(o))
  <1>1. audit[o] \in Seq(Entry) /\ Len(audit[o]) \in Nat
    BY DEF AuditInv, AccessTypeOK
  <1>2. PICK s \in Seq(Entry) : s = audit[o]
    BY <1>1
  <1>3. Len(s) <= 100
    <2>1. Len(s) + Pending <= visits /\ visits \in Nat /\ visits <= MaxVisits /\ MaxVisits \in Nat
      BY <1>2, AccessAssumption DEF AuditInv, RowsCounted, AccessTypeOK
    <2>2. Pending \in {0, 1}
      BY DEF Pending
    <2> HIDE DEF Pending
    <2>3. QED
      BY <1>1, <1>2, <2>1, <2>2
  <1>4. Min({100, Len(s)}) = Len(s)
    <2>1. {100, Len(s)} \in SUBSET Nat /\ {100, Len(s)} # {}
      OBVIOUS
    <2>2. Min({100, Len(s)}) \in {100, Len(s)} /\ Min({100, Len(s)}) <= Len(s) /\ Min({100, Len(s)}) <= 100
      BY <2>1, LeastIsMin
    <2>3. QED
      BY <1>3, <2>2
  <1>5. founder_audit(o) = SubSeq(s, 1, Len(s))
    <2>1. founder_audit(o) = SubSeq(s, Len(s) - Min({100, Len(s)}) + 1, Len(s))
      BY <1>2 DEF founder_audit, list_founder_audit
    <2>2. Len(s) - Len(s) + 1 = 1
      OBVIOUS
    <2>3. QED
      BY <1>4, <2>1, <2>2
  <1>6. SubSeq(s, 1, Len(s)) = s
    OBVIOUS
  <1>7. QED
    BY <1>2, <1>5, <1>6
-----------------------------------------------------------------------------
\* Lists

LEMMA NewerCounts ==
    ASSUME NEW S \in SUBSET Digests, NEW d
    PROVE  /\ IsFiniteSet({e \in S : e.at > d.at}) /\ Cardinality({e \in S : e.at > d.at}) \in Nat
           /\ IsFiniteSet(S) /\ Cardinality(S) \in Nat
  <1>1. IsFiniteSet(S)
    BY PagesAssumption, FS_Subset
  <1>2. {e \in S : e.at > d.at} \in SUBSET S
    OBVIOUS
  <1>3. QED
    BY <1>1, <1>2, FS_Subset, FS_CardinalityType

\* What is among the newest of a list is among the newest of another that has nothing
\* newer.
LEMMA NewestMore ==
    ASSUME NEW S \in SUBSET Digests, NEW T \in SUBSET Digests, NEW n \in Nat, NEW d \in Newest(S, n), d \in T,
           \A e \in T : e.at > d.at => e \in S
    PROVE  d \in Newest(T, n)
  <1> DEFINE N == {e \in S : e.at > d.at}
             M == {e \in T : e.at > d.at}
  <1>1. M \in SUBSET N
    OBVIOUS
  <1>2. Cardinality(N) < n
    BY DEF Newest
  <1>3. IsFiniteSet(N) /\ Cardinality(N) \in Nat /\ Cardinality(M) \in Nat
    BY NewerCounts
  <1>4. Cardinality(M) <= Cardinality(N)
    <2> HIDE DEF M, N
    <2>1. QED
      BY <1>1, <1>3, FS_Subset
  <1>5. Cardinality(M) < n
    <2> HIDE DEF M, N
    <2>1. QED
      BY <1>2, <1>3, <1>4
  <1>6. QED
    BY <1>5 DEF Newest

\* A list no longer than the limit is shown whole.
LEMMA NewestAll ==
    ASSUME NEW S \in SUBSET Digests, NEW n \in Nat, Cardinality(S) <= n
    PROVE  Newest(S, n) = S
  <1> SUFFICES ASSUME NEW d \in S
               PROVE  Cardinality({e \in S : e.at > d.at}) < n
    BY DEF Newest
  <1> DEFINE N == {e \in S : e.at > d.at}
  <1>1. d.at \in Nat
    BY PagesAssumption
  <1>2. N \in SUBSET S /\ d \notin N
    BY <1>1
  <1>3. IsFiniteSet(S) /\ Cardinality(S) \in Nat /\ Cardinality(N) \in Nat
    BY NewerCounts
  <1> HIDE DEF N
  <1>4. Cardinality(N) <= Cardinality(S) /\ (Cardinality(N) = Cardinality(S) => N = S)
    BY <1>2, <1>3, FS_Subset
  <1>5. Cardinality(N) < n
    BY <1>2, <1>3, <1>4
  <1>6. QED
    BY <1>5 DEF N

\* What leaves something out shows as many as it may: of those left out, the one with the
\* fewest newer has only shown ones before it.
LEMMA NewestFills ==
    ASSUME NEW S \in SUBSET Digests, NEW n \in Nat, Newest(S, n) # S
    PROVE  Cardinality(Newest(S, n)) >= n
  <1> DEFINE newer(d) == {e \in S : e.at > d.at}
             Shows == Newest(S, n)
             Out == S \ Shows
             T == {Cardinality(newer(d)) : d \in Out}
  <1>1. \A d : IsFiniteSet(newer(d)) /\ Cardinality(newer(d)) \in Nat
    BY NewerCounts
  <1>2. Shows = {d \in S : Cardinality(newer(d)) < n}
    BY DEF Newest
  <1>3. Out # {} /\ Out \in SUBSET S
    BY <1>2
  <1>4. \E c \in T : \A m \in T : c <= m
    <2>1. T \in SUBSET Nat
      BY <1>1
    <2>2. PICK d \in Out : TRUE
      BY <1>3
    <2>3. Cardinality(newer(d)) \in T
      BY <2>2
    <2> HIDE DEF T
    <2>4. QED
      BY <2>1, <2>3, Least
  <1>5. PICK d \in Out : \A e \in Out : Cardinality(newer(d)) <= Cardinality(newer(e))
    <2>1. PICK c \in T : \A m \in T : c <= m
      BY <1>4
    <2>2. PICK d \in Out : c = Cardinality(newer(d))
      BY <2>1
    <2>3. \A e \in Out : Cardinality(newer(e)) \in T
      OBVIOUS
    <2>4. \A e \in Out : Cardinality(newer(d)) <= Cardinality(newer(e))
      <3> HIDE DEF T, newer, Out
      <3>1. QED
        BY <2>1, <2>2, <2>3
    <2>5. QED
      BY <2>4
  <1>6. ASSUME NEW e \in newer(d)
        PROVE  e \in Shows
    <2>1. e \in S /\ e.at > d.at /\ \A x \in S : x.at \in Nat
      BY PagesAssumption
    <2>2. d \in S /\ newer(e) \in SUBSET newer(d) /\ e \notin newer(e)
      BY <1>3, <2>1
    <2>3. Cardinality(newer(e)) <= Cardinality(newer(d)) /\ Cardinality(newer(e)) # Cardinality(newer(d))
      <3>1. IsFiniteSet(newer(d)) /\ newer(e) # newer(d)
        BY <1>1, <1>6, <2>2
      <3> HIDE DEF newer
      <3>2. QED
        BY <2>2, <3>1, FS_Subset
    <2>4. Cardinality(newer(e)) \in Nat /\ Cardinality(newer(d)) \in Nat
      BY <1>1
    <2>5. e \in Out => Cardinality(newer(d)) <= Cardinality(newer(e))
      BY <1>5
    <2>6. e \notin Out
      <3> HIDE DEF newer, Out
      <3>1. QED
        BY <2>3, <2>4, <2>5
    <2>7. QED
      BY <2>1, <2>6
  <1>7. newer(d) \in SUBSET Shows /\ ~(Cardinality(newer(d)) < n)
    BY <1>2, <1>6
  <1>8. IsFiniteSet(Shows) /\ Cardinality(Shows) \in Nat
    <2>1. Shows \in SUBSET S /\ IsFiniteSet(S)
      BY <1>2, NewerCounts
    <2>2. QED
      BY <2>1, FS_Subset, FS_CardinalityType
  <1>9. Cardinality(newer(d)) <= Cardinality(Shows) /\ Cardinality(newer(d)) \in Nat
    <2> HIDE DEF newer, Shows
    <2>1. QED
      BY <1>1, <1>7, <1>8, FS_Subset
  <1>10. QED
    <2> HIDE DEF newer
    <2>1. QED
      BY <1>7, <1>8, <1>9

-----------------------------------------------------------------------------
\* Pages

LEMMA Windows ==
    ASSUME NEW n \in Nat, NEW d, NEW a
    PROVE  /\ Matches(d, Since(n)) <=> d.at >= Now - n
           /\ Matches(d, [Since(n) EXCEPT !.actor = a]) <=> d.at >= Now - n /\ (a = None \/ d.actor = a)
           /\ Matches(d, Of(a)) <=> a = None \/ d.actor = a
  <1>1. PICK s \in Int : s = Now - n
    BY PagesAssumption
  <1>2. s # None
    BY PagesAssumption
  <1>3. Since(n) = [project |-> None, outcome |-> None, actor |-> None, since |-> s, until |-> None]
    BY <1>1 DEF Since, Anything
  <1>4. [Since(n) EXCEPT !.actor = a] = [project |-> None, outcome |-> None, actor |-> a, since |-> s, until |-> None]
    BY <1>3
  <1>5. Of(a) = [project |-> None, outcome |-> None, actor |-> a, since |-> None, until |-> None]
    BY DEF Of, Anything
  <1>6. Matches(d, Since(n)) <=> d.at >= s
    BY <1>2, <1>3 DEF Matches
  <1>7. Matches(d, [Since(n) EXCEPT !.actor = a]) <=> d.at >= s /\ (a = None \/ d.actor = a)
    BY <1>2, <1>4 DEF Matches
  <1>8. Matches(d, Of(a)) <=> a = None \/ d.actor = a
    BY <1>5 DEF Matches
  <1>9. QED
    BY <1>1, <1>6, <1>7, <1>8

\* What the home page has read, every page with the longer window reads.
LEMMA HomeIsRead ==
    ASSUME stored \subseteq Digests, NEW org, NEW d \in query_compactions(org, Since(HOME_WINDOW_DAYS), All)
    PROVE  /\ d \in stored /\ d.org = org
           /\ d \in query_compactions(org, Since(PROJECT_WINDOW_DAYS), All)
           /\ d \in query_compactions(org, [Since(PROJECT_WINDOW_DAYS) EXCEPT !.actor = d.actor], All)
  <1> DEFINE H == {e \in stored : e.org = org /\ Matches(e, Since(HOME_WINDOW_DAYS))}
             P == {e \in stored : e.org = org /\ Matches(e, Since(PROJECT_WINDOW_DAYS))}
             A == {e \in stored : e.org = org /\ Matches(e, [Since(PROJECT_WINDOW_DAYS) EXCEPT !.actor = d.actor])}
  <1>1. d \in Newest(H, All)
    BY DEF query_compactions
  <1>2. d \in H
    BY <1>1 DEF Newest
  <1>3. \A e \in stored : e \in H <=> e.org = org /\ e.at >= Now - HOME_WINDOW_DAYS
    BY Windows, PagesAssumption
  <1>4. \A e \in stored : e \in P <=> e.org = org /\ e.at >= Now - PROJECT_WINDOW_DAYS
    BY Windows, PagesAssumption
  <1>5. \A e \in stored : e \in A =>
            e.org = org /\ e.at >= Now - PROJECT_WINDOW_DAYS /\ (d.actor = None \/ e.actor = d.actor)
    BY Windows, PagesAssumption
  <1>6. \A e \in stored : e.org = org /\ e.at >= Now - PROJECT_WINDOW_DAYS /\ e.actor = d.actor => e \in A
    BY Windows, PagesAssumption
  <1>7. H \in SUBSET Digests /\ P \in SUBSET Digests /\ A \in SUBSET Digests /\ d \in stored
    BY <1>2
  <1> HIDE DEF H, P, A
  <1>8. /\ Now \in Nat /\ HOME_WINDOW_DAYS \in Nat /\ PROJECT_WINDOW_DAYS \in Nat
        /\ HOME_WINDOW_DAYS <= PROJECT_WINDOW_DAYS /\ \A e \in stored : e.at \in Nat
    BY PagesAssumption
  <1>9. d \in P /\ d \in A
    <2>1. d.org = org /\ d.at >= Now - HOME_WINDOW_DAYS
      BY <1>2, <1>3, <1>7
    <2>2. d.at >= Now - PROJECT_WINDOW_DAYS
      BY <1>7, <1>8, <2>1
    <2>3. QED
      BY <1>4, <1>6, <1>7, <2>1, <2>2
  <1>10. ASSUME NEW e \in P \cup A, e.at > d.at
         PROVE  e \in H
    <2>1. e \in stored /\ e.org = org
      BY <1>4, <1>5, <1>7 DEF P, A
    <2>2. d.at >= Now - HOME_WINDOW_DAYS
      BY <1>2, <1>3, <1>7
    <2>3. e.at >= Now - HOME_WINDOW_DAYS
      BY <1>7, <1>8, <1>10, <2>1, <2>2
    <2>4. QED
      BY <1>3, <2>1, <2>3
  <1>11. All \in Nat
    BY DEF All
  <1>12. d \in Newest(P, All)
    BY <1>1, <1>7, <1>9, <1>10, <1>11, NewestMore
  <1>13. d \in Newest(A, All)
    BY <1>1, <1>7, <1>9, <1>10, <1>11, NewestMore
  <1>14. QED
    BY <1>2, <1>3, <1>7, <1>12, <1>13 DEF P, A, query_compactions

\* The rows of the two rollups.
LEMMA ProjectRow ==
    ASSUME NEW S, NEW r \in project_rollups(S), NEW U, U = {d \in S : d.project = r.project}
    PROVE  /\ is_real_project(r.project) /\ \E d \in S : d.project = r.project
           /\ r.sessions = Cardinality(U) /\ r.actors = {d.actor : d \in U}
  <1> DEFINE In(p) == {d \in S : d.project = p}
  <1>1. PICK p \in {q \in {d.project : d \in S} : is_real_project(q)} :
            r = [project |-> p, sessions |-> Cardinality(In(p)), actors |-> {d.actor : d \in In(p)},
                 mix |-> outcome_mix(In(p)), last |-> Latest(In(p))]
    BY DEF project_rollups
  <1>2. r.project = p /\ r.sessions = Cardinality(In(p)) /\ r.actors = {d.actor : d \in In(p)}
    BY <1>1
  <1>3. QED
    BY <1>1, <1>2

LEMMA ActivityRow ==
    ASSUME NEW S, NEW r \in activity_rollup(S), NEW U, U = {d \in S : d.actor = r.actor}
    PROVE  /\ \E d \in S : d.actor = r.actor
           /\ r.sessions = Cardinality(U)
           /\ r.projects = {p \in {d.project : d \in U} : is_real_project(p)}
  <1> DEFINE By(a) == {d \in S : d.actor = a}
  <1>1. PICK a \in {d.actor : d \in S} :
            r = [actor |-> a, sessions |-> Cardinality(By(a)), mix |-> outcome_mix(By(a)), last |-> Latest(By(a)),
                 projects |-> {p \in {d.project : d \in By(a)} : is_real_project(p)},
                 intents |-> {d.id : d \in Newest({d \in By(a) : ~is_pending(d)}, 5)}]
    BY DEF activity_rollup
  <1>2. /\ r.actor = a /\ r.sessions = Cardinality(By(a))
        /\ r.projects = {p \in {d.project : d \in By(a)} : is_real_project(p)}
    BY <1>1
  <1>3. QED
    BY <1>1, <1>2

\* Whoever was active is in the roster.
LEMMA RosterParts ==
    ASSUME RowsInv
    PROVE  RosterPartitioned
  <1> SUFFICES ASSUME NEW org \in Orgs
               PROVE  LET page == wiki_people([org |-> org], org)
                          active == {a.actor : a \in page.active}
                      IN  /\ active \cap page.quiet = {}
                          /\ active \cup page.quiet = list_actors(org)
    BY DEF RosterPartitioned
  <1>1. PICK Q : Q = query_compactions(org, Since(PROJECT_WINDOW_DAYS), All)
    OBVIOUS
  <1>2. PICK rows : rows = activity_rollup(Q)
    OBVIOUS
  <1>3. PICK quiet : quiet = list_actors(org) \ {a.actor : a \in rows}
    OBVIOUS
  <1>4. wiki_people([org |-> org], org) = [active |-> rows, quiet |-> quiet]
    BY <1>1, <1>2, <1>3 DEF wiki_people, scope
  <1>5. {a.actor : a \in rows} \subseteq list_actors(org)
    <2>1. ASSUME NEW a \in rows
          PROVE  a.actor \in list_actors(org)
      <3>0. a \in activity_rollup(Q)
        BY <1>2
      <3>1. PICK d \in Q : d.actor = a.actor
        BY <3>0, ActivityRow
      <3>2. d \in stored /\ d.org = org
        BY <1>1, <3>1 DEF query_compactions, Newest
      <3>3. <<org, d.actor>> \in roster
        BY <3>2 DEF RowsInv
      <3>4. <<org, d.actor>>[1] = org /\ <<org, d.actor>>[2] = d.actor
        OBVIOUS
      <3>5. QED
        BY <3>1, <3>3, <3>4 DEF list_actors
    <2>2. QED
      BY <2>1
  <1>6. QED
    BY <1>3, <1>4, <1>5

\* What the home page counts, the page it leads to counts too.
LEMMA ProjectGrows ==
    ASSUME NEW S, NEW T \in SUBSET Digests, NEW p \in project_rollups(S),
           \A d \in S : d.project = p.project => d \in T
    PROVE  \E r \in project_rollups(T) :
              r.project = p.project /\ r.sessions >= p.sessions /\ p.actors \subseteq r.actors
  <1>1. PICK U : U = {d \in S : d.project = p.project}
    OBVIOUS
  <1>2. PICK V : V = {d \in T : d.project = p.project}
    OBVIOUS
  <1>3. U \in SUBSET V /\ V \in SUBSET Digests
    BY <1>1, <1>2
  <1>4. IsFiniteSet(V) /\ Cardinality(V) \in Nat
    BY <1>3, NewerCounts
  <1>5. Cardinality(U) <= Cardinality(V) /\ Cardinality(U) \in Nat
    BY <1>3, <1>4, FS_Subset, FS_CardinalityType
  <1>6. /\ is_real_project(p.project) /\ \E d \in S : d.project = p.project
        /\ p.sessions = Cardinality(U) /\ p.actors = {d.actor : d \in U}
    BY <1>1, ProjectRow
  <1>7. PICK d \in S : d.project = p.project
    BY <1>6
  <1>8. d \in T /\ is_real_project(d.project)
    BY <1>6, <1>7
  <1>9. V = {e \in T : e.project = d.project}
    BY <1>2, <1>7
  <1>10. PICK r \in project_rollups(T) :
            r.project = p.project /\ r.sessions = Cardinality(V) /\ r.actors = {e.actor : e \in V}
    <2> DEFINE In(q) == {e \in T : e.project = q}
    <2>1. PICK q : q = d.project /\ V = In(q)
      BY <1>9
    <2>2. PICK r : r = [project |-> q, sessions |-> Cardinality(In(q)), actors |-> {e.actor : e \in In(q)},
                        mix |-> outcome_mix(In(q)), last |-> Latest(In(q))]
      OBVIOUS
    <2>3. r \in project_rollups(T)
      BY <1>8, <2>1, <2>2 DEF project_rollups
    <2>4. r.project = q /\ r.sessions = Cardinality(In(q)) /\ r.actors = {e.actor : e \in In(q)}
      BY <2>2
    <2> HIDE DEF In
    <2>5. QED
      BY <1>7, <2>1, <2>3, <2>4
  <1>11. r.sessions >= p.sessions
    BY <1>4, <1>5, <1>6, <1>10
  <1>12. p.actors \subseteq r.actors
    BY <1>3, <1>6, <1>10
  <1>13. QED
    BY <1>10, <1>11, <1>12

LEMMA ActivityGrows ==
    ASSUME NEW S, NEW T \in SUBSET Digests, NEW a \in activity_rollup(S),
           \A d \in S : d.actor = a.actor => d \in T
    PROVE  \E r \in activity_rollup(T) : r.sessions >= a.sessions /\ a.projects \subseteq r.projects
  <1>1. PICK U : U = {d \in S : d.actor = a.actor}
    OBVIOUS
  <1>2. PICK V : V = {d \in T : d.actor = a.actor}
    OBVIOUS
  <1>3. U \in SUBSET V /\ V \in SUBSET Digests
    BY <1>1, <1>2
  <1>4. IsFiniteSet(V) /\ Cardinality(V) \in Nat
    BY <1>3, NewerCounts
  <1>5. Cardinality(U) <= Cardinality(V) /\ Cardinality(U) \in Nat
    BY <1>3, <1>4, FS_Subset, FS_CardinalityType
  <1>6. /\ \E d \in S : d.actor = a.actor
        /\ a.sessions = Cardinality(U)
        /\ a.projects = {p \in {d.project : d \in U} : is_real_project(p)}
    BY <1>1, ActivityRow
  <1>7. PICK d \in S : d.actor = a.actor
    BY <1>6
  <1>8. d \in T
    BY <1>7
  <1>9. V = {e \in T : e.actor = d.actor}
    BY <1>2, <1>7
  <1>10. PICK r \in activity_rollup(T) :
            r.sessions = Cardinality(V) /\ r.projects = {p \in {e.project : e \in V} : is_real_project(p)}
    <2> DEFINE By(b) == {e \in T : e.actor = b}
    <2>1. PICK b : b = d.actor /\ V = By(b)
      BY <1>9
    <2>2. PICK r : r = [actor |-> b, sessions |-> Cardinality(By(b)), mix |-> outcome_mix(By(b)), last |-> Latest(By(b)),
                        projects |-> {p \in {e.project : e \in By(b)} : is_real_project(p)},
                        intents |-> {e.id : e \in Newest({e \in By(b) : ~is_pending(e)}, 5)}]
      OBVIOUS
    <2>3. r \in activity_rollup(T)
      BY <1>8, <2>1, <2>2 DEF activity_rollup
    <2>4. r.sessions = Cardinality(By(b)) /\ r.projects = {p \in {e.project : e \in By(b)} : is_real_project(p)}
      BY <2>2
    <2> HIDE DEF By
    <2>5. QED
      BY <2>1, <2>3, <2>4
  <1>11. r.sessions >= a.sessions
    BY <1>4, <1>5, <1>6, <1>10
  <1>12. a.projects \subseteq r.projects
    BY <1>3, <1>6, <1>10
  <1>13. QED
    BY <1>11, <1>12

LEMMA HomeLinks ==
    ASSUME RowsInv
    PROVE  HomeLinksWork
  <1> SUFFICES ASSUME NEW org \in Orgs
               PROVE  LET home == wiki_home([org |-> org], org)
                      IN  /\ \A p \in home.projects :
                               \E r \in project_page(org, p.row.project).rollup :
                                  /\ r.project = p.row.project /\ r.sessions >= p.row.sessions
                                  /\ p.row.actors \subseteq r.actors
                          /\ \A a \in home.people :
                               \E r \in wiki_person([org |-> org], org, a.actor).page.activity :
                                  /\ r.sessions >= a.sessions /\ a.projects \subseteq r.projects
                          /\ \A d \in home.stream : wiki_session([org |-> org], org, d.id) # {}
    BY DEF HomeLinksWork
  <1>0. stored \subseteq Digests
    BY DEF RowsInv
  <1>1. PICK H : H = query_compactions(org, Since(HOME_WINDOW_DAYS), All)
    OBVIOUS
  <1>2. PICK W : W = _readable(H)
    OBVIOUS
  <1>3. W = {d \in H : ~is_structural_junk(d)}
    BY <1>2 DEF _readable
  <1>4. scope([org |-> org], org) = org
    BY DEF scope
  <1>5. PICK home : home = wiki_home([org |-> org], org)
    OBVIOUS
  <1>6. /\ home.projects = {[row |-> r, status |-> project_status(r.last)] : r \in project_rollups(W)}
        /\ home.people = activity_rollup(W) /\ home.stream = Newest(Summarised(W), 10)
    <2>1. PICK feed : feed = discovery_feed(org)
      OBVIOUS
    <2>2. /\ feed.projects = project_rollups(W) /\ feed.people = activity_rollup(W)
          /\ feed.stream = Newest(Summarised(W), 10)
      BY <1>1, <1>2, <2>1 DEF discovery_feed
    <2>3. home = [stream |-> feed.stream, pending |-> feed.pending, people |-> feed.people,
                  projects |-> {[row |-> r, status |-> project_status(r.last)] : r \in feed.projects}]
      BY <1>4, <1>5, <2>1 DEF wiki_home
    <2>4. QED
      BY <2>2, <2>3
  <1>7. ASSUME NEW p \in home.projects
        PROVE  \E r \in project_page(org, p.row.project).rollup :
                  r.project = p.row.project /\ r.sessions >= p.row.sessions /\ p.row.actors \subseteq r.actors
    <2>1. PICK row \in project_rollups(W) : p.row = row
      BY <1>6
    <2>2. PICK T : T = _readable({d \in query_compactions(org, Since(PROJECT_WINDOW_DAYS), All) :
                                     d.project = row.project})
      OBVIOUS
    <2>3. project_page(org, row.project).rollup = project_rollups(T)
      BY <2>2 DEF project_page
    <2>4. T \in SUBSET Digests
      BY <1>0, <2>2 DEF _readable, query_compactions, Newest
    <2>5. \A d \in W : d.project = row.project => d \in T
      BY <1>0, <1>1, <1>3, <2>2, HomeIsRead DEF _readable
    <2>6. \E r \in project_rollups(T) :
             r.project = row.project /\ r.sessions >= row.sessions /\ row.actors \subseteq r.actors
      BY <2>4, <2>5, ProjectGrows
    <2>7. QED
      BY <2>1, <2>3, <2>6
  <1>8. ASSUME NEW a \in home.people
        PROVE  \E r \in wiki_person([org |-> org], org, a.actor).page.activity :
                  r.sessions >= a.sessions /\ a.projects \subseteq r.projects
    <2>1. a \in activity_rollup(W)
      BY <1>6
    <2>2. PICK T : T = _readable(query_compactions(org, [Since(PROJECT_WINDOW_DAYS) EXCEPT !.actor = a.actor], All))
      OBVIOUS
    <2>3. wiki_person([org |-> org], org, a.actor).page.activity = activity_rollup(T)
      <3>1. PICK page : page = person_page(org, a.actor)
        OBVIOUS
      <3>2. page.activity = activity_rollup(T)
        BY <2>2, <3>1 DEF person_page
      <3>3. wiki_person([org |-> org], org, a.actor).page = page
        BY <1>4, <3>1 DEF wiki_person
      <3>4. QED
        BY <3>2, <3>3
    <2>4. T \in SUBSET Digests
      BY <1>0, <2>2 DEF _readable, query_compactions, Newest
    <2>5. \A d \in W : d.actor = a.actor => d \in T
      BY <1>0, <1>1, <1>3, <2>2, HomeIsRead DEF _readable
    <2>6. \E r \in activity_rollup(T) : r.sessions >= a.sessions /\ a.projects \subseteq r.projects
      BY <2>1, <2>4, <2>5, ActivityGrows
    <2>7. QED
      BY <2>3, <2>6
  <1>9. ASSUME NEW d \in home.stream
        PROVE  wiki_session([org |-> org], org, d.id) # {}
    <2>1. d \in H
      BY <1>3, <1>6 DEF Newest, Summarised
    <2>2. d \in stored /\ d.org = org
      BY <1>0, <1>1, <2>1, HomeIsRead
    <2>3. d \in get_compaction(d.id, org)
      BY <2>2 DEF get_compaction
    <2>4. PICK row :
             row = [session |-> d, links |-> session_related(d, query_notes(org, None, None), _graph_window(org))]
      OBVIOUS
    <2>5. row \in wiki_session([org |-> org], org, d.id)
      BY <1>4, <2>3, <2>4 DEF wiki_session
    <2>6. QED
      BY <2>5
  <1>10. QED
    BY <1>5, <1>7, <1>8, <1>9

\* Who worked on a project.
PeopleOn(S, p) == {d.actor : d \in {d \in S : d.project = p}}

LEMMA NeighborRow ==
    ASSUME NEW S, NEW p, NEW e \in project_neighbors(S, p)
    PROVE  LET shared == PeopleOn(S, e.project) \cap PeopleOn(S, p)
           IN  e.weight = Cardinality(shared) /\ shared # {} /\ e.project # p
  <1>1. PICK r \in {r \in {d.project : d \in S} \ {p, ""} : PeopleOn(S, r) \cap PeopleOn(S, p) # {}} :
           e = [project |-> r, weight |-> Cardinality(PeopleOn(S, r) \cap PeopleOn(S, p))]
    BY DEF project_neighbors, PeopleOn
  <1>2. r = e.project /\ e.weight = Cardinality(PeopleOn(S, r) \cap PeopleOn(S, p))
    BY <1>1
  <1>3. QED
    BY <1>1, <1>2

LEMMA NeighborBack ==
    ASSUME NEW S, NEW p \in ProjectsOf(S), NEW q, p # q, PeopleOn(S, p) \cap PeopleOn(S, q) # {}
    PROVE  [project |-> p, weight |-> Cardinality(PeopleOn(S, p) \cap PeopleOn(S, q))] \in project_neighbors(S, q)
  <1>1. p \in {r \in {d.project : d \in S} \ {q, ""} : PeopleOn(S, r) \cap PeopleOn(S, q) # {}}
    BY DEF ProjectsOf
  <1>2. PICK f : f = [project |-> p, weight |-> Cardinality(PeopleOn(S, p) \cap PeopleOn(S, q))]
    OBVIOUS
  <1>3. f \in project_neighbors(S, q)
    BY <1>1, <1>2 DEF project_neighbors, PeopleOn
  <1>4. QED
    BY <1>2, <1>3

LEMMA NeighborMutual ==
    ASSUME NEW S, NEW p \in ProjectsOf(S), NEW e \in project_neighbors(S, p)
    PROVE  [project |-> p, weight |-> e.weight] \in project_neighbors(S, e.project)
  <1>1. PICK q : q = e.project
    OBVIOUS
  <1>2. e.weight = Cardinality(PeopleOn(S, q) \cap PeopleOn(S, p))
            /\ PeopleOn(S, q) \cap PeopleOn(S, p) # {} /\ q # p
    BY <1>1, NeighborRow
  <1>3. PeopleOn(S, q) \cap PeopleOn(S, p) = PeopleOn(S, p) \cap PeopleOn(S, q)
    OBVIOUS
  <1>4. [project |-> p, weight |-> Cardinality(PeopleOn(S, p) \cap PeopleOn(S, q))] \in project_neighbors(S, q)
    BY <1>2, <1>3, NeighborBack
  <1>5. QED
    BY <1>1, <1>2, <1>3, <1>4

\* Being related, and being neighbours, is mutual.
LEMMA Mutual == TiesMutual
  <1> SUFFICES ASSUME NEW org \in Orgs
               PROVE  LET S == _graph_window(org)
                          N == query_notes(org, None, None)
                      IN  /\ \A a, b \in {d.actor : d \in S} : Tie(S, N, a, b) = Tie(S, N, b, a)
                          /\ \A p, q \in {d.project : d \in S} \ {""} :
                               \A e \in project_neighbors(S, p) :
                                  e.project = q =>
                                      \E f \in project_neighbors(S, q) : f.project = p /\ f.weight = e.weight
    BY DEF TiesMutual
  <1> DEFINE S == _graph_window(org)
             N == query_notes(org, None, None)
  <1>3. ASSUME NEW a, NEW b
        PROVE  Tie(S, N, a, b) = Tie(S, N, b, a)
    <2>1. \A A, B : A \cap B = B \cap A
      OBVIOUS
    <2>2. {n \in N : {a, b} \subseteq n.actors} = {n \in N : {b, a} \subseteq n.actors}
      OBVIOUS
    <2>3. /\ ProjectsOf(_by_actor(S, a)) \cap ProjectsOf(_by_actor(S, b))
               = ProjectsOf(_by_actor(S, b)) \cap ProjectsOf(_by_actor(S, a))
          /\ FilesOf(_by_actor(S, a)) \cap FilesOf(_by_actor(S, b))
               = FilesOf(_by_actor(S, b)) \cap FilesOf(_by_actor(S, a))
      BY <2>1
    <2>4. QED
      BY <2>2, <2>3 DEF Tie
  <1>4. \A a, b \in {d.actor : d \in S} : Tie(S, N, a, b) = Tie(S, N, b, a)
    BY <1>3
  <1>5. \A p, q \in {d.project : d \in S} \ {""} :
           \A e \in project_neighbors(S, p) :
              e.project = q => \E f \in project_neighbors(S, q) : f.project = p /\ f.weight = e.weight
    <2> SUFFICES ASSUME NEW p \in ProjectsOf(S), NEW q \in ProjectsOf(S),
                        NEW e \in project_neighbors(S, p), e.project = q
                 PROVE  \E f \in project_neighbors(S, q) : f.project = p /\ f.weight = e.weight
      BY DEF ProjectsOf
    <2>1. [project |-> p, weight |-> e.weight] \in project_neighbors(S, q)
      <3> HIDE DEF S
      <3>1. [project |-> p, weight |-> e.weight] \in project_neighbors(S, e.project)
        BY NeighborMutual
      <3>2. QED
        BY <3>1, Zenon
    <2>2. PICK f \in project_neighbors(S, q) : f = [project |-> p, weight |-> e.weight]
      BY <2>1
    <2>3. f.project = p /\ f.weight = e.weight
      BY <2>2
    <2>4. QED
      BY <2>2, <2>3
  <1>6. QED
    BY <1>4, <1>5, Zenon DEF S, N

\* Every project with a session has its row.
LEMMA ProjectNamed ==
    ASSUME NEW S, NEW d \in S, is_real_project(d.project)
    PROVE  \E r \in project_rollups(S) : r.project = d.project
  <1> DEFINE In(p) == {e \in S : e.project = p}
  <1>1. PICK r : r = [project |-> d.project, sessions |-> Cardinality(In(d.project)),
                      actors |-> {e.actor : e \in In(d.project)}, mix |-> outcome_mix(In(d.project)),
                      last |-> Latest(In(d.project))]
    OBVIOUS
  <1>2. r \in project_rollups(S)
    BY <1>1 DEF project_rollups
  <1>3. r.project = d.project
    BY <1>1
  <1>4. QED
    BY <1>2, <1>3

\* A person has a page of their own sessions, all of them when they fit in the scan.
LEMMA Scanned ==
    ASSUME RowsInv, NEW org, NEW a \in list_actors(org),
           Cardinality({d \in stored : d.org = org /\ d.actor = a}) <= PERSON_SCAN_LIMIT
    PROVE  query_compactions(org, Of(a), PERSON_SCAN_LIMIT) = {d \in stored : d.org = org /\ d.actor = a}
  <1>1. a # None
    <2>1. PICK r \in roster : a = r[2]
      BY DEF list_actors
    <2>2. r \in Orgs \X Actors
      BY <2>1 DEF RowsInv
    <2>3. a \in Actors
      BY <2>1, <2>2
    <2>4. QED
      BY <2>3, PagesAssumption DEF Actors
  <1>2. PICK mine : mine = {d \in stored : d.org = org /\ d.actor = a}
    OBVIOUS
  <1>3. \A d : Matches(d, Of(a)) <=> d.actor = a
    BY <1>1, Windows, PagesAssumption
  <1>4. {d \in stored : d.org = org /\ Matches(d, Of(a))} = mine
    BY <1>2, <1>3
  <1>5. mine \in SUBSET Digests /\ Cardinality(mine) <= PERSON_SCAN_LIMIT /\ PERSON_SCAN_LIMIT \in Nat
    BY <1>2 DEF RowsInv, PERSON_SCAN_LIMIT
  <1>6. Newest(mine, PERSON_SCAN_LIMIT) = mine
    BY <1>5, NewestAll
  <1>7. query_compactions(org, Of(a), PERSON_SCAN_LIMIT) = Newest(mine, PERSON_SCAN_LIMIT)
    BY <1>4 DEF query_compactions
  <1>8. QED
    BY <1>2, <1>6, <1>7

LEMMA Accounted ==
    ASSUME RowsInv
    PROVE  PersonAccounted
  <1> SUFFICES ASSUME NEW org \in Orgs, NEW a \in list_actors(org),
                      Cardinality({d \in stored : d.org = org /\ d.actor = a}) <= PERSON_SCAN_LIMIT
               PROVE  AccountsFor(org, a, {d \in stored : d.org = org /\ d.actor = a})
    BY DEF PersonAccounted
  <1>1. PICK L : L = _readable({d \in stored : d.org = org /\ d.actor = a})
    OBVIOUS
  <1>2. L \in SUBSET Digests
    BY <1>1 DEF RowsInv, _readable
  <1>3. PICK rows : rows = project_rollups(L)
    OBVIOUS
  <1>4. PICK page : page = person_page(org, a)
    OBVIOUS
  <1>5. _readable(query_compactions(org, Of(a), PERSON_SCAN_LIMIT)) = L
    BY <1>1, Scanned
  <1>6. page.projects = {[project |-> r.project, status |-> project_status(r.last), what |-> overview_of(org, r.project),
                          sessions |-> Newest(Summarised({d \in L : d.project = r.project}), PERSON_SESSIONS_PER_PROJECT),
                          pending |-> Cardinality(Waiting({d \in L : d.project = r.project}))] : r \in rows}
    BY <1>3, <1>4, <1>5 DEF person_page
  <1>7. page.unfiled = Newest(Summarised({d \in L : d.project \notin {r.project : r \in rows}}), 50)
    BY <1>3, <1>4, <1>5 DEF person_page
  <1>8. PICK real : real = {d \in L : is_real_project(d.project)}
    OBVIOUS
  <1>9. \A r \in rows : is_real_project(r.project) /\ \E d \in L : d.project = r.project
    BY <1>3, ProjectRow
  <1>10. \A d \in real : \E r \in rows : r.project = d.project
    BY <1>3, <1>8, ProjectNamed
  <1>11. ASSUME NEW p \in page.projects
         PROVE  \E r \in rows : \E U :
                   /\ U = {d \in L : d.project = r.project} /\ U = {d \in real : d.project = p.project}
                   /\ p.project = r.project /\ p.pending = Cardinality(Waiting(U))
                   /\ p.sessions = Newest(Summarised(U), PERSON_SESSIONS_PER_PROJECT)
    <2>1. PICK r \in rows :
             p = [project |-> r.project, status |-> project_status(r.last), what |-> overview_of(org, r.project),
                  sessions |-> Newest(Summarised({d \in L : d.project = r.project}), PERSON_SESSIONS_PER_PROJECT),
                  pending |-> Cardinality(Waiting({d \in L : d.project = r.project}))]
      BY <1>6
    <2>2. PICK U : U = {d \in L : d.project = r.project}
      OBVIOUS
    <2>3. /\ p.project = r.project /\ p.pending = Cardinality(Waiting(U))
          /\ p.sessions = Newest(Summarised(U), PERSON_SESSIONS_PER_PROJECT)
      BY <2>1, <2>2
    <2>4. U = {d \in real : d.project = p.project}
      BY <1>8, <1>9, <2>2, <2>3
    <2>5. QED
      BY <2>2, <2>3, <2>4
  <1>12. {p.project : p \in page.projects} = {d.project : d \in real}
    <2>1. \A p \in page.projects : \E d \in real : d.project = p.project
      BY <1>8, <1>9, <1>11
    <2>2. ASSUME NEW d \in real
          PROVE  \E p \in page.projects : p.project = d.project
      <3>1. PICK r \in rows : r.project = d.project
        BY <1>10
      <3>2. PICK p :
             p = [project |-> r.project, status |-> project_status(r.last), what |-> overview_of(org, r.project),
                  sessions |-> Newest(Summarised({e \in L : e.project = r.project}), PERSON_SESSIONS_PER_PROJECT),
                  pending |-> Cardinality(Waiting({e \in L : e.project = r.project}))]
        OBVIOUS
      <3>3. p \in page.projects /\ p.project = r.project
        BY <1>6, <3>2
      <3>4. QED
        BY <3>1, <3>3
    <2>3. QED
      BY <2>1, <2>2
  <1>13. ASSUME NEW p \in page.projects, NEW U, U = {d \in real : d.project = p.project}
         PROVE  /\ p.pending = Cardinality(Waiting(U)) /\ p.sessions \subseteq Summarised(U)
                /\ p.sessions = Summarised(U) \/ Cardinality(p.sessions) >= PERSON_SESSIONS_PER_PROJECT
    <2>1. p.pending = Cardinality(Waiting(U)) /\ p.sessions = Newest(Summarised(U), PERSON_SESSIONS_PER_PROJECT)
      BY <1>11, <1>13
    <2>2. Summarised(U) \in SUBSET Digests
      BY <1>2, <1>8, <1>13 DEF Summarised
    <2>3. PERSON_SESSIONS_PER_PROJECT \in Nat
      BY DEF PERSON_SESSIONS_PER_PROJECT
    <2>4. p.sessions \subseteq Summarised(U)
      BY <2>1 DEF Newest
    <2>5. p.sessions = Summarised(U) \/ Cardinality(p.sessions) >= PERSON_SESSIONS_PER_PROJECT
      BY <2>1, <2>2, <2>3, NewestFills
    <2>6. QED
      BY <2>1, <2>4, <2>5
  <1>14. ASSUME NEW d \in page.unfiled, NEW p \in page.projects, d \in p.sessions
         PROVE  FALSE
    <2>1. d \in L /\ d.project \notin {r.project : r \in rows}
      BY <1>7, <1>14 DEF Newest, Summarised
    <2>2. PICK r \in rows : p.sessions = Newest(Summarised({e \in L : e.project = r.project}), PERSON_SESSIONS_PER_PROJECT)
      BY <1>11, ZenonT(60)
    <2>3. d.project = r.project
      BY <1>14, <2>2 DEF Newest, Summarised
    <2>4. QED
      BY <2>1, <2>3
  <1>15. page.unfiled \cap UNION {p.sessions : p \in page.projects} = {}
    BY <1>14
  <1>16. QED
    BY <1>1, <1>4, <1>8, <1>12, <1>13, <1>15 DEF AccountsFor

\* Nothing of another org is on a page.
LEMMA One ==
    OneOrg
  <1> SUFFICES ASSUME NEW mine \in Orgs, NEW other \in Orgs
               PROVE  LET links == UNION {wiki_session([org |-> mine], other, d.id) : d \in Digests}
                          notes == UNION {wiki_note([org |-> mine], other, n.id) : n \in NoteRows}
                      IN  /\ \A l \in links :
                               {d.org : d \in {l.session} \cup l.links.same_actor \cup l.links.same_project} = {mine}
                          /\ \A n \in notes : n.note.org = mine /\ \A d \in n.evidence \cup n.disputed : d.org = mine
                          /\ \A e \in {e[2] : e \in edges} : \A n \in wiki_entity([org |-> mine], other, e) : n.org = mine
    BY DEF OneOrg
  <1>1. PICK self : self = [org |-> mine]
    OBVIOUS
  <1>2. scope(self, other) = mine
    <2>1. mine # None
      BY PagesAssumption DEF Orgs
    <2>2. QED
      BY <1>1, <2>1 DEF scope
  <1>3. \A id : \A d \in get_compaction(id, mine) : d.org = mine
    BY DEF get_compaction
  <1>4. ASSUME NEW id, NEW l \in wiki_session(self, other, id)
        PROVE  {d.org : d \in {l.session} \cup l.links.same_actor \cup l.links.same_project} = {mine}
    <2>1. PICK G : G = _graph_window(mine)
      OBVIOUS
    <2>2. \A d \in G : d.org = mine
      BY <2>1 DEF _graph_window, query_compactions, Newest
    <2>3. PICK d \in get_compaction(id, mine) :
             l = [session |-> d, links |-> session_related(d, query_notes(mine, None, None), G)]
      BY <1>2, <2>1 DEF wiki_session
    <2>4. PICK N : N = query_notes(mine, None, None)
      OBVIOUS
    <2>5. PICK related : related = session_related(d, N, G)
      OBVIOUS
    <2>6. l.session = d /\ l.links = related
      BY <2>3, <2>4, <2>5
    <2>7. related.same_actor \subseteq G /\ related.same_project \subseteq G
      BY <2>5 DEF session_related, Newest
    <2>8. \A x \in {l.session} \cup l.links.same_actor \cup l.links.same_project : x.org = mine
      BY <1>3, <2>2, <2>6, <2>7
    <2>9. QED
      BY <2>8
  <1>5. ASSUME NEW id, NEW n \in wiki_note(self, other, id)
        PROVE  n.note.org = mine /\ \A d \in n.evidence \cup n.disputed : d.org = mine
    <2>1. PICK m \in get_note(id, mine) :
             n = [note |-> m, evidence |-> UNION {get_compaction(c, mine) : c \in m.evidence},
                  disputed |-> UNION {get_compaction(c, mine) : c \in m.disputed}]
      BY <1>2 DEF wiki_note, note_page
    <2>2. m.org = mine
      BY DEF get_note
    <2>3. /\ n.note = m /\ n.evidence = UNION {get_compaction(c, mine) : c \in m.evidence}
          /\ n.disputed = UNION {get_compaction(c, mine) : c \in m.disputed}
      BY <2>1
    <2>4. QED
      BY <1>3, <2>2, <2>3
  <1>6. ASSUME NEW e, NEW n \in wiki_entity(self, other, e)
        PROVE  n.org = mine
    BY <1>2 DEF wiki_entity, get_note
  <1>7. QED
    BY <1>1, <1>4, <1>5, <1>6

-----------------------------------------------------------------------------
\* Doors

\* A token's session is its own: of its scope and its org, and there is one while it is live.
LEMMA SessionIs ==
    ASSUME NEW t \in Tokens
    PROVE  /\ t # Operator /\ t.org \in Orgs /\ t.org # None
           /\ \A s \in session_for(t) :
                 /\ s.org = t.org /\ s.role = t.scope
                 /\ t.scope \in {"founder", "engineer"} /\ t \notin revoked /\ verified(t, t.scope)
           /\ t.scope \in {"founder", "engineer"} /\ t \notin revoked /\ verified(t, t.scope)
                 => \E s \in session_for(t) : s.org = t.org /\ s.role = t.scope
  <1>1. t.scope \in {"agent", "founder", "engineer"} /\ t.org \in Orgs
    BY AccessAssumption
  <1>2. t # Operator
    BY <1>1 DEF Operator
  <1>3. t.org # None
    BY <1>1, PagesAssumption DEF Orgs
  <1>4. session_for(t) =
            {[role |-> r, org |-> t.org] : r \in {r \in {"founder", "engineer"} : t \notin revoked /\ verified(t, r)}}
    BY <1>2 DEF session_for
  <1>5. ASSUME NEW s \in session_for(t)
        PROVE  /\ s.org = t.org /\ s.role = t.scope
               /\ t.scope \in {"founder", "engineer"} /\ t \notin revoked /\ verified(t, t.scope)
    <2>1. PICK r \in {"founder", "engineer"} : t \notin revoked /\ verified(t, r) /\ s = [role |-> r, org |-> t.org]
      BY <1>4
    <2>2. r = t.scope
      BY <2>1 DEF verified
    <2>3. s.org = t.org /\ s.role = r
      BY <2>1
    <2>4. QED
      BY <2>1, <2>2, <2>3
  <1>6. ASSUME t.scope \in {"founder", "engineer"}, t \notin revoked, verified(t, t.scope)
        PROVE  \E s \in session_for(t) : s.org = t.org /\ s.role = t.scope
    <2>1. PICK s : s = [role |-> t.scope, org |-> t.org]
      OBVIOUS
    <2>2. s \in session_for(t)
      BY <1>4, <1>6, <2>1
    <2>3. QED
      BY <2>1, <2>2
  <1>7. QED
    BY <1>1, <1>2, <1>3, <1>5, <1>6

\* Which doors a token opens.
OfFounder(t) == t.scope = "founder" /\ t \notin revoked /\ verified(t, "founder")
LEMMA DoorIs ==
    ASSUME NEW t \in Tokens, NEW o \in Orgs
    PROVE  /\ \A x : x \in html(t, o) <=> x = t.org /\ OfFounder(t)
           /\ \A x : x \in console(t, o) <=> x = t.org /\ OfFounder(t)
           /\ \A x : x \in founder_api(t, o) <=> x = t.org /\ x = o /\ OfFounder(t)
           /\ \A x : x \in wiki(t, o) <=>
                 /\ x = t.org /\ t.scope \in {"founder", "engineer"}
                 /\ t \notin revoked /\ verified(t, t.scope)
           /\ \A x : x \in require_team(t) => x = t.org /\ t.scope = "agent"
  <1>1. \A s \in session_for(t) : scope(s, o) = t.org /\ t.org # None
    BY SessionIs DEF scope
  <1>2. ASSUME NEW s \in _founder_session(t)
        PROVE  s \in session_for(t) /\ OfFounder(t)
    <2>1. s \in session_for(t) /\ s.role # "engineer"
      BY DEF _founder_session
    <2>2. QED
      BY <2>1, SessionIs DEF OfFounder
  <1>3. ASSUME OfFounder(t)
        PROVE  \E s \in _founder_session(t) : s.org = t.org
    <2>1. PICK s \in session_for(t) : s.org = t.org /\ s.role = t.scope
      BY <1>3, SessionIs DEF OfFounder
    <2>2. s \in _founder_session(t)
      BY <1>3, <2>1 DEF OfFounder, _founder_session
    <2>3. QED
      BY <2>1, <2>2
  <1>4. \A x : x \in html(t, o) <=> x = t.org /\ OfFounder(t)
    BY <1>1, <1>2, <1>3 DEF html
  <1>5. \A x : x \in console(t, o) <=> x = t.org /\ OfFounder(t)
    BY <1>1, <1>2, <1>3, SessionIs DEF console
  <1>6. \A x : x \in founder_api(t, o) <=> x = t.org /\ x = o /\ OfFounder(t)
    BY SessionIs DEF founder_api, require_admin, OfFounder, verified
  <1>7. \A x : x \in wiki(t, o) <=>
            /\ x = t.org /\ t.scope \in {"founder", "engineer"}
            /\ t \notin revoked /\ verified(t, t.scope)
    <2>1. \A s \in session_for(t) :
             (IF scope(s, o) = None THEN tenants ELSE {scope(s, o)}) = {t.org}
      BY <1>1
    <2>2. \A x : x \in wiki(t, o) <=> x = t.org /\ \E s \in session_for(t) : TRUE
      BY <2>1 DEF wiki
    <2>3. QED
      BY <2>2, SessionIs
  <1>8. \A x : x \in require_team(t) => x = t.org /\ t.scope = "agent"
    BY DEF require_team, verified
  <1>9. QED
    BY <1>4, <1>5, <1>6, <1>7, <1>8

LEMMA OneDoor ==
    ASSUME NEW t \in Tokens, NEW o \in Orgs
    PROVE  html(t, o) = console(t, o)
  <1>1. PICK H, C : H = html(t, o) /\ C = console(t, o)
    OBVIOUS
  <1>2. \A x : x \in H <=> x \in C
    <2>1. \A x : x \in html(t, o) <=> x = t.org /\ OfFounder(t)
      BY DoorIs
    <2>2. \A x : x \in console(t, o) <=> x = t.org /\ OfFounder(t)
      BY DoorIs
    <2>3. QED
      BY <1>1, <2>1, <2>2
  <1>3. H = C
    BY <1>2
  <1>4. QED
    BY <1>1, <1>3

LEMMA DoorsAre ==
    ASSUME AccessTypeOK
    PROVE  DoorsAgree
  <1> SUFFICES ASSUME NEW t \in minted, NEW o \in Orgs
               PROVE  /\ founder_api(t, o) # {} <=> console(t, o) = {o}
                      /\ html(t, o) = console(t, o) /\ html(t, o) \subseteq wiki(t, o)
                      /\ wiki(t, o) \cup require_team(t) \subseteq {t.org}
                      /\ require_team(t) # {} => wiki(t, o) = {}
    BY DEF DoorsAgree
  <1>1. t \in Tokens
    BY DEF AccessTypeOK
  <1>2. founder_api(t, o) # {} <=> t.org = o /\ OfFounder(t)
    BY <1>1, DoorIs
  <1>3. console(t, o) = {o} <=> t.org = o /\ OfFounder(t)
    BY <1>1, DoorIs
  <1>4. html(t, o) = console(t, o)
    BY <1>1, OneDoor
  <1>5. html(t, o) \subseteq wiki(t, o)
    <2>1. OfFounder(t) => t.scope \in {"founder", "engineer"} /\ t \notin revoked /\ verified(t, t.scope)
      BY DEF OfFounder
    <2>2. QED
      BY <1>1, <2>1, DoorIs
  <1>6. wiki(t, o) \cup require_team(t) \subseteq {t.org}
    BY <1>1, DoorIs
  <1>7. require_team(t) # {} => wiki(t, o) = {}
    BY <1>1, DoorIs
  <1>8. QED
    BY <1>2, <1>3, <1>4, <1>5, <1>6, <1>7

LEMMA SuffixRows ==
    ASSUME NEW s \in Seq(Entry), NEW n \in Nat, n = Len(s), NEW i \in 1 .. n + 1, NEW a, a = SubSeq(s, i, n)
    PROVE  DOMAIN a = 1 .. n - i + 1 /\ \A k \in 1 .. n - i + 1 : a[k] = s[i + k - 1]
  OBVIOUS

\* The last rows of an audit are among any more of its last rows.
LEMMA LastRows ==
    ASSUME AccessTypeOK, NEW o \in Orgs, NEW few \in Nat, NEW many \in Nat, few <= many
    PROVE  Range(list_founder_audit(o, few)) \subseteq Range(list_founder_audit(o, many))
  <1>1. PICK s \in Seq(Entry) : s = audit[o]
    BY DEF AccessTypeOK
  <1>2. PICK n \in Nat : n = Len(s)
    OBVIOUS
  <1>3. \A limit \in Nat : Min({limit, n}) \in {limit, n} /\ Min({limit, n}) <= n /\ Min({limit, n}) <= limit
    <2>1. ASSUME NEW limit \in Nat
          PROVE  Min({limit, n}) \in {limit, n} /\ Min({limit, n}) <= n /\ Min({limit, n}) <= limit
      <3>1. {limit, n} \in SUBSET Nat /\ {limit, n} # {}
        OBVIOUS
      <3>2. QED
        BY <3>1, LeastIsMin
    <2>2. QED
      BY <2>1
  <1>4. PICK i \in 1 .. n + 1 : i = n - Min({few, n}) + 1
    <2>1. Min({few, n}) \in 0 .. n
      BY <1>3
    <2>2. QED
      BY <2>1
  <1>5. PICK j \in 1 .. n + 1 : j = n - Min({many, n}) + 1
    <2>1. Min({many, n}) \in 0 .. n
      BY <1>3
    <2>2. QED
      BY <2>1
  <1>6. j <= i
    <2>1. PICK x, y : x = Min({few, n}) /\ y = Min({many, n})
      OBVIOUS
    <2>2. x \in {few, n} /\ x <= n /\ x <= few /\ y \in {many, n}
      BY <1>3, <2>1
    <2>3. x <= y /\ x \in Nat /\ y \in Nat
      BY <2>2
    <2>4. QED
      BY <1>4, <1>5, <2>1, <2>3
  <1>7. list_founder_audit(o, few) = SubSeq(s, i, n) /\ list_founder_audit(o, many) = SubSeq(s, j, n)
    BY <1>1, <1>2, <1>4, <1>5 DEF list_founder_audit
  <1>8. PICK x : x = SubSeq(s, i, n)
    OBVIOUS
  <1>9. PICK y : y = SubSeq(s, j, n)
    OBVIOUS
  <1>10. DOMAIN x = 1 .. n - i + 1 /\ \A k \in 1 .. n - i + 1 : x[k] = s[i + k - 1]
    BY <1>2, <1>8, SuffixRows
  <1>11. DOMAIN y = 1 .. n - j + 1 /\ \A k \in 1 .. n - j + 1 : y[k] = s[j + k - 1]
    BY <1>2, <1>9, SuffixRows
  <1>12. ASSUME NEW e \in Range(x)
         PROVE  e \in Range(y)
    <2>1. PICK k \in 1 .. n - i + 1 : e = x[k]
      BY <1>10 DEF Range
    <2>2. PICK m \in 1 .. n - j + 1 : m = k + i - j
      BY <1>6
    <2>3. j + m - 1 = i + k - 1
      BY <2>2
    <2>4. e = y[m]
      BY <1>10, <1>11, <2>1, <2>3
    <2>5. QED
      BY <1>11, <2>4 DEF Range
  <1>13. QED
    BY <1>7, <1>8, <1>9, <1>12

\* A token's list and its detail show the same cards.
LEMMA ListedOpens ==
    ASSUME RowsInv, AccessTypeOK, NEW t \in minted, NEW o \in Orgs, NEW c \in ui_sessions(t, o, Anything)
    PROVE  c \in sessions_list(t, o, Anything) /\ ui_session_detail(t, o, c.id) = {c}
  <1>1. t \in Tokens
    BY DEF AccessTypeOK
  <1>2. html(t, o) = console(t, o)
    BY <1>1, OneDoor
  <1>3. c \in sessions_list(t, o, Anything)
    BY <1>2 DEF ui_sessions, sessions_list
  <1>4. PICK v \in html(t, o) : c \in console_sessions(v, Anything, privacy_open(v))
    BY DEF ui_sessions
  <1>5. \A x \in html(t, o) : x = v
    BY <1>1, <1>4, DoorIs
  <1>6. html(t, o) = {v}
    BY <1>4, <1>5
  <1>7. PICK named : named = privacy_open(v)
    OBVIOUS
  <1>8. PICK d \in query_compactions(v, Anything, SESSION_LIMIT) : c = Card(d, named)
    BY <1>4, <1>7 DEF console_sessions
  <1>9. d \in stored /\ d.org = v
    BY <1>8 DEF query_compactions, Newest
  <1>10. c.id = d.id
    BY <1>8 DEF Card
  <1>11. get_compaction(c.id, v) = {d}
    <2>1. \A e \in stored : e.id = d.id => e = d
      BY <1>9, PagesAssumption DEF RowsInv
    <2>2. QED
      BY <1>9, <1>10, <2>1 DEF get_compaction
  <1>12. session_detail(v, c.id, named) = {c}
    BY <1>8, <1>11 DEF session_detail
  <1>13. ui_session_detail(t, o, c.id) = session_detail(v, c.id, named)
    BY <1>6, <1>7 DEF ui_session_detail
  <1>14. QED
    BY <1>3, <1>12, <1>13

LEMMA ConsolesAre ==
    ASSUME RowsInv, AccessTypeOK
    PROVE  ConsolesAgree
  <1> SUFFICES ASSUME NEW t \in minted, NEW s \in _founder_session(t)
               PROVE  LET page == console_page(s)
                      IN  /\ page.rows = orgs_list(s)
                          /\ page.invites = UNION {open_invites(v) : v \in me(s).orgs}
                          /\ page.members = UNION {members(v) : v \in me(s).orgs}
                          /\ \A v \in me(s).orgs : Range(page.audit[v]) \subseteq Range(capi_audit(v))
    BY ListedOpens DEF ConsolesAgree
  <1>1. PICK page : page = console_page(s)
    OBVIOUS
  <1>2. PICK shown : shown = visible_orgs(s)
    OBVIOUS
  <1>3. me(s).orgs = shown
    BY <1>2 DEF me
  <1>4. shown \subseteq Orgs
    BY <1>2 DEF visible_orgs, AccessTypeOK
  <1>5. /\ page.rows = {[org |-> o, compactions |-> count_compactions(o)] : o \in shown}
        /\ page.audit = [o \in shown |-> list_founder_audit(o, 5)]
        /\ page.invites = {c \in UNION {list_invites(o) : o \in shown} : offers[c].uses > 0}
        /\ page.members = UNION {members(o) : o \in shown}
    BY <1>1, <1>2 DEF console_page
  <1>6. page.rows = orgs_list(s)
    BY <1>2, <1>5 DEF orgs_list
  <1>7. page.invites = UNION {open_invites(v) : v \in shown}
    BY <1>5 DEF open_invites
  <1>8. ASSUME NEW v \in shown
        PROVE  Range(page.audit[v]) \subseteq Range(capi_audit(v))
    <2>1. page.audit[v] = list_founder_audit(v, 5)
      BY <1>5
    <2>2. QED
      BY <1>4, <2>1, LastRows DEF capi_audit
  <1>9. QED
    BY <1>1, <1>3, <1>5, <1>6, <1>7, <1>8

-----------------------------------------------------------------------------
\* Revoked tokens

ShutInv == TokensShut /\ (visit # NoVisit => ~visit.late) /\ RevokedIsShut

\* No door opens to a revoked token.
LEMMA ShutToRevoked ==
    ASSUME TokensShut, NEW kind, NEW t \in Credentials, NEW requested, NEW o \in Doors(kind, t, requested)
    PROVE  t \notin killed
  <1> SUFFICES ASSUME t \in killed
               PROVE  FALSE
    OBVIOUS
  <1>1. t \in Tokens /\ t \in revoked
    BY DEF TokensShut
  <1>2. t # Operator /\ session_for(t) = {}
    BY <1>1, SessionIs
  <1>3. html(t, requested) = {} /\ console(t, requested) = {} /\ wiki(t, requested) = {}
    BY <1>2 DEF html, console, wiki, _founder_session
  <1>4. founder_api(t, requested) = {}
    BY <1>1, <1>2 DEF founder_api, require_admin
  <1>5. QED
    BY <1>3, <1>4 DEF Doors

\* A question stays one that was asked in time, and so do the answers handed out.
LEMMA StaysShut ==
    ASSUME ShutInv, TokensShut',
           visit' # NoVisit => visit # NoVisit /\ visit'.late = visit.late,
           \A h \in handed' : h \in handed \/ (visit # NoVisit /\ h.late = visit.late)
    PROVE  ShutInv'
  <1>1. visit' # NoVisit => ~visit'.late
    BY DEF ShutInv
  <1>2. \A h \in handed' : ~h.late
    BY DEF ShutInv, RevokedIsShut
  <1>3. NoVisit' = NoVisit
    BY DEF NoVisit
  <1>4. QED
    BY <1>1, <1>2, <1>3 DEF ShutInv, RevokedIsShut

LEMMA VisitShut ==
    ASSUME AuditInv, ShutInv, ReadPrivacy \/ ReadSessions \/ RecordFounderQuery \/ HandOut \/ NoAnswer
    PROVE  ShutInv'
  <1>1. TokensShut'
    BY DEF ShutInv, TokensShut, ReadPrivacy, ReadSessions, RecordFounderQuery, HandOut, NoAnswer, tokens
  <1>2. CASE ReadPrivacy
    <2>1. PICK named :
              visit' = [visit EXCEPT !.step = "read", !.named = named] /\ visit.step = "privacy" /\ handed' = handed
      BY <1>2 DEF ReadPrivacy
    <2>2. visit \in Visit /\ visit # NoVisit
      BY <2>1, VisitIs
    <2>3. visit'.late = visit.late
      BY <2>1, <2>2 DEF Visit
    <2>4. QED
      BY <1>1, <2>1, <2>2, <2>3, StaysShut
  <1>3. CASE ReadSessions
    <2>1. PICK step, names, cites :
              /\ visit' = [visit EXCEPT !.step = step, !.names = names, !.cites = cites]
              /\ visit.step = "read" /\ handed' = handed
      BY <1>3 DEF ReadSessions
    <2>2. visit \in Visit /\ visit # NoVisit
      BY <2>1, VisitIs
    <2>3. visit'.late = visit.late
      BY <2>1, <2>2 DEF Visit
    <2>4. QED
      BY <1>1, <2>1, <2>2, <2>3, StaysShut
  <1>4. CASE RecordFounderQuery
    <2>1. visit' = [visit EXCEPT !.step = "answer"] /\ visit.step = "record" /\ handed' = handed
      BY <1>4 DEF RecordFounderQuery
    <2>2. visit \in Visit /\ visit # NoVisit
      BY <2>1, VisitIs
    <2>3. visit'.late = visit.late
      BY <2>1, <2>2 DEF Visit
    <2>4. QED
      BY <1>1, <2>1, <2>2, <2>3, StaysShut
  <1>5. CASE HandOut
    <2>1. PICK h : h = [n |-> visit.n, kind |-> visit.kind, org |-> visit.org, names |-> visit.names,
                        cites |-> visit.cites, late |-> visit.late]
      OBVIOUS
    <2>2. visit.step = "answer" /\ visit' = NoVisit /\ \A g \in handed' : g \in handed \/ g = h
      BY <1>5, <2>1 DEF HandOut
    <2>3. visit # NoVisit /\ h.late = visit.late
      BY <2>1, <2>2, VisitIs
    <2>4. QED
      BY <1>1, <2>2, <2>3, StaysShut
  <1>6. CASE NoAnswer
    BY <1>1, <1>6, StaysShut DEF NoAnswer
  <1>7. QED
    BY <1>2, <1>3, <1>4, <1>5, <1>6

LEMMA ArriveShut ==
    ASSUME ShutInv, NEW by \in Credentials, NEW o \in Orgs, Asked(by, o)
    PROVE  ShutInv'
  <1>1. PICK kind \in Kinds : Arrive(kind, by, o)
    BY DEF Asked
  <1>2. PICK late : late = (by \in killed)
    OBVIOUS
  <1>3. PICK p \in Doors(kind, by, o) :
            visit' = [step |-> "privacy", kind |-> kind, org |-> p, n |-> visits, late |-> late,
                      swept |-> FALSE, named |-> FALSE, names |-> {}, cites |-> {}]
    BY <1>1, <1>2 DEF Arrive
  <1>4. ~late
    BY <1>2, <1>3, ShutToRevoked DEF ShutInv
  <1>5. ~visit'.late
    BY <1>3, <1>4
  <1>6. UNCHANGED <<killed, revoked, handed>>
    BY <1>1 DEF Arrive, tokens
  <1>7. QED
    BY <1>5, <1>6 DEF ShutInv, TokensShut, RevokedIsShut

LEMMA DeleteShut ==
    ASSUME AuditInv, ShutInv, NEW by, NEW o, delete_org(by, o)
    PROVE  ShutInv'
  <1>1. /\ visit' = IF visit # NoVisit /\ visit.org = o THEN [visit EXCEPT !.swept = TRUE] ELSE visit
        /\ handed' = {h \in handed : h.org # o} /\ UNCHANGED <<killed, revoked>>
    BY DEF delete_org, tokens
  <1>2. TokensShut'
    BY <1>1 DEF ShutInv, TokensShut
  <1>3. ASSUME visit' # NoVisit
        PROVE  visit # NoVisit /\ visit'.late = visit.late
    <2>1. CASE visit # NoVisit /\ visit.org = o
      <3>1. visit \in Visit /\ visit' = [visit EXCEPT !.swept = TRUE]
        BY <1>1, <2>1 DEF AuditInv, AccessTypeOK
      <3>2. QED
        BY <2>1, <3>1 DEF Visit
    <2>2. CASE ~(visit # NoVisit /\ visit.org = o)
      BY <1>1, <1>3, <2>2
    <2>3. QED
      BY <2>1, <2>2
  <1>4. QED
    BY <1>1, <1>2, <1>3, StaysShut

\* Whatever is done through the doors, the tables name who is in them and no revoked
\* token is answered.
LEMMA NextShut ==
    ASSUME AuditInv, ShutInv, AccessNext
    PROVE  ShutInv'
  <1>1. AccessTypeOK
    BY DEF AuditInv
  <1>2. ASSUME Elsewhere
        PROVE  ShutInv'
    BY <1>2 DEF Elsewhere, ShutInv, RevokedIsShut, NoVisit
  <1>3. ASSUME NEW by \in Credentials, NEW o \in Orgs,
               \/ create_org(by, o)
               \/ \E c \in Codes : Invited(by, o, c)
               \/ \E m \in DOMAIN MemberOf : ui_promote(by, m) \/ promote(by, o, m)
               \/ \E mode \in {"open", "k_anon"} : set_privacy(by, o, mode)
        PROVE  ShutInv'
    BY <1>1, <1>2, <1>3, OthersElsewhere
  <1>4. ASSUME NEW by, NEW t \in Tokens, Minted(by, t) \/ revoke_token(by, t) \/ Expire(t)
        PROVE  ShutInv'
    BY <1>1, <1>2, <1>4, TokensElsewhere
  <1>5. ASSUME NEW t \in Tokens, NEW c \in Codes, enroll(c, t)
        PROVE  ShutInv'
    BY <1>1, <1>2, <1>5, EnrollElsewhere
  <1>6. QED
    BY <1>3, <1>4, <1>5, ArriveShut, VisitShut, DeleteShut DEF AccessNext

LEMMA RowsElsewhere ==
    ASSUME RowsInv, AccessNext
    PROVE  RowsInv'
  <1>1. CASE UNCHANGED pagevars
    BY <1>1 DEF pagevars, RowsInv, Orgs, Actors
  <1>2. ASSUME NEW by, NEW o, delete_org(by, o)
        PROVE  RowsInv'
    <2>1. stored' = {d \in stored : d.org # o} /\ roster' = {r \in roster : r[1] # o}
      BY <1>2 DEF delete_org, Emptied
    <2>2. \A d \in stored' : <<d.org, d.actor>> \in roster'
      <3>1. ASSUME NEW d \in stored'
            PROVE  <<d.org, d.actor>> \in roster'
        <4>1. d.org # o /\ <<d.org, d.actor>> \in roster
          BY <2>1 DEF RowsInv
        <4>2. <<d.org, d.actor>>[1] = d.org
          OBVIOUS
        <4>3. QED
          BY <2>1, <4>1, <4>2
      <3>2. QED
        BY <3>1
    <2>3. QED
      BY <2>1, <2>2 DEF RowsInv, Orgs, Actors
  <1>3. QED
    BY <1>1, <1>2 DEF AccessNext

-----------------------------------------------------------------------------
\* The theorems

\* Calls may race as they like: each reply is counted once in its month's row, a purpose's
\* share stays within it, no month's cost passes the largest cap anyone was admitted under
\* by more than a call for each caller (MeteredProvider.complete, add_llm_usage), and no
\* window holds more requests than its limit (SlidingWindowLimiter.allow).
THEOREM LedgerKept == LedgerSpec => []LedgerHonest
  <1>1. LedgerInit => SpendInv /\ RateInv
    <2> SUFFICES ASSUME LedgerInit
                 PROVE  RateInv
      BY InitSpend
    <2>1. clock = 0 /\ hits = <<>> /\ served = <<>>
      BY DEF LedgerInit
    <2>2. QED
      BY <2>1 DEF RateInv, RateBounded
  <1>2. SpendInv /\ RateInv /\ [LedgerNext \/ RateNext]_lvars => (SpendInv /\ RateInv)'
    BY NextSpend, NextRate
  <1>3. SpendInv /\ RateInv => LedgerHonest
    <2> SUFFICES ASSUME SpendInv, RateInv
                 PROVE  UsageCounted /\ OvershootBounded
      BY DEF RateInv, LedgerHonest
    <2>1. ASSUME NEW m \in Months
          PROVE  get_llm_usage(m).calls
                     + Cardinality({t \in Callers : call[t].pc \in {"metering", "update", "insert"} /\ call[t].month = m})
                     = replied[m]
      BY DEF SpendInv, Counted, InFlight, Owing
    <2>2. ASSUME NEW p \in Purposes, purposes[month][p] # None
          PROVE  /\ usage[month] # None
                 /\ purposes[month][p].cost <= get_llm_usage(month).cost
      <3>1. month \in Months
        BY DEF SpendInv, LedgerTypeOK
      <3>2. /\ usage[month] # None
            /\ PurposeCost(month, p) + Cardinality(Unsplit(month, p)) <= get_llm_usage(month).cost
        BY <2>2, <3>1 DEF SpendInv, Split
      <3>3. /\ PurposeCost(month, p) = purposes[month][p].cost /\ PurposeCost(month, p) \in Nat
            /\ Cardinality(Unsplit(month, p)) \in Nat /\ get_llm_usage(month).cost \in Nat
        BY <2>2, <3>1, Usages, CallerSets DEF SpendInv, PurposeCost
      <3>4. QED
        BY <3>2, <3>3
    <2>3. UsageCounted
      <3>1. month \in Months
        BY DEF SpendInv, LedgerTypeOK
      <3>2. QED
        BY <2>1, <2>2, <3>1 DEF UsageCounted, llm_usage, _budget, list_llm_usage, list_llm_usage_purposes
    <2>4. ASSUME NEW m \in Months
          PROVE  \/ permitted[m] = None
                 \/ get_llm_usage(m).cost < permitted[m] + Cardinality(Callers) * MaxCost
                 \/ get_llm_usage(m).cost = 0
      <3>1. WithinCap(m)
        BY DEF SpendInv, Capped
      <3>2. Cardinality(Admitted(m)) * MaxCost \in Nat /\ Cardinality(Callers) * MaxCost \in Nat
        BY CallerSets, Times
      <3>3. get_llm_usage(m).cost \in Nat /\ (permitted[m] # None => permitted[m] \in Nat)
        BY Usages DEF SpendInv
      <3>4. QED
        BY <3>1, <3>2, <3>3 DEF WithinCap
    <2>5. QED
      BY <2>3, <2>4 DEF OvershootBounded
  <1>4. QED
    BY <1>1, <1>2, <1>3, PTL DEF LedgerSpec

\* Whatever comes and goes meanwhile, the sessions of somebody a question names reach its
\* ranking (wiki_ask's per-actor drill), and a reader who turns the pages of the session
\* list misses none that was there and still is (_page_envelope's cursor).
THEOREM ReadersKept == QuestionsSpec => []ReadersSeeAll
  <1>1. QuestionsInit => ReadersInv
    BY InitReaders
  <1>2. ReadersInv /\ [QuestionsNext]_<<pagevars, qvars>> => ReadersInv'
    BY NextReaders
  <1>3. ReadersInv => ReadersSeeAll
    BY NamedAreCandidates DEF ReadersInv, ReadersSeeAll
  <1>4. QED
    BY <1>1, <1>2, <1>3, PTL DEF QuestionsSpec

\* Of the answers that name nobody, what is cited and counted comes from groups of enough
\* people, and every answer to a query, an ask, a thread, a drill or the founders' API's
\* topics has its row in its organisation's audit, however many there were and whatever
\* became of tokens, privacy and tenants while it was made (run_query,
\* record_founder_query).  The digest's answers and those of the consoles' topics and
\* session lists have none, and of these only the session lists name anybody (ui_topics,
\* ui_sessions, console_api's topics).
THEOREM AnswersRecorded == AccessSpec => [](KAnonymous /\ HandedSound)
  <1>1. AccessInit /\ question = Silent /\ answer = None /\ stored \subseteq Digests => AnswersInv
    BY InitAudit DEF AnswersInv, KAnonymous
  <1>2. AnswersInv
            /\ [(AccessNext /\ UNCHANGED qvars) \/ (QuestionsNext /\ UNCHANGED accessvars)]_<<accessvars, pagevars, qvars>>
            => AnswersInv'
    BY NextAnswers
  <1>3. AnswersInv => KAnonymous /\ HandedSound
    BY DEF AnswersInv, AuditInv
  <1>4. QED
    BY <1>1, <1>2, <1>3, PTL DEF AccessSpec

\* As long as no more questions were asked than the audit page shows rows, each of those
\* that leave a row is on the page its founders read (founder_audit's limit of 100).
THEOREM AnswersKept == MaxVisits <= 100 => (AccessSpec => []AnswersHonest)
  <1> SUFFICES ASSUME MaxVisits <= 100
               PROVE  AccessSpec => []AnswersHonest
    OBVIOUS
  <1>1. AccessInit /\ question = Silent /\ answer = None /\ stored \subseteq Digests => AnswersInv
    BY InitAudit DEF AnswersInv, KAnonymous
  <1>2. AnswersInv
            /\ [(AccessNext /\ UNCHANGED qvars) \/ (QuestionsNext /\ UNCHANGED accessvars)]_<<accessvars, pagevars, qvars>>
            => AnswersInv'
    BY NextAnswers
  <1>3. AnswersInv => AnswersHonest
    <2> SUFFICES ASSUME AnswersInv, NEW h \in handed
                 PROVE  /\ h.kind \in Audited => \E e \in Range(founder_audit(h.org)) :
                              /\ e.n = h.n /\ e.kind = h.kind /\ e.cites = h.cites
                              /\ h.names # {} => e.individual
                        /\ h.names # {} => h.kind \in Audited \cup {"browse"}
      BY DEF AnswersInv, AnswersHonest, AnswersAudited
    <2>1. h.org \in Orgs /\ Recorded(h)
      BY DEF AnswersInv, AuditInv, HandedSound
    <2>2. Range(audit[h.org]) \subseteq Range(founder_audit(h.org))
      BY <2>1, AuditShown DEF AnswersInv
    <2>3. QED
      BY <2>1, <2>2 DEF Recorded, Documents
  <1>4. QED
    BY <1>1, <1>2, <1>3, PTL DEF AccessSpec

\* Through every door the pages of an organisation agree with each other: the people page
\* parts the roster, what the home page shows leads to as much, a person's page accounts
\* for their sessions, ties are mutual and nothing of another organisation is shown
\* (projections.py, pages.py, graph.py); a token opens its own organisation's doors, the
\* two consoles show the same (ui.py, console_api.py), and a token once revoked is never
\* answered again, even when its organisation was deleted and made anew
\* (is_token_revoked).
THEOREM SurfacesKept == AccessSpec => [](PagesAgree /\ SurfacesAgree)
  <1> DEFINE Inv == RowsInv /\ AnswersInv /\ ShutInv
             Init0 == /\ AccessInit /\ question = Silent /\ answer = None
                      /\ stored \subseteq Digests /\ noted \subseteq NoteRows
                      /\ roster \subseteq Orgs \X Actors /\ \A d \in stored : <<d.org, d.actor>> \in roster
  <1>1. Init0 => Inv
    <2> SUFFICES ASSUME Init0
                 PROVE  Inv
      OBVIOUS
    <2>1. AnswersInv
      BY InitAudit DEF AnswersInv, KAnonymous
    <2>2. ShutInv
      BY DEF AccessInit, ShutInv, TokensShut, RevokedIsShut
    <2>3. RowsInv
      BY DEF RowsInv
    <2>4. QED
      BY <2>1, <2>2, <2>3
  <1>2. Inv
            /\ [(AccessNext /\ UNCHANGED qvars) \/ (QuestionsNext /\ UNCHANGED accessvars)]_<<accessvars, pagevars, qvars>>
            => Inv'
    <2> SUFFICES ASSUME RowsInv, AnswersInv, ShutInv,
                        [(AccessNext /\ UNCHANGED qvars) \/ (QuestionsNext /\ UNCHANGED accessvars)]_<<accessvars, pagevars, qvars>>
                 PROVE  RowsInv' /\ AnswersInv' /\ ShutInv'
      OBVIOUS
    <2>1. AnswersInv'
      BY NextAnswers
    <2>2. ASSUME UNCHANGED accessvars
          PROVE  ShutInv'
      BY <2>2 DEF accessvars, tokens, ShutInv, TokensShut, RevokedIsShut, NoVisit
    <2>3. ASSUME UNCHANGED pagevars
          PROVE  RowsInv'
      BY <2>3 DEF pagevars, RowsInv, Orgs, Actors
    <2>4. CASE AccessNext
      BY <2>1, <2>4, RowsElsewhere, NextShut DEF AnswersInv
    <2>5. CASE QuestionsNext /\ UNCHANGED accessvars
      BY <2>1, <2>2, <2>5, NextRows
    <2>6. CASE UNCHANGED <<accessvars, pagevars, qvars>>
      BY <2>1, <2>2, <2>3, <2>6
    <2>7. QED
      BY <2>4, <2>5, <2>6
  <1>3. Inv => PagesAgree /\ SurfacesAgree
    <2> SUFFICES ASSUME RowsInv, AccessTypeOK, ShutInv
                 PROVE  PagesAgree /\ SurfacesAgree
      BY DEF AnswersInv, AuditInv
    <2>1. PagesAgree
      BY RosterParts, HomeLinks, Accounted, Mutual, One DEF PagesAgree
    <2>2. QED
      BY <2>1, DoorsAre, ConsolesAre DEF SurfacesAgree, ShutInv
  <1> HIDE DEF Inv
  <1>4. QED
    BY <1>1, <1>2, <1>3, PTL DEF AccessSpec
=============================================================================
