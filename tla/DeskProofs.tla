----------------------------- MODULE DeskProofs -----------------------------
(***************************************************************************)
(* Theorems about the engineer's desk, for any sessions, dispatchers,      *)
(* handlers and cooldowns, versions, digests and filters.                  *)
(***************************************************************************)
EXTENDS Desk, FiniteSetTheorems, TLAPS

-----------------------------------------------------------------------------
\* Induction. The library's induction theorems are about operators; these are
\* about sets, and follow from the well-foundedness of < and of inclusion.

LEMMA NatLeast ==
    ASSUME NEW S, S \subseteq Nat, S # {}
    PROVE  \E m \in S : \A n \in S : m <= n
  <1> DEFINE Lt == OpToRel(<, Nat)
  <1>1. IsWellFoundedOn(Lt, Nat)
    BY NatLessThanWellFounded
  <1>2. PICK m \in S : \A k \in S : ~(<<k, m>> \in Lt)
    <2> HIDE DEF Lt
    <2>1. QED
      BY <1>1, WFMin
  <1>3. \A k \in S : ~(k < m)
    BY <1>2 DEF OpToRel
  <1>4. QED
    BY <1>3

LEMMA NatSteps ==
    ASSUME NEW W, 0 \in W, \A n \in Nat : n \in W => n + 1 \in W
    PROVE  Nat \subseteq W
  <1> DEFINE Bad == Nat \ W
  <1>1. SUFFICES ASSUME Bad # {} PROVE FALSE
    OBVIOUS
  <1>2. PICK m \in Bad : \A n \in Bad : m <= n
    <2>1. Bad \subseteq Nat
      OBVIOUS
    <2> HIDE DEF Bad
    <2>2. QED
      BY <1>1, <2>1, NatLeast
  <1>3. m \in Nat /\ m # 0
    BY <1>2
  <1>4. m - 1 \in Nat /\ ~(m <= m - 1) /\ m = (m - 1) + 1
    BY <1>3
  <1>5. QED
    BY <1>2, <1>4

\* The greatest element of a bounded set.
LEMMA MaxOf ==
    ASSUME NEW S, S \subseteq Nat, S # {}, NEW b \in Nat, \A x \in S : x <= b
    PROVE  Max(S) \in S /\ \A x \in S : x <= Max(S)
  <1> DEFINE Above == {n \in Nat : \A x \in S : x <= n}
  <1>1. PICK m \in Above : \A n \in Above : m <= n
    <2>1. Above \subseteq Nat /\ Above # {}
      OBVIOUS
    <2> HIDE DEF Above
    <2>2. QED
      BY <2>1, NatLeast
  <1>2. m \in S
    <2>1. SUFFICES ASSUME m \notin S PROVE FALSE
      OBVIOUS
    <2>2. \A x \in S : x \in Nat /\ x <= m /\ x # m
      BY <1>1, <2>1
    <2>3. m \in Nat /\ m # 0
      <3>1. PICK x \in S : TRUE
        OBVIOUS
      <3>2. QED
        BY <1>1, <2>2, <3>1
    <2>4. m - 1 \in Above
      BY <2>2, <2>3
    <2>5. QED
      BY <1>1, <2>3, <2>4
  <1>3. \A x \in S : m >= x
    BY <1>1
  <1>4. \A y \in S : (\A x \in S : y >= x) => y = m
    BY <1>2, <1>3
  <1>5. QED
    BY <1>2, <1>3, <1>4 DEF Max

-----------------------------------------------------------------------------
\* Dispatching: types

USE DeskAssumption

Modes == {"work", "personal"}
Tags == {None} \cup {compute_tags(s) : s \in Sessions}
Rows == [mode : Modes, tags : Tags]
Refusals == {"session_unresolved", "personal_mode_excluded", "consent_opt_out", "cooldown"}
Answers == {"session_closed", "loop_detected", "no_loop", "prior_work_found", "no_relevant_prior", "error"}
Outcomes == {"fired", "suppressed", "failed"}
Results == [outcome : Outcomes, condition : Refusals \cup Answers]
Steps == {"idle", "gate", "run", "tag", "log"}
Job == [pc : Steps, session : Sessions \cup {None}, mode : Modes \cup {None}, at : Nat, start : Nat,
        i : Nat, row : Rows \cup {None}, result : Results \cup {None}]
Entry == [action : Handlers, session : Sessions \cup {None}, at : Nat, start : Nat,
          outcome : Outcomes, condition : Refusals \cup Answers]

DeskTypeOK ==
    /\ sessions \in [Sessions -> Rows] /\ consent \in [Handlers -> {"opt_out", None}]
    /\ audit \in Seq(Entry) /\ dispatch \in [Dispatchers -> Job]
    /\ clock \in Nat /\ events \in Nat
    /\ wanted \in [Sessions -> Modes] /\ raced \in SUBSET Sessions

\* What a dispatch under way has: a handler it is at, the entries there were
\* when it began, the row it writes back, the result it logs.
JobOK(d) ==
    dispatch[d].pc # "idle" =>
      /\ dispatch[d].i \in 1 .. Len(Registered[d])
      /\ dispatch[d].start <= Len(audit) /\ dispatch[d].at <= clock
      /\ dispatch[d].pc = "tag" => dispatch[d].row \in Rows
      /\ dispatch[d].pc \in {"run", "tag"} => dispatch[d].session \in Sessions
      /\ dispatch[d].pc = "log" => dispatch[d].result \in Results

\* d has passed the gates for the action it is at.
Passing(d) ==
    \/ dispatch[d].pc \in {"run", "tag"}
    \/ dispatch[d].pc = "log" /\ dispatch[d].result.outcome = "fired"

\* Action a of session s may fire for a dispatch that began after the first
\* `start` entries and is dated `at`.
MayFire(a, s, start, at) ==
    /\ s # None
    /\ \A l \in 1 .. start : ~(audit[l].action = a /\ audit[l].condition = "consent_opt_out")
    /\ \A k \in 1 .. start : audit[k].action = a /\ audit[k].outcome = "fired" /\ Cooldown[a] # None
                             => at - audit[k].at >= Cooldown[a]

GateInv(d) ==
    /\ Passing(d) => MayFire(Action(d), dispatch[d].session, dispatch[d].start, dispatch[d].at)
    /\ dispatch[d].pc = "log" /\ dispatch[d].result.condition = "consent_opt_out"
         => consent[Action(d)] = "opt_out"
    /\ dispatch[d].pc = "tag" =>
         dispatch[d].row.mode = wanted[dispatch[d].session] \/ dispatch[d].session \in raced

EntryInv(k) ==
    /\ audit[k].start < k /\ audit[k].at <= clock
    /\ audit[k].condition = "consent_opt_out" => consent[audit[k].action] = "opt_out"
    /\ audit[k].outcome = "fired" =>
         MayFire(audit[k].action, audit[k].session, audit[k].start, audit[k].at)

DeskInv ==
    /\ DeskTypeOK
    /\ \A d \in Dispatchers : JobOK(d) /\ GateInv(d)
    /\ \A k \in DOMAIN audit : EntryInv(k)
    /\ \A s \in Sessions : sessions[s].mode = wanted[s] \/ s \in raced

\* The engineer's choices outlive what runs: the invariant says what is promised.
LEMMA DeskInvGates == DeskInv => GatesKept
  <1>1. SUFFICES ASSUME DeskInv PROVE GatesKept
    OBVIOUS
  <1>2. DOMAIN audit = 1 .. Len(audit) /\ \A k \in DOMAIN audit : audit[k] \in Entry
    BY <1>1 DEF DeskInv, DeskTypeOK
  <1>3. \A k \in DOMAIN audit : EntryInv(k)
    BY <1>1 DEF DeskInv
  <1>4. ASSUME NEW k \in Entries, NEW l \in Entries,
               audit[k].action = audit[l].action, audit[k].outcome = "fired", audit[l].outcome = "fired",
               k <= audit[l].start, Cooldown[audit[k].action] # None
        PROVE  audit[l].at - audit[k].at >= Cooldown[audit[k].action]
    <2>1. MayFire(audit[l].action, audit[l].session, audit[l].start, audit[l].at)
      BY <1>3, <1>4 DEF Entries, EntryInv
    <2>2. audit[l].start \in Nat /\ k \in 1 .. audit[l].start
      BY <1>2, <1>4 DEF Entries, Entry
    <2>3. QED
      BY <1>4, <2>1, <2>2 DEF MayFire
  <1>5. ASSUME NEW k \in Entries, audit[k].outcome = "fired"
        PROVE  /\ audit[k].session # None
               /\ \A l \in 1 .. audit[k].start : ~ ( /\ audit[l].action = audit[k].action
                                                     /\ audit[l].condition = "consent_opt_out")
    BY <1>3, <1>5 DEF Entries, EntryInv, MayFire
  <1>6. \A s \in Sessions : sessions[s].mode = wanted[s] \/ s \in raced
    BY <1>1 DEF DeskInv
  <1>7. QED
    BY <1>4, <1>5, <1>6 DEF GatesKept

LEMMA HandlersKnown ==
    ASSUME NEW d \in Dispatchers, NEW i \in 1 .. Len(Registered[d])
    PROVE  Registered[d][i] \in Handlers
  <1>1. Registered[d] \in Seq(Handlers)
    OBVIOUS
  <1>2. QED
    BY <1>1

LEMMA ResultsKnown ==
    /\ \A c \in Refusals : Suppressed(c) \in Results
    /\ \A a \in Handlers, s \in Sessions : Result(a, s) \in Results /\ Result(a, s).condition \notin Refusals
    /\ [outcome |-> "failed", condition |-> "error"] \in Results
  BY DEF Refusals, Results, Answers, Outcomes, Result, AutoTag, LoopWarning, PriorWork, Fired, Suppressed, Handlers

LEMMA DeskInitInv == DeskInit => DeskInv
  <1>1. ASSUME DeskInit PROVE DeskTypeOK
    <2>1. [mode |-> "work", tags |-> None] \in Rows /\ NoDispatch \in Job
      BY DEF Rows, Modes, Tags, Job, NoDispatch, Steps
    <2>2. <<>> \in Seq(Entry) /\ "work" \in Modes
      BY DEF Modes
    <2>3. QED
      BY <1>1, <2>1, <2>2 DEF DeskInit, DeskTypeOK
  <1>2. QED
    BY <1>1 DEF DeskInit, DeskInv, NoDispatch, JobOK, GateInv, Passing

\* What a dispatch knows is about the audit, the consents, the clock and the
\* engineer's wishes, none of which a step of another disturbs.
LEMMA JobKept ==
    ASSUME DeskInv, NEW q \in Dispatchers, dispatch'[q] = dispatch[q],
           UNCHANGED <<audit, consent, clock, wanted, raced>>
    PROVE  JobOK(q)' /\ GateInv(q)'
  <1>1. JobOK(q) /\ GateInv(q)
    BY DEF DeskInv
  <1>2. Action(q)' = Action(q) /\ (Passing(q))' = Passing(q)
    BY DEF Action, Passing
  <1>3. QED
    BY <1>1, <1>2 DEF JobOK, GateInv, MayFire

LEMMA EntriesKept ==
    ASSUME DeskInv, UNCHANGED <<audit, consent, clock>>
    PROVE  \A k \in DOMAIN audit' : EntryInv(k)'
  BY DEF DeskInv, EntryInv, MayFire

\* A step of one dispatch that only moves it on.
LEMMA Moves ==
    ASSUME DeskInv, NEW d \in Dispatchers, NEW j \in Job, Put(d, j),
           UNCHANGED <<sessions, consent, audit, clock, wanted, raced>>, events' \in Nat,
           JobOK(d)', GateInv(d)'
    PROVE  DeskInv'
  <1>1. dispatch' = [dispatch EXCEPT ![d] = j] /\ dispatch \in [Dispatchers -> Job]
    BY DEF Put, DeskInv, DeskTypeOK
  <1>2. DeskTypeOK'
    BY <1>1 DEF DeskInv, DeskTypeOK
  <1>3. ASSUME NEW q \in Dispatchers PROVE JobOK(q)' /\ GateInv(q)'
    <2>1. CASE q = d
      BY <2>1
    <2>2. CASE q # d
      BY <1>1, <2>2, JobKept
    <2>3. QED
      BY <2>1, <2>2
  <1>4. \A k \in DOMAIN audit' : EntryInv(k)'
    BY EntriesKept
  <1>5. \A s \in Sessions : sessions'[s].mode = wanted'[s] \/ s \in raced'
    BY DEF DeskInv
  <1>6. QED
    BY <1>2, <1>3, <1>4, <1>5 DEF DeskInv

LEMMA DispatchStep ==
    ASSUME DeskInv, NEW d \in Dispatchers, Dispatch(d)
    PROVE  DeskInv'
  <1>1. PICK s \in Sessions \cup {None} :
          Put(d, [pc |-> "gate", session |-> s, mode |-> IF s = None THEN None ELSE sessions[s].mode,
                  at |-> clock, start |-> Len(audit), i |-> 1, row |-> None, result |-> None])
    BY DEF Dispatch
  <1>2. PICK m : m = IF s = None THEN None ELSE sessions[s].mode
    OBVIOUS
  <1>3. m \in Modes \cup {None}
    BY <1>2 DEF DeskInv, DeskTypeOK, Rows
  <1> DEFINE j == [pc |-> "gate", session |-> s, mode |-> m, at |-> clock, start |-> Len(audit), i |-> 1,
                   row |-> None, result |-> None]
  <1>4. audit \in Seq(Entry) /\ clock \in Nat /\ Len(audit) \in Nat
    BY DEF DeskInv, DeskTypeOK
  <1>5. j \in Job
    BY <1>3, <1>4 DEF Job, Steps
  <1>6. Put(d, j) /\ dispatch'[d] = j
    BY <1>1, <1>2 DEF Put, DeskInv, DeskTypeOK
  <1>7. UNCHANGED <<sessions, consent, audit, clock, wanted, raced>> /\ events' \in Nat
    BY DEF Dispatch, DeskInv, DeskTypeOK
  <1>8. Registered[d] \in Seq(Handlers) /\ Registered[d] # <<>> /\ 1 \in 1 .. Len(Registered[d])
    OBVIOUS
  <1>9. JobOK(d)' /\ GateInv(d)'
    BY <1>4, <1>6, <1>7, <1>8 DEF JobOK, GateInv, Passing
  <1> HIDE DEF j
  <1>10. QED
    BY <1>5, <1>6, <1>7, <1>9, Moves

\* Nothing in the audit stands against a dispatch that has passed the gates.
LEMMA Cleared ==
    ASSUME DeskInv, NEW d \in Dispatchers, dispatch[d].pc = "gate", Refusal(d) = None
    PROVE  /\ dispatch[d].session \in Sessions
           /\ MayFire(Action(d), dispatch[d].session, dispatch[d].start, dispatch[d].at)
  <1> DEFINE a == Action(d)
             j == dispatch[d]
             S == {audit[k].at : k \in Fires(a)}
  <1>1. /\ j.session # None /\ consent[a] # "opt_out"
        /\ ~(Cooldown[a] # None /\ last_fired_at(a) # None /\ j.at - last_fired_at(a) < Cooldown[a])
    <2>1. None \notin {"session_unresolved", "personal_mode_excluded", "consent_opt_out", "cooldown"}
      OBVIOUS
    <2>2. QED
      BY ONLY <2>1, Refusal(d) = None DEF Refusal
  <1>2. /\ j \in Job /\ j.start <= Len(audit) /\ j.at <= clock /\ a \in Handlers
        /\ audit \in Seq(Entry) /\ clock \in Nat /\ j.at \in Nat /\ j.start \in Nat
    BY HandlersKnown DEF DeskInv, DeskTypeOK, JobOK, Action, Job
  <1>3. \A k \in DOMAIN audit : EntryInv(k) /\ audit[k].at \in Nat /\ k \in 1 .. Len(audit)
    <2>1. \A k \in DOMAIN audit : k \in 1 .. Len(audit) /\ audit[k] \in Entry
      BY <1>2
    <2>2. QED
      BY <2>1 DEF DeskInv, Entry
  <1>4. ASSUME NEW l \in 1 .. j.start
        PROVE  ~(audit[l].action = a /\ audit[l].condition = "consent_opt_out")
    <2>1. l \in DOMAIN audit
      BY <1>2
    <2>2. QED
      BY <1>1, <1>3, <2>1 DEF EntryInv
  <1>5. ASSUME NEW k \in 1 .. j.start, audit[k].action = a, audit[k].outcome = "fired", Cooldown[a] # None
        PROVE  j.at - audit[k].at >= Cooldown[a]
    <2>1. k \in DOMAIN audit
      BY <1>2
    <2>2. k \in Fires(a) /\ audit[k].at \in S
      BY <1>5, <2>1 DEF Fires
    <2>3. S \subseteq Nat /\ \A x \in S : x <= clock
      BY <1>3 DEF Fires, EntryInv
    <2>4. last_fired_at(a) = Max(S)
      BY <2>2 DEF last_fired_at
    <2>5. Max(S) \in Nat /\ audit[k].at <= Max(S)
      <3> HIDE DEF S
      <3>1. QED
        BY <1>2, <2>2, <2>3, MaxOf
    <2>6. Cooldown[a] \in Nat
      BY <1>2, <1>5
    <2>7. ~(j.at - Max(S) < Cooldown[a])
      BY <1>1, <1>5, <2>4, <2>5
    <2> HIDE DEF S, a, j
    <2>8. audit[k].at \in Nat
      BY <1>3, <2>1
    <2>9. QED
      BY SMTT(30), <1>2, <2>5, <2>6, <2>7, <2>8
  <1>6. QED
    BY <1>1, <1>2, <1>4, <1>5 DEF MayFire, Job

LEMMA GateStep ==
    ASSUME DeskInv, NEW d \in Dispatchers, Gate(d)
    PROVE  DeskInv'
  <1>1. /\ dispatch[d].pc = "gate" /\ dispatch[d] \in Job /\ JobOK(d)
        /\ UNCHANGED <<sessions, consent, audit, clock, wanted, raced>> /\ events' \in Nat
        /\ dispatch \in [Dispatchers -> Job]
    BY DEF Gate, DeskInv, DeskTypeOK
  <1>2. CASE Refusal(d) # None
    <2> DEFINE j == [dispatch[d] EXCEPT !.pc = "log", !.result = Suppressed(Refusal(d))]
    <2>1. Refusal(d) \in Refusals
      BY <1>2 DEF Refusal, Refusals
    <2>2. Suppressed(Refusal(d)) \in Results
      BY <2>1, ResultsKnown
    <2>3. j \in Job
      BY <1>1, <2>2 DEF Job, Steps
    <2>4. Put(d, j) /\ dispatch'[d] = j
      BY <1>1, <1>2 DEF Gate, Put
    <2>5. Refusal(d) = "consent_opt_out" => consent[Action(d)] = "opt_out"
      <3>1. None # "consent_opt_out"
        OBVIOUS
      <3>2. QED
        BY ONLY <3>1 DEF Refusal
    <2>6. Action(d)' = Action(d)
      BY <1>1, <2>4 DEF Action, Job
    <2>7. /\ dispatch'[d].pc = "log" /\ dispatch'[d].result = Suppressed(Refusal(d))
          /\ dispatch'[d].i = dispatch[d].i /\ dispatch'[d].start = dispatch[d].start
          /\ dispatch'[d].at = dispatch[d].at
      BY <1>1, <2>4 DEF Job
    <2>8. JobOK(d)' /\ GateInv(d)'
      BY <1>1, <2>2, <2>5, <2>6, <2>7 DEF JobOK, GateInv, Passing, Suppressed
    <2> HIDE DEF j
    <2>9. QED
      BY <1>1, <2>3, <2>4, <2>8, Moves
  <1>3. CASE Refusal(d) = None
    <2> DEFINE j == [dispatch[d] EXCEPT !.pc = "run"]
    <2>1. j \in Job
      BY <1>1 DEF Job, Steps
    <2>2. Put(d, j) /\ dispatch'[d] = j
      BY <1>1, <1>3 DEF Gate, Put
    <2>3. /\ dispatch'[d].pc = "run" /\ dispatch'[d].session = dispatch[d].session
          /\ dispatch'[d].i = dispatch[d].i /\ dispatch'[d].start = dispatch[d].start
          /\ dispatch'[d].at = dispatch[d].at
      BY <1>1, <2>2 DEF Job
    <2>4. Action(d)' = Action(d)
      BY <2>3 DEF Action
    <2>5. MayFire(Action(d), dispatch[d].session, dispatch[d].start, dispatch[d].at)'
      BY <1>1, <1>3, <2>3, <2>4, Cleared DEF MayFire
    <2>6. JobOK(d)' /\ GateInv(d)'
      BY <1>1, <1>3, <2>3, <2>5, Cleared DEF JobOK, GateInv, Passing
    <2> HIDE DEF j
    <2>7. QED
      BY <1>1, <2>1, <2>2, <2>6, Moves
  <1>4. QED
    BY <1>2, <1>3

LEMMA RunStep ==
    ASSUME DeskInv, NEW d \in Dispatchers, Run(d)
    PROVE  DeskInv'
  <1>1. /\ dispatch[d].pc = "run" /\ dispatch[d] \in Job /\ JobOK(d) /\ GateInv(d)
        /\ UNCHANGED <<sessions, consent, audit, clock, wanted, raced>> /\ events' \in Nat
        /\ dispatch \in [Dispatchers -> Job] /\ sessions \in [Sessions -> Rows]
    BY DEF Run, DeskInv, DeskTypeOK
  <1>2. /\ dispatch[d].session \in Sessions /\ Action(d) \in Handlers
        /\ MayFire(Action(d), dispatch[d].session, dispatch[d].start, dispatch[d].at)
    BY <1>1, HandlersKnown DEF JobOK, GateInv, Passing, Action
  <1>3. ASSUME NEW r \in Results, r.condition \notin Refusals,
               Put(d, [dispatch[d] EXCEPT !.pc = "log", !.result = r])
        PROVE  DeskInv'
    <2> DEFINE j == [dispatch[d] EXCEPT !.pc = "log", !.result = r]
    <2>1. j \in Job
      BY <1>1 DEF Job, Steps
    <2>2. Put(d, j) /\ dispatch'[d] = j
      BY <1>1, <1>3 DEF Put
    <2>3. /\ dispatch'[d].pc = "log" /\ dispatch'[d].session = dispatch[d].session
          /\ dispatch'[d].i = dispatch[d].i /\ dispatch'[d].start = dispatch[d].start
          /\ dispatch'[d].at = dispatch[d].at /\ dispatch'[d].result = r
      BY <1>1, <2>2 DEF Job
    <2>4. Action(d)' = Action(d)
      BY <2>3 DEF Action
    <2>5. MayFire(Action(d), dispatch[d].session, dispatch[d].start, dispatch[d].at)'
      BY <1>1, <1>2, <2>3, <2>4 DEF MayFire
    <2>6. r.condition # "consent_opt_out"
      BY <1>3 DEF Refusals
    <2>7. JobOK(d)' /\ GateInv(d)'
      BY <1>1, <2>3, <2>5, <2>6 DEF JobOK, GateInv, Passing
    <2> HIDE DEF j
    <2>8. QED
      BY <1>1, <2>1, <2>2, <2>7, Moves
  <1>4. CASE Put(d, [dispatch[d] EXCEPT !.pc = "log", !.result = Result(Action(d), dispatch[d].session)])
    BY <1>2, <1>3, <1>4, ResultsKnown
  <1>5. CASE Put(d, [dispatch[d] EXCEPT !.pc = "log", !.result = [outcome |-> "failed", condition |-> "error"]])
    <2>1. "error" \notin Refusals
      BY DEF Refusals
    <2>2. QED
      BY <1>3, <1>5, <2>1, ResultsKnown
  <1>6. CASE Put(d, [dispatch[d] EXCEPT !.pc = "tag", !.row = sessions[dispatch[d].session]])
    <2> DEFINE j == [dispatch[d] EXCEPT !.pc = "tag", !.row = sessions[dispatch[d].session]]
    <2>1. sessions[dispatch[d].session] \in Rows
      BY <1>1, <1>2
    <2>2. j \in Job
      BY <1>1, <2>1 DEF Job, Steps
    <2>3. Put(d, j) /\ dispatch'[d] = j
      BY <1>1, <1>6 DEF Put
    <2>4. /\ dispatch'[d].pc = "tag" /\ dispatch'[d].session = dispatch[d].session
          /\ dispatch'[d].i = dispatch[d].i /\ dispatch'[d].start = dispatch[d].start
          /\ dispatch'[d].at = dispatch[d].at /\ dispatch'[d].row = sessions[dispatch[d].session]
      BY <1>1, <2>3 DEF Job
    <2>5. Action(d)' = Action(d)
      BY <2>4 DEF Action
    <2>6. MayFire(Action(d), dispatch[d].session, dispatch[d].start, dispatch[d].at)'
      BY <1>1, <1>2, <2>4, <2>5 DEF MayFire
    <2>7. dispatch'[d].row.mode = wanted'[dispatch'[d].session] \/ dispatch'[d].session \in raced'
      BY <1>1, <1>2, <2>4 DEF DeskInv
    <2>8. JobOK(d)' /\ GateInv(d)'
      BY <1>1, <1>2, <2>1, <2>4, <2>6, <2>7 DEF JobOK, GateInv, Passing
    <2> HIDE DEF j
    <2>9. QED
      BY <1>1, <2>2, <2>3, <2>8, Moves
  <1>7. QED
    BY <1>4, <1>5, <1>6 DEF Run

LEMMA TagStep ==
    ASSUME DeskInv, NEW d \in Dispatchers, update_session_tags(d)
    PROVE  DeskInv'
  <1> DEFINE s == dispatch[d].session
             row == [dispatch[d].row EXCEPT !.tags = compute_tags(s)]
             j == [dispatch[d] EXCEPT !.pc = "log", !.result = AutoTag(s), !.row = None]
  <1>1. /\ dispatch[d].pc = "tag" /\ dispatch[d] \in Job /\ JobOK(d) /\ GateInv(d)
        /\ UNCHANGED <<consent, audit, clock, wanted, raced>> /\ events' \in Nat
        /\ dispatch \in [Dispatchers -> Job] /\ sessions \in [Sessions -> Rows]
        /\ Put(d, j) /\ sessions' = [sessions EXCEPT ![s] = row]
    BY DEF update_session_tags, DeskInv, DeskTypeOK
  <1>2. /\ s \in Sessions /\ dispatch[d].row \in Rows
        /\ MayFire(Action(d), s, dispatch[d].start, dispatch[d].at)
        /\ dispatch[d].row.mode = wanted[s] \/ s \in raced
    BY <1>1 DEF JobOK, GateInv, Passing
  <1>3. row \in Rows /\ row.mode = dispatch[d].row.mode
    BY <1>2 DEF Rows, Tags
  <1>4. AutoTag(s) \in Results /\ AutoTag(s).condition # "consent_opt_out"
    BY DEF AutoTag, Fired, Results, Outcomes, Answers
  <1>5. j \in Job
    BY <1>1, <1>4 DEF Job, Steps
  <1>6. dispatch'[d] = j /\ \A q \in Dispatchers : q # d => dispatch'[q] = dispatch[q]
    BY <1>1 DEF Put
  <1>7. /\ dispatch'[d].pc = "log" /\ dispatch'[d].session = s
        /\ dispatch'[d].i = dispatch[d].i /\ dispatch'[d].start = dispatch[d].start
        /\ dispatch'[d].at = dispatch[d].at /\ dispatch'[d].result = AutoTag(s)
    BY <1>1, <1>6 DEF Job
  <1>8. Action(d)' = Action(d)
    BY <1>7 DEF Action
  <1>9. MayFire(Action(d), dispatch[d].session, dispatch[d].start, dispatch[d].at)'
    BY <1>1, <1>2, <1>7, <1>8 DEF MayFire
  <1>10. JobOK(d)' /\ GateInv(d)'
    BY <1>1, <1>4, <1>7, <1>9 DEF JobOK, GateInv, Passing
  <1>11. ASSUME NEW q \in Dispatchers PROVE JobOK(q)' /\ GateInv(q)'
    <2>1. CASE q # d
      BY <1>1, <1>6, <2>1, JobKept
    <2>2. QED
      BY <1>10, <2>1
  <1>12. \A k \in DOMAIN audit' : EntryInv(k)'
    BY <1>1, EntriesKept
  <1>13. ASSUME NEW t \in Sessions PROVE sessions'[t].mode = wanted'[t] \/ t \in raced'
    <2>1. CASE t = s
      BY <1>1, <1>2, <1>3, <2>1
    <2>2. CASE t # s
      BY <1>1, <2>2 DEF DeskInv
    <2>3. QED
      BY <2>1, <2>2
  <1>14. DeskTypeOK'
    <2>1. sessions' \in [Sessions -> Rows]
      BY <1>1, <1>2, <1>3
    <2>2. dispatch' \in [Dispatchers -> Job]
      BY <1>1, <1>5 DEF Put
    <2>3. QED
      BY <1>1, <2>1, <2>2 DEF DeskInv, DeskTypeOK
  <1>15. QED
    BY <1>11, <1>12, <1>13, <1>14 DEF DeskInv

LEMMA SetModeStep ==
    ASSUME DeskInv, set_mode
    PROVE  DeskInv'
  <1>1. PICK s \in Sessions, m \in {"work", "personal"} :
          /\ sessions' = [sessions EXCEPT ![s].mode = m] /\ wanted' = [wanted EXCEPT ![s] = m]
          /\ raced' = IF \E d \in Dispatchers : dispatch[d].pc = "tag" /\ dispatch[d].session = s
                      THEN raced \cup {s} ELSE raced
    BY DEF set_mode
  <1>2. /\ UNCHANGED <<consent, audit, dispatch, clock>> /\ events' \in Nat
        /\ sessions \in [Sessions -> Rows] /\ wanted \in [Sessions -> Modes] /\ raced \in SUBSET Sessions
        /\ m \in Modes
    BY DEF set_mode, DeskInv, DeskTypeOK, Modes
  <1>3. ASSUME NEW t \in Sessions
        PROVE  sessions'[t] \in Rows /\ (sessions'[t].mode = wanted'[t] \/ t \in raced')
    <2>1. CASE t = s
      BY <1>1, <1>2, <2>1 DEF Rows
    <2>2. CASE t # s
      BY <1>1, <1>2, <2>2 DEF DeskInv
    <2>3. QED
      BY <2>1, <2>2
  <1>4. DeskTypeOK'
    <2>1. sessions' \in [Sessions -> Rows]
      BY <1>1, <1>2, <1>3
    <2>2. wanted' \in [Sessions -> Modes] /\ raced' \in SUBSET Sessions
      BY <1>1, <1>2
    <2>3. QED
      BY <1>2, <2>1, <2>2 DEF DeskInv, DeskTypeOK
  <1>5. ASSUME NEW q \in Dispatchers PROVE JobOK(q)' /\ GateInv(q)'
    <2>1. JobOK(q) /\ GateInv(q) /\ Action(q)' = Action(q) /\ Passing(q)' = Passing(q)
      BY <1>2 DEF DeskInv, Action, Passing
    <2>2. dispatch[q].pc = "tag" => dispatch[q].row.mode = wanted'[dispatch[q].session]
                                    \/ dispatch[q].session \in raced'
      <3>1. SUFFICES ASSUME dispatch[q].pc = "tag" PROVE dispatch[q].row.mode = wanted'[dispatch[q].session]
                                    \/ dispatch[q].session \in raced'
        OBVIOUS
      <3>2. dispatch[q].session \in Sessions
        BY <2>1, <3>1 DEF JobOK
      <3>3. CASE dispatch[q].session = s
        BY <1>1, <3>1, <3>3
      <3>4. CASE dispatch[q].session # s
        BY <1>1, <1>2, <2>1, <3>1, <3>2, <3>4 DEF GateInv
      <3>5. QED
        BY <3>3, <3>4
    <2>3. QED
      BY <1>2, <2>1, <2>2 DEF JobOK, GateInv, MayFire
  <1>6. \A k \in DOMAIN audit' : EntryInv(k)'
    BY <1>2, EntriesKept
  <1>7. QED
    BY <1>3, <1>4, <1>5, <1>6 DEF DeskInv

\* Consents are only taken back, and time only passes.
LEMMA AroundStep ==
    ASSUME DeskInv, set_consent \/ ClockTick
    PROVE  DeskInv'
  <1>1. /\ UNCHANGED <<sessions, audit, dispatch, wanted, raced>>
        /\ \A a \in Handlers : consent'[a] = consent[a] \/ consent'[a] = "opt_out"
        /\ clock' \in Nat /\ clock <= clock' /\ events' \in Nat
        /\ consent' \in [Handlers -> {"opt_out", None}]
    <2>1. CASE set_consent
      <3>1. PICK b : consent' = [consent EXCEPT ![b] = "opt_out"]
        BY <2>1 DEF set_consent
      <3>2. consent \in [Handlers -> {"opt_out", None}] /\ clock \in Nat /\ events \in Nat
        BY DEF DeskInv, DeskTypeOK
      <3>3. /\ UNCHANGED <<sessions, audit, dispatch, wanted, raced, clock>> /\ events' = events + 1
        BY <2>1 DEF set_consent
      <3>4. consent' \in [Handlers -> {"opt_out", None}]
        BY <3>1, <3>2
      <3>5. \A a \in Handlers : consent'[a] = consent[a] \/ consent'[a] = "opt_out"
        BY <3>1, <3>2
      <3>6. clock' \in Nat /\ clock <= clock' /\ events' \in Nat
        BY <3>2, <3>3
      <3>7. QED
        BY <3>3, <3>4, <3>5, <3>6
    <2>2. CASE ClockTick
      BY <2>2 DEF ClockTick, DeskInv, DeskTypeOK
    <2>3. QED
      BY <2>1, <2>2
  <1>2. /\ clock \in Nat /\ audit \in Seq(Entry) /\ dispatch \in [Dispatchers -> Job]
    BY DEF DeskInv, DeskTypeOK
  <1>3. ASSUME NEW q \in Dispatchers PROVE JobOK(q)' /\ GateInv(q)'
    <2>1. JobOK(q) /\ GateInv(q) /\ Action(q)' = Action(q) /\ Passing(q)' = Passing(q)
      BY <1>1 DEF DeskInv, Action, Passing
    <2>2. dispatch[q].at \in Nat
      BY <1>2 DEF Job
    <2>3. JobOK(q)'
      BY <1>1, <1>2, <2>1, <2>2 DEF JobOK
    <2>4. dispatch[q].pc = "log" => Action(q) \in Handlers
      BY <2>1, HandlersKnown DEF JobOK, Action
    <2>5. GateInv(q)'
      BY <1>1, <2>1, <2>4 DEF GateInv, MayFire
    <2>6. QED
      BY <2>3, <2>5
  <1>4. ASSUME NEW k \in DOMAIN audit' PROVE EntryInv(k)'
    <2>1. k \in DOMAIN audit /\ EntryInv(k)
      BY <1>1 DEF DeskInv
    <2>2. audit[k] \in Entry
      BY <1>2, <2>1
    <2>3. audit[k].at \in Nat /\ audit[k].action \in Handlers
      BY <2>2 DEF Entry
    <2>4. QED
      BY <1>1, <1>2, <2>1, <2>3 DEF EntryInv, MayFire
  <1>5. QED
    BY <1>1, <1>3, <1>4 DEF DeskInv, DeskTypeOK

LEMMA LogStep ==
    ASSUME DeskInv, NEW d \in Dispatchers, _log(d)
    PROVE  DeskInv'
  <1> DEFINE j == dispatch[d]
             e == [action |-> Action(d), session |-> j.session, at |-> j.at, start |-> j.start,
                   outcome |-> j.result.outcome, condition |-> j.result.condition]
             next == IF j.i = Len(Registered[d]) THEN NoDispatch
                     ELSE [j EXCEPT !.pc = "gate", !.i = @ + 1, !.result = None]
  <1>1. /\ j.pc = "log" /\ j \in Job /\ JobOK(d) /\ GateInv(d)
        /\ audit' = Append(audit, e) /\ Put(d, next)
        /\ UNCHANGED <<sessions, consent, clock, events, wanted, raced>>
    BY DEF _log, DeskInv, DeskTypeOK
  <1>2. /\ audit \in Seq(Entry) /\ dispatch \in [Dispatchers -> Job] /\ Len(audit) \in Nat /\ clock \in Nat
    BY DEF DeskInv, DeskTypeOK
  <1>3. /\ j.result \in Results /\ Action(d) \in Handlers /\ j.start \in Nat /\ j.start <= Len(audit)
        /\ j.at \in Nat /\ j.at <= clock /\ j.i \in 1 .. Len(Registered[d]) /\ Len(Registered[d]) \in Nat
    BY <1>1, HandlersKnown DEF JobOK, Action, Job
  <1>4. e \in Entry
    BY <1>1, <1>3 DEF Entry, Results, Job
  <1>5. next \in Job
    <2>1. NoDispatch \in Job
      BY DEF NoDispatch, Job, Steps
    <2>2. [j EXCEPT !.pc = "gate", !.i = @ + 1, !.result = None] \in Job
      <3>1. PICK n \in Nat : n = j.i + 1
        BY <1>3
      <3>2. [j EXCEPT !.pc = "gate", !.i = n, !.result = None] \in Job
        BY <1>1 DEF Job, Steps
      <3>3. QED
        BY <3>1, <3>2
    <2>3. QED
      BY <2>1, <2>2
  <1>6. /\ audit' \in Seq(Entry) /\ Len(audit') = Len(audit) + 1
        /\ audit'[Len(audit) + 1] = e /\ \A k \in 1 .. Len(audit) : audit'[k] = audit[k]
        /\ DOMAIN audit' = 1 .. Len(audit) + 1 /\ DOMAIN audit = 1 .. Len(audit)
    BY <1>1, <1>2, <1>4
  <1>7. dispatch'[d] = next /\ dispatch' \in [Dispatchers -> Job]
        /\ \A q \in Dispatchers : q # d => dispatch'[q] = dispatch[q]
    BY <1>1, <1>2, <1>5 DEF Put
  <1>8. JobOK(d)' /\ GateInv(d)'
    <2>1. CASE j.i = Len(Registered[d])
      <3>1. dispatch'[d].pc = "idle"
        BY <1>7, <2>1 DEF NoDispatch
      <3>2. QED
        BY <3>1 DEF JobOK, GateInv, Passing
    <2>2. CASE j.i # Len(Registered[d])
      <3>1. dispatch'[d] = [j EXCEPT !.pc = "gate", !.i = @ + 1, !.result = None]
        BY <1>7, <2>2
      <3>2. dispatch'[d].pc = "gate" /\ dispatch'[d].i = j.i + 1 /\ dispatch'[d].start = j.start
            /\ dispatch'[d].at = j.at
        BY <1>1, <3>1 DEF Job
      <3>3. j.i + 1 \in 1 .. Len(Registered[d])
        BY <1>3, <2>2
      <3> HIDE DEF j
      <3>4. QED
        BY <1>1, <1>2, <1>3, <1>6, <3>2, <3>3 DEF JobOK, GateInv, Passing
    <2>3. QED
      BY <2>1, <2>2
  <1>9. ASSUME NEW q \in Dispatchers, q # d PROVE JobOK(q)' /\ GateInv(q)'
    <2>1. JobOK(q) /\ GateInv(q) /\ dispatch'[q] = dispatch[q] /\ dispatch[q] \in Job
      BY <1>2, <1>7, <1>9 DEF DeskInv
    <2>2. Action(q)' = Action(q) /\ Passing(q)' = Passing(q)
      BY <2>1 DEF Action, Passing
    <2>3. dispatch[q].start \in Nat
      BY <2>1 DEF Job
    <2>4. JobOK(q)'
      BY <1>1, <1>2, <1>6, <2>1, <2>3 DEF JobOK
    <2>5. Passing(q) => MayFire(Action(q), dispatch[q].session, dispatch[q].start, dispatch[q].at)'
      <3>1. SUFFICES ASSUME Passing(q)
                     PROVE  MayFire(Action(q), dispatch[q].session, dispatch[q].start, dispatch[q].at)'
        OBVIOUS
      <3>2. dispatch[q].start <= Len(audit)
        BY <2>1, <3>1 DEF JobOK, Passing
      <3>3. MayFire(Action(q), dispatch[q].session, dispatch[q].start, dispatch[q].at)
        BY <2>1, <3>1 DEF GateInv
      <3> HIDE DEF e
      <3>4. \A l \in 1 .. dispatch[q].start : audit'[l] = audit[l]
        BY <1>2, <1>6, <2>3, <3>2
      <3>5. QED
        BY <2>1, <2>2, <3>3, <3>4 DEF MayFire
    <2>6. GateInv(q)'
      BY <1>1, <2>1, <2>2, <2>5 DEF GateInv
    <2>7. QED
      BY <2>4, <2>6
  <1>10. ASSUME NEW k \in DOMAIN audit' PROVE EntryInv(k)'
    <2>1. CASE k \in 1 .. Len(audit)
      <3>1. EntryInv(k) /\ audit'[k] = audit[k] /\ audit[k] \in Entry
        BY <1>2, <1>6, <2>1 DEF DeskInv
      <3>2. audit[k].start \in Nat /\ audit[k].start < k
        BY <3>1 DEF EntryInv, Entry
      <3>3. \A l \in 1 .. audit[k].start : audit'[l] = audit[l]
        BY <1>6, <2>1, <3>2
      <3> HIDE DEF e
      <3>4. QED
        BY <1>1, <3>1, <3>3 DEF EntryInv, MayFire
    <2>2. CASE k = Len(audit) + 1
      <3>1. audit'[k] = e
        BY <1>6, <2>2
      <3>2. e.start = j.start /\ e.at = j.at /\ e.condition = j.result.condition /\ e.outcome = j.result.outcome
            /\ e.action = Action(d) /\ e.session = j.session
        OBVIOUS
      <3> HIDE DEF e, j, next
      <3>3. \A l \in 1 .. j.start : audit'[l] = audit[l]
        BY <1>2, <1>3, <1>6
      <3>4. e.outcome = "fired" => MayFire(Action(d), j.session, j.start, j.at)
        BY <1>1, <3>2 DEF GateInv, Passing, j
      <3>5. e.condition = "consent_opt_out" => consent[Action(d)] = "opt_out"
        BY <1>1, <3>2 DEF GateInv, j
      <3>6. QED
        BY <1>1, <1>2, <1>3, <2>2, <3>1, <3>2, <3>3, <3>4, <3>5 DEF EntryInv, MayFire
    <2>3. QED
      BY <1>2, <1>6, <2>1, <2>2
  <1>11. DeskTypeOK'
    BY <1>1, <1>6, <1>7 DEF DeskInv, DeskTypeOK
  <1>12. \A s \in Sessions : sessions'[s].mode = wanted'[s] \/ s \in raced'
    BY <1>1 DEF DeskInv
  <1>13. QED
    BY <1>8, <1>9, <1>10, <1>11, <1>12 DEF DeskInv

LEMMA DeskStep == DeskInv /\ [DeskNext]_dvars => DeskInv'
  <1>1. SUFFICES ASSUME DeskInv, [DeskNext]_dvars PROVE DeskInv'
    OBVIOUS
  <1>2. CASE UNCHANGED dvars
    <2>1. \A q \in Dispatchers : JobOK(q)' /\ GateInv(q)'
      BY <1>1, <1>2, JobKept DEF dvars
    <2>2. \A k \in DOMAIN audit' : EntryInv(k)'
      BY <1>1, <1>2, EntriesKept DEF dvars
    <2>3. QED
      BY <1>1, <1>2, <2>1, <2>2 DEF dvars, DeskInv, DeskTypeOK
  <1>3. CASE \E d \in Dispatchers : Dispatch(d) \/ Gate(d) \/ Run(d) \/ update_session_tags(d) \/ _log(d)
    BY <1>1, <1>3, DispatchStep, GateStep, RunStep, TagStep, LogStep
  <1>4. CASE set_mode \/ set_consent \/ ClockTick
    BY <1>1, <1>4, SetModeStep, AroundStep
  <1>5. QED
    BY <1>1, <1>2, <1>3, <1>4 DEF DeskNext

-----------------------------------------------------------------------------
\* The update check

Version == Nat \ {0}
Texts == [at : Nat, latest : seen]
Files == Texts \cup {Torn, None}
Checks == [pc : {"idle", "fetch", "open", "write", "replace"}, latest : seen \cup {None}]

\* Whatever is in the cache file or in the temporary one was cut short or is a
\* whole text that names a version some source announced.
UpdateInv ==
    /\ day \in Nat /\ seen \in SUBSET Version /\ installed \in Version \cup {None}
    /\ published \in [{"server", "github"} -> seen \cup {None}]
    /\ cache \in Files /\ tmp \in Files
    /\ \A d \in Dispatchers : checker[d].pc \in {"open", "write", "replace"} => checker[d].latest \in seen
    /\ checker \in [Dispatchers -> Checks]

LEMMA UpdateInitInv == UpdateInit => UpdateInv
  <1>1. SUFFICES ASSUME UpdateInit PROVE UpdateInv
    OBVIOUS
  <1>2. published = [server |-> None, github |-> 1] /\ seen = {1}
    BY <1>1 DEF UpdateInit
  <1>3. published \in [{"server", "github"} -> seen \cup {None}]
    BY <1>2
  <1>4. [pc |-> "idle", latest |-> None] \in Checks
    BY DEF Checks
  <1>5. checker \in [Dispatchers -> Checks] /\ \A d \in Dispatchers : checker[d].pc = "idle"
    BY <1>1, <1>4 DEF UpdateInit
  <1>6. QED
    BY <1>1, <1>2, <1>3, <1>5 DEF UpdateInit, UpdateInv, Files, Version

\* A text is whole, and a version announced is not 0.
LEMMA UpdateInvNotice == UpdateInv => NoticeHonest
  <1>1. SUFFICES ASSUME UpdateInv PROVE NoticeHonest
    OBVIOUS
  <1>2. ASSUME maybe_notify # None PROVE maybe_notify \in seen /\ maybe_notify > installed
    <2>1. read_cache # None /\ is_newer(installed, read_cache.latest) /\ maybe_notify = read_cache.latest
      BY <1>2 DEF maybe_notify, notice
    <2>2. cache # Torn /\ cache # None /\ read_cache = cache
      BY <2>1 DEF read_cache
    <2>3. cache \in Texts
      BY <1>1, <2>2 DEF UpdateInv, Files
    <2>4. cache.latest \in seen
      BY <2>3 DEF Texts
    <2>5. QED
      BY <2>1, <2>2, <2>4 DEF is_newer
  <1>3. cache = Torn => should_check
    BY DEF should_check, read_cache
  <1>4. QED
    BY <1>2, <1>3 DEF NoticeHonest

\* A step of one check that leaves the files alone.
LEMMA CheckStep ==
    ASSUME UpdateInv, NEW d \in Dispatchers, NEW c \in Checks, Check(d, c),
           c.pc \in {"open", "write", "replace"} => c.latest \in seen,
           UNCHANGED <<installed, published, cache, tmp, day, seen>>
    PROVE  UpdateInv'
  <1>1. checker' = [checker EXCEPT ![d] = c] /\ checker \in [Dispatchers -> Checks]
    BY DEF Check, UpdateInv
  <1>2. checker' \in [Dispatchers -> Checks]
    BY <1>1
  <1>3. Checks' = Checks /\ Files' = Files
    BY DEF Checks, Files, Texts
  <1>4. QED
    BY <1>1, <1>2, <1>3 DEF UpdateInv

LEMMA UpdateStep == UpdateInv /\ [UpdateNext]_uvars => UpdateInv'
  <1>1. SUFFICES ASSUME UpdateInv, [UpdateNext]_uvars PROVE UpdateInv'
    OBVIOUS
  <1> USE DEF UpdateInv
  <1>2. CASE UNCHANGED uvars
    BY <1>1, <1>2 DEF uvars, Files, Texts, Checks
  <1>3. ASSUME NEW d \in Dispatchers, maybe_spawn_check(d) \/ Killed(d)
        PROVE  UpdateInv'
    <2>1. PICK c \in Checks : Check(d, c) /\ c.pc \in {"idle", "fetch"}
      <3>1. \A pc \in {"idle", "fetch"} : [pc |-> pc, latest |-> None] \in Checks
        BY DEF Checks
      <3>2. QED
        BY <1>3, <3>1 DEF maybe_spawn_check, Killed
    <2>2. QED
      BY <1>1, <1>3, <2>1, CheckStep DEF maybe_spawn_check, Killed
  <1>4. ASSUME NEW d \in Dispatchers, refresh(d)
        PROVE  UpdateInv'
    <2>1. fetch_latest \in seen \cup {None}
      BY <1>1 DEF fetch_latest
    <2>2. [pc |-> "idle", latest |-> None] \in Checks
          /\ (fetch_latest # None => [pc |-> "open", latest |-> fetch_latest] \in Checks)
      BY <2>1 DEF Checks
    <2>3. QED
      BY <1>1, <1>4, <2>1, <2>2, CheckStep DEF refresh
  <1>5. ASSUME NEW d \in Dispatchers, OpenTmp(d)
        PROVE  UpdateInv'
    BY <1>1, <1>5 DEF OpenTmp, Check, Files, Texts, Checks
  <1>6. ASSUME NEW d \in Dispatchers, WriteTmp(d)
        PROVE  UpdateInv'
    <2>1. [at |-> day, latest |-> checker[d].latest] \in Texts
      BY <1>1, <1>6 DEF WriteTmp, Texts
    <2>2. tmp' \in Files /\ cache' \in Files
      BY <1>1, <1>6, <2>1 DEF WriteTmp, Files
    <2>3. QED
      BY <1>1, <1>6, <2>2 DEF WriteTmp, Check, Files, Texts, Checks
  <1>7. ASSUME NEW d \in Dispatchers, write_cache(d)
        PROVE  UpdateInv'
    BY <1>1, <1>7 DEF write_cache, Check, Files, Texts, Checks
  <1>8. CASE Publish
    <2>1. PICK where \in {"server", "github"}, v \in 1 .. MaxVersion :
            published' = [published EXCEPT ![where] = v] /\ seen' = seen \cup {v}
      BY <1>8 DEF Publish
    <2>2. v \in Version
      BY <2>1 DEF Version
    <2>3. \A f \in Files : f \in Files'
      BY <2>1 DEF Files, Texts
    <2>4. \A c \in Checks : c \in Checks'
      BY <2>1 DEF Checks
    <2>5. checker' \in [Dispatchers -> Checks']
      BY <1>1, <1>8, <2>4 DEF Publish
    <2>6. published' \in [{"server", "github"} -> seen' \cup {None}]
      BY <1>1, <2>1
    <2>7. seen' \in SUBSET Version
      BY <1>1, <2>1, <2>2
    <2>8. \A d \in Dispatchers : checker'[d].pc \in {"open", "write", "replace"} => checker'[d].latest \in seen'
      BY <1>1, <1>8, <2>1 DEF Publish
    <2>9. QED
      BY <1>1, <1>8, <2>3, <2>5, <2>6, <2>7, <2>8 DEF Publish
  <1>9. CASE Upgrade
    BY <1>1, <1>9 DEF Upgrade, is_newer, Files, Texts, Checks
  <1>10. CASE OptOut \/ DayTurns
    BY <1>1, <1>10 DEF OptOut, DayTurns, Files, Texts, Checks
  <1>11. QED
    BY <1>1, <1>2, <1>3, <1>4, <1>5, <1>6, <1>7, <1>8, <1>9, <1>10 DEF UpdateNext

-----------------------------------------------------------------------------
\* Local questions and the local purge

InsightInv ==
    /\ local \subseteq Local
    /\ InsightGrounded

LEMMA InsightInitInv == InsightInit => InsightInv
  BY DEF InsightInit, InsightInv, InsightGrounded

\* The smaller of two sizes.
LEMMA MinOfTwo == ASSUME NEW n \in Nat PROVE Min({AnswerK, n}) \in Nat /\ Min({AnswerK, n}) <= n
  <1>1. \E m \in {AnswerK, n} : \A y \in {AnswerK, n} : m <= y
    BY DEF DeskAssumption
  <1>2. Min({AnswerK, n}) \in {AnswerK, n} /\ \A y \in {AnswerK, n} : Min({AnswerK, n}) <= y
    BY <1>1 DEF Min
  <1>3. QED
    BY <1>2

Matching(spec) == {c \in list_compactions(spec.project, spec.outcome) : _within(c, _since_cutoff(spec.since))}
Since(spec) == {c \in local : _within(c, spec.since)}
Answer(spec, cited, used, matched) ==
    [spec |-> spec, cited |-> {c.id : c \in cited}, grounded |-> cited # {}, coverage |-> coverage(used, matched)]

\* An answer, cited or not, from some of the digests its filter admits.
LEMMA Answered ==
    ASSUME InsightInv, local' = local, NEW spec, NEW cited, NEW top,
           top \subseteq Matching(spec), cited \subseteq top, Cardinality(top) <= Cardinality(Matching(spec)),
           insight' = Answer(spec, cited, top, Matching(spec))
    PROVE  InsightInv'
  <1>1. Matching(spec) \subseteq Since(spec) /\ Since(spec) \subseteq local
    BY DEF list_compactions, _since_cutoff, Matching, Since
  <1>2. IsFiniteSet(Since(spec)) /\ IsFiniteSet(Matching(spec)) /\ IsFiniteSet(top)
    BY <1>1, FS_Subset DEF InsightInv
  <1>3. Cardinality(Matching(spec)) <= Cardinality(Since(spec))
    BY <1>1, <1>2, FS_Subset
  <1>4. Since(spec)' = Since(spec)
    BY DEF Since, _within
  <1>5. /\ insight'.spec = spec /\ insight'.cited = {c.id : c \in cited}
        /\ insight'.coverage.used = Cardinality(top) /\ insight'.coverage.matched = Cardinality(Matching(spec))
    BY DEF coverage, Answer
  <1>6. insight'.grounded <=> insight'.cited # {}
    <2>1. insight'.grounded = (cited # {})
      BY DEF Answer
    <2>2. cited # {} <=> {c.id : c \in cited} # {}
      OBVIOUS
    <2>3. QED
      BY <1>5, <2>1, <2>2
  <1>7. structural_insights(insight.spec.since).count' = Cardinality(Since(spec))
    BY <1>4, <1>5 DEF structural_insights, Since
  <1>8. ASSUME NEW id \in insight'.cited
        PROVE  \E c \in list_compactions(insight.spec.project, insight.spec.outcome)' :
                   c.id = id /\ _within(c, insight.spec.since)'
    <2>1. PICK c \in cited : c.id = id
      BY <1>5, <1>8
    <2>2. c \in Matching(spec)
      BY <2>1
    <2>3. c \in list_compactions(insight.spec.project, insight.spec.outcome)'
      BY <1>5, <2>2 DEF list_compactions, Matching
    <2>4. _within(c, insight.spec.since)'
      BY <1>5, <2>2 DEF Matching, _within, _since_cutoff
    <2>5. QED
      BY <2>1, <2>3, <2>4
  <1>9. insight'.coverage.used <= insight'.coverage.matched
        /\ insight'.coverage.matched <= structural_insights(insight.spec.since).count'
    BY <1>3, <1>5, <1>7
  <1>10. InsightGrounded'
    BY <1>6, <1>8, <1>9 DEF InsightInv, InsightGrounded
  <1>11. QED
    BY <1>10 DEF InsightInv

\* The best of what matched: no more than matched.
LEMMA Ranked ==
    ASSUME NEW comps, IsFiniteSet(comps), NEW top \in _index_and_rank(comps)
    PROVE  top \subseteq comps /\ Cardinality(top) <= Cardinality(comps)
  BY FS_Subset DEF _index_and_rank

LEMMA AskStep == ASSUME InsightInv, ask PROVE InsightInv'
  <1>1. local' = local
    BY DEF ask
  <1>2. PICK spec \in Asked, model \in BOOLEAN :
          IF Matching(spec) = {} THEN insight' = Answer(spec, {}, {}, {})
          ELSE \E top \in _index_and_rank(Matching(spec)), pieces \in SUBSET UNION {c.names : c \in Local} :
                 insight' = Answer(spec, IF model THEN _match_citations(pieces, top) ELSE {}, top, Matching(spec))
    <2>1. Answer(Asked, {}, {}, {}).cited = {} /\ {c.id : c \in {}} = {} /\ ({} # {}) = FALSE
      BY DEF Answer
    <2>2. QED
      BY ZenonT(60), <2>1, Zenon DEF ask, Matching, Answer
  <1>3. CASE Matching(spec) = {}
    <2>1. insight' = Answer(spec, {}, {}, Matching(spec))
      BY <1>2, <1>3
    <2>2. {} \subseteq Matching(spec) /\ Cardinality({}) <= Cardinality(Matching(spec))
      BY <1>3, FS_EmptySet
    <2>3. QED
      BY <1>1, <2>1, <2>2, Answered
  <1>4. CASE Matching(spec) # {}
    <2>1. PICK top \in _index_and_rank(Matching(spec)), pieces \in SUBSET UNION {c.names : c \in Local} :
            insight' = Answer(spec, IF model THEN _match_citations(pieces, top) ELSE {}, top, Matching(spec))
      BY <1>2, <1>4
    <2> DEFINE cited == IF model THEN _match_citations(pieces, top) ELSE {}
    <2>2. IsFiniteSet(Matching(spec))
      BY FS_Subset DEF InsightInv, list_compactions, Matching
    <2>3. top \subseteq Matching(spec) /\ Cardinality(top) <= Cardinality(Matching(spec))
      BY <2>1, <2>2, Ranked
    <2>4. cited \subseteq top
      BY DEF _match_citations
    <2>5. insight' = Answer(spec, cited, top, Matching(spec))
      BY <2>1
    <2> HIDE DEF cited
    <2>6. QED
      BY <1>1, <2>3, <2>4, <2>5, Answered
  <1>5. QED
    BY <1>3, <1>4

LEMMA PurgeStep == ASSUME InsightInv, purge PROVE InsightInv'
  <1>1. PICK source \in {None, "pending"}, self \in BOOLEAN, junk \in BOOLEAN :
          /\ source # None \/ self \/ junk
          /\ local' = {c \in local : ~matches(c, source, self, junk)}
    BY DEF purge
  <1>2. insight' = None /\ local' \subseteq local
    BY <1>1 DEF purge
  <1>3. ASSUME NEW c \in local, c \notin local'
        PROVE  \/ c.source = "pending" \/ c.marker
               \/ (c.files = {} /\ c.project \in {"", "unknown"} /\ c.outcome = "abandoned")
    <2>1. matches(c, source, self, junk)
      BY <1>1, <1>3
    <2>2. source # None \/ self \/ junk
      BY <1>1
    <2>3. source # None => source = "pending" /\ c.source = source
      BY <2>1 DEF matches
    <2>4. self => c.marker
      BY <2>1, Zenon DEF matches, is_self_generated
    <2>5. junk => c.files = {} /\ c.project \in {"", "unknown"} /\ c.outcome = "abandoned"
      BY <2>1, Zenon DEF matches, is_structural_junk_here
    <2>6. QED
      BY <2>2, <2>3, <2>4, <2>5, Zenon
  <1>4. QED
    BY <1>2, <1>3 DEF InsightInv, InsightGrounded

LEMMA InsightStep == InsightInv /\ [InsightNext]_ivars => InsightInv'
  <1>1. ASSUME InsightInv, UNCHANGED ivars PROVE InsightInv'
    <2>1. local' = local /\ insight' = insight
      BY <1>1 DEF ivars
    <2>2. CASE insight = None
      BY <1>1, <2>1, <2>2 DEF InsightInv, InsightGrounded
    <2>3. CASE insight # None
      <3>1. ASSUME NEW id \in insight'.cited
            PROVE  \E c \in list_compactions(insight.spec.project, insight.spec.outcome)' :
                       c.id = id /\ _within(c, insight.spec.since)'
        <4>1. PICK c \in list_compactions(insight.spec.project, insight.spec.outcome) :
                     c.id = id /\ _within(c, insight.spec.since)
          BY <1>1, <2>1, <2>3, <3>1 DEF InsightInv, InsightGrounded
        <4>2. c \in list_compactions(insight.spec.project, insight.spec.outcome)'
          BY <2>1, <4>1 DEF list_compactions
        <4>3. _within(c, insight.spec.since)'
          BY <2>1, <4>1 DEF _within
        <4>4. QED
          BY <4>1, <4>2, <4>3
      <3>2. structural_insights(insight.spec.since).count' = structural_insights(insight.spec.since).count
        BY <2>1 DEF structural_insights, _within
      <3>3. /\ insight'.coverage.used <= insight'.coverage.matched
            /\ insight'.coverage.matched <= structural_insights(insight.spec.since).count'
            /\ insight'.grounded <=> insight'.cited # {}
        BY <1>1, <2>1, <2>3, <3>2 DEF InsightInv, InsightGrounded
      <3>4. QED
        BY <1>1, <2>1, <3>1, <3>3 DEF InsightInv, InsightGrounded
    <2>4. QED
      BY <2>2, <2>3
  <1>2. QED
    BY <1>1, AskStep, PurgeStep DEF InsightNext

-----------------------------------------------------------------------------
\* The gates hold across every process, every notice is of an announced and
\* newer version, and every answer cites what it was asked about, whatever
\* the sessions, the handlers, their cooldowns and the digests are.
THEOREM Honest == DeskSpec => []DeskHonest
  <1>1. DeskInit => DeskInv
    BY DeskInitInv
  <1>2. DeskInv /\ [DeskNext]_dvars => DeskInv'
    BY DeskStep
  <1>3. DeskInv => GatesKept
    BY DeskInvGates
  <1>4. UpdateInit => UpdateInv
    BY UpdateInitInv
  <1>5. UpdateInv /\ [UpdateNext]_uvars => UpdateInv'
    BY UpdateStep
  <1>6. UpdateInv => NoticeHonest
    BY UpdateInvNotice
  <1>7. InsightInit => InsightInv
    BY InsightInitInv
  <1>8. InsightInv /\ [InsightNext]_ivars => InsightInv'
    BY InsightStep
  <1>9. InsightInv => InsightGrounded
    BY DEF InsightInv
  <1>10. QED
    BY <1>1, <1>2, <1>3, <1>4, <1>5, <1>6, <1>7, <1>8, <1>9, PTL DEF DeskSpec, DeskHonest
=============================================================================
