----------------------------- MODULE Enrichment -----------------------------
(***************************************************************************)
(* The server's half of a digest's life: agents push it pending, upload    *)
(* its raw transcript, push it again when the session is resumed; the      *)
(* enrichment loop and the admin's run-now endpoint have a model fill in   *)
(* its qualitative fields, counting failures and giving up on digests that *)
(* fail or wait too long; an admin purges it or un-abandons it.            *)
(* Request handlers (thread pool) and passes (worker threads) share the    *)
(* tables and the object store without locks.  One action is one store     *)
(* transaction, one object-store call or one model call, except that       *)
(* ingest's read and write are two: it writes what it computed from the    *)
(* row it read, and neither SQLite nor Postgres, as configured, keeps      *)
(* others from writing the row in between.  A handler's successive reads,  *)
(* and the blobs one purge deletes, are one step.                          *)
(*                                                                         *)
(* Abstractions.  A digest's deterministic fields are the number of turns  *)
(* they were derived from; its qualitative fields are those its source     *)
(* says it has; `old' is now - first_seen_at > max age.                    *)
(***************************************************************************)
EXTENDS Naturals, FiniteSets

CONSTANTS
    Orgs,         \* tenants, by the order of their ids
    Ranks,        \* an org's digests, by started_at: a higher rank is newer
    Loop,         \* the background enrichment loop
    Admins,       \* POST /v1/admin/enrichment/run
    Handlers,     \* request threads: ingest, raw upload, purge, retry
    BatchPerOrg,  \* enrich_batch_per_org
    MaxBatch,     \* enrich_max_batch
    MaxAttempts,  \* enrich_max_attempts
    ScanCap,      \* _ENRICH_SCAN_CAP: newest rows searched for pending ones
    SkipLimit,    \* list_enrichment_state's limit: abandoned ids a pass knows of
    Rationale,    \* enable_rationale_notes
    MaxTurns,     \* bound: turns per session
    MaxRequests,  \* bound: requests in a behaviour
    MaxCrashes,   \* bound: threads killed in a behaviour
    Exclusive,    \* TRUE: a request or pass starts only when no other is running
    FaultyBlobs   \* TRUE: reading a raw transcript may yield nothing

ASSUME ServerAssumption ==
    /\ Orgs \subseteq Nat /\ Ranks \subseteq Nat
    /\ BatchPerOrg \in Nat \ {0} /\ MaxBatch \in Nat \ {0} /\ MaxAttempts \in Nat \ {0}
    /\ ScanCap \in Nat /\ SkipLimit \in Nat
    /\ MaxTurns \in Nat /\ MaxRequests \in Nat /\ MaxCrashes \in Nat
    /\ Rationale \in BOOLEAN /\ Exclusive \in BOOLEAN /\ FaultyBlobs \in BOOLEAN
ASSUME ThreadAssumption == Loop \notin Admins

Passes == {Loop} \cup Admins
Digest == Orgs \X Ranks
Org(d) == d[1]
Rank(d) == d[2]

VARIABLES
    agent,             \* sessions as the laptops have them
    row,               \* released_compaction rows
    raw, blob,         \* raw_transcript rows, the blobs they point at
    progress,          \* enrichment_state rows
    retired,           \* <<d, e>>: abandoned d was marked after abandoned e (updated_at)
    note,              \* digests quoted by a rationale note
    pass, request,     \* what each pass and each handler is doing
    requests, crashes, \* counted up to their bounds
    called             \* history: digests a model was called on

tables == <<row, raw, blob, progress, retired, note>>
limits == <<requests, crashes>>
vars == <<agent, tables, pass, request, limits, called>>

-----------------------------------------------------------------------------
\* Rows and jobs

\* summary: the digest carries the coding agent's own summary (native_summary).
Row == [source : {"none", "pending", "claude_summary", "full"}, turns : Nat, summary : BOOLEAN]
NoRow == [source |-> "none", turns |-> 0, summary |-> FALSE]
Enriched(r) == r.source \in {"claude_summary", "full"}

Progress == [state : {"none", "waiting", "failed", "abandoned"}, attempts : Nat, old : BOOLEAN]
NoProgress == [state |-> "none", attempts |-> 0, old |-> FALSE]

\* orgs: still to visit; todo: digests listed for the current one; cur: the one in hand.
Listed == [id : Digest, row : Row]
Pass == [pc : {"next"}, orgs : SUBSET Orgs, budget : Nat, todo : SUBSET Listed]
        \cup [pc : {"abandon", "input", "wait", "call", "failed", "save", "clear", "mint"},
              orgs : SUBSET Orgs, budget : Nat, todo : SUBSET Listed, cur : Listed]
PassIdle == [pc |-> "idle"]

Request == [pc : {"merge"}, id : Digest, read : Row, push : Row]
           \cup [pc : {"put", "record"}, id : Digest]
           \cup [pc : {"keys", "blobs", "rows"}, ids : SUBSET Digest, keys : SUBSET Digest]
RequestIdle == [pc |-> "idle"]

TypeOK ==
    /\ agent \in [Digest -> [turns : Nat, summary : BOOLEAN]]
    /\ row \in [Digest -> Row]
    /\ raw \in SUBSET Digest /\ blob \in SUBSET Digest /\ note \in SUBSET Digest
    /\ progress \in [Digest -> Progress]
    /\ retired \in SUBSET (Digest \X Digest)
    /\ pass \in [Passes -> Pass \cup {PassIdle}]
    /\ request \in [Handlers -> Request \cup {RequestIdle}]
    /\ requests \in Nat /\ crashes \in Nat
    /\ called \in SUBSET Digest

Init ==
    /\ agent = [d \in Digest |-> [turns |-> 0, summary |-> FALSE]]
    /\ row = [d \in Digest |-> NoRow]
    /\ raw = {} /\ blob = {} /\ note = {}
    /\ progress = [d \in Digest |-> NoProgress]
    /\ retired = {}
    /\ pass = [p \in Passes |-> PassIdle]
    /\ request = [h \in Handlers |-> RequestIdle]
    /\ requests = 0 /\ crashes = 0
    /\ called = {}

Quiet == (\A p \in Passes : pass[p] = PassIdle) /\ (\A h \in Handlers : request[h] = RequestIdle)

\* A request arrives at handler h.
Arrives(h) ==
    /\ request[h] = RequestIdle /\ (Exclusive => Quiet)
    /\ requests < MaxRequests
    /\ requests' = requests + 1

Serve(h, r) == request' = [request EXCEPT ![h] = r]
Reply(h) == Serve(h, RequestIdle)

\* Writes of enrichment_state rows.
Present(d) == row[d] # NoRow
Abandoned == {d \in Digest : progress[d].state = "abandoned"}
Others(S) == {x \in retired : x[1] \notin S /\ x[2] \notin S}
Forget(S) ==
    /\ progress' = [d \in Digest |-> IF d \in S THEN NoProgress ELSE progress[d]]
    /\ retired' = Others(S)

SetProgress(d, state, attempts, old) ==
    progress' = [progress EXCEPT ![d] = [state |-> state, attempts |-> attempts, old |-> old]]

RecordAttempt(d, state, counted) ==
    /\ SetProgress(d, state, progress[d].attempts + counted, progress[d].old)
    /\ retired' = Others({d})

-----------------------------------------------------------------------------
\* Agents and requests

\* A session is written to, so that its laptop digests it again.
Resume(d) ==
    /\ agent[d].turns < MaxTurns
    /\ \E s \in BOOLEAN :
          /\ agent[d].summary => s
          /\ agent' = [agent EXCEPT ![d] = [turns |-> agent[d].turns + 1, summary |-> s]]
    /\ UNCHANGED <<tables, pass, request, limits, called>>

\* POST /v1/compactions up to the read of the stored row.  An agent waits for the
\* reply, so there is one push of a digest at a time.
Ingest(h, d) ==
    /\ Arrives(h)
    /\ agent[d].turns > 0
    /\ \A g \in Handlers : request[g].pc = "merge" => request[g].id # d
    /\ Serve(h, [pc |-> "merge", id |-> d, read |-> row[d],
                 push |-> [source |-> "pending", turns |-> agent[d].turns, summary |-> agent[d].summary]])
    /\ UNCHANGED <<agent, tables, pass, crashes, called>>

\* Mutant of Merged: the incoming digest replaces the stored one.
Merged_Blind(stored, incoming) == incoming

Merged(stored, incoming) ==
    IF incoming.source # "pending" \/ ~Enriched(stored)
    THEN incoming
    ELSE [stored EXCEPT !.summary = stored.summary \/ incoming.summary]

\* The ORM writes a changed row only, and fails when it was deleted meanwhile.
Merge(h) ==
    /\ request[h].pc = "merge"
    /\ LET r == request[h]
           m == Merged(r.read, r.push)
       IN row' = IF m = r.read \/ (r.read # NoRow /\ ~Present(r.id)) THEN row
                 ELSE [row EXCEPT ![r.id] = m]
    /\ Reply(h)
    /\ UNCHANGED <<agent, raw, blob, progress, retired, note, pass, limits, called>>

\* POST /v1/compactions/{id}/raw: look the digest up, put the blob, record it.
Upload(h, d) ==
    /\ Arrives(h)
    /\ Present(d)
    /\ Serve(h, [pc |-> "put", id |-> d])
    /\ UNCHANGED <<agent, tables, pass, crashes, called>>

PutBlob(h) ==
    /\ request[h].pc = "put"
    /\ blob' = blob \cup {request[h].id}
    /\ Serve(h, [request[h] EXCEPT !.pc = "record"])
    /\ UNCHANGED <<agent, row, raw, progress, retired, note, pass, limits, called>>

\* Mutant of RecordRaw: the digest keeps waiting, or stays abandoned.
RecordRaw_KeepsState(h) ==
    /\ request[h].pc = "record"
    /\ raw' = raw \cup {request[h].id}
    /\ Reply(h)
    /\ UNCHANGED <<agent, row, blob, progress, retired, note, pass, limits, called>>

\* The input a waiting or abandoned digest lacked is there: forget the waiting.
RecordRaw(h) ==
    /\ request[h].pc = "record"
    /\ LET d == request[h].id
       IN /\ raw' = raw \cup {d}
          /\ Forget({d} \cap {e \in Digest : progress[e].state \in {"waiting", "abandoned"}})
    /\ Reply(h)
    /\ UNCHANGED <<agent, row, blob, note, pass, limits, called>>

\* POST /v1/admin/purge of the digests a filter matches; nothing is deleted unless
\* all their blobs are.
Purge(h, S) ==
    /\ Arrives(h)
    /\ S # {} /\ \A d \in S : Present(d)
    /\ \A d, e \in S : Org(d) = Org(e)
    /\ Serve(h, [pc |-> "keys", ids |-> S, keys |-> {}])
    /\ UNCHANGED <<agent, tables, pass, crashes, called>>

ReadKeys(h) ==
    /\ request[h].pc = "keys"
    /\ Serve(h, [request[h] EXCEPT !.pc = "blobs", !.keys = request[h].ids \cap raw])
    /\ UNCHANGED <<agent, tables, pass, limits, called>>

DeleteBlobs(h) ==
    /\ request[h].pc = "blobs"
    /\ blob' = blob \ request[h].keys
    /\ Serve(h, [request[h] EXCEPT !.pc = "rows"])
    /\ UNCHANGED <<agent, row, raw, progress, retired, note, pass, limits, called>>

\* Mutant of BlobsRefused: the rows go although blobs are left.
BlobsRefused_GoesOn(h) ==
    /\ request[h].pc = "blobs"
    /\ \E K \in SUBSET request[h].keys : K # request[h].keys /\ blob' = blob \ K
    /\ Serve(h, [request[h] EXCEPT !.pc = "rows"])
    /\ UNCHANGED <<agent, row, raw, progress, retired, note, pass, limits, called>>

\* The object store refuses some of the deletions: the rows stay.
BlobsRefused(h) ==
    /\ request[h].pc = "blobs"
    /\ \E K \in SUBSET request[h].keys : K # request[h].keys /\ blob' = blob \ K
    /\ Reply(h)
    /\ UNCHANGED <<agent, row, raw, progress, retired, note, pass, limits, called>>

\* Mutants of DeleteRows: the enrichment state stays; the notes only go stale.
DeleteRows_KeepsState(h) ==
    /\ request[h].pc = "rows"
    /\ LET S == request[h].ids
       IN /\ row' = [d \in Digest |-> IF d \in S THEN NoRow ELSE row[d]]
          /\ raw' = raw \ S
          /\ note' = note \ S
    /\ Reply(h)
    /\ UNCHANGED <<agent, blob, progress, retired, pass, limits, called>>

DeleteRows_KeepsNotes(h) ==
    /\ request[h].pc = "rows"
    /\ LET S == request[h].ids
       IN /\ row' = [d \in Digest |-> IF d \in S THEN NoRow ELSE row[d]]
          /\ raw' = raw \ S
          /\ Forget(S)
    /\ Reply(h)
    /\ UNCHANGED <<agent, blob, note, pass, limits, called>>

\* Row, raw record, enrichment state and rationale notes go in one transaction.
DeleteRows(h) ==
    /\ request[h].pc = "rows"
    /\ LET S == request[h].ids
       IN /\ row' = [d \in Digest |-> IF d \in S THEN NoRow ELSE row[d]]
          /\ raw' = raw \ S
          /\ note' = note \ S
          /\ Forget(S)
    /\ Reply(h)
    /\ UNCHANGED <<agent, blob, pass, limits, called>>

\* POST /v1/admin/enrichment/retry, by default for digests that now have input.
Retry(h, S, onlyWithInput) ==
    /\ Arrives(h)
    /\ S # {} /\ \A d \in S : progress[d].state = "abandoned"
    /\ \A d, e \in S : Org(d) = Org(e)
    /\ onlyWithInput => \A d \in S : row[d].source = "pending" /\ (d \in raw \/ row[d].summary)
    /\ Forget(S)
    /\ UNCHANGED <<agent, row, raw, blob, note, pass, request, crashes, called>>

-----------------------------------------------------------------------------
\* The enrichment pass

At(p, label) == pass[p].pc = label
Become(p, j) == pass' = [pass EXCEPT ![p] = j]
Goto(p, label) == Become(p, [pass[p] EXCEPT !.pc = label])
Loops(orgs, budget, todo) == [pc |-> "next", orgs |-> orgs, budget |-> budget, todo |-> todo]
Proceed(p, spent) == Become(p, Loops(pass[p].orgs, pass[p].budget - spent, pass[p].todo))
Cur(p) == pass[p].cur.id

Newest(S, n) == {d \in S : Cardinality({e \in S : Rank(e) > Rank(d)}) < n}

\* list_pending_for_enrichment and count_pending_for_enrichment search the newest rows.
PendingIn(o) ==
    {d \in Newest({e \in Digest : Org(e) = o /\ Present(e)}, ScanCap) : row[d].source = "pending"}

\* Mutant of Skipped: abandoned digests are listed like others.
Skipped_None(o) == {}

\* The abandoned digests the pass knows of: the last ones to be marked.
Skipped(o) ==
    LET A == {d \in Abandoned : Org(d) = o}
    IN {d \in A : Cardinality({e \in A : <<e, d>> \in retired}) < SkipLimit}

Begin(p, orgs, budget) ==
    /\ At(p, "idle") /\ (Exclusive => Quiet)
    /\ Become(p, Loops(orgs, budget, {}))

StartPass ==
    /\ Begin(Loop, {o \in Orgs : PendingIn(o) # {}}, MaxBatch)
    /\ UNCHANGED <<agent, tables, request, limits, called>>

AdminRun(p, o) ==
    /\ p \in Admins /\ requests < MaxRequests
    /\ requests' = requests + 1
    /\ Begin(p, {o}, BatchPerOrg)
    /\ UNCHANGED <<agent, tables, request, crashes, called>>

\* Mutant of ListPending: what is left of the pass's budget is not looked at.
ListPending_Greedy(p) ==
    /\ At(p, "next") /\ pass[p].todo = {} /\ pass[p].budget > 0
    /\ \E o \in pass[p].orgs :
          /\ \A q \in pass[p].orgs : o <= q
          /\ Become(p, Loops(pass[p].orgs \ {o}, pass[p].budget,
                {[id |-> d, row |-> row[d]] : d \in Newest(PendingIn(o) \ Skipped(o), BatchPerOrg)}))
    /\ UNCHANGED <<agent, tables, request, limits, called>>

\* Visit the next org, in the order of their ids, while the pass has budget.
ListPending(p) ==
    /\ At(p, "next") /\ pass[p].todo = {} /\ pass[p].budget > 0
    /\ \E o \in pass[p].orgs :
          /\ \A q \in pass[p].orgs : o <= q
          /\ LET limit == IF BatchPerOrg < pass[p].budget THEN BatchPerOrg ELSE pass[p].budget
             IN Become(p, Loops(pass[p].orgs \ {o}, pass[p].budget,
                    {[id |-> d, row |-> row[d]] : d \in Newest(PendingIn(o) \ Skipped(o), limit)}))
    /\ UNCHANGED <<agent, tables, request, limits, called>>

EndPass(p) ==
    /\ At(p, "next") /\ pass[p].todo = {}
    /\ pass[p].orgs = {} \/ pass[p].budget = 0
    /\ Become(p, PassIdle)
    /\ UNCHANGED <<agent, tables, request, limits, called>>

\* Mutant of GivesUp: one attempt too many.
GivesUp_Late(d) == progress[d].attempts > MaxAttempts \/ progress[d].old

GivesUp(d) == progress[d].attempts >= MaxAttempts \/ progress[d].old

\* Take the newest digest listed and decide whether to give up on it.
Take(p) ==
    /\ At(p, "next")
    /\ \E c \in pass[p].todo :
          /\ \A e \in pass[p].todo : Rank(e.id) <= Rank(c.id)
          /\ Become(p, [pc |-> IF GivesUp(c.id) THEN "abandon" ELSE "input",
                         orgs |-> pass[p].orgs, budget |-> pass[p].budget,
                         todo |-> pass[p].todo \ {c}, cur |-> c])
    /\ UNCHANGED <<agent, tables, request, limits, called>>

\* A row that went meanwhile is made again, with one attempt.
Abandon(p) ==
    /\ At(p, "abandon")
    /\ LET d == Cur(p)
           attempts == IF progress[d] = NoProgress THEN 1 ELSE progress[d].attempts
       IN /\ SetProgress(d, "abandoned", attempts, progress[d].old)
          /\ retired' = Others({d}) \cup {<<d, e>> : e \in Abandoned \ {d}}
    /\ Proceed(p, 0)
    /\ UNCHANGED <<agent, row, raw, blob, note, request, limits, called>>

\* The native summary when there is one, or else the raw transcript.
HasTurns(d) == d \in raw /\ d \in blob
ReadInput(p) ==
    /\ At(p, "input")
    /\ \E read \in {HasTurns(Cur(p))} \cup (IF FaultyBlobs THEN {FALSE} ELSE {}) :
          Goto(p, IF pass[p].cur.row.summary \/ read THEN "call" ELSE "wait")
    /\ UNCHANGED <<agent, tables, request, limits, called>>

Wait(p) ==
    /\ At(p, "wait")
    /\ RecordAttempt(Cur(p), "waiting", 0)
    /\ Proceed(p, 0)
    /\ UNCHANGED <<agent, row, raw, blob, note, request, limits, called>>

\* The org's monthly cap is spent: its batch ends.
OverQuota(p) ==
    /\ At(p, "call")
    /\ Become(p, Loops(pass[p].orgs, pass[p].budget, {}))
    /\ UNCHANGED <<agent, tables, request, limits, called>>

\* The model answers, or fails or returns no JSON object.
Call(p, label) ==
    /\ At(p, "call")
    /\ called' = called \cup {Cur(p)}
    /\ Goto(p, label)
    /\ UNCHANGED <<agent, tables, request, limits>>

RecordFailure(p) ==
    /\ At(p, "failed")
    /\ RecordAttempt(Cur(p), "failed", 1)
    /\ Proceed(p, 1)
    /\ UNCHANGED <<agent, row, raw, blob, note, request, limits, called>>

\* Mutant of Enrich: the model's answer replaces the deterministic fields too.
Enrich_Fresh(r) == [source |-> IF r.summary THEN "claude_summary" ELSE "full",
                    turns |-> 0, summary |-> r.summary]

Enrich(r) == [r EXCEPT !.source = IF r.summary THEN "claude_summary" ELSE "full"]

\* Overwrites the payload with the one read when the digest was listed.
Save(p) ==
    /\ At(p, "save") /\ Present(Cur(p))
    /\ row' = [row EXCEPT ![Cur(p)] = Enrich(pass[p].cur.row)]
    /\ Goto(p, "clear")
    /\ UNCHANGED <<agent, raw, blob, progress, retired, note, request, limits, called>>

\* Purged during the call: counts as a failure, nothing is recorded.
SaveMisses(p) ==
    /\ At(p, "save") /\ ~Present(Cur(p))
    /\ Proceed(p, 1)
    /\ UNCHANGED <<agent, tables, request, limits, called>>

\* Rationale notes are minted from the words of a transcript only, when the model
\* found any.
Clear(p) ==
    /\ At(p, "clear")
    /\ Forget({Cur(p)})
    /\ \/ Proceed(p, 1)
       \/ Rationale /\ ~pass[p].cur.row.summary /\ Goto(p, "mint")
    /\ UNCHANGED <<agent, row, raw, blob, note, request, limits, called>>

Mint(p) ==
    /\ At(p, "mint")
    /\ note' = note \cup {Cur(p)}
    /\ Proceed(p, 1)
    /\ UNCHANGED <<agent, row, raw, blob, progress, retired, request, limits, called>>

-----------------------------------------------------------------------------
\* first_seen_at gets older than the maximal age.
Age(d) ==
    /\ progress[d] # NoProgress /\ ~progress[d].old
    /\ SetProgress(d, progress[d].state, progress[d].attempts, TRUE)
    /\ UNCHANGED <<agent, row, raw, blob, retired, note, pass, request, limits, called>>

\* A thread dies between two steps: an exception, or a restart of the server.
Crash ==
    /\ crashes < MaxCrashes
    /\ crashes' = crashes + 1
    /\ \/ \E p \in Passes : ~At(p, "idle") /\ Become(p, PassIdle) /\ UNCHANGED request
       \/ \E h \in Handlers : request[h] # RequestIdle /\ Reply(h) /\ UNCHANGED pass
    /\ UNCHANGED <<agent, tables, requests, called>>

Serving(h) ==
    \/ Merge(h) \/ PutBlob(h) \/ RecordRaw(h)
    \/ ReadKeys(h) \/ DeleteBlobs(h) \/ BlobsRefused(h) \/ DeleteRows(h)
    \/ \E d \in Digest : Ingest(h, d) \/ Upload(h, d)
    \/ \E S \in SUBSET Digest : Purge(h, S) \/ \E b \in BOOLEAN : Retry(h, S, b)

Enriching(p) ==
    \/ ListPending(p) \/ EndPass(p) \/ Take(p) \/ Abandon(p) \/ ReadInput(p) \/ Wait(p)
    \/ OverQuota(p) \/ Call(p, "save") \/ Call(p, "failed") \/ RecordFailure(p)
    \/ Save(p) \/ SaveMisses(p) \/ Clear(p) \/ Mint(p)

Next ==
    \/ \E d \in Digest : Resume(d) \/ Age(d)
    \/ \E h \in Handlers : Serving(h)
    \/ StartPass \/ \E p \in Admins, o \in Orgs : AdminRun(p, o)
    \/ \E p \in Passes : Enriching(p)
    \/ Crash

Spec == Init /\ [][Next]_vars

\* The loop runs for ever, time passes, and no org is over its quota for ever (months
\* end).  Nothing is assumed of agents, admins, requests or the model's answers.
Fairness ==
    /\ WF_vars(StartPass \/ Enriching(Loop))
    /\ SF_vars(Call(Loop, "save") \/ Call(Loop, "failed"))
    /\ \A d \in Digest : WF_vars(Age(d))

FairSpec == Spec /\ Fairness

-----------------------------------------------------------------------------
\* Properties

\* An enriched digest stays enriched, or is purged: pushing it again never throws the
\* paid-for fields away.
NeverDowngraded ==
    [][\A d \in Digest : Enriched(row[d]) /\ row'[d] # NoRow => Enriched(row'[d])]_vars

\* Enrichment never takes a digest's deterministic fields back to an older state of
\* its session.
TurnsNeverLost ==
    [][\A d \in Digest : row'[d] # NoRow => row'[d].turns >= row[d].turns]_vars

\* A purged digest leaves no enrichment bookkeeping behind.
NoGhost == \A d \in Digest : progress[d] # NoProgress => Present(d)

\* No rationale note quotes a session that is not there.
QuoteHasSession == \A d \in note : Present(d)

\* Every blob can be found through a raw record, or the upload is still under way.
BlobHasRecord ==
    \A d \in blob : d \in raw \/ \E h \in Handlers : request[h].pc = "record" /\ request[h].id = d

\* A late transcript un-sticks its digest: no pass gives up on a digest whose transcript
\* is there before a model was called on it.
AbandonedWasTried ==
    [][\A p \in Passes : Abandon(p) /\ HasTurns(Cur(p)) => Cur(p) \in called]_vars

\* Passes check the attempts before a call and count it after: the bound is overshot
\* by at most one attempt for every other pass.
AttemptsBounded ==
    \A d \in Digest : progress[d].attempts <= MaxAttempts + Cardinality(Admins)

\* Every pending digest is some day enriched, abandoned or purged, however the orgs
\* share the pass and whatever is pushed, purged or fails.
Settles ==
    \A d \in Digest : row[d].source = "pending"
                      ~> (row[d].source # "pending" \/ progress[d].state = "abandoned")

=============================================================================
