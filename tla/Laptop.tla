------------------------------- MODULE Laptop -------------------------------
(***************************************************************************)
(* The laptop half of Manthana: transcripts on disk are captured into the  *)
(* local SQLite store, digested ("compacted"), released and pushed to the  *)
(* org server.  Two kinds of process share the store: the watch daemon     *)
(* and the foreground (CLI commands, the dashboard and its worker thread). *)
(* One action is one store transaction, one file read or one HTTP call, so *)
(* the processes interleave exactly where the code lets them.              *)
(*                                                                         *)
(* Abstractions.  A segment's content is the number of its turns.  A       *)
(* wall-clock comparison is replaced by what it decides: `quiet' is        *)
(* now - mtime >= settle_seconds, `aged' is now - created_at >= the grace  *)
(* window, and a file's mtime and a digest's created_at are both counted   *)
(* in writes to the file, so that `mtime <= built' is the code's           *)
(* mtime <= created_at.                                                    *)
(***************************************************************************)
EXTENDS Naturals, FiniteSets

CONSTANTS
    Transcript,   \* transcript files the coding tools write
    MaxSegs,      \* sessions a transcript may split into (base, base.2, ...)
    MaxTurns,     \* bound: turns per session
    Daemon,       \* the `manthana watch' process
    Foreground,   \* CLI commands and dashboard threads
    MaxPerCycle,  \* max_per_cycle of the watch loop
    MaxCommands,  \* bound: commands the foreground starts in a behaviour
    MaxCrashes,   \* bound: processes killed in a behaviour
    Exclusive,    \* TRUE: an operation starts only when no other is running
    FaultyReads,  \* TRUE: scanning and reading transcripts may fail
    CalmBuild     \* TRUE: no transcript is written while a digest of it is being built

ASSUME BoundsAssumption ==
    /\ MaxSegs \in Nat \ {0} /\ MaxTurns \in Nat \ {0}
    /\ MaxPerCycle \in Nat \ {0} /\ MaxCommands \in Nat /\ MaxCrashes \in Nat
ASSUME SwitchAssumption ==
    Exclusive \in BOOLEAN /\ FaultyReads \in BOOLEAN /\ CalmBuild \in BOOLEAN
ASSUME ProcAssumption == Daemon \notin Foreground

Proc == {Daemon} \cup Foreground

\* <<t, 1>> is the session whose id is the transcript's base id, <<t, 2>> is base.2 ...
Session == Transcript \X (1 .. MaxSegs)
Family(t) == {t} \X (1 .. MaxSegs)
File(s) == s[1]

VARIABLES
    written, mtime, quiet,                      \* the transcript files
    captured, personal,                         \* session and turn rows
    digest,                                     \* compaction rows
    synced, rawSynced, rawUnavail,              \* sync_state rows
    server, serverRaw,                          \* what the org server holds
    seen, scan,                                 \* the watch loop's memory
    job,                                        \* what each process is doing
    commands, crashes,                          \* counted up to their bounds
    consent                                     \* history: what was decided about a session

files == <<written, mtime, quiet>>
sessions == <<captured, personal>>
marks == <<synced, rawSynced, rawUnavail>>
org == <<server, serverRaw>>
loop == <<seen, scan>>
limits == <<commands, crashes>>
vars == <<files, sessions, digest, marks, org, loop, job, limits, consent>>

-----------------------------------------------------------------------------
\* Rows and jobs

\* ver: turns digested (0: no row); built: created_at, in writes to the file.
Digest == [ver : Nat, built : Nat, aged : BOOLEAN, hold : BOOLEAN, released : BOOLEAN]
NoDigest == [ver |-> 0, built |-> 0, aged |-> FALSE, hold |-> FALSE, released |-> FALSE]

Pc == {"idle", "ingest", "store",                          \* capture
       "settle", "pending", "stamp", "carry", "write",     \* compact
       "releasable", "release", "flag", "online",          \* release
       "gate", "fresh", "push", "mark",                    \* sync: digests
       "raw", "rawmark", "rawbad"}                         \* sync: raw transcripts

\* due: sessions the operation has still to handle; cur: the one it is handling;
\* row: the compaction row it holds in memory; copy: content it has read.
Job == [pc : Pc, due : SUBSET Session, cur : SUBSET Session,
        row : Digest, copy : [Session -> Nat]]
NoCopy == [s \in Session |-> 0]
Idle == [pc |-> "idle", due |-> {}, cur |-> {}, row |-> NoDigest, copy |-> NoCopy]

Decision == {"personal", "hold", "purged", "released"}

TypeOK ==
    /\ written \in [Session -> Nat]
    /\ mtime \in [Transcript -> Nat]
    /\ quiet \in [Transcript -> BOOLEAN]
    /\ captured \in [Session -> Nat]
    /\ personal \in SUBSET Session
    /\ digest \in [Session -> Digest]
    /\ synced \in SUBSET Session
    /\ rawSynced \in SUBSET Session
    /\ rawUnavail \in SUBSET Session
    /\ server \in [Session -> Nat]
    /\ serverRaw \in [Session -> Nat]
    /\ seen \in [Transcript -> Nat]
    /\ scan \in [Transcript -> Nat]
    /\ job \in [Proc -> Job]
    /\ commands \in Nat
    /\ crashes \in Nat
    /\ consent \in [Session -> SUBSET Decision]

Init ==
    /\ written = [s \in Session |-> 0]
    /\ mtime = [t \in Transcript |-> 0]
    /\ quiet = [t \in Transcript |-> FALSE]
    /\ captured = [s \in Session |-> 0]
    /\ personal = {}
    /\ digest = [s \in Session |-> NoDigest]
    /\ synced = {} /\ rawSynced = {} /\ rawUnavail = {}
    /\ server = [s \in Session |-> 0]
    /\ serverRaw = [s \in Session |-> 0]
    /\ seen = [t \in Transcript |-> 0]
    /\ scan = [t \in Transcript |-> 0]
    /\ job = [p \in Proc |-> Idle]
    /\ commands = 0 /\ crashes = 0
    /\ consent = [s \in Session |-> {}]

At(p, label) == job[p].pc = label

\* A process may begin an operation.
Free(p) == At(p, "idle") /\ (Exclusive => \A q \in Proc : At(q, "idle"))

\* The foreground starts a command.
Command(p) ==
    /\ p # Daemon /\ Free(p)
    /\ commands < MaxCommands
    /\ commands' = commands + 1

Become(p, j) == job' = [job EXCEPT ![p] = j]
Goto(p, label) == Become(p, [job[p] EXCEPT !.pc = label])
Finish(p) == Become(p, Idle)

\* An inner operation ends: back to the loop it was called from (at once idle for a
\* foreground operation that has no loop).
Return(p, daemonLoop, foregroundLoop) ==
    Become(p, [job[p] EXCEPT !.pc = IF p = Daemon THEN daemonLoop ELSE foregroundLoop,
                             !.cur = {}, !.row = NoDigest, !.copy = NoCopy])

\* Mutant of Unmark: the raw-transcript watermark survives.
Unmark_KeepsRaw(S) ==
    /\ synced' = synced \ S
    /\ UNCHANGED <<rawSynced, rawUnavail>>

\* Deleting sync_state rows forgets all three watermarks at once.
Unmark(S) ==
    /\ synced' = synced \ S
    /\ rawSynced' = rawSynced \ S
    /\ rawUnavail' = rawUnavail \ S

-----------------------------------------------------------------------------
\* The coding tool and the clock

\* A turn lands in the transcript: in its last session, or past a gap in a new one.
Append(t, i) ==
    /\ CalmBuild => \A p \in Proc : ~(At(p, "stamp") /\ t \in {File(s) : s \in job[p].cur})
    /\ \A j \in 1 .. MaxSegs : j > i => written[<<t, j>>] = 0
    /\ \A j \in 1 .. MaxSegs : j < i => written[<<t, j>>] # 0
    /\ written[<<t, i>>] < MaxTurns
    /\ written' = [written EXCEPT ![<<t, i>>] = @ + 1]
    /\ mtime' = [mtime EXCEPT ![t] = @ + 1]
    /\ quiet' = [quiet EXCEPT ![t] = FALSE]
    /\ UNCHANGED <<sessions, digest, marks, org, loop, job, limits, consent>>

\* settle_seconds pass with no write.  A watch cycle is far shorter than the
\* settle window, so a file does not settle in the middle of one.
Settle(t) ==
    /\ mtime[t] # 0 /\ ~quiet[t]
    /\ At(Daemon, "idle")
    /\ quiet' = [quiet EXCEPT ![t] = TRUE]
    /\ UNCHANGED <<written, mtime, sessions, digest, marks, org, loop, job, limits, consent>>

\* The grace window of a digest passes (never between the two halves of a flag update,
\* which take milliseconds).
Age(s) ==
    /\ digest[s].ver # 0 /\ ~digest[s].aged
    /\ \A p \in Proc : ~(At(p, "flag") /\ s \in job[p].cur)
    /\ digest' = [digest EXCEPT ![s].aged = TRUE]
    /\ UNCHANGED <<files, sessions, marks, org, loop, job, limits, consent>>

-----------------------------------------------------------------------------
\* Capture: reading a transcript and replacing its session family

\* A cycle begins: which of the files found changed since they were last ingested.
\* A file that is not found (discover or stat failed) is forgotten.
Scan ==
    /\ Free(Daemon)
    /\ \E found \in IF FaultyReads THEN SUBSET Transcript ELSE {Transcript} :
        /\ scan' = [t \in Transcript |->
                      IF t \in found /\ seen[t] # mtime[t] THEN mtime[t] ELSE 0]
        /\ seen' = [t \in Transcript |-> IF t \in found THEN seen[t] ELSE 0]
    /\ Goto(Daemon, "ingest")
    /\ UNCHANGED <<files, sessions, digest, marks, org, limits, consent>>

\* Mutant of ReadTranscript: a turn is read twice.
ReadTranscript_Twice(p, t) ==
    /\ IF p = Daemon
       THEN At(p, "ingest") /\ scan[t] # 0 /\ UNCHANGED commands
       ELSE Command(p) /\ mtime[t] # 0
    /\ Become(p, [job[p] EXCEPT
                    !.pc = "store", !.cur = Family(t),
                    !.copy = [s \in Session |->
                                IF s \in Family(t) /\ written[s] # 0 THEN written[s] + 1 ELSE 0]])
    /\ UNCHANGED <<files, sessions, digest, marks, org, loop, crashes, consent>>

\* The collector parses the whole file, before the store transaction.
ReadTranscript(p, t) ==
    /\ IF p = Daemon
       THEN At(p, "ingest") /\ scan[t] # 0 /\ UNCHANGED commands
       ELSE Command(p) /\ mtime[t] # 0
    /\ Become(p, [job[p] EXCEPT
                    !.pc = "store", !.cur = Family(t),
                    !.copy = [s \in Session |-> IF s \in Family(t) THEN written[s] ELSE 0]])
    /\ UNCHANGED <<files, sessions, digest, marks, org, loop, crashes, consent>>

\* Mutant of ReadFails: the file counts as ingested all the same.
ReadFails_Remembers(t) ==
    /\ FaultyReads
    /\ At(Daemon, "ingest") /\ scan[t] # 0
    /\ scan' = [scan EXCEPT ![t] = 0]
    /\ seen' = [seen EXCEPT ![t] = scan[t]]
    /\ UNCHANGED <<files, sessions, digest, marks, org, job, limits, consent>>

\* Ingesting fails: the daemon forgets the file so that the next cycle retries it.
ReadFails(t) ==
    /\ FaultyReads
    /\ At(Daemon, "ingest") /\ scan[t] # 0
    /\ scan' = [scan EXCEPT ![t] = 0]
    /\ seen' = [seen EXCEPT ![t] = 0]
    /\ UNCHANGED <<files, sessions, digest, marks, org, job, limits, consent>>

\* One transaction drops the family's session and turn rows and writes them again
\* from the file, every session in the default mode (work); digests are kept.
\* The daemon remembers the mtime it scanned, not the one it read.
StoreFamily(p) ==
    /\ At(p, "store")
    /\ \E t \in Transcript :
        /\ job[p].cur = Family(t)
        /\ captured' = [s \in Session |-> IF s \in Family(t) THEN job[p].copy[s] ELSE captured[s]]
        /\ personal' = personal \ Family(t)
        /\ IF p = Daemon
           THEN seen' = [seen EXCEPT ![t] = scan[t]] /\ scan' = [scan EXCEPT ![t] = 0]
           ELSE UNCHANGED loop
    /\ Return(p, "ingest", "idle")
    /\ UNCHANGED <<files, digest, marks, org, limits, consent>>

-----------------------------------------------------------------------------
\* Compact: building a session's digest

WorkSessions == {s \in Session : captured[s] # 0 /\ s \notin personal}

\* Mutant of Unsettled: a digest is never taken for stale.
Unsettled_NeverStale == {s \in WorkSessions : digest[s].ver = 0}

\* What a watch cycle digests: no digest, or the file changed since it was built.
Unsettled == {s \in WorkSessions : digest[s].ver = 0 \/ mtime[File(s)] > digest[s].built}

\* `manthana compact' without an id: sessions that have no digest.
Pending == {s \in WorkSessions : digest[s].ver = 0}

\* The throttled half of the cycle begins: at most MaxPerCycle digests.
BeginSettle ==
    /\ At(Daemon, "ingest")
    /\ \A t \in Transcript : scan[t] = 0
    /\ \E S \in SUBSET {s \in Unsettled : quiet[File(s)]} :
        /\ Cardinality(S) <= MaxPerCycle
        /\ \/ Cardinality(S) = MaxPerCycle
           \/ S = {s \in Unsettled : quiet[File(s)]}
        /\ Become(Daemon, [job[Daemon] EXCEPT !.pc = "settle", !.due = S])
    /\ UNCHANGED <<files, sessions, digest, marks, org, loop, limits, consent>>

\* The throttle has not elapsed: neither compaction nor release this cycle.
SkipSettle ==
    /\ At(Daemon, "ingest")
    /\ \A t \in Transcript : scan[t] = 0
    /\ Goto(Daemon, "online")
    /\ UNCHANGED <<files, sessions, digest, marks, org, loop, limits, consent>>

\* The file was written again meanwhile (still active, left for a later cycle), the
\* session is gone from the store, or a daemon's attempt to digest it raised.
SkipSession(p, s) ==
    /\ s \in job[p].due
    /\ \/ At(p, "settle") /\ (~quiet[File(s)] \/ captured[s] = 0 \/ FaultyReads)
       \/ At(p, "pending") /\ captured[s] = 0
    /\ Become(p, [job[p] EXCEPT !.due = @ \ {s}])
    /\ UNCHANGED <<files, sessions, digest, marks, org, loop, limits, consent>>

\* `manthana compact [id]', the dashboard's compact button.
BeginCompact(p) ==
    /\ Command(p)
    /\ \E S \in {Pending} \cup {{s} : s \in {r \in Session : captured[r] # 0}} :
        /\ S # {}
        /\ Become(p, [job[p] EXCEPT !.pc = "pending", !.due = S])
        /\ consent' = [s \in Session |-> IF s \in S THEN consent[s] \ {"purged"} ELSE consent[s]]
    /\ UNCHANGED <<files, sessions, digest, marks, org, loop, crashes>>

\* compact_session reads the session and its turns ...
Build(p, s) ==
    /\ s \in job[p].due /\ captured[s] # 0
    /\ \/ At(p, "pending")
       \/ At(p, "settle") /\ quiet[File(s)]
    /\ Become(p, [job[p] EXCEPT
                    !.pc = "stamp", !.due = @ \ {s}, !.cur = {s},
                    !.row = [NoDigest EXCEPT !.ver = captured[s]]])
    /\ UNCHANGED <<files, sessions, digest, marks, org, loop, limits, consent>>

\* ... and then builds the row, whose created_at is now.
Stamp(p) ==
    /\ At(p, "stamp")
    /\ \E s \in job[p].cur :
        Become(p, [job[p] EXCEPT !.pc = "carry",
                                 !.row = [job[p].row EXCEPT !.built = mtime[File(s)]]])
    /\ UNCHANGED <<files, sessions, digest, marks, org, loop, limits, consent>>

\* Mutants of Carry: the watermarks of the previous digest stay; its hold is lost.
Carry_KeepsMarks(p) ==
    /\ At(p, "carry")
    /\ \E s \in job[p].cur :
        Become(p, [job[p] EXCEPT
                     !.pc = "write",
                     !.row = [job[p].row EXCEPT !.hold = digest[s].hold,
                                                !.released = digest[s].released]])
    /\ UNCHANGED <<files, sessions, digest, marks, org, loop, limits, consent>>

Carry_DropsHold(p) ==
    /\ At(p, "carry")
    /\ \E s \in job[p].cur :
        /\ Become(p, [job[p] EXCEPT
                        !.pc = "write",
                        !.row = [job[p].row EXCEPT !.released = digest[s].released]])
        /\ Unmark(IF digest[s].ver # 0 THEN {s} ELSE {})
    /\ UNCHANGED <<files, sessions, digest, org, loop, limits, consent>>

\* Carry over the engineer's flags from the previous digest and forget its watermarks.
Carry(p) ==
    /\ At(p, "carry")
    /\ \E s \in job[p].cur :
        /\ Become(p, [job[p] EXCEPT
                        !.pc = "write",
                        !.row = [job[p].row EXCEPT !.hold = digest[s].hold,
                                                   !.released = digest[s].released]])
        /\ Unmark(IF digest[s].ver # 0 THEN {s} ELSE {})
    /\ UNCHANGED <<files, sessions, digest, org, loop, limits, consent>>

\* Mutant of WriteDigest: created_at is stamped when the row is written.
WriteDigest_StampsNow(p) ==
    /\ At(p, "write")
    /\ \E s \in job[p].cur :
        digest' = [digest EXCEPT ![s] = [job[p].row EXCEPT !.built = mtime[File(s)]]]
    /\ Return(p, "settle", "pending")
    /\ UNCHANGED <<files, sessions, marks, org, loop, limits, consent>>

\* upsert_compaction, the last transaction of compact_session.
WriteDigest(p) ==
    /\ At(p, "write")
    /\ \E s \in job[p].cur : digest' = [digest EXCEPT ![s] = job[p].row]
    /\ Return(p, "settle", "pending")
    /\ UNCHANGED <<files, sessions, marks, org, loop, limits, consent>>

EndCompact(p) ==
    /\ At(p, "pending") /\ job[p].due = {}
    /\ Finish(p)
    /\ UNCHANGED <<files, sessions, digest, marks, org, loop, limits, consent>>

-----------------------------------------------------------------------------
\* Release: marking a digest as cleared to leave, by hand or after the grace window

Releasable(S) ==
    {s \in S : /\ digest[s].ver # 0 /\ digest[s].aged
               /\ ~digest[s].released /\ ~digest[s].hold}

\* auto_release lists the sessions, then the digests, then marks them one by one.
BeginRelease ==
    /\ At(Daemon, "settle") /\ job[Daemon].due = {}
    /\ Become(Daemon, [job[Daemon] EXCEPT !.pc = "releasable", !.due = WorkSessions])
    /\ UNCHANGED <<files, sessions, digest, marks, org, loop, limits, consent>>

ListReleasable ==
    /\ At(Daemon, "releasable")
    /\ Become(Daemon, [job[Daemon] EXCEPT !.pc = "release", !.due = Releasable(@)])
    /\ UNCHANGED <<files, sessions, digest, marks, org, loop, limits, consent>>

\* mark_released and set_hold read the row, change one flag and write the row back.
ReadRow(p, s, row) ==
    /\ digest[s].ver # 0
    /\ Become(p, [job[p] EXCEPT !.pc = "flag", !.due = @ \ {s}, !.cur = {s}, !.row = row])
    /\ UNCHANGED <<files, sessions, digest, marks, org, loop, crashes, consent>>

AutoRelease(s) ==
    /\ At(Daemon, "release") /\ s \in job[Daemon].due
    /\ UNCHANGED commands
    /\ ReadRow(Daemon, s, [digest[s] EXCEPT !.released = TRUE])

\* The digest was purged since it was listed: mark_released finds no row.
ReleaseMisses(s) ==
    /\ At(Daemon, "release") /\ s \in job[Daemon].due
    /\ digest[s].ver = 0
    /\ Become(Daemon, [job[Daemon] EXCEPT !.due = @ \ {s}])
    /\ UNCHANGED <<files, sessions, digest, marks, org, loop, limits, consent>>

EndRelease ==
    /\ At(Daemon, "release") /\ job[Daemon].due = {}
    /\ Goto(Daemon, "online")
    /\ UNCHANGED <<files, sessions, digest, marks, org, loop, limits, consent>>

\* `manthana release', the dashboard's release and hold toggles.
SetReleased(p, s, b) ==
    /\ Command(p)
    /\ ReadRow(p, s, [digest[s] EXCEPT !.released = b])

SetHold(p, s, b) ==
    /\ Command(p)
    /\ ReadRow(p, s, [digest[s] EXCEPT !.hold = b])

\* What the engineer has decided about s once the row is written: a hold on an
\* unreleased digest keeps it local until they release it or lift the hold.
Decided(p, s, row) ==
    IF p = Daemon
    THEN consent[s] \cup {"released"}
    ELSE IF row.released
         THEN (consent[s] \ {"hold", "purged"}) \cup {"released"}
         ELSE (consent[s] \ {"hold"}) \cup (IF row.hold THEN {"hold"} ELSE {})

\* The write half.  If the row was purged in between, the UPDATE matches nothing and
\* raises, which ends the foreground command or the daemon's release pass.
WriteRow(p) ==
    /\ At(p, "flag")
    /\ \E s \in job[p].cur :
        IF digest[s].ver # 0
        THEN /\ digest' = [digest EXCEPT ![s] = job[p].row]
             /\ consent' = [consent EXCEPT ![s] = Decided(p, s, job[p].row)]
             /\ Return(p, "release", "idle")
        ELSE /\ Become(p, [Idle EXCEPT !.pc = IF p = Daemon THEN "online" ELSE "idle"])
             /\ UNCHANGED <<digest, consent>>
    /\ UNCHANGED <<files, sessions, marks, org, loop, limits>>

-----------------------------------------------------------------------------
\* Sync: pushing released digests, then raw transcripts, to the org server

\* Mutant of Eligible: the release flag is not looked at.
Eligible_Unreleased(S) == {s \in S : digest[s].ver # 0}

\* The gate everything that leaves the laptop goes through, for listed work sessions S.
Eligible(S) == {s \in S : digest[s].ver # 0 /\ digest[s].released}

\* The sync throttle has not elapsed, or no server is configured.
SkipSync ==
    /\ At(Daemon, "online")
    /\ Finish(Daemon)
    /\ UNCHANGED <<files, sessions, digest, marks, org, loop, limits, consent>>

\* Mutant of BeginSync: personal sessions are listed too.
BeginSync_AnyMode(p) ==
    /\ IF p = Daemon THEN At(p, "online") /\ UNCHANGED commands ELSE Command(p)
    /\ Become(p, [job[p] EXCEPT !.pc = "gate", !.due = {s \in Session : captured[s] # 0}])
    /\ UNCHANGED <<files, sessions, digest, marks, org, loop, crashes, consent>>

\* A sync lists the sessions, ...
BeginSync(p) ==
    /\ IF p = Daemon THEN At(p, "online") /\ UNCHANGED commands ELSE Command(p)
    /\ Become(p, [job[p] EXCEPT !.pc = "gate", !.due = WorkSessions])
    /\ UNCHANGED <<files, sessions, digest, marks, org, loop, crashes, consent>>

\* ... then the digests, ...
Gate(p) ==
    /\ At(p, "gate")
    /\ Become(p, [job[p] EXCEPT
                    !.pc = "fresh", !.due = Eligible(@),
                    !.copy = [s \in Session |->
                                IF s \in Eligible(job[p].due) THEN digest[s].ver ELSE 0]])
    /\ UNCHANGED <<files, sessions, digest, marks, org, loop, limits, consent>>

\* ... then the marks: what is eligible and not marked is pushed; with raw, the
\* transcripts of everything eligible are considered after that.
Fresh(p, raw) ==
    /\ At(p, "fresh")
    /\ LET batch == [s \in Session |-> IF s \in synced THEN 0 ELSE job[p].copy[s]] IN
       Become(p, [job[p] EXCEPT !.pc = IF batch = NoCopy THEN "mark" ELSE "push",
                                !.due = IF raw THEN @ ELSE {},
                                !.copy = batch])
    /\ UNCHANGED <<files, sessions, digest, marks, org, loop, limits, consent>>

\* Mutant of Upserted: the batch replaces what the server held.
Upserted_Replaces(p, S) == [s \in S |-> job[p].copy[s]]

\* What the server holds once it has upserted the digests of S from the batch.
Upserted(p, S) == [s \in Session |-> IF s \in S THEN job[p].copy[s] ELSE server[s]]
Batch(p) == {s \in Session : job[p].copy[s] # 0}

Push(p) ==
    /\ At(p, "push")
    /\ server' = Upserted(p, Batch(p))
    /\ Goto(p, "mark")
    /\ UNCHANGED <<files, sessions, digest, marks, serverRaw, loop, limits, consent>>

\* Mutant of PushFails: the error is swallowed and the batch marked all the same.
PushFails_MarksAnyway(p) ==
    /\ At(p, "push")
    /\ \E S \in SUBSET Batch(p) : server' = Upserted(p, S)
    /\ Goto(p, "mark")
    /\ UNCHANGED <<files, sessions, digest, marks, serverRaw, loop, limits, consent>>

\* The request is rejected, the server dies in the middle of the batch, or the reply
\* is lost or does not count the whole batch: nothing is marked.
PushFails(p) ==
    /\ At(p, "push")
    /\ \E S \in SUBSET Batch(p) : server' = Upserted(p, S)
    /\ Finish(p)
    /\ UNCHANGED <<files, sessions, digest, marks, serverRaw, loop, limits, consent>>

MarkSynced(p, s) ==
    /\ At(p, "mark") /\ s \in Batch(p)
    /\ synced' = synced \cup {s}
    /\ Become(p, [job[p] EXCEPT !.copy = [job[p].copy EXCEPT ![s] = 0]])
    /\ UNCHANGED <<files, sessions, digest, rawSynced, rawUnavail, org, loop, limits, consent>>

\* Of the eligible sessions, those whose raw transcript is neither uploaded nor refused.
BeginRaw(p) ==
    /\ At(p, "mark") /\ Batch(p) = {}
    /\ Become(p, [job[p] EXCEPT !.pc = "raw", !.due = @ \ (rawSynced \cup rawUnavail)])
    /\ UNCHANGED <<files, sessions, digest, marks, org, loop, limits, consent>>

RawDone(p, s, label) ==
    Become(p, [job[p] EXCEPT !.pc = label, !.due = @ \ {s},
                             !.cur = IF label = "raw" THEN {} ELSE {s}])

\* The turns are read when their upload comes up; the server takes them only for a
\* digest it holds.
PushRaw(p, s) ==
    /\ At(p, "raw") /\ s \in job[p].due /\ server[s] # 0
    /\ serverRaw' = [serverRaw EXCEPT ![s] = captured[s]]
    /\ RawDone(p, s, "rawmark")
    /\ UNCHANGED <<files, sessions, digest, marks, server, loop, limits, consent>>

\* Network error or 5xx: it may have landed, it is retried by a later sync.
RawRetry(p, s) ==
    /\ At(p, "raw") /\ s \in job[p].due
    /\ serverRaw' \in {serverRaw} \cup
         (IF server[s] # 0 THEN {[serverRaw EXCEPT ![s] = captured[s]]} ELSE {})
    /\ RawDone(p, s, "raw")
    /\ UNCHANGED <<files, sessions, digest, marks, server, loop, limits, consent>>

\* 4xx: unknown digest, transcript too large or malformed.
RawRefused(p, s) ==
    /\ At(p, "raw") /\ s \in job[p].due
    /\ RawDone(p, s, "rawbad")
    /\ UNCHANGED <<files, sessions, digest, marks, org, loop, limits, consent>>

MarkRaw(p) ==
    /\ At(p, "rawmark")
    /\ rawSynced' = rawSynced \cup job[p].cur
    /\ Return(p, "raw", "raw")
    /\ UNCHANGED <<files, sessions, digest, synced, rawUnavail, org, loop, limits, consent>>

MarkRawUnavailable(p) ==
    /\ At(p, "rawbad")
    /\ rawUnavail' = rawUnavail \cup job[p].cur
    /\ Return(p, "raw", "raw")
    /\ UNCHANGED <<files, sessions, digest, synced, rawSynced, org, loop, limits, consent>>

EndSync(p) ==
    /\ At(p, "raw") /\ job[p].due = {}
    /\ Finish(p)
    /\ UNCHANGED <<files, sessions, digest, marks, org, loop, limits, consent>>

-----------------------------------------------------------------------------
\* Single-transaction commands of the engineer, and crashes

\* `manthana mode', the dashboard's personal toggle.
SetMode(p, s, toPersonal) ==
    /\ Command(p) /\ captured[s] # 0
    /\ personal' = IF toPersonal THEN personal \cup {s} ELSE personal \ {s}
    /\ consent' = [consent EXCEPT ![s] = IF toPersonal THEN @ \cup {"personal"} ELSE @ \ {"personal"}]
    /\ UNCHANGED <<files, captured, digest, marks, org, loop, job, crashes>>

\* `manthana purge --confirm': the rows matched by a filter.
Purge(p, S) ==
    /\ Command(p)
    /\ S # {} /\ \A s \in S : digest[s].ver # 0
    /\ digest' = [s \in Session |-> IF s \in S THEN NoDigest ELSE digest[s]]
    /\ Unmark(S)
    /\ consent' = [s \in Session |->
                     IF s \in S THEN (consent[s] \ {"hold"}) \cup {"purged"} ELSE consent[s]]
    /\ UNCHANGED <<files, sessions, org, loop, job, crashes>>

\* `manthana resync --confirm' clears the watermarks one by one; stopped halfway it
\* has cleared some of them.
Resync(p, S) ==
    /\ Command(p)
    /\ S # {} /\ S \subseteq synced \cup rawSynced \cup rawUnavail
    /\ Unmark(S)
    /\ UNCHANGED <<files, sessions, digest, org, loop, job, crashes, consent>>

\* A process is killed between two steps; the restarted daemon remembers no file.
Crash(p) ==
    /\ crashes < MaxCrashes
    /\ ~At(p, "idle") \/ p = Daemon
    /\ crashes' = crashes + 1
    /\ Finish(p)
    /\ IF p = Daemon
       THEN /\ seen' = [t \in Transcript |-> 0]
            /\ scan' = [t \in Transcript |-> 0]
       ELSE UNCHANGED loop
    /\ UNCHANGED <<files, sessions, digest, marks, org, commands, consent>>

-----------------------------------------------------------------------------
World ==
    \/ \E t \in Transcript : Settle(t) \/ \E i \in 1 .. MaxSegs : Append(t, i)
    \/ \E s \in Session : Age(s)

Watch ==
    \/ Scan \/ BeginSettle \/ SkipSettle \/ BeginRelease \/ ListReleasable \/ EndRelease \/ SkipSync
    \/ \E t \in Transcript : ReadFails(t)
    \/ \E s \in Session : AutoRelease(s) \/ ReleaseMisses(s)

\* Steps of the operations the daemon and the foreground share.
Shared(p) ==
    \/ StoreFamily(p) \/ Stamp(p) \/ Carry(p) \/ WriteDigest(p) \/ WriteRow(p)
    \/ BeginSync(p) \/ Gate(p) \/ Push(p) \/ PushFails(p) \/ BeginRaw(p) \/ MarkRaw(p) \/ MarkRawUnavailable(p) \/ EndSync(p)
    \/ Crash(p)
    \/ \E t \in Transcript : ReadTranscript(p, t)
    \/ \E raw \in BOOLEAN : Fresh(p, raw)
    \/ \E s \in Session : \/ SkipSession(p, s) \/ Build(p, s) \/ MarkSynced(p, s)
                          \/ PushRaw(p, s) \/ RawRetry(p, s) \/ RawRefused(p, s)

Engineer(p) ==
    \/ BeginCompact(p) \/ EndCompact(p)
    \/ \E s \in Session, b \in BOOLEAN : SetMode(p, s, b) \/ SetHold(p, s, b) \/ SetReleased(p, s, b)
    \/ \E S \in SUBSET Session : Purge(p, S) \/ Resync(p, S)

Next == World \/ Watch \/ (\E p \in Proc : Shared(p)) \/ (\E p \in Foreground : Engineer(p))

Spec == Init /\ [][Next]_vars

\* The daemon keeps running; the settle and grace windows pass; a throttled phase is
\* not skipped for ever (its interval is a few cycles) and the server is not
\* unreachable for ever.  Nothing is assumed of the engineer, the coding tool, the
\* raw uploads or crashes.
DaemonStep == Watch \/ (Shared(Daemon) /\ ~Crash(Daemon))
Fairness ==
    /\ WF_vars(DaemonStep)
    /\ \A t \in Transcript : SF_vars(Settle(t))
    /\ \A s \in Session : WF_vars(Age(s))
    /\ SF_vars(BeginSettle)
    /\ SF_vars(BeginSync(Daemon))
    /\ SF_vars(Push(Daemon))

FairSpec == Spec /\ Fairness

-----------------------------------------------------------------------------
\* Properties

\* A watermark is never ahead of the server: whatever crashes, races or replies are
\* lost, a session marked as synced, digest or raw transcript, has a digest on the
\* server (sync marks only after a push whose reply counted the whole batch).
AcknowledgedOnServer == \A s \in synced \cup rawSynced : server[s] # 0

\* Nothing of a session is on the server unless its digest was marked released at
\* some time, by the engineer or by the grace window.
ReleasedBeforeLeaving ==
    \A s \in Session : server[s] # 0 \/ serverRaw[s] # 0 => "released" \in consent[s]

\* A digest marked as synced is the one the server holds, so that skipping it in the
\* next sync loses nothing (clear_synced forgets the mark when a digest is rebuilt).
WatermarkHonest ==
    \A s \in synced : digest[s].ver # 0 => server[s] = digest[s].ver

\* The raw transcript behind a digest, once marked as uploaded, covers at least the
\* turns the digest was built from.
RawCoversDigest ==
    \A s \in rawSynced : serverRaw[s] >= digest[s].ver

\* What the daemon takes for ingested is ingested: a file whose mtime it remembers
\* has all its turns in the store.
SeenIsCaptured ==
    \A s \in Session : seen[File(s)] = mtime[File(s)] => captured[s] = written[s]

\* The staleness test of compact_settled (mtime <= created_at) is sound: a digest it
\* leaves alone covers the session, once the session is fully captured.
UpToDateTestSound ==
    \A s \in Session :
        digest[s].ver # 0 /\ mtime[File(s)] <= digest[s].built /\ captured[s] = written[s]
        => digest[s].ver = written[s]

StaysLocal(s) == server'[s] = server[s] /\ serverRaw'[s] = serverRaw[s]

\* While the store's row says personal, no step sends anything of the session.
PersonalRowStaysLocal == [][\A s \in personal : StaysLocal(s)]_vars

\* From the engineer's `mode personal' to their `mode work', nothing of the session
\* leaves the laptop.
PersonalStaysLocal == [][\A s \in Session : "personal" \in consent[s] => StaysLocal(s)]_vars

\* A digest put on hold before it was released stays local until the engineer
\* releases it or lifts the hold, re-compactions included.
HeldStaysLocal == [][\A s \in Session : "hold" \in consent[s] => StaysLocal(s)]_vars

\* Re-compacting a session keeps the hold on its digest.
HoldSurvivesCompaction ==
    [][\A p \in Proc : WriteDigest(p) =>
          \A s \in Session : digest[s].hold => digest'[s].hold]_vars

\* A session whose digest was purged stays local until the engineer compacts or
\* releases it again.
PurgedStaysLocal == [][\A s \in Session : "purged" \in consent[s] => StaysLocal(s)]_vars

\* Left to the daemon, every turn that was written ends up in a digest on the server:
\* through settling, release and sync, with crashes, failed pushes and lost replies.
EventuallyDelivered == <>[](\A s \in Session : server[s] = written[s])

\* The laptop keeps the promise of Delivery: every transaction and request above is a
\* delivery, an approval, an acknowledgement or nothing the promise can see.
Approved == {s \in Session : "released" \in consent[s]}
Contract == INSTANCE Delivery WITH
    approved <- Approved, delivered <- server, raw <- serverRaw, acked <- synced \cup rawSynced
ImplementsDelivery == Contract!Spec

=============================================================================
