# A TLA+ model of Manthana

Manthana captures the transcripts of coding assistants on engineers' laptops, turns
each session into a *digest* ("compaction"), and, once a digest is released, sends it to
an org server that enriches it, consolidates it into knowledge notes and answers
questions over them. This directory holds a model of the program, checked with TLC and,
for what matters most, proved with TLAPS. Paths below are relative to the repository root;
`agent/` stands for `agent/src/manthana/agent/` and `server/` for `server/src/manthana/server/`.

## 1. Inventory

| Component | Code | State | Operations | What is hard | What makes it correct | Modules |
|---|---|---|---|---|---|---|
| watch daemon | `agent/watcher.py` | remembered mtimes, throttles (memory only) | one endless cycle: scan, ingest, digest what settled, release, sync | runs beside every foreground command; any phase may fail, be skipped or be killed | forgets nothing it has not ingested; everything written is eventually delivered | Laptop |
| capture | `agent/capture.py` | session and turn rows | read a file, replace its session family in one transaction | the file grows between scan, read and store | rows always equal some reading of the file | Laptop |
| compaction | `agent/compact.py`, `agent/compactor/` | digest rows | build a digest, carry the engineer's flags over, clear its sync marks, write it | four transactions, racing with releases, holds, syncs and purges | flags survive; a changed digest is sent again; a stale one is rebuilt | Laptop, Transcripts |
| release | `agent/release.py`, `Store.mark_released`, `Store.set_hold` | two flags in the digest's JSON | release after a grace window or by hand; hold | read-modify-write of a whole row | only what was released leaves; a hold holds | Laptop, Delivery |
| sync | `agent/sync.py`, `agent/sync_client.py` | three watermarks per digest | list, gate, push a batch, mark, upload raw transcripts | lost replies, partial batches, crashes before the marks, marks of stale content | a mark never claims what the server does not have | Laptop, Delivery |
| collectors, sessionize | `collectors/` | - | lines to turns, turns to sessions | boundaries; two formats; torn lines; earlier splits must not move when turns are added | a partition of the turns with stable ids; every token paid once | Transcripts |
| redaction, cost, configuration | `agent/redaction/`, `agent/cost/`, `agent/config.py` | a configuration file | scrub a digest, price it, save and load settings | fields added later | nothing secret leaves; saving loses no setting | Transcripts |
| actions | `agent/actions/` | audit log, consent registry | dispatch tagging, loop warning, prior work after a compaction | cooldown and consent gates read and written apart | no action without consent, or within its cooldown | Desk |
| update check | `agent/updatecheck.py` | a cache file | fetch the latest version, write it, tell the engineer | processes share one temporary file | a notice names a version that exists and is newer | Desk |
| insights, local purge | `agent/insights.py`, `agent/purge.py` | - | answer from local digests; select what to purge | citations of a model; criteria that combine | cites what it was shown; spares real work | Desk |
| ingest and enrichment | `server/app.py`, `server/enrich/` | digests, raw blobs, enrichment state | upsert without downgrading; claim a pending digest, call a model, save, count attempts, abandon | re-push, purge or another pass during the model call | every digest is enriched or abandoned; content is neither lost nor served stale; a purged one stays gone | Enrichment |
| consolidation, teaching | `server/consolidate.py`, `server/teach.py` | notes with support, contradiction and lineage | adjudicate candidates with a model, promote, refine, supersede; people edit, confirm, revert | verdicts applied to notes read before the model call | one live note per lineage; people outrank the model | Notes, Consolidation, Wiki |
| overviews | `server/overview.py` | articles, a state row per project | generate, hold back, give up, retry | a person's description during generation | a person's text is never replaced; the page's promise is kept | Overview, Wiki |
| signup, invites, tenancy | `server/signup*.py`, `server/auth.py` | orgs, domains, identities, invites | sign in, create, join, redeem, promote, delete | read-then-write; stateless cookies outlive what they name | no founder who was not made one; an invite serves as often as it allows; deletion is complete | Accounts |
| pages, graph | `server/pages.py`, `server/graph.py`, `server/wiki_api.py` | - | project rows into pages and lists | windows, limits and filters differ by page | pages agree with each other and stay in their org | Pages |
| questions, weekly digest | `server/founder.py`, `server/ask.py`, `server/digest.py` | - | filter, group, cite | combined dimensions identify a person; several reads of moving tables | k-anonymity; citations of what was shown; named people are read | Questions |
| doors, tokens, audit | `server/app.py`, `server/ui.py`, `server/console_api.py` | tokens outside, hashes of revoked ones, privacy modes, audit rows | sign in at five doors, mint and revoke, invite, ask | each door has checks of its own; mode, tenant and tokens change during an answer | doors agree; at the doors that keep an audit every answer is in it as it was given | Access |
| metering, rate limit | `server/metering.py`, `server/llm.py`, `server/hardening.py` | monthly usage, a window of hits | check the quota, call, add the usage | check-then-act across threads; a shared provider object | no usage lost, bounded overshoot | Ledger |
| skill mining | `server/mining.py`, `skills/`, `server/analyzer/` | a registry of runs, an approval queue | cluster, draft, queue; topics; router report | background thread, restart, purge and a spent budget while it runs | proposals have the miner's floor of contributors; the status is true, save for a click that failed halfway | Mining |
| object store, purge | `server/purge.py`, `server/storage.py` | blobs and rows | select, delete blobs, delete rows | failure halfway | no row is dropped while its blob remains | Enrichment, Accounts, Notes |
| web client, deployment, rendering | `web/`, `server/ui.py` and the rest | - | - | - | - | - (section 11) |

The laptop's components share one SQLite file; the daemon, each command and each dashboard
thread are separate actors that interleave between transactions. The laptop calls the
server over HTTP only through `SyncClient`. On the server, request handlers run in a thread pool
beside three background loops (enrichment, consolidation, overviews), all over one database,
without locks. The server's components meet in the digest row: enrichment makes it readable,
consolidation and overviews turn it into notes and articles, pages and questions read it, and
a purge removes it from everywhere.

## 2. Plan

Done:

1. **Laptop**, **LaptopProofs**: from a turn in a transcript to a digest and a raw transcript on the
   server, with the daemon and foreground operations interleaved.
2. **Delivery**: what the laptop promises with no process in sight; Laptop implements it, checked
   and proved (LaptopProofs).
3. **Enrichment**, **EnrichmentProofs**: the server's half of a digest's life.
4. **Notes**, **Consolidation**, **Overview**, composed in **Wiki** (runs: **MCWiki**); **WikiProofs**.
5. **Accounts**, **AccountsProofs**; **Pages** and **Questions**, **Access**, **Ledger** (runs of all five: **MCServer**), **ServerProofs**;
   **Desk**, **Transcripts**, **Mining** (runs: **MCDesk**), **DeskProofs**, **MiningProofs**,
   **TranscriptsProofs**.

Left: **Pipeline**, Laptop's server composed
with Enrichment, with `released` and `raw` the only interface.

`MCServer` and `MCDesk` put components that share no variable into one run: a behaviour chooses an
area at the start and only that area steps, so the reachable states are the union of the
areas' and not their product. Each property then speaks of one area and holds trivially in the
others; every mutant is caught in the area it belongs to.

## 3. The laptop (module Laptop)

### State

| Variable | In the code |
|---|---|
| `written`, `mtime`, `quiet` | a transcript's turns per session, its mtime, whether settle_seconds passed since |
| `captured`, `personal` | `SessionRow`/`TurnRow`: turns stored per session (0: no row), sessions in personal mode |
| `digest` | `CompactionRow`: turns it was built from, `created_at`, grace window passed, `hold`, `released` |
| `synced`, `rawSynced`, `rawUnavail` | the three columns of `SyncStateRow` |
| `server`, `serverRaw` | what the org server holds: turns behind the stored digest and raw transcript |
| `seen`, `scan` | `seen` and `changed`/`current` of `watch` |
| `job` | the local variables of the operation each process is in, and its place in it |
| `commands`, `crashes` | counted up to their bounds |
| `consent` | history only: what the engineer or the grace window decided about a session |

A session is a pair of its transcript and its index (`base`, `base.2`, ...). Content is
a number of turns, since everything the properties compare is whether one thing was
made from as much of the transcript as another. The wall clock is replaced by what its
comparisons decide: a file's mtime and a digest's `created_at` are both counted in writes to
the file, so `mtime <= built` is the code's `mtime <= created_at`.

### Actions

One action is one store transaction, one file read or one HTTP call. The label in
`job[p].pc` says where in an operation process `p` is:

- capture: `Scan`, `ReadTranscript`, `ReadFails`, `StoreFamily`;
- compaction: `BeginSettle`/`BeginCompact`, then per session `Build` (read the turns), `Stamp`
  (`created_at = now`), `Carry` (flags of the previous digest, clear its marks), `WriteDigest`;
- release: `BeginRelease` (list sessions), `ListReleasable` (list digests), per digest `AutoRelease`
  (read the row) and `WriteRow` (write it); `SetReleased` and `SetHold` are the engineer's;
- sync: `BeginSync` (sessions), `Gate` (digests), `Fresh` (marks), `Push`/`PushFails`, `MarkSynced`
  one by one, `BeginRaw`, then per transcript `PushRaw`/`RawRetry`/`RawRefused` and its mark;
- single transactions: `SetMode`, `Purge`, `Resync`; `Crash` at any step of any process.

Abstractions worth knowing: `set_session_mode` is one step, because the mode it writes does not
depend on what it read and content lives in turn rows; marks are one step for the same
reason; the two listings at the start of `compact_settled` are one step; `resync` clears any
subset of the marks in one step, which covers being stopped halfway; `max_per_cycle` counts
candidates instead of successes; an exception that ends a foreground command is a `Crash`.
`summarized_only` and disabled phases (`--no-auto-compact` and the like) are left out.

### Properties and runs

| Run | Instance | Properties |
|---|---|---|
| LaptopSerial | 1 session, 2 turns, 3 commands, 1 crash; operations do not overlap; scans and reads may fail | `TypeOK`, `WatermarkHonest`, `RawCoversDigest`, `SeenIsCaptured`, `HeldStaysLocal`, `PersonalRowStaysLocal` |
| LaptopRaces | 1 session, 2 turns, 2 commands, 1 crash; every interleaving | `AcknowledgedOnServer`, `ReleasedBeforeLeaving`, `ImplementsDelivery` |
| LaptopDaemon | 2 sessions of 2 turns, 1 crash, fairness, no engineer | `UpToDateTestSound`, `EventuallyDelivered` |

Two turns are enough to tell a stale content from a current one, three commands to decide
something, undo it and act on it, one crash to lose the memory of an operation at any
point. Larger counts repeat these cases; the theorems of section 10 have no bounds.

`Exclusive` restricts LaptopSerial to one operation at a time (crashes excepted): what it shows
holds there and not when operations overlap, as told below. `CalmBuild`, in LaptopDaemon only, excludes a turn landing in the milliseconds between
reading the turns and stamping the digest; what happens otherwise is told below. The
daemon skips a session whose digest raises only when `FaultyReads` is set, for which the
code assumes nothing either.

Fairness, for `EventuallyDelivered`: the daemon's loop never ends (`WF` of its steps); the settle and
grace windows pass (`SF` of `Settle`, since a write restarts the window, `WF` of `Age`); a throttled
phase is not skipped for ever, because its interval is a few cycles (`SF` of `BeginSettle` and
`BeginSync`); the server is not down for ever (`SF` of `Push`). Nothing is assumed of the engineer,
the coding tool, raw uploads or crashes. The first write of every turn is bounded by
`MaxTurns`, so the claim is about a transcript that is at some time complete.

### The delivery contract (module Delivery)

Delivery says what all this is for: turns are written, a session is approved, a digest of
some of its turns is delivered once it is approved, a raw transcript only after a digest, and an
acknowledgement only of what was delivered. Digests may arrive late, in any order, again or in an
older version, and an acknowledgement may be forgotten (`resync`, a re-compaction, a purge); nothing
else may happen. `ImplementsDelivery` is Delivery's specification under the mapping

| Delivery | Laptop |
|---|---|
| `written`, `delivered`, `raw` | `written`, `server`, `serverRaw` |
| `approved` | sessions `consent` records a release of |
| `acked` | sessions marked in `synced` or `rawSynced` |

so it also refutes any step that invents content, delivers before consent, uploads a
transcript of a digest the server has not, or marks without a push.

### Where code and documents disagree

Two runs check one property each and find it violated:

- **PersonalReset**: re-ingesting a transcript stores its sessions in work mode again, so personal mode
  lasts until the next write to the file or restart of the daemon (`docs/reference/privacy.md:9-11`:
  "permanently").
- **HoldLost**: a hold set while the session is being re-compacted is overwritten (`agent/compact.py:71`:
  "`hold` MUST survive").

Met while modelling and kept out of the runs: the daemon rebuilds, releases and sends a digest that
was purged, because the capture the digest was made from stays (`agent/compact.py:136`;
`docs/engineers/your-data.md:57,87` counts purge among the ways to keep something to yourself). TLC
refutes `PurgedStaysLocal` of Laptop, which says so.

What the restrictions of the passing runs keep out can be seen by lifting them:

- *Overlap* (LaptopSerial's constants, `Exclusive = FALSE`): TLC refutes `WatermarkHonest` and `RawCoversDigest`. A
  sync that overlaps a re-compaction marks the old content after `clear_synced` made it dirty for
  the new one (`agent/sync_client.py:136`, `agent/compact.py:79`), so the server keeps the stale digest, which
  `agent/store/store.py:506-508` means to prevent.
- *Commands beside the daemon* (LaptopSerial's constants): `UpToDateTestSound` fails. A digest built by
  hand from a capture older than the file has `created_at` after the file's mtime and is never
  refreshed (`agent/compact.py:159`).
- *A turn between reading and stamping* (LaptopDaemon with `CalmBuild = FALSE`): `UpToDateTestSound` and
  `EventuallyDelivered` fail. `Compactor.compact` stamps `created_at` after the turns were read
  (`agent/compactor/compactor.py:117`), so the turn in between is older than the digest.

## 4. The server's half of a digest's life (module Enrichment)

### State

| Variable | In the code |
|---|---|
| `agent` | what a laptop would push: turns behind its digest, whether it carries the coding agent's own summary |
| `row` | `ReleasedCompactionRow`: `source`, the turns its deterministic fields come from, `native_summary` present |
| `raw`, `blob` | `RawTranscriptRow`, the object store |
| `progress` | `EnrichmentStateRow`: state, attempts, and whether `first_seen_at` is older than `enrich_max_age_days` |
| `retired` | the order of the abandoned rows by `updated_at` |
| `note` | digests a rationale note quotes |
| `pass` | the local variables of `run_enrichment_pass`/`enrich_org` in each thread, and its place |
| `request` | the local variables of each request handler, and its place |
| `called` | history: digests a model was called on |

### Actions

A request handler runs `Ingest` (validate, read the stored row) and `Merge` (write the merged one);
`Upload`, `PutBlob`, `RecordRaw`; `Purge` (select), `ReadKeys`, `DeleteBlobs` or `BlobsRefused`,
`DeleteRows`; or `Retry`. A pass starts with `StartPass` (the loop) or `AdminRun` (one org), then per
org `ListPending`, per digest `Take` (read its state row) and either `Abandon`, or `ReadInput` and then
`Wait`, or a model call: `OverQuota`, or `Call` that fails (`RecordFailure`) or answers (`Save`, `Clear`,
`Mint`; `SaveMisses` when the row is gone). `Age` lets time pass and `Crash` ends a thread anywhere.

Writes are never merged into one step; a handler's successive reads are, and so are the
blobs one purge deletes. Several rationale notes of one digest are one. The notes and vectors a
purge also strips or deletes, consolidation state, audit rows, usage and the index columns
other than `source` are left out; quotas appear as `OverQuota`, which may happen at any call. A digest
is pushed by one laptop, which waits for the reply, so two pushes of one digest do not overlap.
`delete_org` is not modelled.

### Properties and runs

| Run | Instance | Properties |
|---|---|---|
| EnrichSerial | 1 org, 2 digests of 2 turns, pass budget below the org's batch, 6 requests, object-store refusals; no overlap | `TypeOK`, `NoGhost`, `QuoteHasSession`, `BlobHasRecord`, `NeverDowngraded`, `TurnsNeverLost`, `AbandonedWasTried` |
| EnrichRaces | 2 digests of one org, batch 1, the loop and an admin's pass, 3 requests, 1 crash, unreadable blobs; every interleaving, fairness | `AttemptsBounded`, `Settles` |

Two turns tell an older digest from a newer one; two digests make one wait for the other;
six requests are a push, an upload, a second push, a purge and two more. The scan cap and
the skip limit are out of the way (9): orgs and backlogs below the code's 2000 and 200.
`MaxAttempts` is 1 or 2 for the code's 5, and the batches 1 or 2 for 25 and 200: what matters is
which bound is met first.

`Exclusive` lets requests and passes start only when none is running. In EnrichSerial nothing dies
either; four of its properties are proved with deaths at any step (section 10). `BlobHasRecord` and
`AbandonedWasTried` do need that: a thread that puts a blob and dies before recording it orphans
the blob until the laptop uploads it again, and, if a refused purge had removed the blob but
not the record, leaves a readable transcript behind a waiting state.
`AttemptsBounded` says what the check before and the count after a call guarantee with any overlap:
the bound is overshot by at most one attempt per other pass.

Fairness, for `Settles`: the loop's thread goes on (`WF` of its steps; the loop swallows exceptions and
sleeps a fixed time); time passes (`WF` of `Age`); no org is over its monthly cap for ever
(`SF` of `Call`, whatever the model answers). Nothing is assumed of laptops, admins or requests.

### Where code and documents disagree

With two handlers and `Exclusive = FALSE`, TLC refutes the safety properties of EnrichSerial:

- `QuoteHasSession`: a rationale note is written after the session it quotes was purged
  (`server/enrich/enricher.py:364`, `server/store.py:1418-1424`).
- `NeverDowngraded`: a push that read the row before `save_enriched` committed writes the pending digest
  back (`server/store.py:126`: "without losing enrichment").

- `NoGhost`: a pass records the waiting or failure of a digest purged since it listed it
  (`server/store.py:812`; `:1394` says the purge drops the row so that it cannot resurface).
- `BlobHasRecord`: a transcript uploaded between a purge's reading of the keys and its deletion of the
  rows stays in the object store without a record (`server/purge.py:303`).
- `TurnsNeverLost`: `save_enriched` overwrites a re-sync accepted during the model call, and pushing it
  again changes nothing, as the row is enriched now (`server/store.py:787`).
- `AbandonedWasTried`: a pass abandons an aged waiting digest whose transcript arrived after it read the
  state row; `mark_enrichment_abandoned` makes the row again (`server/store.py:881`).

With more abandoned digests than `SkipLimit`, which is 200 in the code (`server/store.py:906`), a pass lists
the older ones again, although `server/store.py:876` calls the state terminal; given up on again, they
cost no budget but occupy the batch.

## 5. The wiki (modules Notes, Consolidation, Overview, Wiki)

### State and actions

| Variable | In the code |
|---|---|
| `note`, `minted`, `recent` | `KnowledgeNoteRow`s with status, evidence, disputes, lineage; ids given out; articles by `updated_at` |
| `released` | enriched digests |
| `cstate`, `cpass` | `ConsolidationStateRow`; the local variables of `run_consolidation_pass`/`consolidate_org` in each thread |
| `ostate`, `opass` | `ProjectOverviewStateRow`; the local variables of `refresh_org_overviews` in each thread |
| `editor` | a request of `teach.edit`, `confirm` or `revert` that has read its note |
| `applied`, `purged`, `spoken` | history: digests all of whose plan was written, digests purged, versions people wrote |

Notes has what all writers share: `UpsertNote`, `SupersedeNote` (insert the next version, retire the stored
old one), and what a purge strips. **Consolidation** is one pass: `CBegin` (list), `CTake` (next digest),
`CAbandon`, `CRetrieve` (read the candidates), `CQuota`, `CCallFails`, `CRecordFailure`, `CAnswer` (verdicts
turned into a plan), `CUpsert` and `CSupersede` (one note, one transaction), `CMark`. **Overview** is
one pass likewise: `OBegin`, `OLook` (skip, give up, hold back or call), `OAnswer`, `OWrite`, `OMark` and the
failure steps, `ORetry` by an admin. **Wiki** composes them with people (`Create`, `EditNote`, `RevertNote`,
`ConfirmNote`, each a read and then a write), arriving digests and purges.

What the model answers is any verdict for any candidate and any number of new notes up to
`MaxNew`; retrieval is any set of live notes that the cap and the code's preference for the
project's own notes allow. Left out: confidence, edges and vectors (nothing here reads them), the 50-version cap
of a history, the session limit of an article (not reached), several orgs (every query is
bound to one), and names that are no projects.

### Properties and runs

| Run | Instance | Properties |
|---|---|---|
| WikiSerial | 2 digests of one project by two people, 2 notes, 2 requests; operations do not overlap | `NotesSound`, `HumanArticleWins`, `ArticleCurrent`, `OutlookHonest` |
| WikiRaces | 1 digest, 3 notes, 1 request, 1 crash, quotes; every interleaving, fairness | `HumanOutranks`, `DoneWasApplied`, `HistoryKept`, `DigestSettles`, `PromiseKept` |

Two notes are a version and its successor, three leave room for a quote or a second line beside them;
two people are enough to promote by actors (`PromoteActors`), two digests to change what an article
is made from. `Careful` (WikiSerial) says people act on live versions and describe a project once: acting on a
superseded version forks its history, as told below.

Fairness, for `DigestSettles` and `PromiseKept`: both loops' threads go on (`WF` of their steps; the loops
swallow exceptions and sleep a fixed time), and no org is over its monthly cap for ever (`SF` of
the model's answer or failure, whichever it is). Nothing is assumed of people, admins or
what the model says. The bound on notes ends some behaviours in a failed call, which is counted
as the code counts it.

### Where code and documents disagree

- **ArticleLost** (a run; `server/overview.py:387`): the pass reads the current article, calls the model and
  writes its own without looking again, so a description a person wrote meanwhile is
  superseded or outshone. `overview.py:389-391` says of a person's description "It wins, permanently".
- A comment and a docstring (`server/app.py:1189-1191,1227-1229`) say a project without one never gets it
  "until new sessions land or an operator calls /retry". For an abandoned project new sessions do not
  help (`server/overview.py:375`).
- Without `Exclusive`, both halves of `NotesSound` fail: a writer whose version was superseded meanwhile forks
  the claim or, by an upsert of what it read, brings the old version back to life
  (`server/store.py`, `supersede_note` does not look whether the old one is still current); and what a model wrote about a
  session purged during the call cites it. Without `Careful`, a person who edits a version that is
  no longer live forks it too.

## 6. Accounts (module Accounts)

`orgs`, `teams`, `domains`, `actors`, `identities`, `invites` are the tables of those names; `rows`, `raws` and
`blobs` say for which orgs there are digests, transcript rows and blobs; `pending`, `sessions` and `agents` are
what the server signed and cannot take back: pending sign-up cookies, web sessions, team tokens. `job` is
a request in progress. History: `founded`, `granted`, `taken`, `late`.

A request is one action per transaction, those that read, decide and write two: `RedeemRead`/`RedeemWrite`,
`DomainRead`/`DomainWrite`, `IdentityRead`/`IdentityWrite`. Creating an org runs `ClaimOrgId` (the candidates `base`,
`base-2`, ... until an insert succeeds), `CreateTeam`, the domain, `UpsertActor`, the identity, `IssueSession`. Joining
starts at `UpsertActor`, with an invite after its redemption; enrolment of a laptop ends in `IssueTeamToken`. `DeleteOrg`,
`DeleteBlobs`, `SweepOrg` are `purge.delete_org`. A deleted org's sessions are marked `stale`, since they
stay good until they expire.

Run **Server**, area `accounts`: three people (two of one company, one with a public address), one domain, one invite, two org ids with
the same slug, six requests, one crash. Six requests are enough to create, invite, join, promote, delete and create again.
`FoundersWereMade`, `InviteNotReplayed`, `MembersAgree` and `DeletedLeavesNothing`. `Exclusive` keeps requests from
overlapping and `Careful` keeps a browser from sending its pending cookie twice or after joining. Lifted:

- two redemptions that overlap let both in on one use (`server/store.py:412-416` says "Atomically consume one use");
- a pending cookie that is left over after joining by invite creates a second org, whose
  session says founder while the identity stays an engineer of the first (`server/signup.py:436-437`).

A crash between the steps of a creation leaves an org without a founder, which is why
`OrgHasFounder` speaks of behaviours without one.

## 7. Pages, questions and the doors to them (modules Pages, Questions, Access)

Pages has the read side as operators over the rows: the store's queries with their filters, limits and
orders, the projections (`project_rollups`, `activity_rollup`), the pages, the graph, the API. A digest is a record
of what they tell apart; times are numbers, days for the windows. Questions adds what takes
several steps: `Query` (the founder's question and the weekly digest's), `Asking`, `ReadNotes`, `ReadActivity`, `Drill`, `Answer` (the wiki's ask)
and turning the pages of a list, while digests and notes come (`Sync`, `Learn`) and go
(`Purge`, `Forget`).

Run **Server**, area `pages`: five digests in two orgs, inside and outside the windows, summarised and pending, with
and without a project; two notes; four filters; page size 2; a k-anonymity floor of 2. `SurfacesAgree` (here its part `PagesAgree`:
roster, links, accounting, symmetry, tenancy), `AnswersHonest` (its part `KAnonymous`), `ReadersSeeAll`. The floor and the page size are small so that both sides of
each are met by five digests; nothing in the code depends on their values.

Met while modelling: `wiki_api.py:126-136` says a short page is the end of the data, but `wiki_sessions` leaves
unreadable digests out after the limit was applied, so a page may be short before the end (`PagesNeverSkip` speaks of pages
that offer a cursor). `until` is inclusive, so each page repeats the last item of the one before, and a page of one
never advances. `ask.py:266-272` ("Guarantee every named person is represented") holds for what is ranked, not for
what ranking keeps. `graph.py:299-307` ("cannot drift") holds at the moment of writing.

**Access** has the doors: the HTML console (`html`), the console API (`console`), the wiki (`wiki`), the founders' API
(`founder_api`) and the laptops' (`require_team`), each with the checks of its own that the code has, as the set of orgs
a credential is let in to. `minted`, `expired` and `revoked` are the tokens; only the hashes of revoked ones
are stored, so `delete_org` leaves all three alone. `tenants`, `privacy`, `offers` (invites), `roles` and `audit` are tables.
Everything that changes them is an action named for its handler, once per door where the code has it
once per door (`ui_invite`, `create_invite`, `founder_create_invite`). A founder's question is `visit`, in steps: `Arrive`
(a door lets it in), `ReadPrivacy`, `ReadSessions`, `RecordFounderQuery`, `HandOut`; `NoAnswer` ends it anywhere
(a spent quota, an exception, a restart). Between the steps anyone may change anything.

Run **Server**, area `access`: the digests of area `pages`, a founder's, an engineer's and a laptop's token, of two orgs, at the start all minted or
none; one invite; two requests that change something (`MaxActs`) and one question (`MaxVisits`). Two changes are what it takes to
change the mode twice during an answer, to revoke and delete, or to delete and make an org again; one question is
enough, since questions share only the audit, to which each appends.
`AnswersHonest` adds `AnswersAudited`: if an answer to a query, an ask, a thread, a drill or the founders' API's topics
(`Audited`) was handed out, its row is in the audit, cites what it cites and says "individual" if the answer names people;
of the answers without a row, only the consoles' session lists (`browse`) name anybody. `SurfacesAgree` adds `DoorsAgree`, `ConsolesAgree` and `RevokedIsShut`. The
founders' and the operator's invites and tokens are here as the pages see them; joining with them is Accounts'.

Met while modelling: a drill reads the privacy mode when it writes its audit row, all others when the question
arrives; a drill shows raw turns in either mode. The docstring at `founder.py:487-491` says a thread is correctly empty
under k-anonymity, while `founder_thread` returns it without names. The audit lists show 100, 20 or 5 rows by door.
A founder's token that is not revoked goes on opening an org that was deleted and made again.

What the code does at some doors is less than what is written about it, and `AnswersAudited` claims only what the code does:

- `docs/reference/privacy.md:72-73` says of the open mode that "every named query is still audited and flagged as
  individual", and `founder.py:474-476` that named topics "must be audited by the caller". The founders' API does so
  (`app.py:635-662`). The consoles' topics (`ui.py:779-805`, `console_api.py:333-362`) ask for the same
  `team_topics(named=...)` and write no row. They show topics of one contributor in the open mode, with a count and not a name, so
  `console_topics` names nobody; the topics are drawn from named ones all the same.
- The consoles' session lists and session pages (`ui.py:677-776`, `console_api.py:252-330`) show who did what in the open mode, and
  leave no row either (`browse`).
- The founder's MCP server, which is not modelled, writes its rows without `individual` and goes on when writing one fails
  (`founder_mcp.py:262-271`).

## 8. Metering and the rate limiter (module Ledger)

`call` is a metered call in each thread: `Begin`, `Check` (the cap), `Send`, `Reply` or `Fail` (retried or not), `Meter`
(read usage and cost from the provider), `UpdateUsage`/`InsertUsage` (update; no row, insert; conflict, update), `AddPurpose`. `reported` is an
attribute of the provider object all threads of a pass share. `hits` is the limiter's window and `clock` its time.

Run **Server**, areas `ledger` and `rate`: two callers (symmetric), a global cap of 1, overrides 0 and 2, calls of cost 1 or 2, two
months; a limit of 2 in a window of 2 and six ticks. `LedgerHonest`: every reply is counted in its month,
spend passes the cap by at most one call per caller, the limiter lets through no more than its limit in any window.

Met while modelling: an override of 0 means no cap to `org_provider` and "no override" to an
admin's run; a reply without choices is billed but not counted; the usage a thread
reads from the shared provider may be another thread's, so costs are right only in sum if calls do not
overlap.

## 9. Around the pipeline (modules Desk, Transcripts, Mining)

Run **Desk** explores five areas, chosen at the start.

- `desk`: `Dispatch`, `Gate`, `Run`, `update_session_tags`, `_log` of a dispatch in two processes, with the engineer setting the
  mode and opting out, three events, one clock tick. `GatesKept`. The tags are written back with the whole row that was read, which
  undoes a mode set in between; `raced` names those sessions, and only those may differ.
- `update`: the check in two processes that share one temporary file: `maybe_spawn_check`, `refresh`, `OpenTmp`, `WriteTmp`,
  `write_cache`, `Killed`. `NoticeHonest`. `updatecheck.py:150-152` says a reader must never see a truncated file;
  with one name for the temporary file it can, and takes it for no cache, which `NoticeHonest` says is harmless.
- `insights`: questions over five local digests and any sequence of purges. `InsightGrounded`.
- `transcripts`: every file of up to four lines of either format, read twice while it grows, the last line
  possibly torn. `SlicesStable`, `OneSummary`, `TokensConserved`, `NothingLeaks`. Four lines are enough for two
  cuts, a tool call with its result, and a usage report on either side of a cut. A Codex file is named
  by its *last* `session_meta`, so its ids may change as it grows, and a closed slice's
  summary flag, usage and model may still change: `SlicesStable` says what may not.
- `mining`: two clicks on the button or the API, one restart, one purge, a budget spent at any time, five digests of three
  people of which four fit. `ProposalsSound`, `StatusHonest`, `ReportsSound`. The click registers its run (`StartMine`), then asks
  for the organisation's provider, which reads the store and may raise (`ProviderFails`), and only then makes the task (`Schedule`);
  `stranded` remembers the runs lost in between. Met while modelling: two clicks can start two
  runs (`console_api.py:584-587` says "Don't stack runs"); a run that fails keeps what it queued while its count says 0; a
  spent budget during drafting is swallowed by the template fallback, so the run ends as done; a click whose provider
  raises after `mine_runs.start` (`console_api.py:588-599`, `ui.py:835-840`, `app.py:370-377`) leaves a run that is shown
  as running with nobody on it, and `is_running` turns every later click away until the server restarts. `StatusHonest`
  says "running" is so except for these.

The floor of a mined skill is not the one the documents promise. `docs/reference/privacy.md:45-49` and
`docs/founders/privacy-and-budgets.md:35-37` say `MANTHANA_SERVER_K_ANON` gates skill mining, but `run_mining` calls `mine_org` without
it (`mining.py:204-210`), which uses the miner's own `K_ANON_FLOOR` of 4 (`miner.py:35,142,156`). On a server that
asks for more, a skill of 4 contributors is proposed. The run has `KFloor` = 2 below `KServer` = 3, so such proposals are
made in it, and `ProposalsSound` claims the miner's floor and no more; topics keep the configured one (`ReportsSound`).

What `OneSummary` does not say: it compares the two readers of summaries at one instant. `compact.py:41-56` reads the
transcript again when it compacts, and takes its newest summary, so a summary appended after the capture goes to
a session captured with an earlier one; what is appended in that interval is not modelled.

## 10. Proofs

### LaptopProofs

All four hold for any set of transcripts and foreground processes, any bounds and either
value of every switch, from the assumptions named in Laptop (bounds are natural numbers,
switches Booleans, the daemon is not a foreground process).

- `TypeCorrect`: `Spec => []TypeOK`. By action, from lemmas on how each step changes its process's job.
- `Acknowledged`: `Spec => []AcknowledgedOnServer`. Not inductive: a process about to mark must have pushed.
  `AckInv` adds that whatever a process is about to mark, the server holds; it survives because
  the server forgets nothing and only a whole push leads to the marks.
- `Consented`: `Spec => []ReleasedBeforeLeaving`. `ReleaseInv` adds that rows in the store, the row a
  compaction is about to write and the batch a sync is about to push are released only with
  consent; the row carries a flag read earlier, possibly revoked since, so the claim is that it was
  released *at some time*.
- `SerialWatermarks`: `Exclusive /\ Spec => []WatermarkHonest`. `HonestInv` adds that at most one process is
  in an operation and that what it holds in memory still agrees with the store.

Each proof has one frame lemma ("a step that does none of this preserves the invariant"), one
lemma per group of actions, and one that joins them. Only model-checked: `EventuallyDelivered`, whose
fairness is out of the prover's reach.

### Operations that do not overlap (LaptopProofs)

Five theorems about operations that do not overlap, for any transcripts, processes, bounds and switches, with
crashes, unreadable files, lost replies and turns landing at any moment. The steps are proved under `Solo`
(`Exclusive`, or no foreground process at all), which with `OneAtATime` says that nothing else
moves while an operation holds a copy. Overlap breaks them; run `HoldLost` is the counterexample for holds.

- `RawCovers`, `HeldKeptLocal`, `PersonalKeptLocal` (`[]RawCoversDigest`, `HeldStaysLocal`, `PersonalRowStaysLocal`) rest on `LocalInv`,
  what an operation holds against what the store says: a transcript read is no older than the store's copy and
  no newer than the file (`Capturing`), a digest under construction is built from turns that are stored and keeps
  the flags of the one it replaces (`Compacting`), the daemon's release passes holds by (`Releasing`), and all that a
  sync has let through its gate is in `Leaving`, work sessions with a released digest (`Syncing`). `SentWasPassed` says that a
  step sends only what passed the gate.
- `SeenCaptured` (`[]SeenIsCaptured`) rests on `SeenInv`: what is about to be stored is the whole file, or the file has changed
  since the daemon scanned it (`StoresFile`). That is why the time remembered must be the one scanned before the read.
- `StalenessSound` (`[]UpToDateTestSound`) rests on `BuildInv`: a digest no older than its file has every turn, and so has one
  on its way to the table, because the daemon ingests what is quiet before it builds. It assumes
  `Foreground = {} /\ CalmBuild /\ ~FaultyReads`, as its run does: `compact` by hand digests sessions that are not
  settled, a turn written between read and stamp is older than the digest that misses it, and an unreadable
  file is quiet while its turns are not stored.

### EnrichmentProofs

Without overlap (`Exclusive /\ Spec => P`, for any sets of orgs, digests, admins and handlers and any
bounds). `EnrichmentKept`, `TurnsKept`, `GhostFree` and `QuotesBacked` hold with crashes included. None
of the four properties is inductive. Their common invariant `SerialInv` adds that at most one
thread is in a pass or a request (`Alone`); that the digests a pass still has to handle are
in the table as it listed them, each once, and so is the one in hand until it is saved
(`PassOK`); that an ingest holds the stored row and brings no fewer turns than it (`RequestOK`);
and that no row is ahead of its laptop (`NotAhead`). `PassStep` and `RequestStep` are the frame: a
step of one thread keeps the invariant if its own job and the tables do. `MergeFacts` and `RowStep`
say how a row may change. Without `Exclusive` all four properties fail (section 4).

`BlobsRecorded` and `TranscriptsTried` assume `MaxCrashes = 0` as well, because one crash is enough to
break them: an upload that dies between the object store and the table leaves a transcript
nobody knows of. `UploadInv` adds what an upload and a purge have done so far: between its two
steps an upload is the only excuse for a blob without a record, and a purge that has
looked up its keys has looked up all of them. `InputInv` adds why a digest waits or has been
given up on: attempts are calls (`Tried`), and a digest that waits, or that a pass has decided is
too old, either had a call or has no transcript (`Decided`). `TranscriptsTried` also assumes
`~FaultyBlobs`, an object store that finds what it holds: otherwise `ReadInput` may miss it.

Under every interleaving and crash. `EnrichmentTyped` proves the type invariant. Its one hard
part is that the budget of a pass stays in `Nat`: `FewRows` says that finitely many digests have a row,
`Sized` that a pass lists no more digests than it has budget for, the one in hand included, and
`NewestFew` that `Newest(S, n)`, the model's form of `ORDER BY ... LIMIT n`, has at most `n` elements, each
rank in an org being one digest. `FewAttempts` is `AttemptsBounded` for any `MaxAttempts`, any digests and any
admins, as long as these are finitely many (`IsFiniteSet(Admins)`: they are threads). `CountInv` is its
invariant: the attempts counted, and the passes that have decided to try the digest and may
still count one (`Trying`), are together at most `MaxAttempts` and one for every admin.

Only model-checked: `Settles`, whose fairness is out of the prover's reach.

### The delivery contract (LaptopProofs)

`LaptopImplementsDelivery`: `Spec => ImplementsDelivery`, for any transcripts, processes, bounds and switches.
The invariant is what the section above has (`TypeOK`, `AckInv`, `ReleaseInv`) and `SourceInv`: what a digest, a
process or the server has of a session was written in its transcript. `InitContract` maps the initial states; `NextContract` maps each step:
`Unseen` (nothing Delivery can see changes), `Forgets` (marks are cleared), and one lemma each for the
local, compaction, sync and engineer's steps, with the step of Delivery each one is.

### AccountsProofs

Five theorems, for any people, domains, invites, threads and bounds, from `AccountsAssumption` (bounds are
natural numbers, every person has a domain or none, `None` is nothing else).

- `AccountsTyped` and `FoundersMade`: `AccountsSpec => []AccountsTypeOK` and `AccountsSpec => []FoundersWereMade`, under every
  interleaving and crash. What is checked of the table does not say what a request carries to it: `GrantInv`
  adds what each step of a request knows (`JobOK`), and that whoever a request will write down as a
  founder has been made one, unless it is still looking for an org to make (`Granted`).
- `InviteServesItsUses`, `MembersDoAgree` and `DeletingLeavesNothing` assume `Exclusive`, the second `Careful` as well: without them the
  properties fail (section 6). `SerialInv` adds that one request runs at a time (`Alone`) and what it has read is
  still so (`Steady`): the invite has the uses that were counted, nobody has become a member since, the
  blobs whose rows were counted are the ones to delete. `MembersAgree` and `DeletedLeavesNothing` only speak of times when no
  request runs; `GoodSessions`, `FoundersRemain` and `BlobsKnown` say what holds in between.

`TypesStep`, `GrantStep` and `SteadyStep` go through the actions one by one; `Disturbs` sorts the actions by the tables they
touch, so that each of the five lemmas that keep the other conjuncts (`InvitesStep`, `SessionsStep`, `FoundersStep`,
`TablesStep`, `BlobsStep`) has a case for those that matter to it.

### WikiProofs

Four theorems for any sessions, projects, passes, people and bounds, from the named assumptions of Notes,
Consolidation, Overview and Wiki (bounds are natural numbers, switches Booleans, the loops are not
admins), under every interleaving of the passes, the people and the purges, and every crash: `WikiTyped`
(`[]TypeOK`), `HumansOutrank` (`[]HumanOutranks`), `VersionsKept` (`HistoryKept`), `MarkedWasApplied` (`[]DoneWasApplied`).

The last is inductive with the types. The others are not: a pass holds the text, author and
ancestor of rows it read long ago, and of rows it has drawn an id for and not yet written. `IInv` is
`Types /\ \E o : Conform(o)`: there is one assignment `o` of a first text, author and ancestor to every id given out,
and every row of the table, every row a thread has read and every row it plans to write conforms
to it. So a stale writer may bring back an old status, evidence or successor, but never other words or
another author; and since `o` says who wrote the ancestor of an id before the row is written (`AuthorsConform`),
a plan made from a row a person has replaced meanwhile still replaces a model's. The steps that draw
ids (`CAnswer`, `OAnswer`, the people) extend `o` (`Grows`), all others keep it.

### One operation at a time (WikiProofs)

Four more theorems, under `Exclusive` and `Careful` (requests and passes run one at a time; people act on live versions and
describe a project once), with crashes anywhere: `OneAccount` (`[]NotesSound`), `PersonsArticleShown`
(`[]HumanArticleWins`), `MarkNamesArticle` (`[]ArticleCurrent`), `OutlookKept` (`OutlookHonest`). Without either assumption the
first three fail (section 5). The invariant is `SInv`: `IInv`, and

- `Solo`: one thread is at work;
- `Rows`, what the table says between two writes: `Grounded`; a version has at most one successor, and none while it is live
  (`Chain`); the articles are those ever stamped (`Stamps`); a project has one live article (`OneArticle`), a person's once a
  person has described it (`HumanStays`); it is drawn from what its project's mark names (`Drawn`), and the mark names
  sessions of the project that are there (`Ledgered`);
- `Fresh3`: what the thread at work has read is what is stored, and what it plans to write fits: a
  planned version replaces a live row, no two plans the same one, under an id no row has or names (`EFresh`, `CFresh`, `OFresh`).

`OneLive` speaks of whole lineages, and `Chain` of one link only. `Lineage` is a recursive function on ids; that it unfolds
is proved (`LineageUnfolds`), and induction is on the least element of a finite set of ids: if two
live versions share an ancestor, take their greatest common one; both descend from its successors, which
`Chain` says are one, and it is a greater common ancestor.

### ServerProofs

Five theorems.

`LedgerKept`: `LedgerSpec => []LedgerHonest`, for any finite set of callers, any providers, caps, quotas and costs, and any limit
and window, from `LedgerAssumption`, under every interleaving. `LedgerSpec` joins the two areas of run Server that share
Ledger's variables.

- `SpendInv` is inductive for the money. `Counted` is the property's first half as it stands. For the second, a
  purpose's row together with what its callers have put in the month's row and not yet in its own (`Unsplit`, one
  element for each unit of cost, so that a sum is a cardinality) stays within the month's. For the overshoot, `WithinCap`
  charges everyone admitted with the dearest call in advance: a caller is let in only below the cap, so the
  month's cost and those charges stay below the largest cap anyone was admitted under and one call for each caller.
- `RateInv` is inductive for the limiter: its hits are the last requests served, and those before them have left the window.
  `LiveIsSuffix` says that popping from the front keeps that; the window of any request is then among the hits.

`ReadersKept`: `QuestionsSpec => []ReadersSeeAll`, for any finite set of sessions with their own ids, any page size and any
filters, from `PagesAssumption` and `QuestionsAssumption`, while sessions and notes come, go and questions are
answered. `ReadersInv` is inductive: what a reader's list still holds is stored, of its org and matched by its
filter (`ReadingInv`), and whoever a question names has a name and has the sessions read (`NamedInv`). `PageCut` says that a
page which offers a cursor leaves out only what is older than the cursor, what is not worth reading aside, so the next page,
asked for until that cursor, begins no later than where the last ended; `NewestSome` that the newest of somebody's sessions
in the window are some, so a named person's are ranked.

`AnswersKept`: `MaxVisits <= 100 => (AccessSpec => []AnswersHonest)`, with any tokens, invites, members and privacy modes, from
`AccessAssumption` besides. The audit page shows the newest 100 rows, so a longer history pushes an answer's row off it; that the
row is in the table holds without the bound, and is `AnswersRecorded`. Both speak of the doors that keep an audit (`Audited`):
queries, asks, threads, drills and the founders' API's topics; section 7 names the doors that keep none. `AccessSpec` lets the doors and the
questions interleave, which the areas of run Server keep apart, and starts from any stored rows. `AnswersInv` is inductive:

- `KAnonymous` is inductive as it stands: what a query may cite is of the kept cells (`QueryAnonymous`), and neither a purge
  nor a new session changes what an answer was drawn from.
- `AuditInv` follows a question: before its sessions are read it names nobody; it names people only if it was let to when it
  read the privacy mode, never for a digest, a drill or the consoles' topics; where a row is kept, from the moment it is
  written until the question is answered that row is in the audit (`VisitSound`), unless its org was deleted meanwhile,
  which empties the audit and has nothing handed out. An answer without a row names people only as a console's session list. Rows
  and the row to come are no more than the questions asked (`RowsCounted`).

`SurfacesKept`: `AccessSpec => [](PagesAgree /\ SurfacesAgree)`, whatever is stored and however much, from the same assumptions. The run
compares the pages before the first question only; the theorem at any time.

- `RowsInv` is inductive: what is stored comes from `Digests`, and whoever has a session is in the roster, which a purge leaves
  alone and a deletion sweeps with the sessions. `RosterParts` follows, and that a page's person has a name.
- The pages read lists cut at different lengths and windows (`All`, `PERSON_SCAN_LIMIT`, 3 cards for a project). `NewestMore`: what is
  among the newest of one list is among the newest of any other that has nothing newer besides, so all that the home page read
  the longer window has too (`HomeIsRead`), and `HomeLinks` compares counts of finite sets. `NewestAll` and `NewestFills`: a list cut
  at n is whole or has n, whence `Accounted`.
- `Mutual` and `One` need no invariant: ties and neighbours are symmetric, and every query of a session's page names its org.
- `DoorIs` says for each door which tokens it opens to and for which org; `DoorsAre`, `ConsolesAre` and `ShutToRevoked` follow.
- `ShutInv` is inductive: a token once revoked is still among the revoked ones, which is why `delete_org` must not sweep them, and no
  question under way was let in with one.

`PersonAccounted` holds for people with at most `PERSON_SCAN_LIMIT` sessions: beyond it the oldest are not on the page.

### DeskProofs

`Honest`: `DeskSpec => []DeskHonest`, for any sessions and dispatchers, any finite set of digests, any handlers, cooldowns,
versions and filters, from `DeskAssumption`. `DeskSpec` lets dispatchers, update checks, questions and purges interleave.

- `DeskInv` is inductive for the actions. What `GatesKept` says of an entry of the audit log is said of a dispatch long before
  it writes its entry (`GateInv`): one that has passed its gates may fire (`MayFire`), judged by consent and by the log as they were when
  it looked; the engineer's later choices do not undo that, and `wanted` and `raced` follow what a written-back row may undo.
- `UpdateInv` says where versions come from: whatever is in the cache, the shared temporary file, or a check's memory was once
  published, or is a torn file, which no reader takes for a version.
- `InsightGrounded` is inductive as it stands; `Ranked` and `Answered` show that what is cited was among what was shown.

### TranscriptsProofs

`ReadHonestly`: `TranscriptsSpec => []TranscriptsHonest`, for any lines of either format, gaps, caps, repositories and
configurations, from `TranscriptsAssumption`: lines are records of the shape both readers expect, with natural usages.

The state is the file and two reads of it, so the invariant says where the reads come from and everything else is
about the operators. `TranscriptsInv`: the older read is `sessionize` of the reader's result for some beginning `p` of
the file, the newer of some beginning `q` that begins with `p`. TLC checks the four conjuncts of the property, and not this
invariant, whose `p` and `q` range over all sequences; it is inductive because a file only grows and a read takes all its whole lines.

- `Reads`, `Segments` and `Sums` are recursions over lines, turns and amounts. `ReadsAre`, `SegmentsAre` and `SumsAre` prove by
  `NatSteps` that they are the functions their equations say, so that a longer input agrees with a shorter
  one on what both have (`ReadsAgree`, `SegmentsAgree`, `PrefixSums`).
- `Advances` says what one line may do to a reader's state: turns are added and the earlier ones keep all but usage and model,
  and the turns' usages together grow by what the line reports. One lemma for each kind of line (`ClaudeAdvances`;
  `ContextAdvances`, `CompactedAdvances`, `PatchAdvances`, `TokenAdvances`, `MessageAdvances`, `ToolAdvances` for Codex). `TokenCount`
  overwrites the usage of an earlier turn, and nothing is lost because no turn after the boundary has any (`TurnsOK`).
- `SlicesAgain`: cuts depend on a turn's time and those before it only, so those of a shorter transcript are cuts of the longer one
  (`PartsStable`). `CreditedOnce`: one slice has the summary, and what is read for it again is what was read the first time.
  `PaidOnce`: slices lie side by side, so their sums are the sum of all turns (`SumOfParts`), and prices follow with them.
- `ConfigKept`: what is loaded is what was saved, so a redactor that was to hide secrets does (`Redacts`, `TurnRedacted`,
  `DigestRedacted`).

### MiningProofs

`MinesHonestly`: `MiningSpec => []MiningHonest`, for any finite set of digests, any symmetric likeness, any clickers, floors and bounds,
from `MiningAssumption`, under every interleaving of clicks, runs, failures, restarts, purges and the budget.

- Clusters first. `community_detection` is a loop over the digests; its recursion is a function on naturals, and
  `RoundsAre` proves by induction what it yields after each round: disjoint groups of at least `min_cluster_size` of the digests it was
  given (`ConsiderOK`, `CommunitiesDisjoint`). `MinedGroups` adds the contributors `recurring` asks for.
- `MiningInv` follows the groups through a run: what a thread still has to draft, has drafted and has queued never
  share evidence (`ThreadFine`, `QueueFine`); two busy threads never work for one run; a run's counts are what the queue
  has of it (`RunFine`); and the run the status page shows has a thread on it unless it has ended, or its click failed before its task was
  made (`Watched`, `ScheduleStep`). The contributors of a proposal are at least the miner's own floor, whatever the server's is. That is where
  `Failed` matters: a failure that ended the thread silently would leave a run nobody is on.
- The reports are sums over sets. `SumExists` proves that the library's recursive sum over a finite set is
  the one that adds element by element, `SumMonotone` that a larger price for each gives no smaller a sum; `Dearer` is
  the router's choice for one digest.

The library's induction theorems take an operator as a parameter, which the provers cannot instantiate. `NatLeast`,
`NatSteps` (DeskProofs) and `SetSteps` (MiningProofs) say the same about sets, from the well-foundedness of `<` and of
inclusion among finite sets, and serve wherever a recursion is a function and not a RECURSIVE operator.
## 11. Not modelled

- The enrichment's text handling (`server/enrich/coerce.py`, `compare.py`, `prompt.py`): prompts and parsing, no state.
- Rendering: dashboard pages, console and wiki HTML, the web client.
- Patterns of secrets, embeddings and prices beyond what comparisons need.
- Token signatures and expiry arithmetic; a token is what it names, and expires at any time.
- Setup, login, doctor, service management and the operator's command line; migrations; deployment; the founder's MCP server, and so its audit rows.
- Composition of Laptop with Enrichment: the laptop model has its own, simpler view of ingest and raw upload, what the
  laptop can tell of them.
