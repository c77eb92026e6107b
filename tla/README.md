# Verification of ashaveri

Ashaveri is a gateway that stands in front of an inference upstream inside a confidential
virtual machine. For every completion it answers it issues a *receipt*: a signed record of
the digests of the request and of the response, chained to the receipt issued before it and
kept in an append-only file. Clients read receipts back, verify them, and walk the chain.
Around that core stand the gateway's access control (credentials, proof of possession, rate
limits, an access log), a guard that refuses a completion when the store could not keep its
receipt as long as it was declared to, and a family of packages and commands that encode,
verify, export and redact what the gateway issued.

This directory holds TLA+ modules of the parts where interleavings, crashes and order decide
whether the program is right, the TLC configurations that check them, and proofs of the most
important invariants by TLAPS. `PROJECT.json` lists components, runs, mutants, the map from
every definition to the lines it models, findings, hazards and theorems.

Everything here is read from the source: a definition's lines are in `PROJECT.json` under `map`.
`src/` stands for the root of the repository.

## Contents

1. Inventory of the system
2. What is modelled, module by module
3. Runs
4. Bounds, and why they are enough
5. Fairness
6. Proofs
7. Where the code and its documents disagree
8. Assumptions
9. What is not modelled
10. Plan

## 1. Inventory of the system

### How the parts meet

```
 client (sdk) ──► server.ts hooks ──► access.ts  admit / charge / reload
      │                │                  │  peer buckets, replay set, own buckets
      │                │                  └── credential file, edited by the operator (cli)
      │                ├── intake guard ──► store.window()
      │                ├── completion bucket
      │                ├── upstream ──► pieces ──► client socket
      │                ├── issue(): metering, digest, sign ──► store.put()
      │                └── access log flush ──► aclog.ts ◄── scrub (cli accesslog)
      └── 404-and-retry receipt fetch ──► store.get / range walk ──► file, index, sidecar
```

Everything inside one gateway runs on one event loop: handlers interleave at awaits and
nowhere else. Between gateways, and between a gateway and the operator's commands, there is
only the file system: the store's directory claim, the credential file, the access log's
directory, the epoch journal, the time source's state file.

### Components

| component | source | state | operations | hard behaviour | correct when |
|---|---|---|---|---|---|
| directory claim | `gateway/src/store.ts` 2520-2668 | the `owner` file, a displaced claim, each opening's place in the sequence | claim, judge the named holder, take over, release | two openings interleave at every file operation; a process stops half-way; a pid is used again; a second host sees the same volume | a directory has one writer; a refused opening removes nobody's claim but its own |
| file engine | `gateway/src/store.ts` 1590-3255 | the file, the index, the pending appends, trims, counters of retired receipts | put, write window, sync, rollback, file, retire, compact by rename, rescan, open | each file operation may fail or fall short; a kill or a power loss between any two; arrivals while a window is in the air | an acknowledged receipt is on file until policy takes it; a rolled-back one never returns; the file always reads as one chain; counts add up |
| index file (sidecar) | `gateway/src/store.ts` 1163-1591 | a checkpoint of the index beside the file | flush, read and check, resume from the tail | stale or foreign checkpoints; a crash between file and checkpoint | an index restored equals the index a full walk builds |
| range walk | `gateway/src/store.ts` 3045-3117 | a snapshot, an open handle, a batch | list, read a batch, stop at a bound | a compaction renames the file between two batches | every served record is in the snapshot, in order, and its bytes are its own |
| credential reload | `gateway/src/access.ts` 1199-1260, `gateway/src/server.ts` 690-720 | records in force, the mtime taken as loaded, the load in flight | stat, compare, read, install, wait on a load, fail | a file edited between stat and read, half-written, removed; loads overlapping | the mtime taken as loaded never speaks for newer text than the one served; nobody is admitted behind the load it asked for |
| request admission | `gateway/src/access.ts` 1262-1440 | replay set, peer buckets, credential buckets | admit, admitBearer, charge | the order of checks; a clock that moves; a full replay set | a signature is spent once; what does not verify changes nothing of a credential |
| rate buckets | `gateway/src/access.ts` 845-930 | a bounded map of buckets | refill, take, hint, trim | a clock set back; more keys than the map holds | no more is granted than was earned |
| completion pipeline | `gateway/src/server.ts` 600-1280 | each request's state, the completion bucket | hooks, buffered and streamed arms, issue, log | a client that leaves at any await; back-pressure; every await may fail | who read a response to its end has its receipt on file; who left mid-stream has none; each request has one line |
| access log | `gateway/src/aclog.ts` | the current part, its size, the day, a queue | append, roll, prune | part and day roll under a queue; the scrub rewrites parts meanwhile | no line lost or duplicated but in the documented window |
| access log scrub | `packages/cli/src/commands/accesslog.ts` | the parts it rewrites | read, rewrite by rename, remove | a gateway appends to the part between read and rename | a scrubbed identifier is nowhere; other lines survive |
| epoch journal | `gateway/src/epoch-journal.ts` | the journal file and its temporary name | read, stamp, append by rename | two starts over one file, killed or refused half-way; a source that steps back; a hand that edits | what is published names every epoch signed under, and earlier receipts verify by it |
| time source state | `gateway/src/time-source-state.ts` | the reading in force, its ceiling, the highest answer | refresh on a timer, answer | readings that settle out of order; a document read twice; units that end between two seconds | a stamp never falls and never runs ahead of what was read |
| appraisal cache, issuance disclosure | `gateway/src/appraisal-cache.ts`, `issuance-disclosure.ts` | none | choose an anchor from one reading | boundaries | the anchor is the one the rules name |
| retention arithmetic and evidence | `store.ts` 332, 565, 1814, 1938; `duty-window.ts`, `packages/receipt/src/retention.ts` | none | how many receipts a window needs, what a reading proves | rounding, zero, off by one | never less than the declared window |
| receipt codec and signing | `packages/receipt/src/{cbor,cose,receipt,signing,pop}.ts` | none | encode, decode, sign, verify | byte formats | one encoding per value; refusals in order |
| framing and marking | `packages/receipt/src/{response-items,marking}.ts`, `gateway/src/{marking,item-stamps}.ts` | a partial line, a tail held back | feed, finish | chunk boundaries anywhere, under three walks at once | the items do not depend on the split, and the mark is a frame of its own |
| packs, exports, inventories, redaction | `packages/receipt/src/{pack,export,epoch-inventory,redaction}.ts` | none | assemble, sign, walk, check, redact | a document relinked, repeated, reordered or altered by whoever writes it | a document that reads states the run, the removal, the originals or the epoch as they were |
| client sdk | `packages/sdk/src` | one session: the promise of its manifest | complete, stream, fetch receipt and evidence, verify, import | a receipt asked for before it is filed or after it was retired; a gateway replaced between two calls; answers altered, swapped or lost | what is handed back as verified is this call's own answer; a refusal has a cause; a call whose body was read settles |
| retention assessment | `packages/sdk/src/retention-assessment*.ts` | none | write a document from what was observed, read it | lists that each read well and together do not; a head that moved under its pin | a period read as held was held |
| guests | `gateway/src/dstack.ts`, `guest.ts` | a bounded map of evidence documents | fetch, keep, let go | the map at its limit | the document served is the one a receipt names |
| attestation, collateral | `packages/attest-core`, `packages/collateral` | none | verify quotes, anchors, certificates, fetch | formats | out of scope but for decision orders |
| commands | `packages/cli`, `gateway/src/cli.ts` | files they edit | keygen, credential, verify, export, scrub | edits of files a gateway watches | edits are atomic |
| fixtures, vectors, measures, enclave | the rest | none | generated data, benchmarks, deployment files | none | none |

`PROJECT.json` gives each with its status and, under `hazards`, the 40 places in this code that
an interleaving, a fault or a boundary can reach and a test hardly does. 36 of them are
answered by a property that a run checks. The four that are not: a second store object over one
directory inside a process (`store.ts:2669`), a tolerance longer than the replay window
(`cli.ts:811`), a replay set that a restart forgets (`access.ts:1190`), and the promises of a
stream its reader abandons (`sdk/src/client.ts:304`). Section 10 says what is planned for them.

## 2. What is modelled, module by module

### `DirectoryClaim` — who may write a store

Two files, `owner` (the claim at `receipts.log.owner`, empty until its line is written) and
`stale` (the name a taken-over claim is moved to), and for each process where it stands in its opening
(`pc`), the claim it last read (`found`), the tries it has left (`attempts`), and under which name the file
it created is by now (`handle`): a claim moved aside is still written through the handle.
Each file operation of `claimDirectory` and `releaseDirectoryClaim` is an action: `Create`
(open with `wx`), `WriteClaim`, `ReadClaim`, `Probe` (is the named pid alive, on this host),
`Displace` (rename), `Serve`, `FailOpen`, `ReleaseRead`, `ReleaseRemove`. `Stop` ends a process
at any step and leaves the file as it is; `Start` brings one up, under the same pid if need be;
`VolumeRefuses` fails the operation at hand. Hosts share the volume and cannot probe each other.

*Ghost.* `seized` records that a rename moved the claim of a process that was running.

### `ReceiptLedger` and `ReceiptLog` — the file engine

`ReceiptLedger` is what a caller is promised, in five actions over three variables: a chain
that is extended at its end, a prefix of it that is sealed (retired), and a set of
acknowledged records that a loss may never reach.

`ReceiptLog` is the engine: `log` (what the file reads as now), `synced` and `loose` (what of it
is on the volume, what a power loss may take), `shadow` (the file an unsettled rename may give
back), the index and the policy's counters, the pending appends and the window in the air.
A record is one unit of the file and so is a trim, a torn record or a run of zeros.
The actions follow the pump in the order of the code: `Put`, `TakeWindow`, `WriteWindow` or
`WriteFallsShort`, `SyncWindow` or `SyncRefused`, `Rollback` or `RollbackRefused`, `FileWindow`,
`RetireWindow` (with `NoInstant` when the clock cannot be read), `CompactRename`, `CompactHeld`
(the volume's readers hold the file), `CompactReadsShort`, `CompactRescan`, `RescanFails`,
`AnswerWindow`. `Kill` ends the process with any prefix of the write in flight; `PowerLoss` also
takes any suffix that was not synced; `OpenStore` walks the file, cuts a torn tail and refuses
what does not chain.

*Ghosts.* `gone` (what compactions took out of the file, in order), `acked`, `refused`, and
`mishaps`, which bounds the number of faults.

### `CredentialReload` — records that follow a file

The file is a text under an mtime in one of three conditions (whole, torn, gone). A request
goes through `Stat`, `Skip` (the mtime is the one loaded), `Load` or a wait on the load in
flight, `Read`, `Install`, `Fail`. `Edit` writes any text under any mtime, twice under
one if the clock is coarse; `Remove` takes the file away. What happens between two awaits is one
action: a load's installation settles everyone waiting on it, as promise resolution does.

*Ghosts.* `wrote` (every text ever saved under an mtime) and `floor` (what was on file when the
load a request runs or waits on was asked for).

### `TokenBucket`, `RateLimit` — what a key may spend

`TokenBucket` has the class's arithmetic as operators: `Refilled`, `Allowed`, `Taken`,
`Trimmed` (the key presented longest ago is given up), `RetryAfter`. `RateLimit` is the map
under a clock that goes anywhere within `0..MaxClock`; its ghosts add up what a key was granted
and the time that was counted for it.

### `Admission` — the checks of a request, in their order

Two instances of `TokenBucket` (per peer and per credential), the replay set as a sequence in
order of insertion with its expiry and its cap. `PeerRefuses` is the peer's bucket; `Refuses` the stamp, the unknown key or the signature,
the replay set and the revocation, as `Refusal(r)` gives them in the order of the code's early returns; `ScopeDenies` and `Charge` what follows on a
request that proved its key; `BearerRefuses` and `BearerCharge` the same for bearers, `Public` a route that asks for nobody. `admit` awaits nothing, so each is one step.
Headers and Ed25519 are abstracted to whether they hold. A header that does not parse (`AUTH_MALFORMED`) is left out.

*Histories.* `recent` and `later`: the stamps a pair passed under, and how many pairs passed since. `guess`: the peer and stamp of a request that proves nothing, while it is
the last step. `Told` says from these alone what it must have been answered, so `GuessesTouchNothing` fails as soon as an answer differs by the name, as it would without `collapsedRefusal`.

### `Completion` — the life of a request

Each caller is a connection. `req[c].at` is the await its handler stands at. `Arrive`,
`ReloadFails`, `Admit` are the hooks; `Weigh` is the intake guard (an await on `window()`, and the
decision on what it read); `Respond` is the upstream's first answer; `Collect` the buffered arm;
`Open`, `Pull`, `PullEnd`, `Drain` the streamed one, with the marked tail of `marking.ts`;
`Meter`, `Seal`, `File` are `issue()` up to the resolved `put`; `Fail` is any await of these that
rejects; `Leave` is the client closing at any moment; `Finish` is the `onResponse` hook with
the access-log flush, and `Again` the next request of the connection. `Age` and `Earn` move the store's retention and the completion bucket.

### `StoreSidecar` — the index beside the file

The file's units (receipts and trims, each of one width), the identity the volume gives it, and the
index file as its header and blocks. `Open` is `open` with everything it decides: believe the checkpoint
(`Believed`: the identity, the length, whole blocks, entries that adjoin and the last of them tied to
the file's bytes) and walk only the tail, or walk the whole file and write the index again. `Put` files a receipt and
appends a block when one is full; `FlushHalf`, `FlushLands` and `FlushRefused` are the two writes of a
flush; `Compact` and `CompactCut` move the file under the index; `Crash` may leave any of it. `KeepCopy` and
`PutBack` restore an older file from outside, under a reused identity if the volume hands one out;
`ProbeReads` and `ProbeCuts` are `readReceiptStoreCheckpoint`, which a report runs without a claim.

### `RangeWalk` — a walk over a store that moves

`Ask` fixes which receipts a walk answers for; `TakeBatch` and `ReadChunk` are its queued reads, with the handle
held or opened again (`HandleOn`) and each record proved against its entry (`Proved`); `Abandon` is a caller
who stops asking. Between them `Put` files, retires and compacts (one queued operation of the store), and `Replace` and
`Rewrite` put another file at the path or other bytes in it.

*Ghost.* `fixed`: the index entries the call matched.

### `AccessLog`, `AccessLogScrub` — lines, and the command that takes some away

`AccessLog` is the writer's queue: `Record`, `Settle` (which part, of which day, with how much in it), `AppendLine` or
`AppendShort` (an append that stops before its newline), `Sweep`, `SweepFails`, `Restart`, and a day that moves. A line is the set
of requests whose bytes are on it, because a short append leaves the next line on the same one. A part is a day and a number; `Matched`
says which numbers the three digits of the name patterns reach, because the writer goes on past them and nothing else lists what it makes there.
`AccessLogScrub` EXTENDS it with the command, which takes no lock: `Begin`, `ReadPart`, `Filter`, `Compare` (with
the retry on a part that changed), `Publish` (a rename, or an unlink of a part with nothing left), `Confirm` and `Receipt`.
It goes through `scrub.targets` by name (`Name` is the next of them) with one part's lines in hand (`scrub.snapshot`): `Held`
counts the subject's among them, `Kept` is the text that goes in their place.

*Ghosts.* `acked`, `owed` (what the subject had on the volume at the start), `erased`, and `overrun` (requests appended
between a comparison and its publish, the window `docs/access-control.md:761` documents).

### `EpochJournal` — which key a receipt of last year was signed under

Each process goes from `Claim` (the directory's claim, taken for granted as exclusive) through `OpenJournal`,
`WriteTemp`, `RenameTemp` to serving, and may `Stop` at any step, or leave after a refusal (`Leaves`). `Issue` files receipts;
`Edit` is a hand in the file; the source steps forward and, where `StepsBack`, back. `Accepts` is
what a client makes of a receipt under a manifest: `epoch.ts` over the windows `manifest.ts` parsed.

### `TimeSource` — where a stamp comes from

The document another process writes, the timer and the readings in flight (`Fire`, `Settle`), which may settle in either order,
and `Stamp`: the reading in force, moved on by the monotonic clock, under its ceiling and never under what was
answered before. The clock counts parts of a second, because a stamp is cut to whole ones.

### `ResponseFraming` — one stream, three walks

The upstream's bytes arrive cut anywhere (`Forward`, `Finish`), `WritePiece` is a write to the client, `Answer` and
`Issue` close the receipt. `MarkedStreamTail` holds back what may be the closing sentinel, `StreamedItemStamps` dates the
items and `ResponseItemWalk` frames the whole again. Tokens are as coarse as the walks allow: the field name, the sentinel and a
line ending of two bytes can each be cut in the middle.

### `ChainWalk`, `Handover`, `ExportDocument`, `EpochInventory`, `RetentionAssessment` — documents and their readers

Each of the four has the same two sides. What really was (a chain of filed receipts, the packs of an epoch, an
intake's observations of a store) grows by a few actions; then a document is assembled from it, *slips* (a record relinked, repeated,
dropped, reordered, a row misstated: one small change per slip, by an assembler nothing under `src/` provides), is signed by
the code's own writer, may be altered behind the signature, and is read. The reader is an operator with the code's refusals in it, and a property says what
an accepted document promises about what really was.
`ChainWalk` has the walk a pack and an export share (from the anchor along the links, never along the array). `Handover` has structure,
walk, custody, lookup and redaction of a pack, for every set of keys a reader may hold; `ExportDocument` the
inline and companion originals, runs, collections, void statements and pinned endpoints;
`EpochInventory` the window, the breaks, the shortfalls and the fold of the retention manifests; `RetentionAssessment` the layout's rules (`Refused`) and
the reading (`Reading`).

### `Evidence`, `ClientSession` — the other end

`Evidence` is the gateway's map of attestation documents: one per challenge while it is kept, another once it was let go of.
`Held` is whether the map has a challenge, `Kept` what it has there, `remember` what an insertion does to it at its limit.
`ClientSession` EXTENDS it with a client: the completions of one session go through `Post`, `Read`, `Verify`, the fetches of
the receipt and of the manifest they all share, `EvidenceKept` or `EvidenceFresh`, `Device`, `Appraise`. `Answered`
is what stands between the two: it may alter a body, cut it, deliver another call's, or strip the header; `AnswerFails`, `ReadFails`, `FetchFails`, `ManifestFails`
fail any exchange; `Retire` and `Rotate` are a gateway that goes on (a receipt retired, the process replaced at the next epoch).

### How the modules are put together

Modules that share state extend each other: `AccessLogScrub` the access log, `ClientSession` the evidence map, the two readers of a
chain `ChainWalk`; `RateLimit` and `Admission` instantiate `TokenBucket`, and `ReceiptLog` implements `ReceiptLedger`.
Where one module only sees another's answer, that answer is a choice in it: `Completion` over what admission and store decide,
`ClientSession` over what a gateway did. `MCStore`, `MCGateway`, `MCRequests` and `MCReaders` put several machines into one run: a variable `machine`, chosen at the
start, says which of them moves. They do not interact there; the state space is the sum of theirs.

## 3. Runs

| run | instance | states | what it shows |
|---|---|---|---|
| `log_safety` | age 1, count 2, window 2, 5 records, 2 mishaps | 660,147 | `StoreIsConsistent` (types, the two inductive invariants of the proofs, no refused put on file, arrival order, the index finds its records), `AckedOnFile`, `ChainWhole`, `TrimsAddUp`, `KeepsWhatThePolicyKeeps`, and the refinement `ImplementsLedger` |
| `store_answers` | all six kinds of refusal; an index over 2 identities, 3 mishaps; a walk of 4 records, 1 mishap | 344,345 | `EveryPutAnswered`: each `put` resolves or rejects, or its process stops. `OpeningIsAWalk`: what a store holds is what a walk of the file would have given it, however the index came about. `WalkIsTheFile`, `WalkEnds`: a walk yields what was there at its call and all of it that is still retained, in chain order, and ends; the walk's inductive invariant is part of it |
| `gateway_safety` | 3 processes on 2 hosts; 3 keys over a map of 2; 3 credentials; 2 subjects' lines over 3 days; 2 starts over 3 epochs; 2 readings in flight | 1,158,430 | `ForkNeedsSeizure`, `HandsBackItsOwn` (claim); `GrantsAreEarned`, `HintSuffices`, `BusyKeyKept` (rate); `SpentOnce`, `GuessesTouchNothing` (gate); `LinesAreKept`, `ErasedIsGone` (log under a scrub); `HistoryIsWhole`, `EarlierReceiptsVerify` (journal); `StampIsEarned` (source) |
| `requests_life` | 2 requests over 3 texts and 3 mtimes; 2 callers; a session of 2 calls, one streamed, strict mode | 272,945 | `WatchedIsServed`, `AdmittedOnFile`, `ReloadsEnd`; `ReceiptMeansWhole`, `DigestCoversTheBody`, `OvershootIsInFlight`, `EveryRequestEnds`; `HandsBackWhatItChecked`, `RefusedForACause`, `SettlesOnceRead` |
| `readers_safety` | streams of 4 writes; chains of 3 receipts; 3 packs, 2 slips; an intake of 3, 2 faults | 1,905,017 | `ReceiptReads`, `MarkStandsAlone`; `PackIsARun`, `RemovesWhatItNames`, `ExportIsTheRun`; `EpochIsWhole`, `NothingSmoothedOver`; `MetIsHeld` |
| `claim_fork` | 3 processes, 1 host | violation | `TakeoverExclusive` (section 7) |
| `log_cut` | refused rollbacks | violation | `AckedOnFile` fails once a rollback is refused (section 7) |
| `log_anchor` | no fault at all | violation | `AnchorPrecedesTheOldest` (section 7) |
| `reload_outage` | 2 requests, 3 texts | violation | `KeepsAnswering` (section 7) |
| `completion_hang` | 1 caller | violation | `LeavingEndsTheRequest` (section 7) |
| `epoch_seam` | 2 processes, 2 epochs, 1 key | violation | `ReceiptsOutliveARotation` (section 7) |
| `client_stuck` | 2 calls, no rotation | violation | `ErrorIsItsOwn` (section 7) |

What each property says is in the comment above it. Every property of a passing run has a mutant
in `PROJECT.json`: a change of one modelled definition, of the kind a slip in the code would be,
under which the same run finds the property violated.

## 4. Bounds, and why they are enough

* **Claims.** Three processes: two to race and a third whose exited claim they judge. Two hosts,
  so that a claim is judged by a process that cannot probe it. There is no bound on the number
  of starts, stops and takeovers. Once a running process's claim was seized both properties are exempt, and the run
  rests there (`MCNext`); the theorems do not. The two processes of one host are alike (`Twins`, the run's symmetry).
* **Log.** Five records against a window of two and a count of two: a window can be in the air
  while another is pending, two records can be retired at once, and the file can be compacted
  and grow past the compacted length again. Two mishaps let a fault meet a fault (a refused sync and
  then a kill during the rollback; a power loss after a compaction that was read short). Three
  instants of the clock let records age out one by one and together. `log_safety` runs `MendedSpec`: the store with neither a
  refused rollback nor a refused rescan, which is the assumption of the theorems. `store_answers` has both, with a shorter clock.
* **Index.** Two identities, so that one is handed out again; blocks of two records, so that a block is half full; three
  mishaps: a copy kept and put back around a crash, or a probe that cuts around one.
* **Walk.** A limit of two receipts over chunks of one, so that every walk parks; four records, so that two can be filed and the first
  compacted away behind a parked walk.
* **Rate.** Three keys over a map of two force eviction. `Unit` 3 against `Gain` 2 makes a token
  take an instant and a half, so a bucket holds every fraction of one and a hint is rounded up; a second is one instant. A burst of one is enough: a bucket is full, empty and
  in between. The clock goes in any direction.
* **Gate.** One nonce more than the replay set keeps, stamps on both sides of the
  tolerance, a revoked credential and a bearer. Peer and own buckets hold one token: one
  request is enough to see a charge and the next to see a refusal.
* **Access log.** Parts of two lines and three records make a part roll; three days against a retention of one let one be swept; two
  credentials, the subject and another; two attempts, so that a comparison fails, is tried again and may fail for good; one fault.
  Every part has a number its name pattern matches; `ErasedInGateway` says what holds of one that has not.
* **Journal.** Three epochs and two keys, so that an epoch is passed over and a key is used twice; two processes; one hand edit; one receipt, on either side of a rotation.
* **Source.** Two readings in flight, a clock of two parts a second, documents two instants apart.
* **Reload.** Two requests are a leader and a follower in either order. Three texts and three
  mtimes make an mtime carry two texts, an edit overtake a load, and a restored file bear an old mtime.
* **Completion.** Two callers interleave at every await; a stream of two pieces has a first, a middle
  and an end; a mark of two pieces can be left half-written; a store that keeps one receipt is pushed
  past its bound by the second.
* **Client.** Two calls share the manifest and can be handed each other's answers; one epoch more than the first; an evidence map of one document, so that a
  second challenge evicts the first.
* **Framing.** Four writes out of ten, which end inside the field name, inside the sentinel, between a carriage return and its
  line feed, behind a line and behind a frame. `Drained` is recursive, so this module is TLC's alone.
* **Documents.** Chains of three records have a first, a middle and a last; `MaxSize` bounds records and slips
  together, so that a run of two meets two slips. Three packs overlap pairwise or leave a second out between them. An intake of three, with two
  faults spread over its making and its document, lets one slip hide another.

`CHECK_DEADLOCK FALSE` stands in the passing runs because their machines are bounded and stop when
the bound on records, faults, instants or requests is used up. What must not stop is a liveness property
(section 5).

## 5. Fairness

* `ReceiptLog` (`EveryPutAnswered`): weak fairness of `Pump`, the loop that drains the pending appends. It is one
  `async` function whose awaits are file operations; libuv's pool answers each of them, with
  success or an error, and nothing in the loop waits on a caller. Nothing is assumed of restarts,
  arrivals or faults.
* `RangeWalk` (`WalkEnds`): weak fairness of `TakeBatch` and `ReadChunk`, a caller that goes on asking and reads that answer. A caller may
  abandon its walk, and files may be replaced under it.
* `CredentialReload` (`ReloadsEnd`; `KeepsAnswering` in its violation): weak fairness of the steps of each request, which wait on `stat` and
  `readFile` and on each other's loads. Nothing is assumed of the operator's edits.
* `Completion` (`EveryRequestEnds`): weak fairness of each caller's handler: an open client reads on, the upstream's
  body ends or times out, `put` and the reload answer, and so does `window()`, which both stores compute from memory (`store.ts:3119`, `:3224`; it has nothing to fail at, so `Weigh` has no rejection). No fairness for clients:
  they may stay or leave. The one wait that this does not help is the one of `completion_hang`.
* `ClientSession` (`SettlesOnceRead`): weak fairness of each call's next step *or its failure* (an exchange is answered or fails: `fetch` has a
  timeout), and of the manifest's answer or failure. Nothing is assumed of the gateway's retiring and rotating.

`DirectoryClaim`, the access log, the journal, the source and the documents are checked for safety only: an
opening may be retried for ever and a scrub may run out of attempts, and no code waits on either.

## 6. Proofs

TLC decides an instance; these theorems hold for every value of the constants. Each proof module EXTENDS the module it is
about; the theorems that speak of a run's own property are in the proof modules of the `MC` modules.

| proof module | theorems | what is proved, for every instance |
|---|---|---|
| `ReceiptLogProofs` | `StoreConsistent`, `StoreInOrder`, `StoreStaysConsistent`; `AcknowledgedStays`, `FileAlwaysReads`; `PolicyIsKept`; `StoreImplementsLedger`; `WalkInStore` | both inductive invariants and `StoreIsConsistent`; `AckedOnFile`, `ChainWhole`; `KeepsWhatThePolicyKeeps`; `ImplementsLedger`; `WalkIsTheFile` while no id is filed twice |
| `CompletionProofs` | `CompletionInductive`, `WholeIsFiled`, `DigestIsTheBody`, `OvershootBounded` | `ReceiptMeansWhole`, `DigestCoversTheBody`, `OvershootIsInFlight` |
| `RequestsProofs` | `ServedInRequests`, `AdmittedInRequests`; `WholeInRequests`, `DigestInRequests`, `OvershootInRequests`; `VerifiedInRequests`, `RefusedInRequests` | the seven safety properties of `requests_life`: the reload's `WatchedIsServed` and `AdmittedOnFile`, the handlers' three, the client's `HandsBackWhatItChecked` and `RefusedForACause` |
| `RateLimitProofs` | `RateInductive`, `HintIsEnough`, `BusyKeysStay` | `GrantsAreEarned`, `HintSuffices`, `BusyKeyKept` |
| `AdmissionProofs` | `AdmissionInductive`, `PassesOnce`, `GuessesLearnNothing` | `SpentOnce`, `GuessesTouchNothing` |
| `AccessLogProofs` | `LogInductive`, `LinesStay`, `OwedIsGone` | `LinesAreKept`; `ErasedIsGone` while every part has a name that is listed |
| `EpochJournalProofs` | `JournalInductive`, `HistoryStaysWhole`, `EarlierReceiptsStand` | `HistoryIsWhole`, `EarlierReceiptsVerify` |
| `GatewayProofs` | `TypeCorrect`, `ForkTakesASeizure`, `HandBackIsOwn`; `StampsAreEarned`; `EarnedInGateway`, `HintInGateway`, `BusyInGateway`, `SpentInGateway`, `GuessesInGateway`, `LinesInGateway`, `ErasedInGateway`, `HistoryInGateway`, `EarlierInGateway` | `ForkNeedsSeizure`, `HandsBackItsOwn`; `StampIsEarned`; the properties of `gateway_safety` on the rate, gate, log and journal machines: with them, every property of that run |

The inductive invariants stand at the end of the modules they are about. TLC checks them too, each as a part of a run's
property: `StoreIsConsistent` (log), `GrantsAreEarned` (rate), `SpentOnce` (gate), `LinesAreKept` and `ErasedIsGone` (access log), `HistoryIsWhole` (journal),
`WalkIsTheFile` (walk), `StampIsEarned` (source), `WatchedIsServed` (reload), `ReceiptMeansWhole` (completion) and `HandsBackWhatItChecked` (client) carry them; the claim's is proved and not listed in a run. That a step preserves one is proved with one step or lemma per action
and under it one step per conjunct the action can disturb.

### The arguments

**Directory claim** (any set of processes and hosts). "At most one process serves" is not inductive: the process that is about to serve must
own the name. The invariant carries, until a seizure: `HoldersNamed` (a process that writes, opens, serves
or hands back is the one the claim file names), `WritesAtTheName` (the line being written goes to the file
at the name), `FindsItselfNamed` (an opening that judges a claim with its own pid in it is still named there), and,
always, `ProbesAClaim` and `Countdown` (an opening at work has one or two tries left). A step that
breaks one of them is a `Displace` of a running process's claim, and that sets `seized`.

**File engine, what stays** (any policy, window, bounds). `AckedOnFile` speaks of the file as it reads; a power loss moves the file to any state
between what is synced and what was written, or back to the shadow of an unsettled rename.
So `OnVolume` says that acknowledged records, and those of a window past its sync, are on the
volume in both; `DiskShape` that the file is the synced part followed by the loose part and
reads as a chain; `IndexSpan` that the index's offsets are where the records are; `WindowPlace`
where the window in the air lies at each stage, so that a rollback cuts exactly it; `Shapes` types.
Lemmas on `SubSeq` and `\o` (what a prefix of a chained file is, what its head is) come first.

**File engine, the order** (`OrderInv`, over the first). `ArrivalOrder` is not inductive without an account of what is not yet in the chain:
`InLine` puts the chain, the window in the air and what waits in the order their ids were minted, and keeps the refused out of all three.
`IndexIsTheEnd` says the index is exactly the end of the chain and the tally of retired receipts exactly what went before it;
a compaction, which cuts by the index, then takes a front and nothing else, and a policy step drops from the front.
`RenameUndone` is for the power loss that undoes a rename: the file it puts back is a prefix of the chain,
with strictly less of it given up. The types need both invariants: an ascending chain of ids
under `nextId` has no more than `MaxId` members (a pigeonhole lemma), which is what bounds the tally.

**File engine, the refinement.** `StoreImplementsLedger` maps each step of the engine to a step of `ReceiptLedger` or a stutter: most steps leave the chain
and acknowledge nobody, an answered window acknowledges, `WriteWindow` extends the chain, a rollback, a kill or a power loss takes back an unacknowledged
end, `CompactRename` seals a front, and a power loss that undoes the rename unseals it. `OnVolume` and `InLine` say why what is taken back was never acknowledged;
`RenameUndone` why what is unsealed is a front of what was.

**Range walk** (any limit, chunk, stamps and number of receipts). A walk goes by slots and positions, and a compaction under it gives the store a new `Map` with new positions. So the invariant
counts in records, which are never renumbered: `IsIndex` says that slots, positions and places all run with the records, of the live index and of the `Map` a parked walk keeps. `WalksItsIndex` says that what lies before `walk.through` was
matched at the call (in the live index because a later receipt's position is past it, in the kept one because nothing is added to it); `BatchInOrder` that the batch comes behind what was served and the
cursor behind both. `NoneLost` is the conjunct `EndedIsWhole` needs: a receipt matched and still retained was served, or is in the batch or ahead of the cursor. At the end of the walk the last two are empty.
That a chunk comes out in order is a fact about `Chained`, which places an entry by how many come before it; it rests on an injection being a bijection between finite sets of one size.
The theorem is about the walk of `MCStore` as it is run, `Replace` and `Rewrite` included: a file from outside costs an answer, never a wrong one.

**Credential reload** (any set of requests). The mtime taken as loaded and the text served are set together, but from two readings of the file taken apart.
`ReadBehindTheStat` says that a load's text is no older than its mtime names and than the file was when its request arrived; `SavedInOrder` and `SeenWasLeft` say that
texts are numbered as they were saved and an mtime that was seen was left by an edit, so another edit under it makes it a `Twin`; `WaitsOnALoad` that whoever waits, waits on a load
still running, asked for when the file was the same.

**Completion** (any finite, non-empty set of callers). `SocketAndDigest` has, per stage and arm, how far what the socket took may fall behind what the digest took, and when the client left;
`ArmFits` which stages an arm has; `EndedFiled` that told and filed come behind the end. `OvershootIsInFlight` is a count: `ShedByTheAdmitted` says that
from the receipt that fills the set on, those shed and those still in flight are fewer than the callers, because the guard admits nobody any more and each put takes one out of flight.

**Rate** (any burst, refill, cap and finite set of keys). `PromiseIsCovered` carries a refusal's hint to the instant it names: what the bucket holds and what it earns until then is a token, so long as it counted
nothing later (a clock set back earns nothing, and the property says so). `LatestAtTheBack` says that the keys behind a key came after it, and that a key given up had a cap's worth come after it.

**Gate** (any tolerance a window outlasts). The replay set is cut in two ways, by expiry and by its cap. `EntryOutlastsItsStamps` ties a pair's stamps to an entry that expires behind
all of them and has no more entries behind it than pairs passed since. `Window >= 2 * Tolerance + 1` is used where an entry is made.
That a guess is answered alike needs none of this: for a request that does not verify, `Refusal` comes down to the stamp (`RefusalOfAGuess`), and `Told` is what is left.

**Access log, the lines** (any credentials, days, part size, attempts and faults). That a scrub leaves other people's lines alone is a statement about numbers first: `PoolStands` says of every
line there is, on the volume or in the scrub's copy, that it holds numbers already spent on an append, that a line that reads holds one request, and that no torn line holds a request a reading line
does. With it, a filter that drops the subject's lines drops nobody else's: a subject's line reads, so the one request on it is the subject's. `PartsStand` puts a request in a part of its own day, so a sweep takes only what is past the
retention; `TaskStands` follows a request from `Settle` to its acknowledgement; `ScrubStands` says that what is published over a part is the reading that was compared with it, so that what else was lost came in behind the comparison
(`overrun`). What `Kept` computes is the one fact about a recursive function here: it is proved from the function's defining equation, by the least index at which a claim about it would fail.

**Access log, what is owed.** `OwedStands` says of what the run set out to erase: every line that bears it reads (an append onto an unfinished line never spoils one), every part that bears it is one the run
has not finished with (`Pending`), and the copy in hand has all of it that the part has, so a filter of the copy is a filter of the part. A retry starts from a newer reading and keeps this; a run that fails is exempt,
and says so. A part with a number the pattern does not match is in nobody's listing: `ErasedInGateway` is about runs over a volume without one, and `UnmatchedStays` shows that such a part, once there, is never removed, so
that its absence now is its absence throughout.

**Client** (any set of completions, kinds, modes, epochs and evidence cache). The receipt a call verified, the manifest and the evidence map each move on while a call waits, so the invariant says what cannot:
a receipt once signed keeps its epoch and the document it was signed over, a manifest once read is the one the session keeps, and a document is either in the map under its challenge or among those let go of, one at a time (`OneEach`),
never changed in place. `CallStands` ties a call to these by the stage it is at, so that `HandsBack` and `HasCause` hold at the step that settles it, and later steps of others leave them so (`SessionOnward`).

**Journal** (any number of processes, epochs, keys and edits). What a manifest publishes is read back from a file that a hand may have edited, so the invariant speaks of what the
last entry *tells* (`Told`), which is what the digest chain protects: it is `Whole` (rising, every epoch started, no receipt missing and, until the source steps back, dated), at the name, in the temporary
file and in each process past its reading. `HolderIsNewest` has the directory's holder as the newest deployment.

**Source** (any readings and cadence). Documents may be adopted out of order; `HeldIsEarned` says that the reading in force reaches no further than those adopted so far, `IssuedIsEarned` that the last
answer is the highest and was within that reach.

**The lifts.** In `MCGateway` and `MCRequests` a machine either moves or rests. A proof module such as `RateLimitProofs` is instantiated on the machine's variables, the run's
specification is shown to imply the machine's (its initial states and, by cases on `machine`, each of its steps), and its theorem carries over. The claim, the source, the reload,
the client and the walk have no proof module of their own: their invariants are proved over the composition's variables (the walk's in `ReceiptLogProofs`, over `MCStore`).

### Assumptions

Those on the constants, each named in the module that declares them and evaluated by TLC in every run that extends it, and nothing else:

* `HostAssumption`, `NoneAssumption`: each process has a host, and `None` is no claim.
* `BoundsAssumption` of the log: a count and a window of one or more, the other bounds natural numbers.
  The theorems of `ReceiptLogProofs` have one hypothesis more, `Faults \cap {"cut", "rescan"} = {}`: neither a rollback nor the rescan after a
  compaction is refused. It is needed: `log_cut` loses an acknowledged receipt with "cut", and a
  rescan that fails leaves an index of the old file over the new one (section 7). Every other
  fault, any kill and any power loss are inside the theorems.
* `WalkAssumption`: stamps are integers, the number of receipts is a natural number, a batch and a chunk hold one or more. `WalkInStore` has the hypothesis `~Refiling` in its statement: an
  id is filed once. No caller in `src/` files one twice, and with it the property fails (section 7).
* `ReloadAssumption`: the bounds are numbers, `None` is no request and no number. `CompletionAssumption`: finitely many callers and at least one; at least one piece, one place in the store and one token.
* `LimitAssumption`: positive rates, a finite set of keys and a cap that is not above their number. A larger cap never
  evicts anything, which is the case `BusyKeyKept` has nothing to say about: it counts the keys that came since, and one never seen starts with all of them.
* `WindowAssumption`: positive rates, finitely many credentials, and a window that outlasts the tolerance (section 8).
* `LogAssumption`: the bounds are numbers, `None` is no credential and no name of a part. `ErasedInGateway` has the hypothesis on part names in its statement.
* `SessionAssumption`: what `ClientSession` says of its sets and bounds.
* `JournalAssumption`, `SourceAssumption`: numbers are numbers, `None` is no process.
* `MachinesAssumption`, `RequestsAssumption`: the conjunction of those of the machines in the run.

### Only model-checked

* All liveness (`EveryPutAnswered`, `WalkEnds`, `ReloadsEnd`, `EveryRequestEnds`, `SettlesOnceRead`): out of the prover's reach.
* `TrimsAddUp`: it sums and filters sequences of any length by the folds of the community modules, and what such a fold computes for every
  length is an induction over data. (`ImplementsLedger` has no fold in it: the chain is what stands behind the leading trims, place by place.)
* `OpeningIsAWalk`: what an opening reads is counted by folds (`Quantify` for a file's trims, `FlattenSeq` for the sidecar's blocks), so it is out of reach for the same reason.
* All of `readers_safety`. A reader is one operator over a finished document, and TLC enumerates the documents: most of its content is what a walk along a sequence computes.
  `ResponseFraming` is recursive and out of the prover's reach.

## 7. Where the code and its documents disagree

Seven runs end in a violation of what the repository says of itself.

* **`claim_fork`** — `store.ts:2637`. `rename` moves whatever is at the name. An opening that read an
  exited process's claim, and was overtaken by another opening that displaced it and wrote its own,
  then displaces *that* one and creates its own. Both serve. The comment at `store.ts:2587` says exactly one can.
* **`log_cut`** — `store.ts:2981`. When the truncation that rolls a refused window back is refused
  too, its bytes stay in the file. The next window is written and acknowledged behind them, and if they end in
  a partial record the next opening cuts at it, with what was acknowledged behind.
  The module's header (`store.ts:11`) says that a partial tail is never a receipt anyone was given the id for.
* **`log_anchor`** — `store.ts:3133`. The published anchor moves at an opening, a compaction or a
  filing into an empty index. Between a prune and the next compaction it is the predecessor
  of a receipt already retired, not of the oldest retained (`store.ts:655`).
* **`reload_outage`** — `server.ts:703`. While the credential file rests in a form that does not
  parse, each request rejects with the load it started; `docs/access-control.md:276` says that the
  records already loaded keep answering.
* **`completion_hang`** — `server.ts:1206`. The stream's `write` waits for `drain` or `close`; a client
  that closed while the handler waited for the upstream has had its `close` emitted already, so the handler
  never ends and the upstream's body is never given back.
* **`epoch_seam`** — `epoch-journal.ts:297`. A start refuses an instant at or behind one the journal names, but not the second a receipt
  of the epoch before was stamped in. A window ends where the next one starts, so a receipt of that very second is refused from the rotation on;
  the module (`epoch-journal.ts:25`) is there to end exactly that.
* **`client_stuck`** — `sdk/src/gateway.ts:116`. The session keeps the promise of its first manifest fetch, whether it
  resolves or rejects. After one failed fetch every later verification ends in `GATEWAY_ERROR`, which
  `docs/error-codes.md:145` calls retryable.

Met while modelling without a run of their own. Where a property is named, giving it to the module's specification in a configuration shows it:

* With "rescan" among the faults `ChainWhole` fails: after a failed rescan (`store.ts:1759`) a
  later rollback truncates the compacted file to the length of the old one, which pads it with
  zeros (`store.ts:2974`; the comment at 2970 speaks of its own handle only), and the next opening refuses the file.
* A request that finds a load in flight waits on it (`access.ts:1221`) although that load may
  have read the file before the edit this request came after; it is then admitted against the older
  records. `AdmittedOnFile` therefore promises the text on file when the *awaited load* began; `docs/access-control.md:495`
  promises more.
* A client that closes during the reload or during `window()` leaves an access-log line with no
  credential and status 200 although its request goes on to be refused or served.
* `ServedIsAttested` (`ClientSession`, strict mode): the served evidence need not be the document a receipt names once the map let go of that (`dstack.ts:262`);
  `docs/receipt-spec.md:581` says the digests must be equal. The client refuses such an answer, so it costs a verdict and nothing else.
* `RecordedIsErased` (`AccessLogScrub`): a record torn by a short append, on a line with the next one, does not parse, so the scrub does not find it (`accesslog.ts:229`; `docs/access-control.md:596`
  says it filters one credential's records out of every part). `ErasedIsGone` promises the lines that parse.
* `SealedReadsBack` (`ExportDocument`): the writer parses the document and walks its run, but checks no inline original against its digest (`export.ts:418`), so it seals one
  that its own reader refuses with `EXPORT_DIGEST_MISMATCH`; `export.ts:404` rules that out.
* `AdverseIsNotMet` (`RetentionAssessment`): a document with an adverse observation and no run, or whose head is pinned by the subject, reads as *indeterminate*
  before the observation is looked at (`retention-assessment.ts:1149`, `:1214`); the header (`:30`) says *not-met*. It is never *met*: that is `MetIsHeld`.
* In the same module, two batches completed in one second have no order their layout accepts (`retention-assessment.ts:689`).
* `StaleStopsStamping` (`TimeSource`): a document that no longer changes is adopted again at each refresh, and its ceiling goes with it (`time-source-state.ts:442`); the header (`:36`) calls a state that goes stale a refusal to
  stamp. How far a stamp may run is what `StampIsEarned` says.
* `RangeWalk` with `Refiling = TRUE` violates `ServedWasThere`: an id filed again moves its entry to the later record, and a walk in flight yields that one. No caller in `src/` files an id twice.
* A pack may answer twice for one slot with different custody statements: `assertCustodyResolves` (`pack.ts:1058`) asks that each entry answers to a slot and each slot to an entry,
  and `custodyForSlot` takes the first; its comment (`pack.ts:1213`) says that a pack naming a slot twice was refused.
* A client that abandons a stream leaves the promises of its receipt and attestation unsettled (`sdk/src/client.ts:88`, `:304`).
* A stream that ends in a line with `data: [DONE]` behind other text is taken to end in its sentinel (`sentinelStart`, `gateway/src/marking.ts:132`), and the mark is spliced into
  that line; `docs/receipt-spec.md:188` says that a mark is a frame of its own. `MarkStandsAlone` is stated for streams without such a line (`Astray`).

The refusal `STORE_COMPACTION_HELD_BY_READER` with the window's records filed all the same is documented
(`docs/error-codes.md:278`) and modelled as it is.

## 8. Assumptions

* A digest is the value it is taken over, and a signature says who made it over what: no collision, no forgery. Bytes may be altered; then no signature covers them.
* A receipt's id is fresh, so ids stand for digests. Filing one id twice, which the store permits, is modelled in `RangeWalk` alone.
* Every record is one unit wide in `ReceiptLog`; trims and receipts have a width each in `StoreSidecar`. A truncation in the middle of a record is the units `Torn` and `Zeros`;
  where the leftover bytes of a cut could read either way, `Readings` gives both.
* In `ReceiptLog` the clock does not go back. (A host clock set back across a restart can bring back records
  that were retired and not yet compacted.) In `RateLimit` and `Admission` it goes where it likes.
* A sync of the renamed file settles the rename. The directory is not synced by the code, so until then a power loss
  may give the old file back (`shadow`). The cut of a torn tail at an opening is durable.
* `DirectoryClaim` lets pids be used again by the same program; the host's name tells hosts apart. One store object per process (`store.ts:2669`, listed as a hazard).
* In `CredentialReload` an edit is an in-place write that may rest half-done. Two different texts under
  one mtime cannot be told apart by the code; the properties name that case (`Twin`) and exempt it, and nothing else.
* `Admission` assumes `Window >= 2 * Tolerance + 1` (`WindowAssumption`), which holds for the shipped window of 900 s and
  tolerances up to 449 s; `--pop-tolerance` accepts more (`cli.ts:811`, listed as a hazard). One life
  of the process: the replay set is memory (`access.ts:1190`, listed as a hazard).
* `TokenBucket` counts in integer parts of a token; the rounding of doubles is not modelled.
* In `Completion` `res.write` on a destroyed response answers false and emits neither event, and the framework lets a handler go on after its client
  closed: both are Node's and Fastify's behaviour, not this repository's. The measured rate is always one that the bound is too short for,
  which is when the intake guard has something to decide. The access log takes every line.
* In `EpochJournal` the operator follows the rule of `docs/receipt-spec.md` for `epk`: a start is under the newest epoch so far or a higher one. The claim on the
  directory is exclusive there; what happens when it is not is `claim_fork`.
* `ResponseFraming` reads the clock once per write, as `StreamedItemStamps` does for the items a write finishes.
* `ClientSession` models `create` and `stream`, and not the wrapper (`sdk/src/wrap.ts`), which is a client of the same session. Where it verifies, it takes the steps of `create`, except that a strict call without a header
  ends before its body is read. It hands back unverified a request that is no chat completion or has no text body (`wrap.ts:62`, `:66`), an answer without the header outside strict mode (`:79`) and an answer without a body (`:81`).
* The machines of one run do not interact (section 2).

## 9. What is not modelled

* Byte formats, curves, quotes and certificates (`packages/receipt`'s codec and signing, `packages/attest-core`, `packages/collateral`) are functions of bytes with published
  vectors; they keep no state and TLC has nothing to explore in them. The readers built on them are modelled over values.
* Transcript import, capture and policy files parse and normalise one document each.
* The appraisal cache's reader and the issuance disclosure choose from one reading of a directory.
* The retention arithmetic, the retention evidence and the instruction record are arithmetic over two readings; see the plan.
* The gateway's command line wires the parts; of its start-up the order of claim, journal and leaving is in `EpochJournal`.
* The verification commands print the verdicts of readers that are modelled; the credential and key commands edit
  the file `CredentialReload` watches, where they are the operator.
* Fixtures, vectors, benchmarks and deployment files run nothing in the system.

What is modelled only partly: the memory store (the same index with no file), the route table and header grammar of the admission, the read-only routes of the server,
the device map (it works as the evidence map does), the policy's demands on a receipt, the byte layout of packs and exports.

## 10. Plan

Modelled: `DirectoryClaim`, `ReceiptLog` over `ReceiptLedger`; `CredentialReload`; `TokenBucket`, `RateLimit`, `Admission`; `Completion`;
`StoreSidecar`; `RangeWalk`; `AccessLog` and `AccessLogScrub`; `EpochJournal`; `TimeSource`; `ResponseFraming`; `ChainWalk`, `Handover`, `ExportDocument`, `EpochInventory`;
`RetentionAssessment`; `Evidence` and `ClientSession`. Proved: the machines of section 6.

Next:

1. Proofs: `StoreSidecar` (`OpeningIsAWalk`: what a checkpoint must carry to be believed), over a form of the walk that names the last trim and counts nothing; of the document readers the parts that are not about a walk's result (`RemovesWhatItNames`, `MetIsHeld`).
2. The replay set across a restart, and under a tolerance longer than half the window (`access.ts:1190`, `cli.ts:811`): what `SpentOnce` then still says.
3. A second store object in one process (`store.ts:2669`): two `ReceiptLog`s over one file.
4. Retention arithmetic against a reference definition over bounded inputs: `receiptsNeededForWindow`, `readingsApart`, `windowClaim`, `assertWindowHeldable`.
5. Compositions: `ReceiptLog` under `Completion` and `ClientSession` in place of their choices.
