# Formal model of the defector collection system

This directory holds TLA+ models of the data-collection part of the
defector repository, their TLC configurations, and TLAPS proofs about them.
The collection part has three programs:

* **The server** (`src/cmd/server/server.go`) owns the list of pages to
  visit. The list is expanded into `samples` work units, each with the id
  `<row id>-<s>`. The server hands units out to workers and stores the
  payload each worker returns as one file per unit.
* **The pcap worker** (`src/unnamed/part_003`) browses a page with Tor
  Browser while a goroutine captures DNS, TCP or all traffic into an
  in-memory pcap. It returns the pcap.
* **The Tor-log worker** (the second half of `src/unnamed/part_002`)
  browses with a patched Tor Browser and returns its debug log. It returns
  the string `"none"` when browsing failed.

Workers talk to the server through a single gRPC call,
`Work(Req{WorkerID, Browse}) -> Browse` (generated code in
`src/unnamed/part_001`). A worker's request carries the result of its
previous unit, and the reply carries its next unit. An empty ID means
"nothing to report" in a request and "no work, sleep" in a reply.

## Inventory

| Part (spec name) | Code | State | Operations |
|---|---|---|---|
| Target Loader | `main`, server.go 76-103 | `work` map, `done` | one pass at startup; `os.Stat` skips and counts ids with a file |
| Work Ledger, Worker Registry | globals `work`, `workers`, server.go 48-52 | maps under `lock` | mutated only inside `Work` |
| Coordinator | `server.Work`, server.go 145-205 | all of the above | registry update; intake (store or toggled re-queue); assignment with `defer delete`; no-work sentinel |
| Result Store | `store`, `outputFileName`, server.go 207-221 | files `<datadir>/<id><suffix>`, `done` | write if non-empty, then `done++`; early return on a write error |
| Progress Reporter | goroutine, server.go 122-136 | reads `done` | `os.Exit(0)` when `done == total` |
| pcap worker | part_003 117-281 | `work` request, `pcapData` | poll loop; on error resend the same request; on no work sleep; otherwise browse and report |
| Tor-log worker | part_002 345-477 | `work` request | the same loop; the payload is a log that passed `gotData`, or `"none"`, or nil |
| Protocol | part_001 | none | generated gRPC stubs |
| Analysis tools | dns2site, dnsstats, extractdns, fpt, defector | none shared | offline computations over the stored files |

The system is hard to get right in the places where these parts meet:

* Many workers poll concurrently. The single lock makes each `Work` call
  atomic, but the unit is removed from the ledger at the moment it is handed
  out. From then on, only the worker holds it.
* A reply can be lost after the server has acted on the call. The worker
  then resends the same result.
* Workers die.
* The server can be killed and restarted on the same data directory. The
  files are then the only memory of what is done.
* A result write can fail halfway.
* The retry of a short result rewrites the unit's URL.
* The process exits on an exact equality, `done == total`.

## Modules

* **`Coordinator.tla`** models the server.
  * **Variables:** `work` (id -> URL, or `None` when the id is absent from
    the map), `workers`, `done`, `disk` (id -> `"none"`, `"partial"` or
    `"stored"`), `exited`, `writeFails`, and `rpl`. `rpl` is the reply the
    server returned to each worker's current call; `None` stands for a
    returned error.
  * **Data abstraction:**
    * A row id is a model value, and a unit id is the pair `<<row, s>>`.
    * A URL is the record `[lead, scheme, www]`. `lead` is the literal
      `"www."` in front of the string. `scheme` says the string carries
      `scheme://`. `www` says the host after the scheme starts with `www.`.
      This is exactly what `page.String()` and `strings.HasPrefix(url,
      "www.")` tell apart.
    * A payload is its length.
  * **Operators:**
    * `CoordInit` and `LoadedWork`/`LoadedDone` are the loader. The last
      row of a repeated id wins, as in the map assignment.
    * `Work(w, in)` is the whole handler. It has four disjuncts: first
      contact; accepted and stored; store failed, which returns an error
      before assignment; and rejected, which re-queues with `TogglePrefix`.
    * `Assign` is the `range work` loop with its deferred delete, or the
      no-work reply.
    * `StoreOk` and `StoreFail` are `store`. A failed `WriteFile` leaves
      the file as it was or truncated.
    * `Progress` is the exit test.
    * `Reload` is a restart of `main` on the same data directory.
* **`Collection.tla`** composes the server with the workers. It adds the
  following variables:
  * `req`: the request each worker will send next;
  * `phase`: `call`, `reply` (reply in transit) or `browse`;
  * `faults`: the fault counters;
  * `lost`: a history variable holding the ids whose only holder a fault
    dropped.

  Its actions:
  * `Call` is `client.Work` reaching the server, which runs `Work`.
  * `Receive` is the worker's loop body on the reply. On an error the
    worker resends, on no work it polls again, and otherwise it browses.
  * `PcapBrowse`: the capture buffer is reset to the 24-byte pcap header,
    then 0..`MaxPackets` packets of `PacketLen` bytes arrive, and
    `browse.Data = pcapData.Bytes()`.
  * `TorBrowse`: the payload is an accepted log (`TorLogLengths`), or
    `"none"` (4 bytes), or nil when `-a 0`.
  * The environment's faults are `LoseReply` (the transport fails after
    the server handled the call), `WorkerRestart` (a worker process dies
    and a new one starts with an empty request) and `ServerRestart` (all
    in-memory state is rebuilt from disk, and replies in transit become
    errors).
  * `Finished`: after `os.Exit` nothing changes.
* **`MCCollection.tla`** is the instance for TLC. It has two pages: the
  bare `a.com` and `www.b.com`. `MCRowsDup` is the same file with the
  second id repeated. There is one pcap worker and one Tor-log worker.
* **`CollectionProofs.tla`** holds the TLAPS proofs.

`PROJECT.json` maps every definition to the lines of code it translates.

## Runs

All runs use the defaults `-m 25` and `-a 5`, with an http default scheme
and prior files absent or stored. A bare pcap (24 bytes) and `"none"`
(4 bytes) are short and are re-queued. A pcap with one packet (84 bytes)
and a Tor log (100 bytes) are stored.

| Run | Faults | Checks | Result |
|---|---|---|---|
| `reliable` | 2 samples, 1 worker crash, 1 failed write | `TypeOK`, `NoDuplicateWork`, `DoneCountsStored`, `CompletionSound`, `[]CompletedStaysCompleted` | pass (459k states) |
| `recovery` | 1 lost reply, 1 crash, 1 server restart, no failed write | `UnitAccounted` | pass |
| `lost_reply` | 1 lost reply | `CompletionSound` | violated |
| `restart_in_flight` | 1 restart | `CompletionSound` | violated |
| `truncated_write` | 1 failed write, 1 restart | `CompletionSound` | violated |
| `retry_toggle` | none | `RetryTargetsWellFormed` | violated |
| `overshoot` | 1 lost reply, fair | `CompletionExits` | violated |
| `duplicate_ids` | repeated id, fair | `CompletionExits` | violated |

What the properties say:

* `NoDuplicateWork`: a unit is never both pending and held, nor held by
  two workers.
* `DoneCountsStored`: `done` equals the number of stored files.
* `CompletionSound`: the process exits only when every unit is stored.
* `CompletedStaysCompleted`: a stored result is never overwritten or
  re-queued.
* `UnitAccounted`: every unit is stored, pending, held, or was dropped by
  a recorded fault since the last start, provided every write succeeds.
  With a failed write it is false: a worker that leaves a truncated file
  and then crashes loses its unit for good. After the restart the loader
  skips the unit because a file exists. That is finding 3
  (`truncated_write`).
* No liveness property is checked for assignment. Go's randomized map
  iteration hands out every pending unit with probability one. TLA+ can
  state that only as strong fairness on picking each unit, and a
  property "every pending unit is eventually handed out" under that
  fairness would just restate the assumption.
* `RetryTargetsWellFormed`: a re-queued target never has `www.` glued in
  front of a scheme.
* `CompletionExits`: once everything is stored, the process exits.

Findings, each reproduced by a violation run:

1. **Lost reply (`lost_reply`).** The resent result is stored and counted
   a second time (server.go 214). `done` reaches `total` with a unit
   missing, and the server exits. The spec calls the duplicate store
   harmless because a write is idempotent, but the counter is not.
2. **Restart with a unit in flight (`restart_in_flight`).** The loader
   re-creates the unit. The late result and the new copy's result are both
   counted, so the server exits early again.
3. **Failed write (`truncated_write`).** A failed `WriteFile` can leave a
   truncated file. After a restart, `os.Stat` counts it as done.
4. **Retry toggle (`retry_toggle`).** The toggle works on
   `page.String()`, which already has the default scheme:
   `http://a.com` becomes `www.http://a.com`. Spec section 8 expects
   `www.a.com`.
5. **Overshoot (`overshoot`).** A double count takes `done` past
   `total`. Once past, `done == total` never holds again and the server
   runs forever with everything stored.
6. **Repeated id (`duplicate_ids`).** A pages file that repeats an id has
   fewer units than `total`, so the server never exits.

**Bounds.** Every finding needs at most two units, two workers and one
fault, and the bounds allow exactly that much. `reliable` uses two samples
so that the loader's sample loop and ids with the same row are covered.
Each `Max*` bound caps one fault counter, so the state spaces are finite.

**Fairness.** Fairness is assumed only in the runs that check liveness
(`overshoot` and `duplicate_ids`):

* Weak fairness on each worker's `Call`, `Receive` and browse step. A
  worker's loop never stops; browsing ends within the timeout that
  `timeout -s 9` enforces.
* Weak fairness on `Progress`. The goroutine re-checks once a second.
* Strong fairness on handing out each id (`Picks`). Go randomizes the
  start of map iteration, so a unit pending while workers keep polling is
  picked with probability one. In the two violation runs this fairness
  only makes the counterexample stronger: `CompletionExits` fails even
  when every unit is handed out.

Weak fairness on `Progress` does not stop a `Work` call from
incrementing `done` before the next tick, and neither does the code. That
is the behaviour the `overshoot` run shows.

## Proofs (`CollectionProofs.tla`, TLAPS)

* **`TypeCorrect`**: `Spec => []TypeOK`. It holds for every pages file,
  sample count, worker sets and fault bounds that satisfy the modules'
  `ASSUME`s. The proof has two lemmas: `TypeInit`, and `TypeStep` with
  one step per action and one per `Work` disjunct. These rest on:
  * lemmas about the loader (`TargetType`, `LoadedWorkType`,
    `LoadedDoneType`, the last via `FS_Product` and `FS_Subset`);
  * `AssignType`;
  * `BrowseStep`.
* **`NoDuplicateWorkReliable`**: `MaxLoss = 0 /\ MaxRestart = 0 =>
  (Spec => []NoDuplicateWork)`. Worker crashes and failed writes are
  allowed.
  * **Inductive invariant:** `TypeOK /\ NoDuplicateWork`. The types are
    needed to evaluate `Held` and the ledger updates.
  * **Key lemma:** `AssignStep`. If a set `H` of ids is absent from a
    ledger `l`, `Assign` keeps `H` absent and hands out an id outside
    `H`, now absent too.
  * **Call step:** `H` is the set of units the other workers hold. The
    store-failure branch keeps the worker's unit, which was already
    absent. The re-queue branch puts back only the caller's own unit,
    which no one else holds.
  * **Excluded faults:** a lost reply and a restart can break the
    property, so the theorem excludes them. With a restart, the reloaded
    ledger has a unit pending again while a worker still browses it
    (`restart_in_flight`). A lost reply breaks it only after a short
    result: `Work` re-queues the unit, the reply is lost, and the worker
    resends the same unit while it is pending again. TLC finds this
    trace when `NoDuplicateWork` is checked under the `lost_reply`
    bounds. The `lost_reply` trace itself shows only the double count.

* **`DoneCountsStoredReliable`**: under the same two restrictions, and
  assuming:
  * distinct row ids (`UniqueRowIds`);
  * prior files absent or stored;
  * `-m > 0`,

  the proof shows `Spec => []DoneCountsStored`.
  * **Inductive invariant:** the types, `NoDuplicateWork`,
    `DoneCountsStored`, and `StoredNotLive`. `StoredNotLive` says no
    pending or held unit already has a stored file.
  * **Why the strengthening is needed:** `StoredNotLive` makes every
    accepted store add a new element to the set of stored files
    (`FS_AddElement`). `NoDuplicateWork` keeps the other holders' units
    apart from the one being stored.
  * **Init (`CountInit`):** the loader's count over (row, sample) pairs
    equals the number of stored ids, through an explicit bijection
    (`FS_Bijection`). This is why distinct row ids are needed; the
    `duplicate_ids` run shows what happens without them.
  * **Dropped assumptions:** each one matches a run or a hazard that
    fails without it:
    * prior files being absent or stored: `truncated_write`;
    * `-m > 0`: the empty-payload hazard;
    * no lost replies or restarts: `lost_reply`.

* **`CompletionSoundReliable`**: under the same assumptions, the proof
  shows `Spec => []CompletionSound`. It adds two facts to the invariant
  above:
  * `ExitedAtTotal`: `exited => done = total`. Nothing changes `done`
    once the process has exited.
  * `IdsCount`: with distinct row ids there are exactly `total` units,
    through a bijection from (row, sample) pairs.

  The argument: at exit, the stored files are a subset of the units with
  as many elements as there are units, so every unit is stored
  (`FS_Subset`).

* **`CompletedStaysCompletedReliable`**: under the same assumptions, the
  proof shows `Spec => [][...]_vars` for `CompletedStaysCompleted`.
  * The `StoredStays` lemma: only the held unit's file is touched by a
    failed write, and that unit is not stored.
  * `StoredNotLive` in the next state then gives that the stored unit's
    ledger entry is absent.

One fact is an assumption: `LastRowAssumption` says that every id of a
finite sequence has a last row. It needs induction over sequences, which
the provers cannot instantiate. TLC checks it in every run.

What stays with TLC only:

* the liveness properties, because the provers do not handle fairness or
  `ENABLED`;
* `UnitAccounted`, and the safety properties beyond the assumptions above
  (the plan below).

## Not modelled, and why

* **gRPC generated code.** Its only behaviour is the message shape, which
  is `Browse`, and a failure, which is the `None` reply or `LoseReply`.
* **`path.Clean` on ids.** Ids are model values. Two ids that clean to
  the same path would share a file; this is listed as a hazard.
* **Packet filters, `gotData`'s log parsing, `clean()`, browser launch.**
  They are abstracted to the payload lengths they produce.
* **The data race on `pcapData`.** `browse.Data` aliases the buffer the
  capture goroutine appends to. The race affects the payload's bytes, not
  the length the server tests.
* **The analysis tools (dns2site, dnsstats, extractdns, fpt, defector).**
  They are offline, single-process computations over the stored files and
  do not interact with the collection system.

## Plan for later work

1. A proof of `UnitAccounted` (with the history variable `lost`), which
   holds even with lost replies and restarts.
2. A run with `-m 0` and `-a 0`. An empty payload is accepted without a
   file, so a restart re-counts it.
3. An abstract specification of the ledger: each unit is pending, held or
   done, and done is permanent. `Collection` would be shown to refine it
   with a mapping, under a reliable transport without restarts, both with
   TLC and with TLAPS.
4. The dns2site classifier (`classify`, `getClass`, `outcome`) and
   `gotData` as pure operators, checked against reference definitions over
   bounded inputs.
