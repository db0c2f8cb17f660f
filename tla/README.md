# TLA+ models of `dag` and `dsync`

These are TLA+ specifications of the merkle-DAG manifest builder, the
completion vector and the receive-side sync session in `src/`. TLC checks
them. Each definition is translated from the Go source. `PROJECT.json` maps
every definition to the lines it models.

## 1. The system and its parts

| Part | Source | State | Operations |
|---|---|---|---|
| Manifest builder | `src/dag.go` 36-49, 129-220 | `mstate`: `weights`, `sizes`, `links`, `m.Nodes`, `m.Links`; the Go call stack of `addNode` with its `*weight` out-parameters | `NewManifest`, `makeManifest`, `addNode`, the three `sort.Sort` calls, `mstate`/`sortableLinks` `Less`/`Swap` |
| Manifest serialization | `src/dag.go` 114-127 | none (delegates to the CBOR codec) | `MarshalCBOR`, `UnmarshalCBORManifest` |
| RootCID | `src/dag.go` 81-90, 266-271 | none | `Manifest.RootCID`, `Info.RootCID` |
| Info | `src/dag.go` 223-262 | a manifest plus `Sizes` | `NewInfo` (same walk, then a size copy) |
| Completion | `src/dag.go` 273-332 | `[]uint16` of 0/100 | `NewCompletion`, `Percentage`, `CompletedBlocks`, `Complete` |
| Session | `src/dsync/session.go` 14-97 | `prog` (the live Completion), `progCh` (unbuffered), the block store behind `bapi` | `newSession`, `ReceiveBlock`, `Complete`, `completionChanged` |
| Session id | `src/dsync/session.go` 99-123 | the 63-bit `cache`, `remain`, `i`, `b` | `randStringBytesMask` |
| Sender / transport | not in `src/` (tests in `src/unnamed/part_000`) | blocks acknowledged, HTTP push/pull, block API, pinning, hooks | drive `ReceiveBlock`, poll `Complete()`, read `progCh` |

**How the parts interact.** The sender builds a manifest with
`NewManifest`. The receiver opens a `session` over that manifest. The
session's `prog` is `NewCompletion(mfst, mfst)`, so a new session starts
all-zero. Transport goroutines call `ReceiveBlock` concurrently. Each call
runs these steps in order:

1. `bapi.Put` stores the bytes. If it fails, the call returns `Retry`.
2. The derived CID is compared with the claimed hash. If they differ, the
   call returns `Errored`, and the bytes stay stored.
3. The call sets `prog[i] = 100` for every matching index, without a lock.
4. It starts a goroutine that sends the live slice `s.prog` on `progCh`,
   then returns `Ok`.

Someone outside `src/` polls `Complete()` and reads `progCh`.

**The behaviours that make this hard.**
- **Unlocked writes.** Callers write `prog` without a lock, while `Complete`
  and the `progCh` reader read it (session.go:79, :92, :96).
- **Aliased notifications.** Each notification is an alias of the live
  slice, not a snapshot (:96).
- **Goroutine leaks.** Each notifier goroutine leaks if the reader is gone
  (:82, :96).
- **Recursive weights.** The manifest walk accumulates weights through
  recursive pointer out-parameters. Shared subtrees are not counted twice
  (dag.go:202-218).
- **Ordering quirks.**
  - The weight sort is unstable and runs after an alpha sort (:161).
  - The link sort uses a packed integer key (:133).
- **Error paths.**
  - A partial manifest is returned together with an error (:48).
  - The completion of an empty manifest is 0/0 (:312).

## 2. Modules

Modules are listed leaves first. MC modules only instantiate constants and
add checking scaffolding.

- **`Completion.tla`** contains pure operators. `Scan` and `NewCompletion`
  are the single forward scan of `NewCompletion`. `SumSeq` and `Percentage`
  give the percentage as the exact fraction `<<sum, 100*len>>`, or `NaN`
  when the vector is empty. `CompletedBlocks` and `Complete` are the other
  two methods. `Progress == {0, 100}` is the set of values the code ever
  writes.
- **`SessionId.tla`** models `randStringBytesMask` as the recursive
  operator `RandLoop` over a sequence of `rand.Int63()` draws. TLC's
  integers are 32-bit, so a draw is held as its base-64 digits: ten 6-bit
  fields, then the 3 top bits. On that form `cache & letterIdxMask` is the
  lowest digit (`Low`) and `cache >>= 6` drops it (`Shifted`). A letter is
  its index into `letterBytes`. The result also says whether the draws ran
  out.
- **`MCOperators.tla`** checks the pure operators against reference
  definitions. Each state is one input:
  - for Completion, every ordering of 4 ids as `mfst.Nodes` and every
    ordered subsequence as `missing.Nodes`, which is exactly the
    precondition `NewCompletion` documents;
  - for the session id, lengths 1, 2, 10 and 11, and pairs of draws whose
    fields sit at the edges. Most fields are 63 (rejected). One field, at
    position 1, 2 or 10, is 0 or 51 (accepted) or 52 (rejected). Or every
    field is 0 or 51. The top bits are 0 or 7.
- **`ManifestSpec.tla`** is the *abstract* builder of spec §4.1. It holds
  the result as one atomic `Build` step from "none" to either `error` or
  the manifest. That manifest is the one the §4.1 weight rule defines
  (`Visit`/`VisitLinks`): nodes by descending weight, then ascending id, and
  links as `(from, to)` index pairs sorted lexicographically.
- **`Manifest.tla`** is the *detailed* builder. Its state:
  - `phase`;
  - `mNodes` and `mLinks` (`ms.m`);
  - `sized` (the keys of `ms.sizes`);
  - `weights`, `links`;
  - `stack`, the explicit call stack of `addNode`. Each frame holds `id`,
    the link cursor `li`, the callee out-parameter `lWeight` as `lw`, and
    `pc`;
  - `rootWeight`, makeManifest's `weight`.

  `OutParam`/`AddOut` model the `*weight` aliasing: frame *k* writes its
  caller's `lw`, or `rootWeight`. Each action is one straight-line segment
  of `addNode`: `AddNodeSeen`, `AddNodeNew`, `SizeFails`, `LinkStep`,
  `GetNodeFails`, `AfterChild` and `AddNodeReturn`. `SortManifest` covers
  makeManifest lines 158-176 as a whole:
  - the alpha sort over `len(Nodes)`;
  - the weight sort over `Len() = len(sizes)`;
  - the index re-use of `weights`;
  - the link sort.

  `GoSortSeq` is `sort.Sort` for n ≤ 12, which is every case TLC sees:
  - with `GoSort = "pdqsort"` (Go ≥ 1.19), an insertion sort;
  - with `GoSort = "quicksort"` (Go ≤ 1.18), the gap-6 pass, then
    insertion sort.

  Above 12 elements, pdqsort partitions and is unstable as well. The
  repository's own test builds about 15 nodes. So the passing
  `NodesOrdered` says nothing about ties in larger manifests, and the Go
  1.18 finding marks one unstable case, not the only one.

  `Abstract == INSTANCE ManifestSpec WITH result <- AbstractResult` gives
  the refinement mapping. `AbstractResult` is "none" while the walk runs,
  `Failed` on an error, and `ms.m` after the sort.
- **`MCManifest.tla`** supplies the inputs: every DAG over ids `1..NumIds`
  with at most `MaxOut` links per node, links only to later positions (so
  the graph is acyclic), duplicate links allowed, and every labelling of
  positions by ids. `StarInputs` is a root with `NumIds-1` leaves.
- **`Session.tla`** covers:
  - concurrent callers, each with its own `pc`, `hash`, `data` and loop
    index `i`;
  - the shared `prog` and the block `store`;
  - `pending`, the notifier goroutines blocked on `progCh`;
  - a `Complete()` poller (`cpc`, `ci`, `completeSeen`) whose loop is
    `Completion.Complete`, interleaved element by element;
  - the progCh listener (`opc`, `oview`).

  Every loop iteration is its own step. A racy read of a `uint16` in Go
  returns one of the values written, so element granularity is exact.
  `Put` is a nondeterministic choice between `PutRetry`, `PutMismatch` and
  `PutMatch`. The payload is abstracted to the id it hashes to: a hash, or
  `Junk`.
- **`Info.tla`** extends `Manifest` with the two callers of the walk. `api`
  records which constructor started it, and `ret` records what the
  constructor returned:
  - `NewManifestReturn` returns `ms.m` together with the error;
  - `NewInfoFails` returns a nil `*Info`;
  - `NewInfoReturn` copies `ms.sizes` in final `Nodes` order (`InfoSizes`).

  `RootCID` and `InfoRootCID` are the two accessors. `NodeSize` is a
  constant, because `node.Size()` depends only on the node's bytes.
  `cid.Parse` of an id produced by `Cid().String()` cannot fail, so its
  error branch is left out.
- **`MCInfo.tla`** uses the DAGs of `MCManifest`, with a distinct size for
  every id.
- **`Transfer.tla`** composes `Session` with a sender that is modelled from
  spec §4.4 and §7, since the transport is not in `src/`. The sender hands
  every block not yet acknowledged (`acked`) to a free caller, with one call
  per block at a time. After `Retry`, `Errored` or a lost reply it sends
  the block again. Faults are counted in `faults`, at most `MaxFaults`:
  - a payload whose bytes hash to `Junk`;
  - a failed `Put` (`TPutRetry`);
  - an `Ok` reply lost on the way back (`TNotifyLost`).

  The transport polls `Complete()` (`Poll`).
- **`MCTransfer.tla`** has 2 callers and manifest `<<h1, h2>>`.
- **`MCSession.tla`** has 2 callers, 2 hashes and manifest `<<h1, h2>>`.
  `ListenerSpec` adds weak fairness for a listener that never leaves.
- **`Cancel.tla`** extends `Session` with `ctxDone`, the transport's cancel
  of the session context (`CancelCtx`, modelled from spec §5). Here `Put`
  is not assumed to return at all. The only assumption is that a `Put`
  under a cancelled `s.ctx` fails (`PutCancelled`); `ReceiveBlock` reports
  that as `Retry`.
- **`SessionSpec.tla`** is the *abstract* session of spec §4.4, with
  every operation atomic. `StoreBlock` adds a block to the store.
  `MarkEntry(k)` sets entry k to 100, and only when the block named at k is
  stored. `ObserveComplete` is `Complete()` returning true, only when
  every entry is 100. `Session` instantiates it as `Atomic` with the same
  `prog`, `store` and `completeSeen`. Every `Session` step is either one of
  these steps or a stutter: `PutMatch`/`PutMismatch` is `StoreBlock`,
  `MarkNode` is `MarkEntry(i)`, and `CompleteTrue` is `ObserveComplete`.
  This is the linearizability of the unlocked element writes and reads.
- **`MCCancel.tla`** uses the constants of `MCSession`, but with a
  degenerate manifest `<<h1, h2, h1>>` that names one hash twice.
- **`MCSessionHist.tla`** adds a history variable `hist`, the set of every
  value `prog` has held, so that "the listener saw a real state" can be
  stated.

## 3. Runs

| Run | cfg | Expect | What it shows |
|---|---|---|---|
| `session_safety` | `MCSession.cfg` | pass | `TypeOK`, `OkMeansMarked` and `SessionRefinesSpec`. There are 2 callers, retries, mismatches, duplicates and a concurrent poller. Even so, the session implements the atomic `SessionSpec`: an entry reaches 100 only after its block is stored, and it never falls back. `Complete()` is true only when every entry is 100 at the same instant, so every manifest block is stored. An `Ok` reply means every index of that hash reads 100. The writes are idempotent and monotone, so the race is benign for these facts. |
| `session_cancel` | `MCCancel.cfg` | pass | `CancelReleasesCallers`: `Put` may hang and the listener may be gone, yet once the session context is cancelled every `ReceiveBlock` call returns. Two things make this hold: `Put` is handed `s.ctx`, and the notification is sent on its own goroutine. The manifest names `h1` twice, and two more properties are checked on it. `OkMeansMarked` holds: an `Ok` for `h1` has marked both of its indices (spec §4.4, "for all matching indices"). A loop that `break`s at the first match is caught. `SessionRefinesSpec` also holds. |
| `session_snapshot` | `MCSessionHist.cfg` | violation | `NotificationIsSnapshot`: the listener reads `<<0,100>>` although `prog` went `<<0,0>>`, then `<<100,0>>`, then `<<100,100>>`. The live slice is sent, not a copy (spec §5). |
| `session_notifier_leak` | `MCSessionLeak.cfg` | violation | `NotifiersDeliver`: once the listener leaves, the goroutine from `newSession` blocks for ever (spec §9). |
| `manifest_build` | `MCInfo.cfg` | pass | `TypeOK`, `NodesOrdered`, `LinksOrdered`, and `BuildRefinesSpec` (the builder implements `ManifestSpec`). Also `ResultDescribesDag`: whatever `NewManifest` or `NewInfo` returns without an error has `RootCID` equal to the root, and `Info.Sizes[k]` is the size of `Nodes[k]` after both sorts. The inputs are all DAGs on 4 ids with out-degree ≤ 2, under Go ≥ 1.19 sorting, with every fetch/size failure. |
| `manifest_go118_ties` | `MCManifestGo118.cfg` | violation | `NodesOrdered` under Go ≤ 1.18 `sort.Sort`: root 7 with leaves 1..6 gives `<<7,2,3,4,5,6,1>>`. |
| `manifest_link_key` | `MCManifestLinkKey.cfg` | violation | `LinksOrdered` with the key base scaled from 1000 to 1: the packed key breaks once `to` reaches the base. |
| `manifest_descendants` | `MCManifestDesc.cfg` | violation | `NodesByDescendants`: the dag.go:66 comment promises a descendant-count order, but the weights undercount shared subtrees. |
| `manifest_error_partial` | `MCManifestErr.cfg` | violation | `ErrorReturnsNoManifest`: a failed `Size` leaves `Nodes = <<root>>`, which is returned with the error (spec §7). |
| `transfer_completes` | `MCTransfer.cfg` | pass | `TransferCompletes`: with a failed `Put`, a corrupted payload or a lost `Ok` reply, two concurrent callers and an absent listener, `Complete()` eventually returns true. |
| `operators` | `MCOperators.cfg` | pass | `NewCompletionMarksMissing` and `SummariesAgree` over every order and subsequence. `RandStringMatchesReference`: the id is the first n accepted fields of bits 0..59, reversed, and a new draw is needed exactly when those fields run out. |
| `completion_empty` | `MCOperatorsEmpty.cfg` | violation | `PercentageInRange`: an empty Completion gives 0/0. |

Every property of a passing run has a mutant in `PROJECT.json`, a
plausible bug in the mapped code that TLC then catches. Examples:
- `MarkNode` with `+= 100`;
- `PutMatch` without the hash check;
- a loop that notifies one index early;
- a synchronous `completionChanged`;
- `Put` called with `context.Background()`;
- a mark loop that writes 0 to the entries that differ, or that breaks at the first match;
- `letterIdxMax` rounded up;
- a missing `lWeight` reset;
- `>=` in `mstate.Less`;
- a link key without `to`;
- a scan that never advances;
- `Complete` that skips the last entry.

### Bounds and why they are enough

- **Session.** 2 callers and 2 distinct hashes give two writers on
  different indices and on the same index, a mismatch in both directions,
  and a duplicate. `MaxCalls = 4` lets both blocks arrive, plus one retry
  or duplicate each. The snapshot counterexample needs 2 writes and 2
  reads. The cancel run uses `MaxCalls = 2` and the 3-entry manifest
  `<<h1, h2, h1>>`: one `Ok` for `h1` must mark two entries, with a second
  caller and the poller between the two writes. That covers a hang before and
  after the cancel, and a call started after it. With 3 calls the run takes
  over 2 minutes.
  Symmetry over callers is used only for the safety runs.
- **Manifest.** 4 ids with out-degree 2 include shared children, diamonds,
  duplicate links and equal-weight ties at several depths.
  - Ties between 7 or more equal nodes are needed for the Go 1.18 gap pass
    to move anything, hence the star of 7.
  - The link key is an arithmetic packing, so the base can be scaled down
    without changing the shape of the failure.
- **Info.** These are the manifest inputs. Distinct sizes make any
  misaligned copy visible wherever the weight order differs from the id
  order.
- **Transfer.** `MaxFaults = 1`. Each behaviour meets at most one fault,
  but every kind of fault, at every point of either call, is explored.
  With 2 faults the run takes about 5 minutes.
  `MaxCalls = |blocks| + MaxFaults`: the sender never needs more calls.
- **Completion.** All permutations of 4 ids cover every position of the
  first match, the last match and of gaps.
- **Session id.** The chosen draws exercise:
  - the 51/52 acceptance edge;
  - a refill after exactly ten fields (n = 10, then n = 11 with an
    all-accepted draw);
  - draws that yield no letter;
  - top bits that would be accepted if they were ever read.

### Fairness

`Fairness` is weak fairness on each caller's in-flight step, `CallStep(c)`.
This holds because every goroutine that can run is eventually scheduled,
and because `Put` is assumed to return. Nothing is assumed of the listener.
It is outside `src/` and may be slow or absent. This is exactly why
`NotifiersDeliver` fails while `CancelReleasesCallers` holds. `ListenerSpec` adds
fairness for a listener that keeps reading, but `ListenerGone` can still
happen once, which is the leak. The manifest builder and completion are
sequential: their runs check safety and the refinement, under
`CHECK_DEADLOCK FALSE` for the builder, whose walk terminates in `done` or
`error`, and for `Info`, which stops once the constructor has returned.

`Transfer` adds weak fairness in three places:
- on each caller's steps, as before;
- on the sender, which keeps sending while a block is unacknowledged (spec
  §4.4 and §7: `Retry` and `Errored` are re-requested);
- on the `Complete()` poll.

The listener is still not assumed to run.

`Cancel` assumes less. Each caller's CPU steps, the mark loop and the
return, are weakly fair. A `Put` is assumed to return only once its
context is cancelled. Nothing is assumed of the block API before that.

## 4. Not modelled

- CBOR serialization, which is an external codec.
- The `cid.Parse` error branch of `RootCID`, which is unreachable for built manifests.
- HTTP framing, push/pull orchestration, pinning and hooks (outside
  `src/`). The sender of `Transfer` stands for the transport. `Put` is
  modelled only by its three outcomes.
- Per-call deadlines do not exist in the code. A `Put` that ignores even a
  cancelled context is outside every model: `Cancel` assumes the block
  API honours `s.ctx`.

- No separate determinism run. The walk is sequential: one DFS path calls
  `Get`, and there is no concurrency in the builder. `BuildRefinesSpec`
  maps every DAG to one manifest, so it already shows that two builds
  agree.

## 5. Plan for later work

No item is left open. One extension was considered and left out on
purpose: duplicate concurrent sends of one block in `Transfer`, from two
parallel fetches. Concurrent `ReceiveBlock` calls for the same hash are
already explored by `session_safety` and `session_cancel`, where callers
claim any hash. In `Transfer` the change would alter only the sender, which
is modelled from the spec, and it would need a duplicate budget beside
`MaxCalls`. Without that budget, liveness would fail on the bound rather
than on the code.
