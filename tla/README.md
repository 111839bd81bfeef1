# A TLA+ verification of Slipstream Contracts

This directory specifies the programs of the repository in TLA+, checks them with TLC on small
instances, and proves the most important facts about them with TLAPS for all instances. Paths
below are relative to the repository's root.

`PROJECT.json` lists the runs, the source lines every definition stands for, a mutant per checked
property (a plausible bug the property catches), the hazards of the code, and the theorems.

```
tlc  -workers 2 -config MCShardedCounter.cfg MCShardedCounter
tlapm StagedLedgerProofs.tla
```

## 1. The system

The repository is a corpus of smart contracts and a tool that measures them.

**Contracts** (`patterns/NN-*/{naive,optimized}`). Six access patterns, each in two variants that
promise the same service. The naive one keeps its state where every caller meets; the optimized
one spreads it, so that the transactions of one ledger can run in parallel. A contract has no
state but its ledger entries, and no concurrency of its own: it runs inside the Soroban host,
which loads the entries of the transaction's *footprint*, runs one function, and keeps the writes
only if the function returns normally. `Err`, a failed `assert!` or `require_auth`, and an
arithmetic overflow (the release profile has `overflow-checks = true`) undo everything.

| Pattern | Naive state | Optimized state | What must be right |
|---|---|---|---|
| 01 sharded counter | `Counter` | `Shard(i)`, `i < SHARDS` | no increment is lost; `total()` is exact; all shards together are one counter |
| 02 per-user balance | `Balances` (one map) | `Balance(addr)` | money is neither made nor lost; nobody overdraws by transferring |
| 03 lazy fee accrual | `OpCount(addr)`, `FeePool` | `OpCount`, `AccruedFee(addr)`, `FeePool` | swept plus accrued fees are the fees of all operations |
| 04 temporary nonce | `Nonce` (persistent) | `Nonce(addr)` (temporary) | a nonce is not handed out twice while it matters |
| 05 batched admin | `Setting(i)` | `Config` (one struct) | nobody ever sees, or leaves, half of an update |
| 06 event log | `Tail`, `Entry(i)` | `SegmentTail(s)`, `Entry(s, i)` | what is acknowledged is in the log, once, and stays; no gaps |

**Staged execution** (CAP-0063; `docs/PLAYBOOK.md`, "Background"). The network is not in this
repository, but everything in it is written for it: transactions with pairwise non-conflicting
footprints share a *stage* and run concurrently; stages follow each other. All concurrency of the
contracts is here. A footprint is found by simulating the call before it is submitted, so it can
be out of date when the call runs; the host then stops it.

**The harness** (`harness/src`), a command with these parts:
`discover_patterns` (which directories are patterns, which sides they have), `analyze_pair`
(run the `slipstream` binary as a subprocess, parse its JSON report, take the deltas from it),
`run_all` (all patterns in turn, failures included), the table, the summary and their verdicts,
`collect_provenance` (which commit, when), `render_bench_block` and
`update_bench_md` (the measured block in a `BENCH.md`, between two markers), and the command line
(`<pattern-dir>`, `all`, `bench`) with its counters and exit codes. Its state across processes is
the checkout: the directory tree, the commit it is at and the `BENCH.md` files; within a process,
the list of patterns, the list of results, the loop's position and the counters.

**Not part of the program's own logic**: `slipstream-core` (the analyzer, a sibling repository),
text layout, tests and mocks, Makefile, Cargo and CI files.

### What is hard

- *Interleaving in a stage.* Handlers are read-modify-write on copies. If a footprint claimed in a
  comment is too narrow, updates are lost, and a unit test (one call at a time) cannot show it.
- *Footprints out of date.* `append` writes the entry named by the tail it reads.
- *Two places for one thing.* Fees in accruals and the pool, entries and a tail, a credit and a
  debit: overflow or a panic between two writes.
- *Eviction.* A temporary entry goes some time after its creation, however often it is written (the
  contract never calls `extend_ttl`), and `unwrap_or(0)` starts over.
- *Signed, unchecked amounts; overflow at different limits.*
- *Two lists walked side by side* (patterns and results), with failures anywhere in them.
- *Files rewritten in place*: a kill or an I/O error in the middle leaves half a block, or half a
  character, which the next run has to cope with; and a second process can read in between.
- *A checkout that does not hold still*: the commit is asked for after the analyses.
- *Reports with fields left out*, which count as zero.

## 2. Modules

```
SorobanHost            Conflicts                     BenchFile     Reports
   |  Naive*, Sharded..   |        \                       |          |
   |  (one per variant)   Footprints  StagePlanning        |     PatternRuns
   |                      |               |                 \        /
   |   SerialLedger <--- StagedLedger  MCStagePlanning       Harness
   |                    /     |              BenchUpdates <---- |
   +---------- MC<contract>  StagedLedgerProofs             MCHarness -- MCTwoBenches
```

The proof modules `EXTEND` what they are about, and use `StagedLedgerProofs` of the ledger as an
instance with the contract for its parameters:

```
MCShardedCounter    -- ShardedCounterProofs --+
MCLazyFee           -- LazyFeeProofs       ---+-- StagedLedgerProofs, SumsProofs -- Sums
MCSegmentedEventLog -- EventLogProofs      ---+
MCDeployment        -- DeploymentProofs    ---+
PerUserNonce, MCStagePlanning -- NonceAndPlanProofs
Harness             -- HarnessProofs       ------ SumsProofs
```

### Contracts

One module per variant: `NaiveCounter`, `ShardedCounter`, `NaiveBalance`, `PerUserBalance`,
`NaiveFee`, `LazyFee`, `NaiveNonce`, `PerUserNonce`, `NaiveAdmin`, `BatchedAdmin`,
`NaiveEventLog`, `SegmentedEventLog`. All are laid out alike:

- `Keys` and `Values(k)`: the `DataKey` enum and what an entry can hold;
- one operator per contract function, **under the function's name**, from arguments and store to an
  outcome: status (`ok`, `err`, `trap`), return value, new store. Every check, early return and
  overflow of the Rust function is there;
- `Calls`, `Invoke`: the calls that can arrive, `signed` standing for the authorization that
  `require_auth` asks for; and the dispatch;
- `Footprint(call, store)`: the keys the function reads and writes, as its body reaches them on
  `store`. Like the sources' notes, and as the scheduler does, it ignores that a call that traps
  early reaches fewer keys;
- `Init`, one action per state-changing function, `Next`, `Spec`: the contract by itself, with
  calls one after another. In the optimized modules `NaiveSpec` is the naive module under a
  refinement mapping (sum of the shards; the map of the balances; everything swept; and so on).

`SorobanHost` has the little of the host they use. Widths are constants (`MaxU64`, `MaxI128`):
overflow is a trap, at whatever the limit is. Both fields of a record, log or map keep their own
limit, because overflowing at different moments is the hazard. Messages, settings and amounts are
members of small sets; the six fields of `Config` are two, the one `fee_bps()` reads and the rest.
`PerUserNonce` adds the ledger sequence and `CloseLedger(gone)`: an entry may go once it has lived
`TTL` ledgers from the one it was created in. Writing to an entry that is there does not give it more
time; `extend_ttl` would, but the contract never calls it (optimized/src/lib.rs:33-40). Anyone else
may extend it, which is why an entry that is due need not go.

### Staged execution

`Conflicts` says when footprints conflict, `Footprints` what a transaction sees and changes, and
`FootprintSound`: run on the visible entries only, a call that stays inside its footprint does what
it does on the whole store. `StagedLedger` executes the calls of *any* contract (a parameter):
`Submit` (simulate and send), `OpenStage` (a set without conflicts), `Load` (copy the footprint's
entries), `Commit` (run on the copy and write back) or `Reject` (it reached for a key outside its
footprint), `Resubmit`. Between `Load` and `Commit` others of the stage load and commit.
`SerialLedger` is the abstract specification: a call takes effect at one instant.

The modules `MCShardedCounter`, `MCLazyFee` and `MCSegmentedEventLog` put a contract on this ledger
and state what its users rely on, in terms of the ledger and of the receipts clients got.
`MCDeployment` puts four contracts on one ledger: balances (02), the naive nonce (04) and both
admins (05). A call names its contract, which sees its own entries only (`Own`) and replaces no others (`Back`); transactions of one stage
may call different contracts, and each contract must keep its promises among the others. Sums in the
properties are those of `Sums`: `SumOver` of natural numbers, `NetSum` of signed amounts.

`StagePlanning` has the arithmetic of the benchmark notes: edges of the conflict graph of a batch,
and the fewest stages it can run in. `MCStagePlanning` builds batches of the same operations for
both variants of a pattern.

### Harness

`Reports` has the JSON contract. A JSON object is a function from the keys it has. `Printed` is
core's part: the counts of both sides and a summary of their differences, of which any that are 0
may be missing ("omits empty ones", `harness/src/model.rs:4`). `analyze_pair` is the harness's:
the binary does not start, fails, prints something without the required keys, or a report, of which
`contention_delta` reads the summary, a missing field as 0. `PatternRuns` has discovery, `run_all`'s
results, `verdict`, `render_table`'s rows, `summarize` (no summary where nothing was analyzed) and
`all`'s exit code. `BenchFile` has a
`BENCH.md` as a sequence of pieces (a newline, a marker, a block's body, a piece of author's text,
a fragment, a piece that is not UTF-8) and `update_bench_md`'s new contents, including which newlines
it adds, and what a write that stops can leave of a piece.

`BenchUpdates` is the abstract specification, of the files alone: any file, any number of times, is
replaced by itself with a measured block of its pattern, each side's numbers of some commit, or
loses what is behind some point. `Harness` implements it (`ImplementsUpdates`) with what a write has still to
put out taken as done: emptying a file is then the whole update, writing is a stutter, and a kill or
an I/O error in a write is what stops it. Commands, batches, verdicts and counters are gone; what
the files can come to is the same.

`Harness` is the state machine. `Usage` and `RunPair` are the two commands that are done at once;
`Start` (`all` or `bench`) is followed by `Preflight` and one `Analyze` per pattern. `Preflight` works
on what `read_dir` lists: an entry that cannot be read, or the whole directory, is passed over in
silence (harness/src/lib.rs:141, 144). `Analyze` and `RunPair` run the analyzer, and the checkout may
go on to another commit before it is done (`GoesOn`): each side is then read at the old commit or at
the new one. `FinishAll` ends `all`. `bench` goes on with
`CollectProvenance`, which asks for the commit *now*, or does not get an answer, and for every
pattern with `Skip`, `Current`, `UpdateFails`, or `Read`, `Truncate`, `WritePiece` ...,
`EndWrite`: the new contents are computed from what is read, and `std::fs::write` empties the file
before it writes. `WriteFails` and `Crash` can come at any point of a write, also inside a piece.
When the process is gone the files stay, and the next command finds them. `Checkout` is somebody
else's step: the checkout goes on to a later commit, and the directory has the patterns and sides
that commit has. `stdout` has the rows the last process printed:
`render_table`'s for `all`, one by `report` for a single pattern.

`MCTwoBenches` composes two processes: `Harness` itself, and an instance of it with variables of its
own for everything a process has, and the same tree, files and commit. A step is a step of one and
leaves what is the other's alone. What overlapping writes of two processes leave of a file is up to
the file system, so the module leaves them out: one waits while the other's write is going on. The
violation it shows needs no overlap of writes, only a read while another write is going on.

`original`, `before`, `written`, `moved` and `cuts` are history variables, as is `issued` in
`PerUserNonce`: they record what happened and no guard of the code depends on them, except that
`MaxCuts`, `MaxIssued` and `MaxLedger` bound the behaviours. `created` in `PerUserNonce` is the
host's: what an entry's life is counted from. A killed process takes its
memory with it: `Crash` resets what only the process knew.

## 3. What is checked

| Run | Instance | Distinct states | What it shows |
|---|---|---|---|
| `MCShardedCounter` | 4 transactions, 2 shards, counters up to 2 | 51 000 | the ledger's types; serializable, so the footprints are wide enough; every acknowledged increment counted, told apart within its shard; `total()` exact, or a trap when the sum does not fit; refines `NaiveCounter` |
| `LazyFee` | 2 accounts, fee 5, 3 operations, fees up to 25 | 135 | `Conservation` and the refinement of `NaiveFee`, through both overflows: the instance of the theorems |
| `MCLazyFee` | 4 transactions, 2 accounts | 65 000 | only signed operations are charged, once; the pool never shrinks; still the naive contract |
| `PerUserNonce` | 2 accounts, TTL 2, 5 ledgers, 4 nonces each | 243 000 | no repetition for a time to live from the creation of the account's entry; accounts do not disturb each other |
| `PerUserNonceEviction` | 1 account | violation | an account that asks in every ledger starts over all the same (finding 1) |
| `MCDeployment` | 3 transactions on 4 contracts; 2 accounts, amounts -1 and 2, balances up to 2; 2 settings; nonces up to 2 | 292 000 | balances are what the receipts say, an overdraft needs a negative amount, refines `NaiveBalance` run serially; unique gapless global nonces; settings written one by one are some update's in full, with what longer ones left past its end; readers of the batched struct see a whole one |
| `MCSegmentedEventLog` | 3 transactions, 2 segments, 2 entries each | 27 000 | the log is what was acknowledged; entries are final; only rivals cause retries; serializable; every call is answered |
| `MCStagePlanning` | batches up to 4 operations, 5 patterns | 4 600 | naive: one stage per operation; optimized: as many as the busiest shard, account or segment has; no new conflicts |
| `MCStagePlanningAdmin` | pattern 05 | violation | a new conflict on the batched variant (finding 2) |
| `MCHarness` | 2 patterns, 2 commits, one of which takes a side from a pattern, a directory listed in full, in part or not at all, 1 write cut short, any number of runs | 484 000 | files keep the author's text, have one block and their own numbers, of the commit the block names; what is printed is what was measured, and summary and exit code agree with it; report is true; two clean updates heal a torn file; refines `BenchUpdates`; every run ends |
| `MCHarnessTorn` | 1 pattern, 1 cut | violation | an update after a torn write is not idempotent (finding 3) |
| `MCTwoBenches` | 1 pattern, 2 processes | violation | two commands at once lose the author's text (finding 4) |

That a contract's footprints are sound (`FootprintSound`, for all its stores) is not left to the
runs: it is a theorem for each contract on the ledger.

**Why the bounds are enough.** The interactions are pairwise: a conflict is between two footprints
and a lost update needs two writers and a reader. Three or four transactions give two writers in a
stage, a reader across stages and one that was overtaken. Two shards, accounts or segments are
what spreading means, and a third adds a copy of the second. Limits are chosen so that they are
reached: with counters up to 2 and four increments, a shard overflows while the sum of two shards
overflows earlier or later; with fees up to 25, 3 operations and 2 accounts, the pool's limit binds
before the counts' and the other way round. `TTL = 2` of 5 ledgers lets an entry be
written again before it goes, go, outlive its time, and start over twice. Batches of four over three places have every distribution up to
renaming that matters to the stage count. In the harness, one of two patterns loses a side
at the second commit or cannot be listed, either may fail, one file has a block and the other has none, and an unlimited number of processes
run over them (counters are bounded by the number of patterns; contents repeat). The analyzer counts
differently for the two patterns and at the two commits, so that a number in the wrong place shows.
One write cut short suffices for an
orphaned marker of either kind and for a file cut anywhere in it, with everything later runs can do
to it.

**Symmetry** is declared for transactions (and accounts where no function tells them apart), only
in runs without liveness properties.

**Deadlock** is not checked where the system really stops: when all transactions have receipts, at
the bound of a batch, of ledgers or of nonces, or with no call to make. It is checked for `LazyFee`
and the harness, which can always be called again.

**Fairness.** Two runs check liveness. `StagedLedger!FairSpec` makes an assumption on the network,
which is external: a transaction that can be scheduled and stays so is scheduled, one that runs
ends, and a client whose transaction was turned down tries again. All of it is weak fairness, per
transaction. Nothing is assumed of the order of rivals, so `EveryCallAnswered` says that retries
cannot starve: every rejection is paid for by a rival that is done. `Harness!FairSpec` has weak
fairness of the running process's steps, that is, the operating system runs the process, and the
subprocess it waits for ends (`Command::output` has no time limit, harness/src/lib.rs:467). No fairness
is put on commands, crashes, errors or the checkout. `EveryRunEnds` is thus about the control flow: no outcome
leads to a state without a way on.

## 4. Findings

Four places where a statement of the repository is not what the code does. Each is a run TLC
finds violated.

1. *Nonces are not monotonic per account.* `patterns/04-temporary-nonce/optimized/src/lib.rs:11`
   says they are, "exactly the property replay protection needs", and line 8 that entries are evicted
   once they stop being touched. But `set` gives an entry no more time, and nothing calls
   `extend_ttl`: it goes when its time from creation is up, though its account asked for a nonce in
   every ledger, and `unwrap_or(0)` starts over at 1 (`MonotonicWhileTouched` is violated). Checked
   instead (`NoRepeatWhileEntryLives`): what is handed out in the `TTL` ledgers from the creation of
   the entry that an earlier nonce was counted in is larger than that nonce.
2. *Batching configuration adds edges against readers.* `patterns/05-batched-admin-writes/BENCH.md:35`
   says that it reduces edges "against unrelated readers". A reader of one setting and an update of
   others do not conflict on the naive variant; on the batched one every reader and every update do.
3. *`update_bench_md` is not idempotent after a torn write.* `harness/src/lib.rs:394` says
   "idempotently". After a write that was cut behind `BENCH_BEGIN`, an update appends a second
   block and succeeds; the same update again finds the orphaned `BENCH_BEGIN` and the new
   `BENCH_END`, and changes the file. Checked instead: it is idempotent while no write is cut, and
   two updates lead back to one block wherever the file can be read.
4. *Two `bench` commands at once lose the text around the block.* `harness/src/lib.rs:397` says
   "The rest of the file is never touched." `update_bench_md` reads, computes and rewrites without a
   lock or a temporary file. A process that reads after another has emptied the file takes it for an
   empty one; its own write then leaves nothing but the block, and both report success. Checked
   instead (`KeepsTheRest`): one process at a time keeps the rest, however many there are and whether
   they are killed or not, as long as no write is cut short.

## 5. What is proved

All proofs are checked by TLAPS with the SMT backend, Zenon and, for the temporal steps, LS4. They
are for all values of the constants: any number of transactions, accounts, shards, segments,
settings and messages, any widths and any amounts; any patterns, commits, measured numbers and
`BENCH.md` files; batches of any length. The safety of the six contracts on the staged ledger, of
stage planning and of the harness is proved that way as a whole: every safety property of a passing
run is a theorem. What is left to TLC is liveness (see below).

### From the ledger to a contract

Every contract goes the same way from the network's interleavings to its own promises:

1. **Staged execution is serial** (`StagedLedgerProofs`, for any contract whose footprints are
   sound, `LedgerAssumption`): `Spec => []IInv`, `Spec => SerialSpec`.
2. **The contract's footprints are sound**: `FootprintsSound == LedgerAssumption`, a lemma in each
   contract's module. A call that stays in a footprint found on *any* store does on the visible
   entries what it does on all of them, status and return value included.
3. **The contract run serially keeps its promises**: an inductive invariant over the store and the
   receipts, and step by step the refinement of the naive variant.
4. Together: `Spec => []Promise`, for the staged ledger.

So the interleavings are argued once, and the contracts are argued about one call at a time.

**`StagedLedgerProofs`**: `TypeCorrect`, `StagedIsSerial`, `NobodyTurnedDown`.
The invariants are not inductive one by one. What a commit writes back is a store only if the copy
it worked on is one and its footprint is one the call can have; the copy is current only if no other
transaction of the stage may write into it; and that is known of a stage when it opens and has to be
kept while it runs. The inductive invariant is

    IInv == TypeOK /\ Simulated /\ StageConflictFree /\ NoStaleView

where `Simulated` says that a waiting or running transaction's footprint comes from a simulation of
its call on some store, not necessarily the current one. `StageConflictFree` and `NoStaleView` are
the scheduler's doing and hold for any contract, also for one whose footprints are too narrow: they
are parts of the argument, not results about the code, and live with the proof. `NextIInv` has a step for each action.
`CommitIsSerial` is the heart of the refinement: by `NoStaleView` the copy is the visible part of
the present store, so by soundness the run on the copy is the run on the store, and the write-back
is its effect. All other actions are stutters of the serial ledger.

`NobodyTurnedDown` says when retries are never needed. `FixedFootprints` is that what a call touches
does not depend on what is in the store; then by `Simulated` the footprint a transaction carries is
the one its run asks for, on whatever it sees, and `Reject` is never possible (`NoReject`). The
modules of patterns 01, 03 and of the deployment of 02, 04 and 05 prove `FixedFootprints` of their
contracts, so `phase` never is `"rejected"` there. Pattern 06 has no such theorem: `append` finds
its entry through the tail, and what its rejections mean is `RejectionsExplained`.

### Per contract

**`ShardedCounterProofs`** (`CounterAssumption`): `IncrementsCounted`, `IncrementsDistinct`,
`TotalsExact` (an action property), `ShardsAreOneCounter` (refinement of `NaiveCounter` under the
sum of the shards), and the ledger's `TypeCorrect` and `CounterIsSerial` with nothing left to assume
of the contract: here the footprints of `increment` and `total` are known to be wide
enough. Distinctness needs `ToldAtMostHeld`: no increment was told more than its shard
holds now. The exactness of `total()` needs only `CountsEveryIncrement`, because the call is
serial; that it reads shard by shard is what `FootprintsSound` has dealt with.

**`LazyFeeProofs`** (`FeeAssumption`). For the contract by itself: `TypeCorrect`, `FeesConserved`
(`Conservation`), `LazyIsNaive`, from `IInv == TypeOK /\ Conservation`. On the ledger,
`LedgerIsContract` makes every serial step a step of the contract, so that all of this holds there:
`LedgerIsEagerPool`; and with receipts (`LedgerInv` adds `FeesMatchReceipts` and `ToldAtMostPool`,
that no reported total exceeds the pool): `ChargesMatch`, `PoolReportsNeverShrink`. The naive
contract the lazy one refines has a pool limit that no number of operations can reach (`EagerMax`):
with the limit of the lazy contract, the refinement would not hold at the limit, where the lazy
contract goes on operating while the eager pool is full. In the code `i128` is that large next to
`u64` counts and a fee of 5.

**`EventLogProofs`** (`LogAssumption`): `LogIsSerial`, `AppendsAreTheLog`, `EntriesFinal`,
`SegmentsIndependent` (each segment refines `NaiveEventLog`) from

    LogInv == types /\ ToldBelowTail /\ LogIsWhatWasAppended

and `RejectionsExplained`, the one property here that is about the staged ledger itself and not its
serial form: an append is turned down only if a rival got its entry. It is proved from
`StagedLogInv == IInv /\ LogInv /\ FootprintsLag`, where `FootprintsLag` says that the entry a
waiting append is going to write is the one at its segment's tail, or below it. A rejection finds
the two different, so the entry is below the tail, and by `LogInv` somebody's append is in it.

**`DeploymentProofs`** (`DeploymentAssumption`, `AbsentIsNothing`): patterns 02, 04 and 05 side by
side. Soundness is lifted from a contract to the deployment (`SoundWhenOwn`: a call sees and
replaces its own entries only), and each step is shown to be a step of one contract that leaves the
others' entries and receipts alone (`StepEffect`, `DoneSteps`). Then `NoncesUnique`,
`ConfigsNotTorn`, `ConfigsReadWhole`, `BalancesMatch`, `NothingOverdrawn`, `EntriesAreOneMap` from

    DepInv == LedgerTyped /\ NonceInv /\ ConfigInv /\ NoTornConfig /\ BalanceInv

`NonceInv` ties the counter to the number of nonces handed out, `ConfigInv` the stored struct to the
configurations set so far; a balance is tied to three sums over receipts, one of which moves by the
amount of the call that commits (`SumsStep`), two in a transfer, and two that cancel in a transfer
to oneself.

**`NonceAndPlanProofs`**, nonces (`NonceAssumption`): `NoncesDoNotRepeat` for every time to live,
and `CountersAreSeparate`. `NoRepeatWhileEntryLives` is not inductive: it needs `EntryCovers`, that
the entry there is now was created no earlier than any that nonces of its account were counted in. So
while one of those is younger than `TTL`, it is the entry there is, and it has counted up to all that
was handed out of it.

### Stage planning

The same module, for batches of any length of any patterns, users, shards, segments and settings
(`PlanningAssumption`: the number of places is natural, and patterns are the six there are).
A batch only ever has operations of its pattern (`BatchesTyped`), so what is said of batches is
proved of pairs of operations, pattern by pattern (`CounterSpread`, ..., `AdminSpread`):

- `SpreadByHome`: two hot operations always conflict on the naive variant (`Bottleneck`: there is a
  key all of them write), and on the optimized variant if and only if they have the same home;
- `NoneAdded`: two operations that conflict on the optimized variant do on the naive one.

The second gives `ConflictsOnlyGo` (`NoNewConflicts`) without pattern 05, for which finding 2 says
it is false. `OnlyReadersPay` says what is true with it: whatever conflicts anew is a reader with an
update, never two updates.

The first gives the stage counts. `StagesOf` is a minimum over all plans, and both directions are
proved of it. `CliqueBound`: operations that conflict pairwise need a stage each, for a plan is an
injection on them. So a naive batch, where all do, needs as many stages as it has operations
(`NaiveRunsOneByOne`), and an optimized one at least as many as its busiest home has. As many are
enough: the plan that gives each operation its turn among those of its home never has two of one
home in one stage (`BusiestHomeDecides`, `BusiestHomeStages`).

### The harness

**`HarnessProofs`** (`HarnessAssumption`): every safety property of the run `MCHarness`, for any
number of patterns, commits, runs and cut writes, and that a run cannot go round. There are four inductive invariants, each on top
of the one before it, with a lemma per action.

    HInv == ProcessTyped /\ CutsTyped /\ Staged /\ ResultsTrue /\ FilesTrue

gives `TypeCorrect` and `NumbersOwn`. That a file has its own pattern's numbers is
known of the file only because it is known of what is about to be written (`FilesTrue` of `todo`),
which is known because it is known of the result in memory (`ResultsTrue`: its own pattern's
numbers, each side's of some commit, and all of the one that the provenance names unless the checkout
moved), and of results
because each is where its pattern is in the list (`ProcessTyped`). `Staged` says how far the
process is by what `pc` says.

`HarnessUpdates` is the refinement of `BenchUpdates`, step by step (`StepImplements`): emptying the
file is the abstract update (`TruncateImplements`), putting out a piece is a stutter because the
piece moves from `todo` to the file (`WritePieceImplements`), a cut leaves a beginning of what was
intended (`CutImplements`), and everything else leaves `Intended` alone.

`FilesShaped /\ BlocksPut`, proved of `Intended` and therefore across the steps of a write, gives
`RestKept`, `OneBlockOnly`, `SameBlockIsNoOp` and `TwoUpdatesHeal`. `FilesShaped`: a file none of
whose writes was cut is as it was, or is its first text ahead, one block, and its first text behind
(`Around`); and every file is `Mendable`: it has at most one END marker, with a BEGIN somewhere
before it and none after it. The lemmas about `Updated` are where the content is: on `Around` it
replaces the block and nothing else (`AroundUpdated`); what a cut leaves of a mendable file is
mendable (`CutIsMendable`); a mendable file with an END has one whole block after one update
(`EndedIsHealed`), and one without gets an END from the first and is healed by the second
(`MendsInTwo`).

`SaidTrue` gives `TableTrue` and `AllTellsOneStory`: what is printed is nothing, one row of the
pattern that was asked for, or the table of the results, each side with its numbers of some
commit, and all of one commit if the checkout stayed. That summary, exit code and verdicts agree comes down to
`WellFormed`, by which each result is of exactly one kind (`Verdicts`).

`ReportInv == Tallied /\ NamesDistinct /\ Untouched` gives `ReportTrue`. Counters do not say which
pattern was counted as what, so `Tallied` says that an account `o` of the patterns done with exists
that the counters add up and the files bear out (`Tells`). `Untouched` is needed for it: files the
loop has not come to are as the process found them, and what is being written differs from that
and can be read; `NamesDistinct` (of `discover_patterns`) makes sure no later pattern has the same file.

`RunsGetOn` is what of `EveryRunEnds` can be proved: a process has a `Distance` from its end, four
natural numbers (what it still goes through before updating, patterns left, what is to be done with
the present file, pieces left to write), and each of its steps ends it or makes the first of them
that changes smaller (`GetsOn`). Only a checkout can come between, and each is to a later commit. That some
step is always possible, and taken, is what is left to the run that checks `EveryRunEnds`. The
proof needs `HInv`: that nothing is counted twice, for the distance to be natural numbers at all.

Three definitions are written with the proofs in mind. `discover_patterns` puts every entry found
at its place among the ones found, instead of sorting a sequence; `Cuts` is a `SumOver`; and
`KeepsTheRest` compares what is ahead of and behind the block by `SubSeq`, piece by piece. A
recursive operator of the libraries (sorting, selecting from or folding a sequence) could not be
reasoned about.

### Sums

A sum is the cardinality of a set of pairs (`Sums`), and not a fold, so that `SumsProofs` can derive
what is needed of it (`SumOverUpdate`: changing one term changes the sum by the difference;
`SumOverBound`, `SumOverZero`; `NetSumStep`: one more signed term) from facts about finite
cardinalities, without induction.

### Assumptions

TLC evaluates every one on the instance of a run. Counts and limits are natural numbers, sets of
transactions, accounts and shards are finite, `FEE_PER_OP` is natural, a time to live is positive,
and the patterns planned for are among the six (`PlanningAssumption`).
Apart from those, `Absent`, which stands for `None` and for a receipt not there yet, is none of the
values, records or receipts it is told apart from (`AbsentAssumption`, `ReceiptAssumption`,
`AbsentIsNothing`).

`HarnessAssumption` says what the harness's files and reports are: a file, before the first run, has
no measured block or one whole one, and no stray marker (`OneBlock`); the markers, line ends,
fragments and texts are different things and none of them is a block's body; `None` is neither a
number nor a file nor a report; entries and commits are numbers, which stand for the order of names
and of history; and an analysis that goes wrong is one that ends in an error.

### Only model-checked

Liveness: `EveryCallAnswered` and `EveryRunEnds`. Fairness speaks of `ENABLED`, which TLAPS does not
reason about. What is proved towards them: a rejection is paid for by a rival that is done
(`RejectionsExplained`), the other contracts on a ledger have none (`NobodyTurnedDown`), and every step of
a harness process leaves less to do (`RunsGetOn`).

## 6. Not modelled

| Part | Why |
|---|---|
| `slipstream-core` | not in the repository; an analysis is its outcome, a delta or an error |
| column widths in `render_table`, wording of messages and of a block | no property depends on them; a row is its cells, a body is the pattern, signed numbers and provenance it is made from |
| the types of `scan` in `harness/src/model.rs` | no command of the harness calls `scan` |
| `rustc`, `os`, `core@` and the command line in the provenance | the same kind of field as the commit: found out or `unknown`, and printed |
| a working tree that differs from its commit | the checkout is at a commit, and what the analyzer counts depends on the commit alone; within an analysis, each side is read at one commit |
| `BENCH.md` files that a checkout changes | to the harness, a checkout is then one more writer of these files; what such a writer can do to an update is finding 4 |
| tests, mock runner, conformance table | read for what they assert; not part of the program |
| Makefile, Cargo, CI | configuration; the overflow checks of the release profile are the traps of the models |
| overlapping writes of two `bench` commands | what is left of them depends on the file system; reads during a write are modelled |

## 7. Plan

Done, in this order: the host and pattern 01; the staged ledger and its refinement; the other
patterns; planning; the harness; proofs for the staged ledger and for the lazy fee; the JSON
contract, the table and the provenance; two processes on one checkout; four contracts on one ledger;
sound footprints, receipts and refinements of all contracts on the staged ledger as theorems;
nonces for every time to live; every safety property of the harness and its refinement as theorems;
stage counts and conflicts for batches of any length; that nobody is turned down where footprints
are fixed; that a harness process only gets on.

What is left is beyond this prover: the two liveness properties as theorems, which need `ENABLED`.
