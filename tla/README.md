# A TLA+ model of AgentStateGraph

AgentStateGraph keeps the state of agents as content-addressed trees with a
history of commits, like a version control system: branches, merges,
speculations that are committed or thrown away, epochs that seal history, and
garbage collection, over a store shared by threads and processes. Nothing but
the store coordinates them. A call is a sequence of storage calls with local
work in between, and most of what can go wrong goes wrong between two of them.

The modules here model that: one action is one storage call and the local work
around it, so clients interleave where the code lets them. Two storage calls
share an action only where what runs between them makes no difference (a commit
and its epoch tag, below), or where the README says so (`Gc`).

## The system

| Part | Where | State | Operations |
|---|---|---|---|
| Repository write paths | `agentstategraph/src/repo.rs`, `tree.rs` | commits, refs | `init`, `set`, `set_json(_cas)`, `delete`, `write_taint_intent`, `set_ref` |
| Branches and merges | `repo.rs`, `agentstategraph-core/src/merge.rs` | refs | `branch`, `delete_branch(_if)`, `merge`, `merge_checked`, `preview_merge` |
| Speculations | `speculation.rs`, `repo.rs` | drafts in memory, pins in the store | `speculate`, `spec_set`, `spec_delete`, `commit_speculation(_cas)`, `discard_speculation` |
| Epochs and seals | `repo.rs`, `core/src/epoch.rs`, `storage/src/sqlite.rs` | epoch rows, tagged and sealed commits | `create_epoch(_scoped)`, `seal_epoch`, `archive_epoch`, enforcement on `main` |
| Garbage collection | `repo.rs`, `sqlite.rs` | objects with write times, pins | `put_object`, `gc_sweep`, pin and unpin |
| History extraction | `repo.rs`, `sqlite.rs` | cursor, history tables, milestones | `extract_history` |
| Leaf index | `repo.rs`, `sqlite.rs` | indexed root and leaves per ref | incremental update, catch-up, rebuild |
| Control ref | `control.rs`, `control_repo.rs` | tables mirrored in a ref | write-through, reconcile, merge of two trees |
| Taint registry | `taint.rs`, `agentstategraph-taint` | taint rows, watches | `taint`, `quarantine`, clear, auto-escalation, pre-commit check |
| Sessions | `session.rs` | session rows | create, `update_head`, end |
| Sync | `sync/*.rs` | two stores, remote refs, shallow roots, push log | fetch, push, receive, pull, bundles |
| Reminders | `agentstategraph-reminders` | reminder rows | create, fire, snooze, dismiss |
| Tasks and plans | `agentstategraph-tasks` | task records in the tree | add, transition, block, renumber on merge |
| Policy engine | `agentstategraph-policy*` | rules | evaluation, signing |
| Migrations | `agentstategraph-migrate` | schema version | run, resume |
| Storage backends | `agentstategraph-storage` | tables | the traits the parts above call |
| Servers and bindings | `-mcp`, `-sync-http`, `-ffi`, `-wasm`, `bindings` | none of their own | dispatch to the parts above |

How they interact: every write path reads a head, stores objects, stores a
commit, tags it to the active epoch, checks seals and moves a ref by
compare-and-swap. Merges and speculation commits do the same from a tree they
read earlier. A sweep decides what to delete from refs, seals, pins, milestones
and object ages, all of which those calls are changing. The control ref, the
leaf index, sync and the task layer sit on top of the same write paths.

What makes it hard: lost compare-and-swaps and their bounded retries; reads
before a move that are stale when it happens; checks separated from the write
they guard; objects stored before anything refers to them; a process that dies
anywhere, its commits, tags and pins left behind; time limits that must outlast
the calls they protect. `PROJECT.json` lists these hazards at the lines where
they bite, with the properties that would catch each.

## Modules

| Module | Models | Role |
|---|---|---|
| `StateMerge` | trees as functions from paths to values, `tree_set`, `merge_maps` on leaves, the equal-roots test that answers FastForward | used by all the others |
| `Repository` | the write paths, branches, merges, speculations and epochs | the detailed specification |
| `AtomicBranches` | what a caller is promised: each call acts on its ref at one instant | abstract specification that `Repository` implements |
| `MCRepository` | model values for the runs of `Repository` | |
| `RepositoryProofs` | type correctness, lost updates, seal safety, finality of seals | proofs |
| `Gc` | objects with ages, the calls that store them, pins, extraction and the sweep | model-checked |
| `MCGc` | model values for the runs of `Gc` | |

### Repository

State. `last`, `root`, `anc` and `gen` are the commits: numbered as they are
stored, each with its tree, its ancestors (what `reachable_commits_from` walks)
and its generation. `refs` is the refs table of one namespace. `status`,
`member` and `sealed` are the epochs. `pc`, `job`, `work` and `attempt` are a
client's call in flight: its next storage call, its arguments, what the current
attempt has read and built, and the compare-and-swaps it has lost. `draft` is its
open speculation. `landed` is a history variable: the commits whose writers were
told Ok, per ref.

Actions. `ReadHead`, `ResolveHead`, `CreateCommit`, `CheckSeals`, `MoveBranch`,
`MoveAnyway` and `LoseRace` are the steps of the retry loop in `set_inner`,
`delete_inner` and `commit_speculation`; `SetCas`, `CommitSpecCas` and `SetRef` enter it with a head
of their own; `MergeKind`, `MergeSource` and `MergeTarget` are `merge_checked` and
`compute_merge`; `InitRead`, `ForkRead` and `CreateRef` create refs if absent;
`SealRead` and `SealWrite` are the two halves of `seal_epoch`. `Crash` ends a
client's call anywhere and leaves what it stored.

`head_for_write` may read the ref twice: `ReadHead` (for merges `MergeKind`) is its
own `get_ref`, and `ResolveHead` the one in `resolve_ref` that follows when the
first found nothing. A ref created between the two makes a *late* write: it builds
on a branch it takes for a commit hash, and moves it without comparing
(`MoveAnyway`). `create_commit` stores a commit and tags it to the active epoch in
two storage calls, one action here: the tag is written only if the epoch is still
Active, so a seal between the two is a seal before both.

A tree and its root id are the same value, because ids are content hashes.
`find_common_ancestor` takes the common ancestor of greatest generation and
breaks ties by hash, so any of them may be taken.

### AtomicBranches

A ref holds a state and a call has one effect on it (`Apply`, `Create`, `Drop`,
`Rewind`), or fails and changes nothing. The refinement mapping is `Abstract` in
`Repository`: a ref's state is the tree of the commit it points at. A merge or
fork may use a source read earlier (its snapshot), which is what the code
promises; its target may not be stale. `ApplyLate` is the exception: a client that
saw a name without a ref (`Miss`) may then read it once (`ReadBase`) and apply its
effect to what it read. `Spec` allows that for commit hashes only, which is what
`head_for_write` documents; `LateSpec` for any name, which is what it does. The
merge base is left open here: that a merge keeps what both sides did since the
base the code picks is `MergeKeepsWork` of `Repository`.

### Gc

An object is a tree's root node or a value, and `age` says how long ago it was
written, `Absent` if it is not stored. A write stores the value (`SetValue`), then
the tree (`Build`), the commit (`PutCommit`) and moves the ref (`Move`); a merge
reads its source and its target in two steps (`MergeSource`, `MergeTarget`). Refs
written here exist, so `head_for_write` is one read (`ReadHead`). A sweep
(`Sweep`) may come between any two, and between a speculation's change
(`SpecSet`) and its pin (`Pin`). A sweep holds the store's write lock from its
keep-set to its last delete (`GcWriterLock`, `BEGIN IMMEDIATE`) and is one step.
`Tick` is the passing of time. Stamps become ages, capped once they are past
every limit.

Two assumptions about time are made explicit. `TimeAssumption`: a call takes at
most `WriteTime` from the first object it stores, and WriteTime + FreshenAfter
is at most Grace (with the code's ten minutes of grace and one of freshening: a
call takes less than nine minutes). And a speculation does not stay open for
`PinAge` (24 hours) without a change; the code lets such a speculation's pins
expire. `Seal` is one step here; its race with other writers is `Repository`'s.

## Runs

| Run | Checks | Shows |
|---|---|---|
| `writes` | `TypeOK`, `MainKeepsLanded`, `SealedReachable`, `SealFinal`, `AtomicEffect` | on an initialised store two clients set, delete, record intents, create, seal and archive an epoch over main, one of them dying anywhere: no acknowledged commit leaves main, main keeps every sealed commit, a seal never changes, calls are atomic |
| `branches` | `MergeKeepsWork`, `AtomicUnlessLate` | a client forks and merges (with and without the deletion guard) while another writes both branches: a merge lands on what its target holds when it lands, and keeps what either side did since their fork |
| `creations` | `LossesExplained`, `Termination` | from an empty store, `init`, `branch`, `merge`, `set_ref` and intents race over the creation of two refs: an acknowledged commit leaves its ref only by a late write or a lossy merge, and every call ends |
| `specs` | `LandedReachable`, `AtomicEffect` | speculations committed with and without compare-and-swap, against `set_json_cas`, `set_ref`, branch deletion and writes to a commit hash |
| `gc` | `TypeOK`, `TipsReadable`, `CheckpointsReadable`, `SpeculationsKept`, `SealedKept` | checkpoints, seals, speculations and crashes with sweeps at any point: what refs, checkpoints, speculations and sealed epochs hold stays stored |
| `gc_merge` | `TipsReadable`, `ForkPointsReadable` | writes, deletions, forks, merges and branch deletions on three branches with sweeps at any point |
| `create_race` | `LandedReachable`, violated | see Findings |
| `fast_forward` | `LandedReachable`, violated | see Findings |
| `seal_race` | `SealedReachable`, violated | see Findings |
| `plan_seal` | `MainWritable`, violated | see Findings |
| `gc_fork` | `TipsReadable`, violated | see Findings |
| `gc_policy` | `CheckpointsReadable`, violated | see Findings |

Bounds. Two clients, because every race here is between one call and one other
that lands inside it; what each of them calls is chosen per run (`Ops1`, `Ops2`)
so that the calls that can disturb each other meet. `MaxCommit` 3 or 4 is enough
for the initial commit, one on each side and a merge of the two; `writes` has 5, so
that a writer can lose twice and give up. `MaxAttempts` 2 (256 in the code) lets a
call lose, retry and give up. In `creations` a fast-forward merge stores no commit,
and `set_ref` can beat it any number of times: only the bound on attempts ends it. One value and one or two paths distinguish a path that was
kept from one that was changed or removed; two paths are needed for a merge
without conflict. In `Gc`, Grace 1, FreshenAfter 0 and WriteTime 1 make
`TimeAssumption` tight, so that one tick less of grace would lose objects, and
the retention policy keeps no recent commit and no sparse checkpoint, so that a
sweep takes as much as a policy with `keep_milestones` lets it; `gc_policy` turns
that off as well. With FreshenAfter 1 the state space is out of reach. Calls may stop at the bound on commits, so deadlock is not
checked; `Termination` is what says that calls end.

Fairness. `FairSpec` assumes weak fairness of `Step(c)`: a thread inside a call
keeps running. It is not assumed to start calls, nor to be alone, and a client
that crashes is back at idle. Nothing else in the code is scheduled. `Termination`
excuses a call only when the modelled store is full.

The `gc_merge` run has the branches that are forked and merged from written by
the client that does so. Without that, `gc_fork` is what happens.

## Findings

- `create_race`. `repo.rs:3660-3662` says "Every read-modify-write of a ref goes
  through here. An unconditional move built on a stale head discards every commit
  that landed since". A write whose ref is created between the two reads of
  `head_for_write` does not go through there: it moves the new branch
  unconditionally, off what others landed on it.
- `fast_forward`. `merge.rs:30` says "Fast-forward: one side is an ancestor of
  the other.", but a fast-forward is decided by comparing state roots. When the
  target has only gained commits that leave its tree as it was (intent-only
  commits), the merge moves it to the source commit and drops them.
- `seal_race`. `repo.rs:184-186` says that "ref updates that would orphan a sealed
  commit are rejected". `guarded_set_ref` checks and moves in two storage calls,
  and a seal written in between is orphaned.
- `plan_seal`. `epoch.rs:97-98` says the sealed commits are "Commits that must
  remain reachable from main", "Populated by `Repository::seal_epoch` from the
  then-current main chain." For a plan epoch they are the commits tagged to it,
  and a commit is tagged before its compare-and-swap. One that lost is sealed,
  and main then refuses every write.
- `gc_fork`. `repo.rs:230` says "Ref tips, sealed-epoch commits, and milestones are
  always kept regardless of this policy." `branch` reads its source's head and
  creates the ref in two storage calls. If the source moves on and a sweep runs
  in between, the new ref points at a tree whose objects are gone.
- `gc_policy`. The same sentence promises milestones to every policy, but
  `gc_keep_roots` keeps them only if `keep_milestones` is set.

## Theorems

All are proved by TLAPS for every value of the constants that satisfies the named
assumptions `NoValueAssumption` and `ConstantsAssumption`: any number of clients,
refs, paths, values, epochs, commits and retries.

- `TypeCorrect` (`RepositoryProofs`): `Spec => []TypeOK`. `TypeOK` is not
  inductive: a move needs the commit it moves to be stored, and a commit needs its
  parents' ancestors. `Inv` adds that ancestor sets are closed (`Dag`), that refs
  point at stored commits (`RefsStored`) and what a call holds at each of its steps
  (`ClientOK`). There is one lemma per action.
- `NoOtherLosses`: `Spec => LossesExplained`, with every operation allowed. A step
  takes an acknowledged commit off its ref only as a late write or as a merge whose
  result does not descend from the target's head. `BuiltOnHead` is what makes it
  inductive: a call other than a merge that is about to compare-and-swap a branch
  has a commit that descends from the head it will compare with. `Fate` says what
  each step may do to a ref, and has one lemma per action. `create_race` and
  `fast_forward` show that both exceptions happen.
- `NoLostUpdate`: `Spec => []MainKeepsLanded`, once init has run and when no client
  merges. `MainInv` is the argument: main is never deleted, so no write through its
  name reaches the second read of `head_for_write`, and only `set_ref` moves it
  without comparing. On a store not yet initialised the statement is false
  (`create_race`), with merges too (`fast_forward`).
- `SealSafety`: `Spec => []SealedReachable`, once init has run, when clients neither
  merge nor call `set_ref` and epochs seal main. `SealInv` adds that what a sealing
  client has read stays covered by main until it writes it. `create_race`,
  `fast_forward`, `seal_race` and `plan_seal` show why each assumption is there.
- `SealsAreFinal`: `Spec => SealFinal`, with every operation allowed.

Only model-checked: `Termination` (liveness is out of the prover's reach),
`AtomicEffect`, `AtomicUnlessLate`, `MergeKeepsWork` and everything about `Gc`.

## Not modelled

`PROJECT.json` lists every part with its status. Out of scope: the servers,
bindings and wire formats (no state of their own), telemetry, parsing, hashing and
diffing (sequential and pure), and the SQL backends beyond what one call does
atomically, which is taken from SQLite. Within `Repository`, one namespace is
modelled; `preview_merge` changes nothing; taint pre-checks and the leaf index of
the same file await their modules. Within `Gc`, a vacuum changes no object, a
batch of extraction runs to its end, and `set_ref`, writes to a commit hash and
`history_unpin_legacy_milestones` are left out.

## Plan

In this order, each module with a run of its own.

1. `ThreeWayMerge`: `merge.rs` on nested maps, lists and sets as a recursive
   operator, compared with a path-wise reference on all small trees (TLC only).
2. `ControlRef`: tables written through to the control ref, reconciled with it
   and merged; crashes between table and ref. Merging is commutative and
   idempotent by rank; reconciliation loses no row.
3. `Sync`: two stores, a ref pushed and fetched over calls whose replies are
   lost; a receiver's ref never points at what it does not have, a push retried is
   a push done once.
4. `Taint` with the write paths: escalation happens once, a quarantined path is not
   written by calls that start after.
5. `LeafIndex`: an index claims a root only if its leaves are that root's.
6. `Tasks`, `Reminders`, `Sessions`: life cycles under concurrent updates.
7. Proofs: `TipsReadable` of `Gc` for clients that neither fork nor merge, for
   every grace period that satisfies `TimeAssumption`; that `Repository` without
   merges implements `AtomicBranches`; that the control merge is a join.
