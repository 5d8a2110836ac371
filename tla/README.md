# A TLA+ model of hirpdag

hirpdag builds hash-consed, immutable, reference-counted DAGs: a node is
created through a table that answers with the existing node when an equal one
is alive, so that comparing two references compares two structures. This
directory models that machinery and what is built on it (rewriting, archives,
the macro's configuration and expansion), checks it with TLC on small instances,
and proves the handles, every table, the nodes, rewriting, archives, and the
macro's configuration and fingerprint with TLAPS for every value of the
constants.

## The system

| Component | Source | State | Operations | What makes it correct |
|---|---|---|---|---|
| Reference handles | `hirpdag_hashconsing/src/reference.rs` | which handles of a value exist | new, clone, downgrade, upgrade, drop | no use after free; an upgrade succeeds exactly until the value expires |
| Pooled counts | `reference/sepcount.rs` | a (strong, weak) slot per object, a global pool of slots | the same, lock-free; pool alloc and free under a mutex | counts exact under every interleaving; one destruction; no slot leaked or shared |
| Deferred counts | `reference/tlc.rs` | per-thread buffer of decrements | the same, decrements buffered and flushed | no early free, no lost decrement, also at thread exit |
| Arc, Rc, leak | `reference/arc.rs`, `rc.rs`, `leak.rs` | the standard library's | the same | the handle contract |
| Table contract | `table.rs` | the interned objects | get, get_or_insert, reset | equal content, same object |
| Default table | `table/shared_sharded.rs`, `hashmap_fallback_threadunsafe.rs`, `vec_linear_threadunsafe.rs`, `weak_entry.rs`, `shared_mutex.rs` | per shard: mutex, hash map of weak handles, purge limit, fallback vector | the same | linearizable while objects die concurrently; bounded; its assertion holds |
| Sorted fallback | `table/vec_sorted_threadunsafe.rs` | vector sorted by hash | the same | stays sorted; finds every live equal entry of a run of equal hashes |
| Third-party tables | `table/{dashmap,flurry,skipmap,arcswap}_strong.rs`, `tov_weak_table_threadunsafe.rs` | a collection of strong handles (weak ones in `tov_weak_table`) | the same | one winner per content; no update lost |
| Nodes | `hirpdag/src/base/reference.rs`, generated code in `hirpdag_derive/src/lib.rs` | per node: data, metadata, creation id; a global id counter; a table per type | spawn, clone, deref, drop, reset | pointer equality is deep equality; ids order dependencies |
| Metadata | `hirpdag/src/base/meta.rs` | count, height, flags | zero, increment, add_flags, fold, sum | saturating sums equal the saturated total |
| Rewriting | `hirpdag/src/base/rewrite.rs`, generated code | a builder, the calls of a rewriting, a memo cache per rewriter | builder, set, build, new, rewrite, default_rewrite | the result is that of rebuilding the whole tree; it is reached |
| Serialization | `hirpdag/src/base/serialize.rs`, generated code | two thread-local sessions, the archive | collect, serialize, deserialize, their guards | children first, sharing preserved, errors leave no session behind, malformed input is refused |
| Macro configuration | `hirpdag_derive/src/config.rs` | the configuration so far | parse, presets | the last argument that says something about a field decides it |
| Macro expansion | `hirpdag_derive/src/lib.rs` | the registered types, the generated code | one step per item, then the module's own items | generated code is complete; equal fingerprints mean equal layouts |

Nodes call their type's table; the table holds weak handles and creates, upgrades
and compares objects through the handle traits; a destructor of a node drops
the handles of its children, without any table lock. That last sentence is
where most of what is hard here comes from: **drops take no lock**, so
everything a table looks at may die while it looks.

## Modules

| Module | Models | State and actions in terms of the code |
|---|---|---|
| `Reference` | traits `Reference`, `ReferenceWeak` | Sets of strong and weak handles per object, and the object's fate: live, expired (no upgrade can succeed any more), dropped; an action per trait method and per drop. The abstract specification of every handle type. |
| `RefSep` | `sepcount.rs` | `strong`, `weak`: the counters of each slot. `free`, `chunks`: the pool. One action per atomic operation, destructor and pool critical section; `pc`, `obj`, `snap` are the local state of a drop or an upgrade between them. Refines `Reference`. |
| `RefSepProofs` | | The proofs about `RefSep`. |
| `RefTlc` | `tlc.rs` | `map`, `ops_since_flush`, `local`: the thread-local buffer and whether it still exists; `agenda`: the call stack of a flush, as the tasks it has left (apply a drained map, destroy a value, drop its field, release the weak count, free). One action per operation or atomic step. Refines `Reference`. |
| `RefTlcProofs` | | The proofs about `RefTlc`. |
| `Interning` | trait `Table` | Call, effect (`Find`, `Miss`, `Create`) and return of each operation. The abstract specification of every table. |
| `WeakTable` | default table | `lock` per shard, `m` (hash to object), `fallback`, `purge_at_len`; one action for each step a thread takes inside the lock that a concurrent drop can separate: probing the map entry, comparing, each entry of the fallback, creation, each entry the purge visits, insertion. Refines `Interning`. |
| `WeakTableProofs` | | The proofs about `WeakTable`. |
| `Meta` | `meta.rs` | Pure operators with the saturation of the code. |
| `TableClient` | callers of any other table | The threads, their handles and calls, and the objects that expire when the last handle goes: what the next two modules share. |
| `CollectionTable` | `dashmap_strong.rs`, `flurry_strong.rs`, `skipmap_strong.rs`, `arcswap_strong.rs`, `tov_weak_table_threadunsafe.rs` | `map` (content to object), `current` (the map an ArcSwap writer copies), `lock` (a bucket, a writer or a mutex); one action per method the code calls on the collection: the fast-path lookup, the entry, the second search, the recheck, creation, insertion, the insertion that loses. `backend` says which table it is. Refines `Interning`. |
| `VecSorted` | `vec_sorted_threadunsafe.rs` in a `TableSharedMutex` | `vec`, and of each call where its binary search landed (`idx`) and which entry it looks at (`pos`); one action per entry looked at, because it may expire before. Refines `Interning`. |
| `Tables` | | Either of the two, chosen at the start: the composition that is checked. |
| `TablesProofs` | | The proofs about `CollectionTable`, `VecSorted` and `Tables`. |
| `Dag` | `base/reference.rs` and generated code | Nodes known by reused addresses; `counter` is HIRPDAG_CREATION_COUNTER; a call takes its id on a miss (`Miss`) and inserts afterwards (`Insert`), as `creation_meta` runs before insertion. A call of `hirpdag_reset_tables` is an actor, `at` the type and shard it empties next (`BeginReset`, `ResetShard`); `began` and `settled` remember the counter at a reset, for `FreshStart` only. |
| `DagProofs` | | The proofs about `Dag`. |
| `Heap` | what `Dag` shows to code above it | `node`: the data of each node that lives; interning and expiry in one step each. |
| `HeapProofs` | | What holds of the heap and of the structure below its nodes, whoever uses it. |
| `Rewrite` | `rewrite.rs`, the generated builders, `new`, `default_rewrite`, `HirpdagRewriteMemoized` | `builder`; `stack`, the `default_rewrite` calls a thread is in with the fields each has rewritten; `answer`; `cache`. One action per call and return. |
| `RewriteProofs` | | The proofs about `Rewrite`. |
| `Serialize` | `serialize.rs` and the generated serialization items | `stack`, the entry points a thread is in; `ser` and `de`, its sessions; one action per node encoded or decoded, per part of the archive (one no reader knows is ignored, `IgnorePart`), and per way to end; `Malformed` is when nothing a reader can do next applies, so no call can be stuck. |
| `SerializeProofs` | | The proofs about `Serialize`, and about `Expand`. |
| `Config` | `config.rs` | Pure operators: the parse of an argument, the presets, the overrides. |
| `Expand` | `hirpdag_derive/src/lib.rs` | The loop over the items of a module with the types registered so far (`types`) and the names the generated code defines and uses; `builds`, the modules that expanded. Its specification is `ExpandSpec`, named so that `SerializeProofs` can extend it and `Serialize`. |
| `MC*` | | Constants for TLC. |

Modelling decisions that hold throughout:

* Handles travel between threads; any thread may drop any handle it has at any
  moment. Ownership (which handles exist) is modelled state although the
  program never reads it, because Rust's type system enforces it.
* Atomics are sequentially consistent. Every counter is changed by
  read-modify-write operations only; the release decrements and the acquire
  fence before a destructor order it after all other uses. Weaker orders are not
  explored.
* A strong handle that exists only during an expression (`retain`'s test, the
  assertion's) is part of the step; one that lives across a comparison is
  `temp`, and it may be the last handle of its object when dropped.
* Hash functions are constants, chosen so that contents collide.
* A panic (`assert!`) is a state, `panicked`; that no thread reaches it is
  `NeverPanics`.
* The collections of other crates are taken by the contract of the methods that
  are called: each takes effect at an instant; `try_insert` and
  `get_or_insert_with` store nothing over an entry; `entry` locks the bucket;
  ArcSwap's `store` publishes, and its writers exclude each other by the code's own mutex; `clear`
  removes entry by entry. What the code builds from these calls, in which order, is modelled.
* `binary_search_by` returns any position of a run of equal hashes, as its
  documentation says.
* `Heap` interns in one step. `Dag` and the refinements of `Interning` justify
  this: a call takes effect at one instant, and what it answers is canonical. A
  node stands for its creation id too.
* User code that the library calls back is one representative with the power that
  matters: a rewriter that relabels leaves and recurses elsewhere, a normalizer
  that replaces a node by a child, a field type that calls the entry points
  again, fails, or drops handles while it is being (de)serialized.
* Sessions of serialization are thread-local, and threads share only the tables,
  so one thread is checked in `serialize`; the theorems are about any number.
* `postcard` and `serde_json` give back what they were given. Which inputs they
  refuse by themselves is not modelled, except that an input ends early, has a
  field twice, or (JSON only) goes on behind its end. A JSON archive is an object;
  the sequence form the derived code accepts as well has the order of the binary one.
* Generated code is the set of the names it defines and of those it uses. FNV-1a is
  injective in the model: two texts with one fingerprint are one text. Fields
  carry no serde attributes.

## Runs

| Run | Question | Bounds, and why they are enough |
|---|---|---|
| `ref_sep` | Are the pooled counts exact under every interleaving, and do they implement the contract? | 2 threads, 2 objects, 3 handles, chunks of one slot, at most 2 chunks: two drops of one object race while an upgrade is between load and exchange; the second object recycles the first one's slot or makes the pool grow. Counters up to 5, above handles + 1 as the code requires of its users. |
| `ref_tlc` | Do buffered decrements free nothing early, lose nothing, implement the contract, and free everything once all threads exited? | 2 threads, 2 objects, one of which may be a field of the other, 3 handles; a flush is due at the third operation or the second entry, so each threshold is met without the other, also inside a running flush. |
| `weak_table` | Does the default table intern, with objects dying at any step? | 2 threads, 3 objects, contents u and v colliding and w not, one shard, purge limit from 1: a dead main slot above a live fallback entry, dead fallback entries, a purge that removes and one that keeps. Symmetric in threads and in the colliding contents. |
| `weak_table_resets` | The same with two shards and resets at any time; does every critical section end? | 2 threads, 2 objects. |
| `tables` | Does every other table intern, with racing calls, dying objects and resets? | 2 threads, 3 objects, contents u and w colliding and x hashing below them; the vector grows to three entries, two of which collide, or is reset while it has at most one; the maps see two objects and two contents (`MCBound`), enough for a race and its loser. Symmetric in threads and in the colliding contents. |
| `dag` | Is pointer equality deep equality, and are ids and metadata right, with concurrent spawns and drops? | 2 threads, 3 addresses, 5 creation ids, a leaf and a binary inner label: addresses are reused, a leaf dies and returns under a new id, a three-level structure saturates both counters (at 4 and 2). Symmetric in threads and addresses. |
| `dag_resets` | While threads intern, the tables are emptied shard after shard and type after type: does construction start afresh, and is every unreachable structure freed? | 1 thread and 1 call of `hirpdag_reset_tables` beside it, 2 types with 2 shards each, 3 addresses, 3 ids: a lookup that missed before the reset is under way while other shards are emptied and its own is waited for; a leaf is built again beside its old self; a parent may have children from both sides. |
| `rewrite` | Does a rewriting that shares, keeps and reclaims nodes compute what rebuilding the tree computes, and return? | 2 threads, one of them memoizing, 8 addresses; a rewriting starts with at most 3 nodes, a build with at most 2 (`HasRoom`): leaves that are relabelled to each other, an inner node with an enum field that a normalizer may collapse, a shared child. |
| `rewrite_memo` | Expected violation: a memoizing rewriter has its result in the cache once it answered. | As `rewrite`. |
| `serialize` | Do sessions never leak or mix, do structure and sharing survive, and are exactly the well-formed archives accepted? | 1 thread, 6 addresses, calls nested twice (a serializer that serializes or deserializes, and the reverse), one archive of its own, and sixteen foreign ones: another schema or version, cut off, references forward, out of range and to another type, a part twice, parts in every order, fields nobody knows, text or bytes behind the end. A foreign archive is read while there is room for one more node (`Readable`). |
| `macro` | Is the configuration the one asked for, and does the fingerprint fix the layout? | Modules of up to 2 of 14 items (fields retyped, renamed or swapped, roots marked differently, enums, refused items), up to 3 arguments, 2 builds compared. |
| `macro_enums` | Expected violation: generated code uses only what it or an imported crate defines. | As `macro`. |

Every property is broken by a mutant of the code listed in `PROJECT.json`: a
dropped lock, an off-by-one, a blind store in place of a compare-exchange. The
operators the mutants use stand next to the definitions they would replace and
are used nowhere else.

## Fairness

* `RefSep`: a thread that started the final part of a drop finishes it
  (`WF(Finish(t))`); nothing in it waits. The upgrade loop gets no fairness: a
  compare-exchange loop may lose every race.
* `RefTlc`: a drop, a flush or a thread exit that has begun runs to its end
  (`WF(Work(t))`). Nothing makes a thread flush or exit; `FreedAtExit` is about
  threads that did. (Rust does not promise to destroy the main thread's
  thread-locals: what its buffer holds at the end of the process is never
  freed, and the process is over.)
* `WeakTable`: a thread inside a shard's lock keeps being scheduled
  (`WF(Inside(t))`). Acquisition gets none, `std::sync::Mutex` is not fair.
* `Rewrite`: a rewriting under way goes on (`WF(RewriteStep(t))`): it is a sequential
  computation, and nothing in it waits.
* `Dag`: the destructor of an object without handles runs
  (`WF(Expire(n) \/ Destroy(n))`): it is the rest of the drop that made it so.

## Proofs

`RefSepProofs` proves, for any finite set of handles below the limit of the
counters and any numbers of threads, objects and slots, every safety property
of the run `ref_sep` including the refinement of `Reference`. The properties
are not inductive by themselves: the inductive invariant `IInv` adds that the
slots of objects are distinct, that every slot an object holds was allocated,
that an unfinished drop refers to a dropped last handle, and that data is there
exactly until its destructor ran (`SlotsUsed`, `LocalOK`, `DataOK`).

`RefTlcProofs` does the same for the deferred counts: for any finite numbers of
threads, objects and handles and any thresholds, every safety property of the
run `ref_tlc` and the refinement of `Reference`. A counter is the number of
handles plus what all buffers and all drained maps defer (`Exact`); a
sum over a map of counts is the cardinality of a set of units, which a step changes
by one. What makes this inductive: a task of a destruction that has begun is at one place of one
agenda (`AgendaOnce`), the release of the weak count right behind the destructor (`AgendaOK`); a
counter at zero stays there, because whatever could change it (a handle, a deferred
decrement, an upgrade whose exchange expects a positive count) implies that it is not zero
(`Valid`, `LifeOK`, `UpgradeOK`); and a buffer never has more units than operations since its
last flush, nor as many entries as make a flush due (`BufferOK`). A destructor drops a field, whose
decrement may start a flush inside the flush: an agenda has any length, and the
argument is about all its tasks alike.

`WeakTableProofs` proves, for any numbers of threads, shards and contents and
any hash function (contents may all collide), every safety property of the run
`weak_table` and the refinement of `Interning`. The assumption
is `TableAssumption`. The argument: between two steps of a lookup any object
may expire, but none can appear in its shard, whose lock it has (`LockOK`). Every
live object the table knows is where a lookup for it looks (`Findable`,
`PlacedOK`), so the objects a lookup must not miss lie ahead of its position in
the fallback once the map entry is ruled out (`ScanOK`); at the end there is none
(`Absent`), and the entry it saw vacant or dead is still so when it is overwritten
(`VacancyOK`), which is the assertion in the code. That contents occur once
among live objects (`Unique`) follows, hence `HashConsing`, and with it the refinement: a call takes
effect at its comparison, at the end of its scan, or at its insertion.

Its second part is the bound of the maps. A purge visits entries while
objects expire, so what it keeps need not be alive when it ends; the invariant is that the
entries kept so far, and those it would keep now, are no more than the objects that
were alive together when it began (`PurgeOf`). Doubling then leaves room for the entry
the purge makes way for (`RoomOf`), also when nothing was kept, because
PURGE_LEN_MIN is not 0.

`TablesProofs` proves every safety property of the run `tables`, the refinement
included, for any numbers of threads, contents and objects, any hash function,
and with resets at any time. It has three parts.

The first is about the five tables on third-party collections, and splits by
what excludes a call from others. Where a bucket, a mutex or the writer lock is
kept from the last look to the insertion, the content is still absent and the
snapshot still current (`MapLockOK`). The lock-free maps keep nothing: there the
insertion itself decides, and it loses exactly when the content is there. An
object that its creator has not inserted yet is in no other thread's hands
(`MapPendingOK`), so one that loses never existed for any caller. `MapKnown` and
`MapFindable` say the map and the known objects are the same thing.

The second is about the sorted vector, for any choice of the binary search within a run.
The invariant: entries below the position found have no greater hash and those
from it on no smaller one; what the scan has passed does not match and
never will, since a dead object does not come back; and where the hash
changes, everything beyond lies outside the run. That the position of a missing
run, given by a cardinality, splits the vector is a lemma about segments.

The third puts the two together: whichever table `Tables` begins with, its invariant
stays the one of that table, and from either `HashConsing`, `Retained`, `HashSorted` and the refinement follow.

`DagProofs` proves, for any labels, arities and numbers of threads and
addresses, every invariant of the runs `dag` and `dag_resets`. That a live node's children are live (`KidsLive`), that
creation ids decrease along references (`IdsOrder`), and that nodes the tables
know differ one level deep (`ContentsDistinct`) is inductive once it is added that a call that missed
holds its children, has an id above theirs that no node has, and nothing equal
was inserted since (`ArgOK`, `IdOK`, `MissesExact`).

That construction starts afresh after a reset (`FreshStart`) needs an account of a reset half way:
in the shards a call has passed, the nodes, and those about to be inserted, have ids
from after it began (`CallOK`). A thread that missed before the call holds the shard's lock, so
the call waits and then finds its node; one that misses afterwards takes a later id. Every hash
is in one of the shards and every type among those reset (`ResetAssumption`), so at the end
everything is passed. All that was made since a shard was last emptied is in the tables, where
`DeepCanonical` applies.

That pointer equality is deep equality (`DeepCanonical`) and that metadata is
that of the whole structure (`MetaExact`) are statements about recursive functions,
which the prover has no induction rule for. Ids order the structure, and a
set of naturals has a least element (`Least`, from the library's theorem that the
subsets of a finite set are well founded): so the proof takes the node of least
id that would be a counterexample, whose children are none. The same argument
shows that the recursive functions exist at all, from approximations below an
id. For metadata it remains that saturating addition is the saturation of the
sum, whatever the order of the children.

Its last part connects `Dag` with `Heap` (`ShowsHeap`): without resets (`Calls` is empty), the live
nodes of `Dag`, each with its data, are a state of `Heap` with one node for each
data; every call interns in one step, at its lookup or its insertion, and
answers with the node of its data; and otherwise nodes only expire. It holds up
to the choice of an address: `Dag` takes any free one, `Heap` always the same.
What it needs beyond the invariant is that the tables know every live node
(`Remembered`), which a reset would end.

`HeapProofs` is what code above the nodes may use: interning and expiry keep the
heap typed, without cycles and without two nodes of one data (`HeapOK`); the structure below a
node is well defined (`TreeDefined`), tells nodes apart (`TreeInjective`), and is not changed by
interning or expiry of other nodes (`Keeps`).

`RewriteProofs` proves, for any labels, field shapes, relabelling and normalizer of the
kind `Rewrite` describes and any number of threads, that a rewriting returns the
structure that rebuilding the whole tree gives (`RewritesTree`), though it
shares nodes, keeps those that do not change and runs while other threads intern and drop. The
invariant: each call a thread is in is for the next field of its caller's node,
so that all of them live because the input is held (`CallsOK`); the fields rewritten so far,
and an answer on its way back, have the rewritten structures (`ResultOK`); and no live node would be
collapsed by the normalizer, because each was made through `new` (`NoneCollapses`), without which returning
an unchanged node would not be what rebuilding it returns. The memo cache plays no part,
because nothing is ever in it (`Typed` says so; see Findings). `RewriteAssumption` says of user code what the
signatures of its methods do: a relabelling and a normalizer answer with a node of the
type they were given.

`SerializeProofs` proves every property of the run `serialize`, for any types, formats and
archives of others, any number of threads, and calls nested to any depth. The
invariant says of each call how far it has come: one that writes has encoded the first of
the nodes it collected (`WriterOK`), one that reads has a session whose k-th node is what the
k-th entry denotes, and the parts it is done with were sound (`ReaderOK`). That a thread is in at
most one call of a kind (`CallsOK`) is why calls made from a field, and their errors, do
not disturb it. Nodes that a call relies on live: they are its roots, its session, or
children of such nodes, so interning and expiry elsewhere leave them as they are
(`CallsKept`). What hirpdag_collect returns is shown in three steps: it exists, by least
rank; a pass over the fields only adds to the list; the result has every node once,
after its children, and none that the roots do not need (`CollectsRoots`). An archive
denotes trees without any heap (`Denotes`); an entry that says what its node says
denotes the node's tree (`DenotesTrees`), from which the round trip follows in both
directions, and with `TreeInjective` that nothing is written twice. That the well-formed archives
are the ones accepted (`AcceptsWellFormed`) follows the parts a reader is done with: each field was
sound where it came, came once, and the nodes came before the roots that refer to
them; whatever else there is was ignored.

Its last part is about `Expand`. That builds with equal fingerprints lay out
archives alike (`SchemaFixesWire`) holds because an entry of the registered
types is a function of the definition it was made from, which is its part of the
fingerprint (`Fingerprinted`): equal fingerprints are of equal types, and the
layout is a function of the types. That a build uses the last types set after
the last preset (`ConfigExact`) is shown by following the parser argument by
argument. Its loop is a fold; the recursive function in that fold is shown to
exist with `Least`, as in `DagProofs`, and after each argument an override is
the last of its key since the last preset, if there is one (`SetByStep`).
`ExpandAssumption` says that the arguments of a module are a sequence.

The assumptions of all proofs are the `ASSUME`s of the modules, which TLC
evaluates in the runs.

## Only model-checked

Liveness (`EventuallyRecycled`, `FreedAtExit`, `CriticalSectionsEnd`,
`GarbageFreed`, `Returns`) is out of the prover's reach: TLC checks it on the
small instances. Every safety property of a passing run is proved.

The type invariants of `RefTlc`, `Dag` and the tables are in their modules, not
among the properties of the runs; all are part of the proved invariants.

## Findings

* `rewrite_memo`: `docs/TERMINOLOGY.md:148` says `HirpdagRewriteMemoized` caches the
  result of each `rewrite_*` call. The generated `rewrite_X`
  (`hirpdag_derive/src/lib.rs:952`) looks in the cache and never writes to it, and
  the rewriter it wraps recurses into itself and not into the wrapper. Results are
  right; nothing is ever remembered.
* `macro_enums`: a module whose only hirpdag types are enums does not compile. The code
  for an enum implements `HirpdagCollect<HirpdagCollectCtx>`, and
  `get_serialization_items` (`hirpdag_derive/src/lib.rs:1142`) defines that type only
  if there is a struct.

Smaller disagreements, noted while modelling and not checked by a run:

* `vec_linear_threadunsafe.rs:8` says dead entries are retained until the next insert,
  when a slot scan can evict them. The code (lines 36-51) only pushes. As the fallback
  of the default table the vector grows with every collision that dies and comes back.
* `docs/TERMINOLOGY.md:177` says `new` is generated only when a normalizer is given; the
  code generates it exactly when none is (`lib.rs:429`), and the user writes it otherwise.
* A serde attribute on a field, or a field whose type is defined elsewhere, may change the
  layout of archives without changing the fingerprint (`lib.rs:162`).
* `hirpdag_cmp_deep` is documented as independent of creation order
  (`base/reference.rs:104`, `lib.rs:595`). It compares the data with the derived `Ord`, and references in
  the data compare by creation id (`lib.rs:569-582`): nodes that differ in a child are ordered
  by which child was created first. Only the first level is compared. (`DeeplyEqual` is structural
  equality, and no model of this function.)
* `docs/TERMINOLOGY.md:192` gives `TableVecLinearWeak` as the default `table_type`. The default
  preset (`config.rs:34`, `141`) is the hash map with that vector as its fallback, which is what
  `Config` has and `ConfigExact` compares with.
* `serialize.rs:166-168` says another version fails before any nodes are decoded, the version
  being the first field. In JSON the fields come in any order: nodes ahead of the version are
  interned before it is looked at (`lib.rs:1413-1419`). They are reclaimed with the session; among
  the foreign archives of `serialize` is one like that.
* `docs/TERMINOLOGY.md:76` orders ids by when nodes were interned. Ids are taken before insertion, so
  of two unrelated nodes the one inserted later may have the smaller id; `IdsOrder` is about dependencies.
  `docs/TERMINOLOGY.md:48` and `51` call the count the total number of nodes and the height a distance to
  the deepest leaf: shared nodes count once per path, and a leaf has height 1 (`MetaExact`).
* What the code says of a reset (`lib.rs:1094-1098`, `table.rs:108-114`) excepts references interned before it. A
  node made after it from a child made before is no different from these: it and its like
  over the new child are two nodes of one structure. `FreshStart` says what does hold.

## Not modelled, and what is left

* `Arc`, `Rc` and leaked boxes are wrappers of the standard library's; the contract
  `Reference` is what the tables use of them.
* Resets of the tables during a rewriting or between parts of an archive: `Rewrite` and
  `Serialize` are built on `Heap`, which has no reset. What a reset does to nodes is
  in `Dag`.
* Counters that wrap. `CountAssumption` keeps handles below the limit of the counters, as the unchecked
  increments in `sepcount.rs` take for granted; without it `CountsExact` says nothing.
* The end of a reading session drops its nodes while the session's cell is mutably borrowed
  (`lib.rs:1338-1342`). In the model sessions end in one step and destructors run later; a
  destructor of a user's field that comes back to the session at that moment is not modelled.
* `RewritesTree` is about nodes made by `new`. Reading an archive and `spawn` called inside the
  module make nodes past the normalizer; they are in `Serialize` and `Dag`, not in `Rewrite`.
* `basic_traits.rs` has marker traits only. `schema_name`, the text of generated
  tokens and documentation, and error messages have no property about them.

Left out for good: weak memory orders, the benchmarks, formatting, and the internals of the standard library and of the
third-party collections, which are taken by the contract of their methods.
