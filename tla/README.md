# A TLA+ model of tue

tue is a Go framework for browser applications: a compiler turns `.tue` single-file components into Go, a runtime
mounts the components and keeps the DOM up to date through a reactive graph, and the `tue` command checks, formats,
builds and serves projects. This directory models the parts of it whose correctness depends on the order in which
things happen, model-checks them with TLC, and proves the central invariants with TLAPS.

    tlc -workers 2 -config Reactivity.cfg MCReactivity     # one run; PROJECT.json lists them all
    tlapm ReactivityProofs.tla                             # one proof module

## 1. The system

| Component | Source | State it keeps | Operations |
|---|---|---|---|
| Reactive core | `reactivity.go` | values, dirty flags, the two ends of every dependency edge, the stack of running subscribers, the scheduler's queue, batch depth and flushing flag | `Get`, `Set`, `Watch`, `Batch`, stop |
| Resource | `resource.go` | value, error, loading, run number, stored `CancelFunc`, stopped; one goroutine per load | `Reload`, `Value`, `Error`, `Loading`, cleanup |
| Component lifecycle | `runtime.go`, `mounting.go`, `mount.go`, `comp.go` | scope stack, cleanups, mounted tree, render effect, lifecycle hooks | mount, update, unmount, hooks |
| Patching | `patch.go`, `vnode_type.go` | the tree of mounted nodes and their DOM nodes | keyed and unkeyed reconciliation |
| DOM boundary | `mount_js.go`, `event.go` | listeners, `js.Func` handles | DOM calls, event handles |
| Router | `router*.go` | routes, current match, location subscription | `Navigate`, match, hash listener |
| Broadcaster | `internal/cli/dev.go` | current event, clients and their channels | `publish`, `subscribe`, `unsubscribe`, `serveWebSocket` |
| Dev server | `internal/cli/dev.go` | snapshot, `dist/`, the pages' client script | `serveDev`, `watchDevProject`, build, diff, classify |
| Command line | `internal/cli/cli.go`, `cmd/tue` | none | `check`, `build`, `fmt`, `dev` |
| Formatter | `internal/cli/fmt.go` | none | check or rewrite a list of files |
| Parsers | `internal/compiler/{sfc,template,script}` | none between calls | blocks, template trees, script declarations |
| Checker | `internal/compiler/{checker,typecap}` | diagnostics, scopes | check nodes, attributes, directives, expressions |
| Code generation | `internal/compiler/gogen` | diagnostics, locals, the asset pipeline | render templates, name assets, styles |
| Production output | `gogen/production.go`, `gogen/write.go` | `.tue-cache/`, `dist/` | remove, write, `go build` |

How they interact:

* A component's render function runs as a watcher of the reactive core. What it reads subscribes it; a `Set` queues it;
  the flush re-renders and patches. Hooks, event handlers, effects, computed functions and the function of a `Batch`
  are user code that calls back into the library at any depth.
* A resource notifies the reactive core from a loader goroutine. Its getters track, its cleanup is registered in
  the scope of the component.
* The router holds its current match in a reactive state.
* The dev server's watcher goroutine calls the compiler, writes `dist/` and publishes to the broadcaster; one goroutine
  per browser connection writes events to a WebSocket; a script in the page acts on them and reconnects.

What is hard, and the properties that make each part correct:

* **Reactive core** - one thread, but full re-entrancy: an effect may `Set`, `Batch`, `Watch` and stop anything,
  itself included, while notifications and flushes are suspended below it. Both ends of an edge must agree, a queued
  watcher must wait in exactly one place, no update may be lost or done twice, a clean computed must be current, a
  batch must defer, a stopped watcher must stay stopped.
* **Resource** - loads overlap, finish in any order and race with `Reload` and cleanup between critical sections. Only
  the latest may publish, every context must be cancelled once and none that is in flight, and no notification may
  fall between two getters.
* **Broadcaster** - subscribing races with publishing, leaving with sending; buffers fill up. Events must arrive in order
  and once, the last must not be missed, the publisher must not be blocked, nothing may leak.
* **Dev server** - files change while they are read, builds fail half-way, pages load and reconnect at any time.
  Every change must be built, a failure must be shown, pages must come to show the latest build.
* **Component lifecycle and patching** - re-entrant rendering, stale cached nodes, errors in the middle of a
  mount.
* **Checker and code generation** - the same rules are written twice, over scopes that nest and shadow. What the checker
  accepts must be generated and compile, because `dist/` is gone by the time Go reports an error, and the generated
  code must render what the template says.
* **Production output** - a sequence of file operations over what earlier, perhaps interrupted, builds have left,
  while the project is edited. A rejected build must not cost the last one; a finished one must be whole.
* **Router, formatter, parsers** - pure algorithms with boundary cases; little state.

`PROJECT.json` lists every hazard at its line, with the properties that cover it or the reason none does.

## 2. The modules

### Reactivity, MCReactivity, ReactivityProofs, FreshnessProofs

`Reactivity` is `reactivity.go` as a stack machine. `stack` holds the suspended activations: `batch`, `run` (an effect)
and `compute` frames are user callbacks; a `notify` frame is the loop of `dependency.notify` with the subscribers it has
left; a `flush` frame is the loop of `flushSubscribers`. When a user callback or the program itself is on top, any
operation may be called.

| Model | Code |
|---|---|
| `version` | `StateValue.value`, as the number of Sets |
| `dirty`, `deps` of a computed | `ComputedValue.dirty`, `.deps` |
| `subscribers` | `dependency.subscribers` |
| `phase`, `queued`, `deps` of a watcher | `watcher.stopped`, `.queued`, `.deps` |
| `pending`, `flushing`, `batchDepth` | `scheduler` |
| `round` | the local slice of `flushSubscribers` |
| `subscriberStack` | `subscriberStack` |
| `obs` | not in the code: the `<<state, version>>` readings a subscriber's result is computed from |
| `overtaken` | not in the code: a reading was lost for good, see below |

`obs` is what lets the model say "fresh" and "stale": a subscriber is current when no state in `obs` has been Set since.
It is cleared when a subscriber is started, so it only grows while the subscriber runs. `notify` ranges over a Go map, so
the order of its loop is free in the model. `Reads` says which sources the function of a subscriber may read; it reads any part of
them, in any order. Not in the model: the equality of values (the code does not compare them), a panic in user code
(nothing recovers, the program ends), and component scopes, of which `Lifecycle` has the part that matters.

The function of a computed may call everything too: it may `Set` what it has read, `Watch`, stop and `Batch`, and, through an effect that it
starts or a cycle of `Reads`, call `Get` of itself. The library does not survive all of this: a call that is still suspended can be overtaken by another, and what it has read no
longer counts. `overtaken` becomes TRUE when this happens, which it does in three ways:

* `InvalidateComputed` of a computed that is being computed, because its function, or what this calls, `Set`s a state it has read. The
  computed is still dirty, so `invalidate` returns early (`reactivity.go:119`); then `Get` marks the outdated value clean (line 89), and
  no reader of it is told.
* `GetDirty` of a computed that is being computed: `dispose` (line 85) drops what the suspended call has read, and that call,
  which returns last, caches a value that no state invalidates.
* `run` of a watcher whose effect waits for `Get` of a dirty computed: its `dispose` (line 226) drops the edge to that computed, which `Get` has
  made before it calls the function. The outer run goes on with a value that it is not subscribed to.

`SettledFresh`, `QuietCachesCurrent`, `OnlyStaleReruns` and `EventuallyFresh` claim nothing from then on; the others (`SubscriptionSymmetry`, `QueueDiscipline`, `BatchDefersFlush`, `StoppedNeverRuns`)
hold throughout. None of the three can be left out of `overtaken`: without the first TLC finds `QuietCachesCurrent` violated, without the second
`OnlyStaleReruns`, without the third `SettledFresh`. A program whose computeds only `Get`, and do not depend on themselves, never
sets it, and a computed that `Set`s a state before it reads it, or one it does not read, need not either. `Lifecycle`
instantiates `Reactivity` without computeds, where it stays FALSE.

### Resource, AsyncValue, ResourceProofs

`Resource` is `resource.go`. Each accepted `Reload` is a run with a program counter through `Reload` and its loader
goroutine; `Stopper` is the goroutine of the cleanup; the component's effect calls the three getters one by one. Each
critical section of `mu` is one action, and so is each call outside the lock: of a `CancelFunc` (`held` is the local variable it
was taken into) and of `dep.notify`. `AsyncValue` is the abstract specification: a sequence of requests of which
the latest is answered once. The refinement maps `runID` (less the increment of `stop`) to the request number and the
four fields to what is shown.

The reactive core is reduced to one subscription here (`subscribed`, `queued`). A loader goroutine that calls
`notify` without a lock on the reactive core is a data race in a native build; in the WebAssembly build, which is what
applications are, goroutines switch only where they block, and `notify` does not. The hazard is listed without a property.

### Patch, MCPatch

`Patch` is the reconciler of `patch.go` with the component boundary of `mounting.go`. A patch runs to its end without
giving up the thread, so each function is an operator from a world (the DOM and the live component instances) to a
world and a tree of mounted nodes, and the actions are what happens from outside: `Mount`, `Change` (a batch of Sets that
queues render effects), `RenderRoot` and `RenderComponent` (a render effect runs), `Unmount`.

| Model | Code |
|---|---|
| `dom` | the document: a node's tag or text, attributes, listeners with their handlers, raw HTML, children in order |
| `tree` | `mountedVNode`: `vnode`, `nodes` (the cached DOM nodes), `children`; with `comp` and `parent`, also the `Mounted` of a component |
| `live` | the `Mounted`s whose render effects are not stopped |
| `ok` | FALSE once `removeChild` or `insertBefore` was called with a node that is not a child, which throws in the browser |
| `shown`, `state` | what the render functions return, as a function of reactive state |
| `pending` | queued render effects |

`Renumber` gives nodes and instances new names between two changes, so that the state space is finite. Left out: errors of
the DOM boundary (`mount_js.go` returns none for what a template can hold), scoped-CSS attributes, the value of a `select`,
which is set after its options, slots, and the merging of two handlers of one event. All components of a type read one
state; their props are the attributes of their node. Hooks and callbacks during a render belong to `Lifecycle`.

### Siblings, ChildList, MCSiblings, SiblingsProofs

`Siblings` is one list of children under one DOM parent and what `patchChildren` does to it, one DOM operation a step, so that what holds
between two operations can be stated and proved; `Patch` has whole trees and sees only the end. `PatchChildren(list)` is the call,
with keys or without; each child of `next` is matched (`nextOldChild`), then patched (`PatchChild`), mounted, or mounted before what it replaces, which is
removed after it (`MountChild`, `ChildReplaced`); what is left over is removed (`RemoveRest`, `RestNext`, `RemoveNode`), and a keyed list whose
order has changed is moved into order from the last child to the first (`Reorder`, `MoveNode`, `MoveNext`).
`Rerender` is a child component that renders by its own effect between two patches of the list, `ChildFails` an error at any
step of a child.

`ChildList` is the abstract specification: what the caller of `patchChildren` may count on, without DOM, loops or map. One step replaces a list
of children by another (`Patch`). Each child of it is of the key and kind that was asked for. An element or a text that stays, because it is the first of its key in both
lists or has no key and is in the same place, has the nodes it had. A node that was another child's goes to no one but the child that
is patched from it, and no two children share one. In the only other step a component finds other nodes for itself (`Rerender`).
`ImplementsChildList` maps `mounted` to `old`, the list as the last patch left it; a patch that ends with an error takes no step.

| Model | Code |
|---|---|
| `kids` | the child nodes of the DOM parent: `Lead`, the list, `Trail` |
| `ok` | as in `Patch` |
| `old`, `next`, `children` | the arguments and the result of `patchUnkeyedChildren` and `patchKeyedChildren` |
| `from`, `used` | the old child that `nextOldChild` found for each child, and the map `used` of these |
| `Before`, `anchor` | the argument `before`: the end marker or what follows, or nil; in `reorderMountedChildren` the first node of the child behind |
| `cur`, `block` | the child at hand and its nodes so far |
| `todo`, `at` | the loops over the nodes in `removeMountedVNode` and `moveMountedVNodeBefore`, and over the children around them |

What is below a child is abstracted by what it does to this parent: while it is mounted or patched it inserts, moves and removes
nodes of its own, side by side, and keeps at least one. For a fragment that is what the properties say of its own list between its
markers. It is not so for a component below a fragment that replaces its root by its own effect: the fragment's cached nodes are stale then, which
is the finding of `patch_replaced` and left to `Patch`. After an error or an exception nothing more happens in the model.

### Lifecycle, MCLifecycle, LifecycleProofs

`Lifecycle` is `mounting.go` and the component half of `runtime.go` on top of an instance of `Reactivity`: the render
effect of a component instance is a watcher of the same name, and the activations of the runtime (`mount`, `patch`, `unmount`, and
`hook` for `Init`, `OnMounted`, `OnUpdated`, cleanups and `OnUnmounted`) join the stack. A hook or an effect may do whatever user
code may: `Set`, `Batch`, `Watch` in `Init`, `Unmount` of the application. So a patch can be suspended while a flush above it renders the
same component, its parent or its child again, or unmounts it.

| Model | Code |
|---|---|
| `mounted`, `unmounted`, `renderErr` | the fields of `Mounted` |
| `tree[i]` | `Mounted.tree`, reduced to the child components in order |
| `effectCleanups` | `CompInstance.effectCleanups`, as the watchers they stop |
| `ChildFailed` | the error of `Update`, read after `OnUpdated` (`mounting.go:73`), or of `mountComponentVNode`, read before `OnMounted` (`patch.go:254`) |
| the fields `old`, `next`, `done`, `child` of a frame | the local variables of `patchKeyedChildren`, `patchComponentVNode`, `mountComponentVNode` and `unmount` |
| `disturbed` | not in the code: the components that were rendered or unmounted in the middle of a patch of their own, or whose patch failed |

The DOM is left to `Patch`. Render functions read one state per component type and write none; their children are components,
each keyed by its type. `Missing` types have a factory that returns nil, which is the error a patch can meet. Left out:
`RenderHTML`, slots, scoped-CSS attributes, `Watch` outside `Init`, computeds.

### Broadcaster, BroadcasterProofs

`Broadcaster` is `devBroadcaster` and `serveWebSocket` of `dev.go`. There is one publisher: `serveDev` until it starts the
watcher goroutine, which publishes from then on. `Publish` is the critical section that sets `current` and copies the clients; `Send` is
one non-blocking send of the loop after it; `Subscribe`, `Write`/`WriteFails`, `Take`/`SocketDone`/`ServerDone` and
`Unsubscribe` are the steps of a connection's goroutine. The select takes any ready case. `missed`
is a history variable: the clients for which the last event was dropped. After `unsubscribe` the code may still
send to the channel of the client that has left; nobody reads it, so the model forgets it. The browser (`Close`) is external.

### DevServer, DevServerProofs

`DevServer` composes `Broadcaster` (one connection per tab) with `serveDev`, `watchDevProject`, the build and the client
script. A file is its text, stamped with the edit that produced it. Captures and builds read the files one at a time,
while the developer edits. `step` is where the watcher has got to: `build` (reading and compiling), `gobuild`
(`dist/` has been removed), `publish`, `sending`, `capture`, `idle`; `report` and `start` are the way of a `serveDev` whose first capture
has failed. `dist` is what a page would load, with the versions of the files it was built from.

Abstractions, all on the side of the data: a change is style-only when all changed files are `StyleFiles` that exist
before and after (the code compares the blocks of a `.tue` file, and takes any `.css` file); a build finds diagnostics when a text is `Broken`; a page loads its HTML, CSS and WebAssembly in one
step; the delay of the network is part of the channel; the overlay for runtime errors is left out. A tab
connects again only after the server has seen the end of its old connection.

A style event makes a page ask again for the stylesheets it has links to (`Restyled`), while it goes on running the program it was loaded with. `code` of a page is what
this program was compiled from, and `Links(p, f)` says whether it can still use the styles of `f`:

* a stylesheet that a template links by a relative URL is in `dist/` under a name with a hash of its text (`Hashed`, `asset.go:160`). Once it is edited the
  page asks for a file that the build has removed with the rest of `dist/` (`production.go:71`);
* the rules of a scoped style block (the texts in `Scoped`) select an attribute that the generator gives to the elements of its component
  (`generate.go:984`). A page whose program was compiled while the block was not scoped has no such attribute.

In both cases the page has no style of that file (`Missing`) until it is loaded again, and `StylesArrive` speaks of the files for which `Links` holds:
the blocks of components that are collected in `style.css`, and what a page links by a rooted URL. The proof covers any number of either kind.

### Template, Checker, Codegen, Compile, MCCompile

`Template` is the parsed template and the type rules of `typecap`, which the checker and the generator share. `Checker` is
`internal/compiler/checker`: `CheckNodes(nodes, scope)` is the set of diagnostics. `Codegen` is the render half of
`gogen/generate.go` and `gogen/expression.go`: `RenderNodes(nodes, g)` is the generated code as a tree of terms, with the diagnostics
met on the way, the Go variables read and those declared. `Compile` is the command around them (`IndexComponents`, `CheckFile`,
`FinishCheck`, `GenerateFile`, `FinishGenerate`), and has two definitions to compare:

* `Run(term, c)` executes generated code on a state of the component: Go statements and the constructors of `runtime.go`.
* `Meaning(nodes, scoped, c)` is what a template says, node by node: which branch of a conditional is shown, what a loop repeats, which
  locals a name means. It is written without the generator's chains, fresh names, index bookkeeping and fragments.

| Model | Code |
|---|---|
| a node, an attribute | `template.Node`, `template.Attr`, without spans |
| an expression `[op, name, args]` | `go/ast` expressions: names, calls without arguments, string literals, `!`, `&&`, `==`, `+`, fields, `x[0]`, `x[:]` |
| a scope | `checker.scope`, flattened: inner names shadow outer ones |
| `g.names`, `g.types` | `fileGenerator.locals`, `.localTypes` |
| the Go variable `<<base, n>>` | `__tueItem`, `__tueItem2`, ... |
| a term with `diags` | a `render...` function that returned `false`; the file generates nothing |

`KnownGap` lists what the checker lets through although it cannot be built; the properties leave these out, and section 3 names
them. Go's own typing of the generated expressions is not modelled, only that every variable is declared and
used. An attribute may be written without a value: it is a boolean prop of a component (`StaticType`), `BoolAttr` of an element, and
no part of a merged class or style (`RenderParts`).

### Build, MCBuild, BuildProofs

`Build` is `tue build` from discovery to exit as file operations: `StartBuild` (discover, parse, check), `RewriteURL` for each URL in a
template or a stylesheet, `AddPublic` for each file of `public/`, `CheckOutputs`, `RemoveCache`, `WriteCacheFile`, `RemoveDistFile`,
`BuildWASM`, `WriteStaticFile` in any order (the code ranges over a map), `WriteAsset`. `Edit` changes a component or an asset between any two
steps. `Interrupt` ends the build at any step, as an I/O error or a kill does, and may leave the file that was being
written empty. The next `StartBuild` finds what is there.

| Model | Code |
|---|---|
| `source`, `parsed` | the `.tue` files as they are, and as they were read; with the verdict that Compile would give |
| `disk` | every other file of the project |
| `assets` | `assetPipeline.bySource` |
| `urls` | the rewritten URLs, with the content that was read for them (not in the code) |
| `cache`, `dist` | the two directories |
| `before` | not in the code: `dist` as the build found it |

A name in `dist` is its path without the hash, and the hash, which is the content itself: two contents never have one hash. The
order of `filepath.WalkDir` and of the sorted assets is that of names, which are abstract here.

## 3. What the runs check

| Run | Instance | Shows |
|---|---|---|
| `reactivity` | a fork: 1 state, 1 computed of it, a watcher of each, 2 Sets, batches nested twice, every call in every callback; 934 thousand states | `SubscriptionSymmetry`, `QueueDiscipline`, `SettledFresh` (no update is lost), `QuietCachesCurrent` (clean means current), `BatchDefersFlush`, `OnlyStaleReruns` (nothing is redone for nothing), `StoppedNeverRuns`, `EventuallyFresh` |
| `resource` | 3 loads, stop, one effect; 89 thousand states | `LatestWins`, `CancelOwned`, `InFlightNotCancelled`, `SettledView`, `SupersededCancelled`, `LoadingEnds`, and that `Resource` implements `AsyncValue` |
| `patch` | 76 trees of up to three children, every one patched into every other; a component type with two states and two props; 27 thousand states | `DomMatches` (the DOM is what a fresh render gives, and nothing throws), `CachedNodesCurrent`, `NothingLeaks`, `KeyedChildrenStay` |
| `siblings` | 10 lists of up to three children, with a key twice, changes of kind and unkeyed children between keyed ones; 2 nodes a child, 13 nodes, a node before the list and one behind it; 642 thousand states | `NeverThrows` (no anchor is gone when it is used), `ChildrenInOrder`, `SiblingsStay`, `KeyedStay`, and that `Siblings` implements `ChildList` |
| `patch_replaced` | a component below a fragment | violates `DomMatches` |
| `lifecycle` | an application, up to three panels with an effect each, leaves; 2 Sets, 1 batch; 556 thousand states | `SettledTree` (what lives is the tree that the current state renders), `HooksInOrder`, `RendersDoNotNest` |
| `lifecycle_unmount` | the same | violates `UnmountCleansUp` |
| `broadcaster` | 2 connections, buffer of 1, 3 events; 265 thousand states | `NoMissedEvent`, `DeliveredInOrder`, `ConnectionsEnd` |
| `dev_server` | a component and a stylesheet that it links by a hashed name, both edited in their styles, with a scoped and an unscoped text; 2 edits, 1 I/O failure, 1 tab; 9.2 million states | `BuildCoversSnapshot`, `BrokenBuildShown`, `StylesArrive` |
| `dev_server_live` | a component and a stylesheet, good and broken texts, 2 edits; 688 thousand states | `ChangesAreBuilt`, although no browser has to read its socket |
| `compile` | 28,657 projects of one or two small templates: lists of up to four conditional branches, loops nested three deep with every shadowing, switches, attributes of inputs and components with and without values in every order, expressions of depth three; 12 states of the component; 134 thousand states | `CheckedTemplatesBuild` (what is checked is generated, and every Go variable declared and used), `RendersAsWritten` |
| `build` | 2 assets of one base name, 3 files of `public/` that take the name of a generated file, of a hashed asset and of a component, every content, 6 versions of the components, 1 edit, 1 fault; 5.7 million states | `DistKeptUntilGenerated`, `DistIsTheBuild` |

Every property of a passing run has a mutant in `PROJECT.json`: a plausible bug in one of the modelled definitions under
which TLC finds that property violated. The `Mutant...` definitions stand before the definition they vary and are not used otherwise.

### Why the bounds are enough

* `reactivity`: two Sets are needed to invalidate something that was invalidated before (the dirty and queued flags), two
  nested batches to tell inner from outermost, two watchers to have one stop, queue or overtake the other. On a fork a notify loop may run one watcher
  before it invalidates the computed, and that watcher may start the other, which is handed the outdated cache; the computed may `Set` its own state and `Watch`
  either. A watcher that reads the state and the computed (a triangle: 6.2 million states without liveness, no violation) and
  computeds of computeds are left to the proofs, which have every safety property for every graph. Call depth
  is not bounded: it is finite because watchers are created once and every other frame needs a Set, a queued watcher or a dirty computed
  of `Reads`, which here has no cycle.
* `resource`: with three loads one can be finished, one superseded before its notification and one current.
* `patch`: three children are the fewest of which one can be moved over another while a third is mounted, removed or stays;
  the trees have every kind of node, repeated keys, keyed and unkeyed siblings, fragments inside and below elements, and
  changes of what is behind a key. Patching depends only on the old tree and the new one, so every pair covers every history.
* `siblings`: as in `patch` three children, now with every pair of lists in any history, since the patches follow one another. A child of two
  nodes has a first that is an anchor and a last that is not. 13 nodes are never used up (`Fresh`): two are around the list, at most four
  in the old list and as many in the new one. TLC does not look for deadlocks here, because the model
  stops after an error.
* `lifecycle`: two Sets let a component be rendered, removed or fail while it is queued or being patched. `Count` is large enough for every
  instance the two Sets can create: a patch that found none left would be reported as a deadlock. After a patch was disturbed (`MaxDisturbed`) nothing more is Set: `SettledTree` and `HooksInOrder` speak of undisturbed
  histories, and what goes wrong in the others is the finding below.
* `broadcaster`: the code's buffer is 8; what matters is full or not, and with a buffer of one and three events it is full,
  drained and full again. A second connection lets publish be in the middle of its loop while the other comes and goes.
* `compile`: the generator looks at one node and its neighbours, so the lists are exhaustive over the shapes that interact: four siblings have
  a chain with two middle branches, or two chains; three loops have a name shadowed twice. Of 28,657 projects 9,656 pass the check and
  9,602 are generated and run; the others test that both sides reject.
* `build`: one fault gives every interrupted state that a next build may find, and one edit every content that can change
  between two of its reads. The number of builds is not bounded.
* `dev_server`: two edits let one arrive between a capture and the build and one after it. Broken texts are left to `dev_server_live`, whose steps are the same, and
  to the proofs: here captures and builds fail by I/O errors, which go the same way to `publish` as diagnostics do. The two files have the two
  reasons for which a page cannot use a style. `MaxEvents` is large enough never to stop the
  watcher (`EnoughEvents`).

### Fairness

* `Reactivity`: the loops of the library go on (weak), and every callback returns (strong, since it may call
  the library any number of times first; per batch depth, since a callback may open inner batches over and over). A
  callback that never returns hangs the one thread there is, so nothing weaker can give liveness.
* `Resource`: goroutines run on and loaders return, as Go's scheduler and a loader that ends give; nobody has to
  call `Reload` or stop.
* `Broadcaster`: a connection's goroutine runs on and a write ends within its timeout, one way or the other.
* `DevServer`: only the watcher's goroutine; the browsers and the goroutines that serve them owe nothing, which is the point of
  `ChangesAreBuilt`.

### Where the code and its words part

* `patch_replaced`: a component that renders another root node by itself updates the cached nodes of its own mounted node
  (`mounting.go:213`) and of nobody above. A fragment around it, which `<template v-if>` generates, keeps the node that is gone and
  passes it to `removeChild` when the fragment is removed; a component whose root is that component does the same. The
  run `patch` has components below elements and at the root only, where nothing above caches their nodes.
* `lifecycle_unmount`: patches of one component nest. `Init` or `OnMounted` of a child may `Set` what its parent reads while the
  parent's first patch is suspended; the nested run finds `m.tree` nil, mounts a whole second tree and stores it, and the
  outer patch overwrites it when it ends. `Unmount` reaches only what is stored, so the components of the lost tree keep
  their effects and never see `OnUnmounted`. A hook that unmounts the application in the middle of a patch loses the
  children this patch has mounted so far. Inside a `Batch` or a flush the scheduler does not nest renders (`RendersDoNotNest`).

More are known from the models and have no run of their own:

* The function of a computed may be any Go function. One that `Set`s what it has read leaves its own outdated result marked clean (`reactivity.go:119`, `:89`):
  a later `Get` returns it, against the comment (`reactivity.go:76`), and no watcher of it is told. `overtaken` (section 2) is TRUE then, and the claims
  about freshness end.
* Outside a `Batch`, `Set` notifies one subscriber after the other and the first watcher it reaches is flushed at
  once (`reactivity.go:208`, `:327`). With the computed `c2` notified before the computed `c1` that it also reads, the
  watcher of `c2` runs while `c1` is still marked clean, and `c1.Get` returns a value computed from the overwritten
  state. The comment on `Get` (`reactivity.go:76`) promises the current value. The watcher is run again when `c1`
  is invalidated, so what settles is right (`SettledFresh`). `QuietCachesCurrent` leaves out exactly these loops (`Unbatched`): inside a batch it cannot happen.
* An event of the dev server is typed by the diff with the last snapshot (`dev.go:188`). After a failed build, whose changes are in
  the snapshot already, a style-only edit that makes the build succeed is announced as `style`: a page that was loaded
  before swaps its stylesheets and goes on running the old code.
* A style event does not bring every style either: `Links` (section 2) says when a page loses one until it is loaded again.

The checker lets through what cannot be built (`KnownGap` in `Compile`):

* found by the generator, before anything is written: an attribute on a `<template>`, two of `v-if`, `v-else-if` and `v-else` on one
  element, a call of a field or a local, a slice, `v-model` on an expression of unknown type, two packages;
* found by `go build`, after `dist/` was removed: an unused item or index of a `v-for` (`generate.go:658`), a `v-switch` with a `v-default` only
  (`generate.go:906`), an unknown name in the `:key` of a component or a `<template>` (`checker/file.go:115`), an item of what has no items;
* found by nobody: a `<slot>` in the content given to a component, which renders itself for ever (`runtime.go:202`).

In `Build`, a file of `public/` that has a relative URL is left out (`RelativeToPublic`): it is in `dist` under another name
than its URL, or under a hashed name instead of its own (`asset.go:156`). A `.tue` file in `public/` is copied to `dist/` and found
there by the next build, which then rejects the component as a duplicate. Two files whose paths differ in `-`, `_` or `/` only
have the same generated file name (`generate.go:2239`), and the second overwrites the first in the cache.

Reachable in `DevServer`, and contradicted by no document: `current` stays the last `reload`, so every page that connects
afterwards is told to reload, reloads and connects again; a passing capture error stays on screen until the next
change; an edit that the build has read and that is undone before the next tick stays in `dist/`; a file saved between the initial
build and the first snapshot of `serveDev` is in the snapshot and not in the build, so no later diff reports it.

## 4. What is proved

The proofs hold for every value of the constants. They assume only what the modules' named `ASSUME`s say: the kinds of
nodes are disjoint, `None` is no subscriber, `Reads` is a function to sources, the bounds are naturals; `Capacity` is at
least one; `MaxEvents` leaves the dev server an event for every edit and failure; `Stopper` is not a run; every component type reads one state
and never shows one type twice among its children (their keys); the project of `Build` has finitely many files, its URLs are of the forms the code
accepts and `Absent` is no content; what is around a list of siblings has no node twice, and no component is of a kind with
one node that stays.

* **Reactivity** (`ReactivityProofs`) - `TypeCorrect`, `SymmetryCorrect`, `QueueCorrect`. `SubscriptionSymmetry` is inductive given the types:
  `addDependency` returns early exactly for what is in `deps`, and symmetry is why that is safe. `QueueDiscipline` is
  inductive given the types and injective slices: a queued watcher moves from `pending` to `round` as a whole slice, and leaves
  either together with its flag, except that stop takes it out of `pending` only, hence the exception for the round.
* **Freshness** (`FreshnessProofs`) - that no update is lost and none is done for nothing:
  * `BatchDefersFlushCorrect`. `SchedulerInv`: `flushing` and `batchDepth` tell what is on the stack, and a batch that is open
    together with a flush is inside it.
  * `StoppedNeverRunsCorrect`, an action property: only a flush starts a watcher that is not new, and it skips the stopped.
  * `QuietCachesCurrentCorrect`, `SettledFreshCorrect`, both from `FreshInv`, for programs whose callbacks call anything, until a reading is `overtaken`.
    Its core is `Covered`, about everybody who is neither queued, stopped nor dirty and waiting to be asked. Take the least set of subscribers that has those whom the notify loops on the stack still name and, with
    a clean computed, the subscribers of that computed: it has everybody who holds an overwritten reading; and with
    the subscribers of the state added, everybody who holds a current reading of it. So a `Set` covers whom it outdates, and
    each step of the loop hands its cover on to a flag or a further loop. `QueueInCall` (the queue is empty when nothing is going to flush) and `ComputeInv`
    (each computed is being computed once and is dirty meanwhile, and whoever waits for it is subscribed to it) turn it into the two properties.
    These are the places where the three ways to be `overtaken` would break the proof.
  * `OnlyStaleRerunsCorrect`, an action property, from `ReadInv`: outside an unbatched notify loop, who is queued or still to be told
    has an outdated reading (`StaleOnly`), because who is subscribed to a state has read it (`StatesRead`) and who is subscribed to a clean computed has read
    all that this was computed from (`ComputedsRead`).
* **Resource** - `TypeCorrect`, `LatestWinsCorrect`, `CancelOwnedCorrect`, `InFlightCorrect`, and `Refinement`: every step is a step
  of `AsyncValue` or stutters. The inductive invariant ties `runID` to which runs have begun, `loading` to the
  stored `CancelFunc`, and gives every `CancelFunc` one owner. `SettledViewCorrect` adds `ViewInv`: what the effect has read of a
  field is what the field is, unless the effect is queued or some goroutine has still to notify.
* **Broadcaster** - `TypeCorrect`, `NoMissedEventCorrect`, `DeliveredInOrderCorrect`. The inductive invariant says of every connection that its
  channel is ordered and not ahead of `current`, that while it is open what is being written comes before the
  channel and after what was received, and that the newest of them is the last event unless publish has still to send it or it was dropped.
  `Genuine`, for the dev server: what a connection holds under the number of the current event is the current event.
* **Dev server** - `BroadcasterUsed`: the composition does to the broadcaster's variables what the broadcaster may do, so the
  broadcaster's theorems hold of it. `TypeCorrect`. `BuildCoversSnapshotCorrect` by `CoverInv`: what a build that was started for
  a snapshot has read is no older than the snapshot, since the capture was over before. `BrokenBuildShownCorrect` and `StylesArriveCorrect` (of the styles that `Links` allows) by two invariants: `EventInv`
  says that from `publish` to the next build the current event speaks of `dist/` as it is, and `PageInv` what a page whose
  client has acted on its last event shows.
* **Lifecycle** - for any component types, any depth of the tree and any interleaving of hooks, Sets, batches and flushes:
  * `TypeCorrect`. `Shape` is the type of all variables, `Known` says that nothing on the stack or in the trees is
    new, `QueueInv` that what is queued is live and waits somewhere.
  * `RendersDoNotNestCorrect`, an action property: `flushing` and `batchDepth` tell what is on the stack here as well (`Tells`), so a
    flush begins only when no batch and no other flush is below it.
  * `HooksInOrderCorrect`, an action property, from four invariants. `RenderOnTop`: a render function is always innermost, as it calls no
    hooks. `MountInv`: each component is mounted once, after its `Init` and the root first. `OneParent`: a component
    is in one tree or one patch. `CalmInv`: while no patch was disturbed, a component that is being patched and the children it keeps
    are not unmounted, everything in trees and patches that is past its mount is mounted, and the unmounts on the stack cover the rest of their trees.
  * `SettledTreeCorrect`, from `SettledInv`, which adds `Fresh` (what a live watcher has read is current, or it is queued or about to be told),
    `HomeInv` (no component that was created is lost, and none keeps a tree once it is unmounted), `ShownInv` (the tree of
    a component, or the patch of it in progress, is what it rendered from the one version it has read) and
    `EffectsInv` (a live effect is in `effectCleanups` of a component that is not unmounted).
* **Siblings** - for lists of any length, any keys and kinds, children of any number of nodes and any nodes around the list, what
  TLC can only check of `Patch` at the end of a patch of three children:
  `TypeCorrect`, `DOMNeverThrows`, `PatchedInOrder`, `AroundStays`, `KeyedElementsStay`, all from one inductive invariant, `IInv`:
  * `Rows` cuts the parent's nodes into rows: `Lead`; one row for each old child with what is left of it; one for each new child with what was mounted
    for it and has not been moved; one for each new child with what was moved already; `Trail`. `InDocumentOrder(kids, Rows)` says that the document is these rows,
    one after the other. It holds in the middle of every loop, and when the patch returns the third group of rows, or the first
    two if nothing had to be moved, is the new list.
  * Every step of the code is one of three things to the rows, each a lemma about sequences: a node goes from a row (`NodeRemoved`), comes
    to a row before an anchor that is the next node in any row (`NodeInserted`, `IsAnchor`), or the rows are divided otherwise without
    the DOM being touched (`RowsRenumbered`). Moving a node is the first and then the second. That the anchor is a node of the next row that is not empty is why
    `insertBefore` finds it: new children are mounted before `Before` or the child they replace, and are moved from the last to the first before
    one that was moved already.
  * `Loops` says what the locals of each loop are, `Matches` that an old child is matched with one of its own key, and for lists without keys place by place; `Kept`
    that a keyed element found for the first of its key stays as it is.
  * `Refinement`: `Siblings` implements `ChildList`. `IInv` says where nodes are and not whose they were, so this needs a second invariant, `Own`, proved on top of
    it: the old children share no node (`OldApart`); what was mounted so far has nodes of no old child but one it can be patched from (`OwnNodes`,
    `OwnBlock`); a child without a key is matched in its place or not at all, and is not touched when it is simple (`Placed`, `PlacedNext`); and a component that is about
    to render has its own nodes (`Rendered`). Every step of a patch but the last leaves `old` alone; the last is `ChildList`'s `Patch` (`ReturnsPatches`).
* **Build** - `DistKeptCorrect`, `DistIsTheBuildCorrect`. `BuildInv` says that until the whole cache is written `dist` is as the build
  found it, and that from then on `Ready` holds: nothing can be rejected any more and the cache has this build's files and no other. The
  step that needs an argument is writing a file of the cache: it could overwrite one written before, unless no two files
  have one name (`OneContentPerName`: from `~Conflict`, a hash never being 0, and the directory of public files). `DistInv` adds
  what every URL stands for - an asset never changes once it was read, although its file may - and what `dist` has while it is written.

Two proofs changed a model. What made `ComputeInv` false, and the code does not survive either, has become the three conditions of `overtaken`. In `Lifecycle`, the filters over the old children of a patch and over the queue have become the loop and the removal of one
element that `patchKeyedChildren` and `removeQueuedSubscriber` are.

Only model-checked: the liveness properties (`EventuallyFresh`, `SupersededCancelled`, `LoadingEnds`, `ConnectionsEnd`,
`ChangesAreBuilt`) and everything about fairness, which are outside the prover's reach, and the properties of `Patch` and of `Compile`, whose operators
are recursive. That one list of children is patched rightly is proved of `Siblings`; that a whole tree is, which is that the contract of a child carries over
from level to level, is an induction over the tree and stays with TLC, and so do attributes, listeners and leaks.

## 5. Not modelled

The router, the formatter and the parsers (below). The DOM glue (`mount_js.go`, `event.go`), the flag parsing of the command line
and the examples have no behaviour of their own worth a model. Of the compiler, the parsers of files, templates and
scripts are functions of text; the component file that the generator prints for props, events and computeds, the scoping of CSS and
the conversion of types to Go syntax are printing. Two processes that build one project at once are not modelled: nothing
keeps them apart.

## 6. Plan

1. **Lifecycle**: `Watch` and `Computed` in any hook with the disposal at unmount, a `Set` by a render function, and an abstract
   specification of the tree.
2. **Router**: normalising and matching against a reference definition; `Navigate`, the location listener and stop.
3. **Parsers** as operators over token sequences: blocks of a single-file component, the stack of open elements.
4. **Formatter** over several files: order of checking and writing, idempotence.
5. **Proofs**: every safety property is proved but those of `Patch` and `Compile`. What is left is that `Lifecycle` implements
   the abstract specification of the tree (1).
