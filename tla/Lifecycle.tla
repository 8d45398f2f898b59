------------------------------- MODULE Lifecycle -------------------------------
(***************************************************************************)
(* Component lifecycle (runtime.go, mounting.go): creating, mounting,      *)
(* updating and unmounting components on top of the reactive graph.        *)
(*                                                                         *)
(* The render function of a component runs as a subscriber of Reactivity.  *)
(* What it returns is patched into the tree outside the subscriber, and    *)
(* that calls user code again: Init of new components, OnMounted,          *)
(* OnUpdated, cleanups and OnUnmounted.  Any of them may Set, which may    *)
(* flush, render and unmount while the components further down the call    *)
(* stack are in the middle of a patch.  The model adds the activations of  *)
(* the runtime to the stack machine of Reactivity; the DOM is in Patch.    *)
(***************************************************************************)
EXTENDS Integers, Sequences, FiniteSets, SequencesExt

CONSTANTS
  States, None, MaxVersion, MaxBatch,   \* as in Reactivity
  Count,        \* bound: component instances that may come to exist
  Types,        \* component types
  TypeOf,       \* the type of each instance
  Root,         \* the instance that is mounted into the target
  Input,        \* Input[C]: the state that the render function of C reads
  Shows,        \* Shows[C][v]: the types of the children it then renders, each
                \* one keyed by its type
  WithEffect,   \* the types whose Init calls Watch
  Missing,      \* the types whose factory returns no component
  MaxDisturbed  \* bound: nothing is Set when so many patches were disturbed

Components == 1 .. Count
Effect(i) == Count + i
Effects == {Effect(i) : i \in {j \in Components : TypeOf[j] \in WithEffect}}
Watchers == Components \cup Effects

Reads == [w \in Watchers |-> IF w \in Components THEN {Input[TypeOf[w]]} ELSE States]

ASSUME LifecycleConstants ==
  /\ Count \in Nat
  /\ TypeOf \in [Components -> Types]
  /\ Root \in Components
  /\ Input \in [Types -> States]
  /\ Shows \in [Types -> [0 .. MaxVersion -> Seq(Types)]]
  /\ \A C \in Types, v \in 0 .. MaxVersion : IsInjective(Shows[C][v])
  /\ WithEffect \subseteq Types /\ Missing \subseteq Types
  /\ MaxVersion \in Nat /\ MaxBatch \in Nat /\ MaxDisturbed \in Nat \ {0}
  /\ None \notin Watchers /\ States \cap Watchers = {}

VARIABLES
  \* those of Reactivity; the render effect of an instance is the watcher
  \* of the same name
  version, dirty, obs, subscribers, deps, phase, queued, pending, round,
  flushing, batchDepth, stack, subscriberStack,
  mounted,         \* Mounted.mounted
  unmounted,       \* Mounted.unmounted
  tree,            \* Mounted.tree: the child components in order
  renderErr,       \* Mounted.renderErr is not nil
  effectCleanups,  \* CompInstance.effectCleanups, as the watchers they stop
  disturbed        \* history: the components that were rendered or unmounted
                   \* while a patch of theirs was in progress, or whose patch
                   \* ended with an error

\* Without computeds no reading is ever overtaken.
R == INSTANCE Reactivity WITH Computeds <- {}, overtaken <- ~TRUE

graph == <<version, dirty, obs, subscribers, deps, phase>>
scheduler == <<queued, pending, round, flushing, batchDepth>>
runtime == <<mounted, unmounted, tree, renderErr, effectCleanups, disturbed>>
vars == <<graph, scheduler, stack, subscriberStack, runtime>>

(***************************************************************************)
(* Activations of the runtime.  mount is mountComponent and                *)
(* mountComponentVNode, patch is patchRenderedVNode with the children it   *)
(* has still to handle, unmount is Mounted.unmount, hook is a callback.    *)
(***************************************************************************)
Activation(kind, i, at, old, next, done, child) ==
  [kind |-> kind, todo |-> {}, inst |-> i, at |-> at, old |-> old, next |-> next,
   done |-> done, child |-> child]

Hook(name, i) == Activation("hook", i, name, <<>>, <<>>, <<>>, 0)
MountFrame(i) == Activation("mount", i, "init", <<>>, <<>>, <<>>, 0)
UnmountFrame(i) == Activation("unmount", i, "cleanup", <<>>, <<>>, <<>>, 0)
PatchFrame(i) ==
  Activation("patch", i, "children", tree[i],
             Shows[TypeOf[i]][version[Input[TypeOf[i]]]], <<>>, 0)

RuntimeKinds == {"hook", "mount", "unmount", "patch"}

Top == Head(stack)
Below == Tail(stack)

IsPatchOf(frame, i) == frame.kind = "patch" /\ frame.inst = i
InProgress(i) == \E k \in DOMAIN stack : IsPatchOf(stack[k], i)

Rendering == R!Running("run") /\ R!currentSubscriber \in Components

\* User code that may call anything; a render function only reads.
UserCode == R!UserCode /\ ~Rendering

\* The program outside any component
Program == stack = <<>> \/ \A k \in DOMAIN stack : stack[k].kind = "batch"

Init ==
  /\ R!Init
  /\ mounted = [i \in Components |-> FALSE]
  /\ unmounted = [i \in Components |-> FALSE]
  /\ tree = [i \in Components |-> <<>>]
  /\ renderErr = [i \in Components |-> FALSE]
  /\ effectCleanups = [i \in Components |-> {}]
  /\ disturbed = {}

-----------------------------------------------------------------------------
(* Rendering *)

Disturb(i) == disturbed' = IF InProgress(i) THEN disturbed \cup {i} ELSE disturbed

\* componentRenderEffect.run of an effect that is not stopped
run(i, below) ==
  /\ subscribers' = R!removeSubscriber(subscribers, deps, i)
  /\ deps' = R!removeDependencies(deps, i)
  /\ obs' = [obs EXCEPT ![i] = {}]
  /\ stack' = <<R!Frame("run")>> \o below
  /\ subscriberStack' = <<i>> \o subscriberStack
  /\ Disturb(i)

\* The render function returns, and what it returned is to be patched in.
RenderReturns ==
  LET i == Head(subscriberStack)
      s == Input[TypeOf[i]]
  IN
  /\ Rendering
  /\ subscribers' = R!addSubscriber(subscribers, deps, s, i)
  /\ deps' = R!addDependency(deps, s, i)
  /\ obs' = R!observe(obs, i, {<<s, version[s]>>})
  /\ stack' = <<PatchFrame(i)>> \o Below
  /\ subscriberStack' = Tail(subscriberStack)
  /\ UNCHANGED <<version, dirty, phase, scheduler, runtime>>

\* The old child that is patched into the next one, if there is one.
Matching(f) == {c \in ToSet(f.old) : f.next # <<>> /\ TypeOf[c] = Head(f.next)}

AtChild == R!Running("patch") /\ Top.child = 0 /\ Top.next # <<>>

\* patchComponentVNode of a child: Update renders it again, queued or not
UpdateChild(c) ==
  /\ AtChild /\ c \in Matching(Top) /\ ~unmounted[c]
  /\ run(c, <<[Top EXCEPT !.child = c]>> \o Below)
  /\ UNCHANGED <<version, dirty, phase, scheduler, mounted, unmounted, tree,
                 renderErr, effectCleanups>>

Created(i) == phase[i] # "new" \/ \E k \in DOMAIN stack :
                stack[k].kind = "mount" /\ stack[k].inst = i

\* mountComponentVNode: the factory creates a component and calls its Init
MountChild(c) ==
  /\ AtChild /\ Matching(Top) = {}
  /\ TypeOf[c] = Head(Top.next) /\ ~Created(c)
  /\ \A d \in 1 .. c - 1 : TypeOf[d] = TypeOf[c] => Created(d)
  /\ stack' = <<Hook("init", c), MountFrame(c), [Top EXCEPT !.child = c]>> \o Below
  /\ UNCHANGED <<graph, scheduler, subscriberStack, runtime>>

\* The call of Update or of mountComponentVNode for this child ended with an
\* error. Update reads renderErr when OnUpdated has returned, mountComponentVNode
\* before OnMounted: what OnMounted makes fail later is not reported to it.
ChildFailed ==
  IF Top.child \in ToSet(Top.old) THEN renderErr[Top.child] ELSE ~mounted[Top.child]

\* the child has been updated or mounted without error
ChildDone ==
  /\ R!Running("patch") /\ Top.child # 0 /\ ~ChildFailed
  /\ stack' = <<[Top EXCEPT !.child = 0, !.next = Tail(@),
                            !.done = Append(@, Top.child)]>> \o Below
  /\ UNCHANGED <<graph, scheduler, subscriberStack, runtime>>

\* A child failed, was unmounted behind the back of this patch, or could not be
\* created: the patch ends with an error and leaves the tree as it was.
PatchFails ==
  /\ R!Running("patch")
  /\ \/ Top.child # 0 /\ ChildFailed
     \/ AtChild /\ \E c \in Matching(Top) : unmounted[c]
     \/ AtChild /\ Matching(Top) = {} /\ Head(Top.next) \in Missing
  /\ renderErr' = [renderErr EXCEPT ![Top.inst] = TRUE]
  /\ disturbed' = disturbed \cup {Top.inst}
  /\ stack' = Below
  /\ UNCHANGED <<graph, scheduler, subscriberStack, mounted, unmounted, tree,
                 effectCleanups>>

\* All children are in place: the tree is stored, and OnUpdated called if the
\* component was mounted before.
PatchDone ==
  LET i == Top.inst IN
  /\ R!Running("patch") /\ Top.child = 0 /\ Top.next = <<>> /\ Top.old = <<>>
  /\ tree' = [tree EXCEPT ![i] = Top.done]
  /\ renderErr' = [renderErr EXCEPT ![i] = FALSE]
  /\ stack' = (IF mounted[i] THEN <<Hook("updated", i)>> ELSE <<>>) \o Below
  /\ UNCHANGED <<graph, scheduler, subscriberStack, mounted, unmounted,
                 effectCleanups, disturbed>>

-----------------------------------------------------------------------------
(* Unmounting *)

\* removeQueuedSubscriber takes w out of the queue q
Dequeue(q, w) ==
  IF \E k \in DOMAIN q : q[k] = w
  THEN RemoveAt(q, CHOOSE k \in DOMAIN q : q[k] = w)
  ELSE q

\* a stopped effect keeps its queued flag
MutantStopStaysQueued(i, effects) ==
  LET W == {i} \cup effects
      rest == Dequeue(pending, i)
  IN
  /\ phase' = [w \in Watchers |-> IF w \in W THEN "stopped" ELSE phase[w]]
  /\ subscribers' = [x \in States |-> subscribers[x] \ W]
  /\ deps' = [w \in Watchers |-> IF w \in W THEN {} ELSE deps[w]]
  /\ pending' = IF effects = {} THEN rest ELSE Dequeue(rest, Effect(i))
  /\ queued' = queued

\* stop of the render effect of i and of the effects that i has created, which
\* is one at most: they are unsubscribed and leave the queue
stop(i, effects) ==
  LET W == {i} \cup effects
      rest == Dequeue(pending, i)
  IN
  /\ phase' = [w \in Watchers |-> IF w \in W THEN "stopped" ELSE phase[w]]
  /\ subscribers' = [x \in States |-> subscribers[x] \ W]
  /\ deps' = [w \in Watchers |-> IF w \in W THEN {} ELSE deps[w]]
  /\ pending' = IF effects = {} THEN rest ELSE Dequeue(rest, Effect(i))
  /\ queued' = [w \in Watchers |-> IF w \in W THEN FALSE ELSE queued[w]]

\* Mounted.unmount up to the cleanups of the program: the render effect and
\* the effects of the component stop
unmount(i, below) ==
  /\ unmounted' = [unmounted EXCEPT ![i] = TRUE]
  /\ stop(i, effectCleanups[i])
  /\ effectCleanups' = [effectCleanups EXCEPT ![i] = {}]
  /\ stack' = <<Hook("cleanup", i), UnmountFrame(i)>> \o below
  /\ Disturb(i)
  /\ UNCHANGED <<version, dirty, obs, round, flushing, batchDepth, subscriberStack,
                 mounted, tree, renderErr>>

\* When the next children are in place, patchKeyedChildren goes through the old.
AtOld == R!Running("patch") /\ Top.child = 0 /\ Top.next = <<>> /\ Top.old # <<>>
PastOld == <<[Top EXCEPT !.old = Tail(@)]>> \o Below

\* an old child without a counterpart leaves the tree and lives on
MutantForgetChild ==
  /\ AtOld /\ Head(Top.old) \notin ToSet(Top.done) /\ ~unmounted[Head(Top.old)]
  /\ stack' = PastOld
  /\ UNCHANGED <<graph, scheduler, subscriberStack, runtime>>

\* removeMountedVNode of an old child that has no counterpart
RemoveChild ==
  /\ AtOld /\ Head(Top.old) \notin ToSet(Top.done) /\ ~unmounted[Head(Top.old)]
  /\ unmount(Head(Top.old), PastOld)

\* it has been taken over, or unmounted already
SkipOld ==
  /\ AtOld /\ (Head(Top.old) \in ToSet(Top.done) \/ unmounted[Head(Top.old)])
  /\ stack' = PastOld
  /\ UNCHANGED <<graph, scheduler, subscriberStack, runtime>>

\* the cleanups have run, the tree comes next
UnmountTree ==
  /\ R!Running("unmount") /\ Top.at = "cleanup"
  /\ stack' = <<[Top EXCEPT !.at = "children", !.old = tree[Top.inst]]>> \o Below
  /\ UNCHANGED <<graph, scheduler, subscriberStack, runtime>>

\* cleanupMountedVNode of the next child
UnmountChild ==
  /\ R!Running("unmount") /\ Top.at = "children" /\ Top.old # <<>>
  /\ LET rest == <<[Top EXCEPT !.old = Tail(@)]>> \o Below IN
     IF unmounted[Head(Top.old)]
     THEN stack' = rest /\ UNCHANGED <<graph, scheduler, subscriberStack, runtime>>
     ELSE unmount(Head(Top.old), rest)

\* OnUnmounted is called after everything below is gone
UnmountDone ==
  /\ R!Running("unmount") /\ Top.at = "children" /\ Top.old = <<>>
  /\ tree' = [tree EXCEPT ![Top.inst] = <<>>]
  /\ stack' = <<Hook("unmounted", Top.inst)>> \o Below
  /\ UNCHANGED <<graph, scheduler, subscriberStack, mounted, unmounted,
                 renderErr, effectCleanups, disturbed>>

-----------------------------------------------------------------------------
(* Mounting *)

\* mounted is set before the first render and not after it
MutantMountedEarly ==
  LET i == Top.inst IN
  /\ R!Running("mount") /\ Top.at = "init"
  /\ phase' = [phase EXCEPT ![i] = "live"]
  /\ mounted' = [mounted EXCEPT ![i] = TRUE]
  /\ run(i, <<[Top EXCEPT !.at = "render"]>> \o Below)
  /\ UNCHANGED <<version, dirty, scheduler, unmounted, tree, renderErr,
                 effectCleanups>>

\* Init has returned: the render effect runs for the first time
MountRender ==
  LET i == Top.inst IN
  /\ R!Running("mount") /\ Top.at = "init"
  /\ phase' = [phase EXCEPT ![i] = "live"]
  /\ run(i, <<[Top EXCEPT !.at = "render"]>> \o Below)
  /\ UNCHANGED <<version, dirty, scheduler, mounted, unmounted, tree, renderErr,
                 effectCleanups>>

\* the component is mounted and OnMounted called
MountDone ==
  LET i == Top.inst IN
  /\ R!Running("mount") /\ Top.at = "render" /\ ~renderErr[i]
  /\ mounted' = [mounted EXCEPT ![i] = TRUE]
  /\ stack' = <<Hook("mounted", i)>> \o Below
  /\ UNCHANGED <<graph, scheduler, subscriberStack, unmounted, tree, renderErr,
                 effectCleanups, disturbed>>

\* The first render failed: a child is cleaned up, of the root component only
\* the render effect is stopped.
MountFails ==
  LET i == Top.inst
      cleans == i # Root
  IN
  /\ R!Running("mount") /\ Top.at = "render" /\ renderErr[i]
  /\ stop(i, IF cleans THEN effectCleanups[i] ELSE {})
  /\ effectCleanups' = [effectCleanups EXCEPT ![i] = IF cleans THEN {} ELSE @]
  /\ stack' = (IF cleans THEN <<Hook("cleanup", i)>> ELSE <<>>) \o Below
  /\ UNCHANGED <<version, dirty, obs, round, flushing, batchDepth, subscriberStack,
                 mounted, unmounted, tree, renderErr, disturbed>>

-----------------------------------------------------------------------------
(* What user code does *)

\* CompOf and Mount of the root component
Mount ==
  /\ Program
  /\ ~Created(Root)
  /\ stack' = <<Hook("init", Root), MountFrame(Root)>> \o stack
  /\ UNCHANGED <<graph, scheduler, subscriberStack, runtime>>

\* Mount has returned and Mounted is in the hands of the program.
HasHandle == mounted[Root] /\ \A k \in DOMAIN stack : stack[k] # Hook("mounted", Root)

\* Mounted.Update of the root component
Update ==
  /\ Program
  /\ HasHandle /\ ~unmounted[Root]
  /\ run(Root, stack)
  /\ UNCHANGED <<version, dirty, phase, scheduler, mounted, unmounted, tree,
                 renderErr, effectCleanups>>

\* Mounted.Unmount of the root component, from anywhere
Unmount ==
  /\ UserCode
  /\ HasHandle /\ ~unmounted[Root]
  /\ unmount(Root, stack)

\* Init calls Watch, which registers the stop of the effect for cleanup.
WatchInInit ==
  LET i == Top.inst IN
  /\ R!Running("hook") /\ Top.at = "init"
  /\ Effect(i) \in Effects
  /\ R!Watch(Effect(i))
  /\ effectCleanups' = [effectCleanups EXCEPT ![i] = @ \cup {Effect(i)}]
  /\ UNCHANGED <<mounted, unmounted, tree, renderErr, disturbed>>

HookReturns ==
  /\ R!Running("hook")
  /\ stack' = Below
  /\ UNCHANGED <<graph, scheduler, subscriberStack, runtime>>

\* Get, Set and Batch, and the return of effects and batch functions
Calls ==
  /\ UserCode
  /\ \/ \E s \in States : R!GetState(s)
     \/ Cardinality(disturbed) < MaxDisturbed /\ \E s \in States : R!Set(s)
     \/ R!BatchBegin \/ R!BatchEnd
     \/ R!EffectReturns
  /\ UNCHANGED runtime

\* the scheduler, up to running effects
Schedule ==
  /\ \/ \E w \in Watchers : R!QueueWatcher(w) \/ R!SkipWatcher(w) \/ R!FlushSkip(w)
     \/ R!NotifyDone \/ R!FlushRound \/ R!FlushEnd
  /\ UNCHANGED runtime

\* the flush runs an effect or renders a component
FlushRun(w) ==
  /\ R!FlushRun(w)
  /\ Disturb(w)
  /\ UNCHANGED <<mounted, unmounted, tree, renderErr, effectCleanups>>

Next ==
  \/ Mount \/ MountRender \/ MountDone \/ MountFails
  \/ RenderReturns \/ ChildDone \/ PatchFails \/ PatchDone
  \/ \E c \in Components : UpdateChild(c) \/ MountChild(c)
  \/ RemoveChild \/ SkipOld
  \/ UnmountTree \/ UnmountChild \/ UnmountDone
  \/ Update \/ Unmount \/ WatchInInit \/ HookReturns
  \/ Calls \/ Schedule
  \/ \E w \in Watchers : FlushRun(w)

Spec == Init /\ [][Next]_vars

-----------------------------------------------------------------------------
(* Properties. *)

Live == {i \in Components : phase[i] = "live"}

\* The type invariant.  Trees and queues hold instances and watchers that
\* exist, and what is queued is not stopped.
TypeOK ==
  /\ mounted \in [Components -> BOOLEAN]
  /\ unmounted \in [Components -> BOOLEAN]
  /\ tree \in [Components -> Seq(Components)]
  /\ renderErr \in [Components -> BOOLEAN]
  /\ effectCleanups \in [Components -> SUBSET Effects]
  /\ disturbed \subseteq Components
  /\ \A k \in DOMAIN stack :
       \/ stack[k] \in R!Frames
       \/ stack[k].kind \in RuntimeKinds /\ stack[k].inst \in Components
  /\ \A w \in Watchers : queued[w] => phase[w] = "live"

\* When control is back in the program and no patch was disturbed or failed, the live
\* components are those of the tree, each in one place, each shows what it
\* renders from the current state, and no effect has outlived its component:
\* nothing is lost, leaked or stale, whatever hooks Set (mounting.go).
SettledTree ==
  stack = <<>> /\ disturbed = {} =>
    /\ R!SettledFresh
    /\ \A i \in Live :
         /\ i # Root => Cardinality({p \in Live : i \in ToSet(tree[p])}) = 1
         /\ ToSet(tree[i]) \subseteq Live /\ IsInjective(tree[i])
         /\ [k \in DOMAIN tree[i] |-> TypeOf[tree[i][k]]] =
              Shows[TypeOf[i]][version[Input[TypeOf[i]]]]
    /\ \A i \in Components :
         Effect(i) \in Effects => (phase[Effect(i)] = "live" => i \in Live)

\* The step calls a hook of i.
CallsHook(name, i) ==
  /\ stack' # <<>> /\ Head(stack') = Hook(name, i)
  /\ stack' # stack /\ Len(stack') >= Len(stack)

\* The order of hooks: OnMounted once, after those of the children; OnUpdated
\* only of a component that is mounted with all its children; cleanups once
\* and before those of the children, OnUnmounted after them (unmount).
HooksInOrder ==
  [][ disturbed' = {} =>
        \A i \in Components :
          /\ CallsHook("mounted", i) =>
               ~mounted[i] /\ ~unmounted[i] /\ \A c \in ToSet(tree[i]) : mounted[c]
          /\ CallsHook("updated", i) =>
               /\ mounted[i] /\ ~unmounted[i]
               /\ \A c \in ToSet(tree'[i]) : mounted[c] /\ ~unmounted[c]
          /\ CallsHook("cleanup", i) =>
               mounted[i] /\ ~unmounted[i] /\ \A c \in ToSet(tree[i]) : ~unmounted[c]
          /\ CallsHook("unmounted", i) =>
               mounted[i] /\ unmounted[i] /\ \A c \in ToSet(tree[i]) : unmounted[c] ]_vars

\* The scheduler never renders a component in the middle of its own patch if
\* the patch was begun in a Batch or a flush: Sets by hooks wait (flushing and
\* batchDepth).  It may if the patch is that of Mount or Update outside both.
RendersDoNotNest ==
  [][ R!Running("flush") =>
        \A i \in disturbed' \ disturbed, k \in DOMAIN stack :
          IsPatchOf(stack[k], i) =>
            \A j \in k .. Len(stack) : stack[j].kind \notin {"flush", "batch"} ]_vars

\* What the comment of Unmount says, "Unmount calls cleanup functions, clears
\* the target, and calls optional OnUnmounted": when it is over, no component
\* and no effect is left running.
UnmountCleansUp ==
  stack = <<>> /\ unmounted[Root] => \A w \in Watchers : phase[w] # "live"
=============================================================================
