---------------------------- MODULE LifecycleProofs ----------------------------
(***************************************************************************)
(* Theorems about Lifecycle, for any component types and any number of     *)
(* instances, states and Sets: queued effects are live, renders do not     *)
(* nest in a batch or a flush, hooks are called in order, and the tree     *)
(* that is left when control is back in the program is the one the state   *)
(* asks for.                                                               *)
(***************************************************************************)
EXTENDS Lifecycle, FiniteSetTheorems, SequenceTheorems, TLAPS

\* The lemmas about stacks and the scheduler's flags.
F == INSTANCE FreshnessProofs WITH Computeds <- {}, overtaken <- ~TRUE

\* The assumptions of Reactivity hold of the instance.
LEMMA GraphConstants ==
  /\ MaxVersion \in Nat /\ MaxBatch \in Nat
  /\ Reads \in [F!Subscribers -> SUBSET F!Sources]
  /\ None \notin F!Subscribers
  /\ States \cap {} = {}
  /\ States \cap Watchers = {}
  /\ {} \cap Watchers = {}
<1>1. Reads \in [Watchers -> SUBSET States]
  BY LifecycleConstants DEF Reads
<1>2. F!Subscribers = Watchers /\ F!Sources = States
  BY DEF F!Subscribers, F!Sources
<1> QED BY <1>1, <1>2, LifecycleConstants

-----------------------------------------------------------------------------
(* Part 1: types, and what is not new. *)

Points == {"init", "render", "mounted", "updated", "cleanup", "unmounted", "children"}

Activations ==
  {f \in [kind : RuntimeKinds, todo : {{}}, inst : Components, at : Points,
          old : Seq(Components), next : Seq(Types), done : Seq(Components),
          child : 0 .. Count] : f.child # 0 => f.next # <<>>}

GraphFrames == {f \in R!Frames : f.kind \in {"batch", "run", "notify", "flush"}}

AllFrames == GraphFrames \cup Activations

\* TypeOK in full.
Shape ==
  /\ version \in [States -> 0 .. MaxVersion]
  /\ obs \in [Watchers -> SUBSET (States \X (0 .. MaxVersion))]
  /\ subscribers \in [States -> SUBSET Watchers]
  /\ deps \in [Watchers -> SUBSET States]
  /\ phase \in [Watchers -> {"new", "live", "stopped"}]
  /\ queued \in [Watchers -> BOOLEAN]
  /\ pending \in Seq(Watchers) /\ round \in Seq(Watchers)
  /\ flushing \in BOOLEAN /\ batchDepth \in Int
  /\ stack \in Seq(AllFrames) /\ subscriberStack \in Seq(Watchers)
  /\ mounted \in [Components -> BOOLEAN] /\ unmounted \in [Components -> BOOLEAN]
  /\ tree \in [Components -> Seq(Components)]
  /\ renderErr \in [Components -> BOOLEAN]
  /\ effectCleanups \in [Components -> SUBSET Effects]
  /\ \A i \in Components : effectCleanups[i] \subseteq {Effect(i)}
  /\ disturbed \subseteq Components

Tells == F!SchedulerTells(stack, flushing, batchDepth)

\* What is queued is live and waits somewhere; something waits only while
\* somebody is going to look at it.
QueueInv ==
  /\ \A w \in Watchers : queued[w] =>
       /\ phase[w] = "live"
       /\ w \in ToSet(pending) \/ w \in ToSet(round)
  /\ round # <<>> => flushing
  /\ pending # <<>> => flushing \/ batchDepth # 0

Old(w) == phase[w] # "new"

\* A child of a patch is in S unless its mountComponent is right above.
ChildrenIn(st, S) ==
  \A k \in DOMAIN st :
    st[k].kind = "patch" /\ st[k].child # 0 /\ st[k].child \notin S =>
      /\ k # 1
      /\ st[k - 1].kind = "mount" /\ st[k - 1].inst = st[k].child

FrameKnown(f, S) ==
  /\ f.todo \subseteq S
  /\ f.kind \in RuntimeKinds => ToSet(f.old) \cup ToSet(f.done) \subseteq S
  /\ f.kind = "patch" => f.inst \in S
  /\ f.kind = "mount" /\ f.at = "render" => f.inst \in S

StackKnown(st, S) == (\A f \in ToSet(st) : FrameKnown(f, S)) /\ ChildrenIn(st, S)

GraphKnown(S) ==
  /\ \A x \in States : subscribers[x] \subseteq S
  /\ ToSet(subscriberStack) \subseteq S
  /\ ToSet(pending) \subseteq S /\ ToSet(round) \subseteq S

TreeKnown(S) ==
  /\ \A i \in Components : mounted[i] => i \in S
  /\ \A i \in Components : ToSet(tree[i]) \subseteq S

Olds == {w \in Watchers : Old(w)}

\* Whatever is run, queued, subscribed or in a tree has been created.
Known == GraphKnown(Olds) /\ TreeKnown(Olds) /\ StackKnown(stack, Olds)

-----------------------------------------------------------------------------
(* Part 2: hooks. *)

\* No component is among the subscribers ss.
NoRender(ss) == ToSet(ss) \cap Components = {}

\* A render function is always the innermost activation.
RenderOnTop ==
  \/ NoRender(subscriberStack)
  \/ /\ R!Running("run") /\ subscriberStack # <<>>
     /\ NoRender(Tail(subscriberStack))

Clash(f, g, kind) == f.kind = kind /\ g.kind = kind /\ f.inst = g.inst

Once(st, kind) == \A k, l \in DOMAIN st : Clash(st[k], st[l], kind) => k = l

InitAboveMount(st) ==
  \A k \in DOMAIN st :
    st[k].kind = "hook" /\ st[k].at = "init" =>
      k + 1 \in DOMAIN st /\ st[k + 1] = MountFrame(st[k].inst)

Mounts == {i \in Components : mounted[i]}
Gone == {i \in Components : unmounted[i]}

\* On a stack, with the mounted components M, the components and watchers S
\* that have been started: components are mounted once, and the root first.
MountsOnce(st, M, S) ==
  /\ Once(st, "mount")
  /\ \A f \in ToSet(st) : f.kind = "mount" =>
       f.inst \notin M /\ (f.inst # Root => Root \in S)

MountInv ==
  /\ MountsOnce(stack, Mounts, Olds)
  /\ Olds \cap Components # {} => Root \in Olds

Creating(st) == {i \in Components : \E f \in ToSet(st) : f.kind = "mount" /\ f.inst = i}

\* The components that have been created.
Made == (Olds \cap Components) \cup Creating(stack)

HeldBy(f, c, p) ==
  /\ f.kind \in {"patch", "unmount"} /\ f.inst = p
  /\ c \in ToSet(f.old) \/ c \in ToSet(f.done) \/ c = f.child

\* c is, or is about to be, or has just been, a child of p.
Kid(c, p, st, t) == c \in ToSet(t[p]) \/ \E f \in ToSet(st) : HeldBy(f, c, p)

ParentsIn(st, t, S) ==
  \A c, p \in Components : Kid(c, p, st, t) =>
    /\ c # Root /\ c \in S
    /\ \A q \in Components : Kid(c, q, st, t) => p = q

OneParent == ParentsIn(stack, tree, Made)

Patching(st, i) == \E f \in ToSet(st) : IsPatchOf(f, i)

\* With the mounted components M, the unmounted ones U and the tree t.
PatchCalm(f, M, U) ==
  /\ f.inst \notin U
  /\ ToSet(f.old) \cup ToSet(f.done) \subseteq M
  /\ ToSet(f.done) \cap U = {}
  /\ f.child \notin U

UnmountCalm(f, M, U, t) ==
  /\ f.inst \in U
  /\ ToSet(f.old) \subseteq M
  /\ f.at = "children" => ToSet(t[f.inst]) \subseteq ToSet(f.old) \cup U

FrameCalm(f, M, U, t) ==
  /\ f.kind = "patch" => PatchCalm(f, M, U)
  /\ f.kind = "unmount" => UnmountCalm(f, M, U, t)

StackCalm(st, M, U, t) ==
  /\ Once(st, "patch")
  /\ \A f \in ToSet(st) : FrameCalm(f, M, U, t)
  /\ ChildrenIn(st, M)

TreeCalm(st, M, U, t) ==
  /\ U \subseteq M
  /\ \A i \in Components : ToSet(t[i]) \subseteq M
  /\ \A i \in Components : i \notin U /\ ~Patching(st, i) => ToSet(t[i]) \cap U = {}

PhaseCalm ==
  \A i \in Components : ~renderErr[i] /\ (i \in Gone <=> phase[i] = "stopped")

CurrentCalm ==
  R!currentSubscriber \in Components =>
    ~Patching(stack, R!currentSubscriber) /\ R!currentSubscriber \notin Gone

Calm ==
  /\ StackCalm(stack, Mounts, Gone, tree) /\ TreeCalm(stack, Mounts, Gone, tree)
  /\ PhaseCalm /\ CurrentCalm

\* While no patch was disturbed.
CalmInv == disturbed = {} => Calm

-----------------------------------------------------------------------------
(* Part 3: the settled tree. *)

Told(st, w) == \E f \in ToSet(st) : f.kind = "notify" /\ w \in f.todo

\* What a live watcher has read is current, or it is going to run again.
Fresh ==
  /\ \A w \in Watchers : \A x \in deps[w] : w \in subscribers[x]
  /\ \A w \in Watchers : phase[w] = "live" => \A r \in obs[w] :
       /\ r[1] \in deps[w]
       /\ r[2] = version[r[1]] \/ queued[w] \/ Told(stack, w)

Patches(st) == {f \in ToSet(st) : f.kind = "patch"}
Unmounting(st, i) == \E f \in ToSet(st) : f.kind = "unmount" /\ f.inst = i

\* c is in a patch that is going on, or in a tree that is not being patched.
Home(c) ==
  \/ \E f \in Patches(stack) : HeldBy(f, c, f.inst)
  \/ \E p \in Components : ~Patching(stack, p) /\ c \in ToSet(tree[p])

AtHome == \A c \in Made : c # Root /\ c \notin Gone => Home(c)

TreesOwned ==
  \A p \in Components : tree[p] # <<>> =>
    p \in Olds /\ (p \in Gone => Unmounting(stack, p))

\* A component that was created and not unmounted is not lost, and no tree is
\* left of one that was unmounted.
HomeInv == disturbed = {} => AtHome /\ TreesOwned

Versions == 0 .. MaxVersion

\* The types of the children that i renders from version v of what it reads.
Want(i, v) == Shows[TypeOf[i]][v]

Observed(i, v) == obs[i] = {<<Input[TypeOf[i]], v>>}

Renders(i, children, v) ==
  /\ Len(children) = Len(Want(i, v))
  /\ \A k \in 1 .. Len(children) : TypeOf[children[k]] = Want(i, v)[k]

\* The patch f is putting in place what its component renders from version v.
RendersSoFar(f, v) ==
  /\ Len(f.done) + Len(f.next) = Len(Want(f.inst, v))
  /\ \A k \in 1 .. Len(f.done) : TypeOf[f.done[k]] = Want(f.inst, v)[k]
  /\ \A k \in 1 .. Len(f.next) : f.next[k] = Want(f.inst, v)[Len(f.done) + k]
  /\ f.child # 0 => f.next # <<>> /\ TypeOf[f.child] = Head(f.next)

\* A live component has in its tree, or is getting into it, what it has
\* rendered from the one thing it has read.
Shown ==
  /\ R!currentSubscriber \in Components => obs[R!currentSubscriber] = {}
  /\ \A f \in Patches(stack) :
       \E v \in Versions : Observed(f.inst, v) /\ RendersSoFar(f, v)
  /\ \A i \in Components :
       phase[i] = "live" /\ i # R!currentSubscriber /\ ~Patching(stack, i) =>
         \E v \in Versions : Observed(i, v) /\ Renders(i, tree[i], v)

ShownInv == disturbed = {} => Shown

\* The effect of a component is going to be stopped with it.
EffectsOwned ==
  \A i \in Components : Effect(i) \in Effects /\ phase[Effect(i)] = "live" =>
    Effect(i) \in effectCleanups[i] /\ i \notin Gone /\ i \in Made

EffectsInv == disturbed = {} => EffectsOwned

-----------------------------------------------------------------------------
(* Sequences as sets, and frames. *)

LEMMA SetPushed ==
  ASSUME NEW S, NEW s \in Seq(S), NEW x \in S
  PROVE  ToSet(<<x>> \o s) = {x} \cup ToSet(s)
<1> DEFINE t == <<x>> \o s
<1>1. /\ t \in Seq(S) /\ Len(t) = Len(s) + 1 /\ t[1] = x /\ Len(s) \in Nat
      /\ \A i \in 1 .. Len(s) : t[i + 1] = s[i]
      /\ \A i \in 2 .. Len(s) + 1 : t[i] = s[i - 1]
  BY F!PushProperties
<1> HIDE DEF t
<1>2. DOMAIN t = 1 .. Len(s) + 1 /\ DOMAIN s = 1 .. Len(s)
  BY <1>1
<1>3. ASSUME NEW y \in ToSet(t)
      PROVE  y \in {x} \cup ToSet(s)
  <2>1. PICK i \in 1 .. Len(s) + 1 : t[i] = y
    BY <1>2 DEF ToSet
  <2>2. CASE i = 1
    BY <1>1, <2>1, <2>2
  <2>3. CASE i # 1
    <3>1. i - 1 \in DOMAIN s /\ s[i - 1] = y
      BY <1>1, <1>2, <2>1, <2>3
    <3> QED BY <3>1 DEF ToSet
  <2> QED BY <2>2, <2>3
<1>4. x \in ToSet(t)
  BY <1>1, <1>2 DEF ToSet
<1>5. ASSUME NEW y \in ToSet(s)
      PROVE  y \in ToSet(t)
  <2>1. PICK i \in 1 .. Len(s) : s[i] = y
    BY <1>2 DEF ToSet
  <2>2. i + 1 \in DOMAIN t /\ t[i + 1] = y
    BY <1>1, <1>2, <2>1
  <2> QED BY <2>2 DEF ToSet
<1> QED BY <1>3, <1>4, <1>5 DEF t

LEMMA SetPopped ==
  ASSUME NEW S, NEW s \in Seq(S), s # <<>>
  PROVE  /\ ToSet(s) = {Head(s)} \cup ToSet(Tail(s))
         /\ ToSet(s) \subseteq S
         /\ Head(s) \in S /\ Tail(s) \in Seq(S)
         /\ s = <<Head(s)>> \o Tail(s)
<1>1. s = <<Head(s)>> \o Tail(s) /\ Head(s) \in S /\ Tail(s) \in Seq(S)
  BY F!PushPop, F!PopProperties
<1>2. ToSet(<<Head(s)>> \o Tail(s)) = {Head(s)} \cup ToSet(Tail(s))
  BY <1>1, SetPushed
<1>3. ToSet(s) \subseteq S
  BY DEF ToSet
<1> QED BY <1>1, <1>2, <1>3

LEMMA SetAppended ==
  ASSUME NEW S, NEW s \in Seq(S), NEW x \in S
  PROVE  /\ Append(s, x) \in Seq(S)
         /\ ToSet(Append(s, x)) = ToSet(s) \cup {x}
<1> DEFINE t == Append(s, x)
<1>1. /\ t \in Seq(S) /\ Len(t) = Len(s) + 1 /\ t[Len(s) + 1] = x /\ Len(s) \in Nat
      /\ \A i \in 1 .. Len(s) : t[i] = s[i]
  BY AppendProperties
<1> HIDE DEF t
<1>2. DOMAIN t = 1 .. Len(s) + 1 /\ DOMAIN s = 1 .. Len(s)
  BY <1>1
<1>3. 1 .. Len(s) + 1 = 1 .. Len(s) \cup {Len(s) + 1}
  BY <1>1
<1>4. ToSet(t) = ToSet(s) \cup {x}
  BY <1>1, <1>2, <1>3 DEF ToSet
<1> QED BY <1>1, <1>4 DEF t

LEMMA SetEmpty ==
  ToSet(<<>>) = {}
BY DEF ToSet

\* Two frames and three frames on a stack.
LEMMA Pushed ==
  ASSUME NEW s \in Seq(AllFrames), NEW f \in AllFrames, NEW g \in AllFrames
  PROVE  /\ <<f>> \o s \in Seq(AllFrames)
         /\ <<f, g>> \o s = <<f>> \o (<<g>> \o s)
         /\ <<f, g>> \o s \in Seq(AllFrames)
         /\ ToSet(<<f>> \o s) = {f} \cup ToSet(s)
         /\ ToSet(<<f, g>> \o s) = {f, g} \cup ToSet(s)
<1>1. <<f>> \o s \in Seq(AllFrames) /\ <<g>> \o s \in Seq(AllFrames)
  BY F!PushProperties
<1>2. <<f>> \in Seq(AllFrames) /\ <<g>> \in Seq(AllFrames)
  OBVIOUS
<1>3. <<f>> \o (<<g>> \o s) = (<<f>> \o <<g>>) \o s
  BY <1>2, ConcatAssociative
<1>4. <<f>> \o <<g>> = <<f, g>>
  <2>1. /\ <<f>> \o <<g>> \in Seq(AllFrames) /\ Len(<<f>> \o <<g>>) = 2
        /\ (<<f>> \o <<g>>)[1] = f /\ (<<f>> \o <<g>>)[2] = g
    BY <1>2, F!PushProperties
  <2>2. <<f, g>> \in Seq(AllFrames) /\ Len(<<f, g>>) = 2
    OBVIOUS
  <2>3. <<f, g>>[1] = f /\ <<f, g>>[2] = g
    OBVIOUS
  <2>4. \A i \in 1 .. 2 : (<<f>> \o <<g>>)[i] = <<f, g>>[i]
    BY <2>1, <2>3
  <2> QED BY <2>1, <2>2, <2>4, SeqEqual
<1>5. <<f>> \o (<<g>> \o s) \in Seq(AllFrames)
  BY <1>1, F!PushProperties
<1>6. ToSet(<<f>> \o (<<g>> \o s)) = {f} \cup ({g} \cup ToSet(s))
  BY <1>1, SetPushed
<1> QED BY <1>1, <1>3, <1>4, <1>5, <1>6, SetPushed

LEMMA ThreePushed ==
  ASSUME NEW s \in Seq(AllFrames), NEW f \in AllFrames, NEW g \in AllFrames,
         NEW h \in AllFrames
  PROVE  <<f, g, h>> \o s = <<f>> \o (<<g>> \o (<<h>> \o s))
<1>1. <<f, g>> \in Seq(AllFrames) /\ <<h>> \in Seq(AllFrames)
  OBVIOUS
<1>2. <<f, g>> \o (<<h>> \o s) = (<<f, g>> \o <<h>>) \o s
  BY <1>1, ConcatAssociative
<1>3. <<f, g>> \o <<h>> = <<f, g, h>>
  <2>1. /\ <<f, g>> \o <<h>> \in Seq(AllFrames) /\ Len(<<f, g>> \o <<h>>) = 3
        /\ \A i \in 1 .. 2 : (<<f, g>> \o <<h>>)[i] = <<f, g>>[i]
        /\ (<<f, g>> \o <<h>>)[3] = <<h>>[1]
    BY <1>1, ConcatProperties
  <2>2. <<f, g, h>> \in Seq(AllFrames) /\ Len(<<f, g, h>>) = 3
    OBVIOUS
  <2>3. /\ <<f, g>>[1] = f /\ <<f, g>>[2] = g /\ <<h>>[1] = h
        /\ <<f, g, h>>[1] = f /\ <<f, g, h>>[2] = g /\ <<f, g, h>>[3] = h
    OBVIOUS
  <2>4. \A i \in 1 .. 3 : (<<f, g>> \o <<h>>)[i] = <<f, g, h>>[i]
    BY <2>1, <2>3
  <2> QED BY <2>1, <2>2, <2>4, SeqEqual
<1>4. <<h>> \o s \in Seq(AllFrames)
  BY Pushed
<1> DEFINE u == <<h>> \o s
<1>5. u \in Seq(AllFrames)
  BY <1>4
<1> HIDE DEF u
<1>6. <<f, g>> \o u = <<f>> \o (<<g>> \o u)
  BY <1>5, Pushed
<1>7. <<f, g, h>> \o s = <<f, g>> \o u
  BY <1>2, <1>3 DEF u
<1>8. <<f>> \o (<<g>> \o u) = <<f>> \o (<<g>> \o (<<h>> \o s))
  BY DEF u
<1> QED BY <1>6, <1>7, <1>8

LEMMA PushedThree ==
  ASSUME NEW s \in Seq(AllFrames), NEW f \in AllFrames, NEW g \in AllFrames,
         NEW h \in AllFrames
  PROVE  /\ <<f, g, h>> \o s = <<f>> \o (<<g>> \o (<<h>> \o s))
         /\ <<f, g, h>> \o s \in Seq(AllFrames)
         /\ ToSet(<<f, g, h>> \o s) = {f, g, h} \cup ToSet(s)
<1> DEFINE u == <<h>> \o s
<1>1. u \in Seq(AllFrames) /\ ToSet(u) = {h} \cup ToSet(s)
  BY Pushed
<1>2. <<f, g, h>> \o s = <<f>> \o (<<g>> \o u)
  BY ONLY ThreePushed, s \in Seq(AllFrames), f \in AllFrames, g \in AllFrames,
          h \in AllFrames
<1> HIDE DEF u
<1>3. /\ <<f, g>> \o u = <<f>> \o (<<g>> \o u)
      /\ <<f, g>> \o u \in Seq(AllFrames)
      /\ ToSet(<<f, g>> \o u) = {f, g} \cup ToSet(u)
  BY <1>1, Pushed
<1>4. <<f, g, h>> \o s = <<f>> \o (<<g>> \o (<<h>> \o s))
  BY <1>2 DEF u
<1> QED BY <1>1, <1>2, <1>3, <1>4

LEMMA PushedOnto ==
  ASSUME NEW s \in Seq(AllFrames), NEW f \in AllFrames, NEW g \in AllFrames
  PROVE  /\ <<f>> \o (<<g>> \o s) \in Seq(AllFrames)
         /\ ToSet(<<f>> \o (<<g>> \o s)) = {f, g} \cup ToSet(s)
<1>1. /\ <<f, g>> \o s = <<f>> \o (<<g>> \o s)
      /\ <<f, g>> \o s \in Seq(AllFrames)
      /\ ToSet(<<f, g>> \o s) = {f, g} \cup ToSet(s)
  BY Pushed
<1> QED BY <1>1

LEMMA HeadPushed ==
  ASSUME NEW S, NEW s \in Seq(S), NEW f \in S
  PROVE  /\ <<f>> \o s \in Seq(S) /\ <<f>> \o s # <<>>
         /\ Head(<<f>> \o s) = f
         /\ Tail(<<f>> \o s) = s
<1> DEFINE t == <<f>> \o s
<1>1. /\ t \in Seq(S) /\ Len(t) = Len(s) + 1 /\ t[1] = f /\ Len(s) \in Nat
      /\ \A i \in 1 .. Len(s) : t[i + 1] = s[i]
  BY F!PushProperties
<1> HIDE DEF t
<1>2. t # <<>>
  BY <1>1
<1>3. /\ Head(t) = t[1] /\ Tail(t) \in Seq(S) /\ Len(Tail(t)) = Len(t) - 1
      /\ \A i \in 1 .. Len(t) - 1 : Tail(t)[i] = t[i + 1]
  BY <1>1, <1>2, F!PopProperties
<1>4. Len(Tail(t)) = Len(s) /\ \A i \in 1 .. Len(s) : Tail(t)[i] = s[i]
  BY <1>1, <1>3
<1>5. Tail(t) = s
  BY <1>3, <1>4, SeqEqual
<1> QED BY <1>1, <1>2, <1>3, <1>5 DEF t

\* What is on a stack after a push and after a pop, for the predicates that
\* look at two frames.
LEMMA OncePushed ==
  ASSUME NEW s \in Seq(AllFrames), NEW f \in AllFrames, NEW kind,
         Once(s, kind), \A g \in ToSet(s) : ~Clash(f, g, kind)
  PROVE  Once(<<f>> \o s, kind)
<1> DEFINE t == <<f>> \o s
<1>1. /\ t \in Seq(AllFrames) /\ Len(t) = Len(s) + 1 /\ t[1] = f /\ Len(s) \in Nat
      /\ \A i \in 2 .. Len(s) + 1 : t[i] = s[i - 1]
  BY F!PushProperties
<1> HIDE DEF t
<1>2. DOMAIN t = 1 .. Len(s) + 1 /\ DOMAIN s = 1 .. Len(s)
  BY <1>1
<1>3. ASSUME NEW k \in DOMAIN t, k # 1
      PROVE  k - 1 \in DOMAIN s /\ t[k] = s[k - 1] /\ t[k] \in ToSet(s)
  <2>1. k - 1 \in DOMAIN s /\ t[k] = s[k - 1]
    BY <1>1, <1>2, <1>3
  <2> QED BY <2>1 DEF ToSet
<1>4. ASSUME NEW k \in DOMAIN t, NEW l \in DOMAIN t, Clash(t[k], t[l], kind)
      PROVE  k = l
  <2>1. CASE k = 1 /\ l # 1
    BY <1>1, <1>3, <1>4, <2>1
  <2>2. CASE k # 1 /\ l = 1
    BY <1>1, <1>3, <1>4, <2>2 DEF Clash
  <2>3. CASE k # 1 /\ l # 1
    <3>1. k - 1 = l - 1
      BY <1>3, <1>4, <2>3 DEF Once
    <3> QED BY <1>2, <3>1
  <2> QED BY <2>1, <2>2, <2>3
<1> QED BY <1>4 DEF Once, t

LEMMA OncePopped ==
  ASSUME NEW s \in Seq(AllFrames), s # <<>>, NEW kind, Once(s, kind)
  PROVE  /\ Once(Tail(s), kind)
         /\ \A g \in ToSet(Tail(s)) : ~Clash(Head(s), g, kind)
<1> DEFINE t == Tail(s)
           f == Head(s)
<1>1. /\ t \in Seq(AllFrames) /\ Len(t) = Len(s) - 1 /\ Len(s) \in Nat \ {0}
      /\ f = s[1]
      /\ \A i \in 1 .. Len(s) - 1 : t[i] = s[i + 1]
  BY F!PopProperties
<1> HIDE DEF t, f
<1>2. DOMAIN t = 1 .. Len(s) - 1 /\ DOMAIN s = 1 .. Len(s)
  BY <1>1
<1>3. ASSUME NEW k \in DOMAIN t
      PROVE  k + 1 \in DOMAIN s /\ t[k] = s[k + 1] /\ k \in Nat \ {0}
  BY <1>1, <1>2
<1>4. ASSUME NEW k \in DOMAIN t, NEW l \in DOMAIN t, Clash(t[k], t[l], kind)
      PROVE  k = l
  <2>1. k + 1 = l + 1
    BY <1>3, <1>4 DEF Once
  <2> QED BY <1>3, <2>1
<1>5. ASSUME NEW g \in ToSet(t), Clash(f, g, kind)
      PROVE  FALSE
  <2>1. PICK k \in DOMAIN t : t[k] = g
    BY DEF ToSet
  <2>2. 1 \in DOMAIN s
    BY <1>1, <1>2
  <2>3. k + 1 = 1
    BY <1>1, <1>3, <1>5, <2>1, <2>2 DEF Once
  <2> QED BY <1>3, <2>3
<1> QED BY <1>4, <1>5 DEF Once, t, f

LEMMA InitPushed ==
  ASSUME NEW s \in Seq(AllFrames), NEW f \in AllFrames, InitAboveMount(s),
         f.kind = "hook" /\ f.at = "init" => s # <<>> /\ Head(s) = MountFrame(f.inst)
  PROVE  InitAboveMount(<<f>> \o s)
<1> DEFINE t == <<f>> \o s
<1>1. /\ t \in Seq(AllFrames) /\ Len(t) = Len(s) + 1 /\ t[1] = f /\ Len(s) \in Nat
      /\ \A i \in 2 .. Len(s) + 1 : t[i] = s[i - 1]
      /\ \A i \in 1 .. Len(s) : t[i + 1] = s[i]
  BY F!PushProperties
<1> HIDE DEF t
<1>2. DOMAIN t = 1 .. Len(s) + 1 /\ DOMAIN s = 1 .. Len(s)
  BY <1>1
<1>3. ASSUME NEW k \in DOMAIN t, t[k].kind = "hook" /\ t[k].at = "init"
      PROVE  k + 1 \in DOMAIN t /\ t[k + 1] = MountFrame(t[k].inst)
  <2>1. CASE k = 1
    <3>1. s # <<>> /\ Head(s) = MountFrame(f.inst)
      BY <1>1, <1>3, <2>1
    <3>2. Len(s) # 0 /\ Head(s) = s[1]
      BY <3>1, F!PopProperties
    <3>3. 2 \in DOMAIN t /\ t[2] = s[1]
      BY <1>1, <1>2, <3>2
    <3> QED BY <1>1, <2>1, <3>1, <3>2, <3>3
  <2>2. CASE k # 1
    <3>1. k - 1 \in DOMAIN s /\ s[k - 1] = t[k]
      BY <1>1, <1>2, <2>2
    <3>2. (k - 1) + 1 \in DOMAIN s /\ s[(k - 1) + 1] = MountFrame(t[k].inst)
      BY <1>3, <3>1 DEF InitAboveMount
    <3>3. (k - 1) + 1 = k
      BY <1>2
    <3> QED BY <1>1, <1>2, <3>2, <3>3
  <2> QED BY <2>1, <2>2
<1> QED BY <1>3 DEF InitAboveMount, t

LEMMA InitPopped ==
  ASSUME NEW s \in Seq(AllFrames), s # <<>>, InitAboveMount(s)
  PROVE  /\ InitAboveMount(Tail(s))
         /\ Head(s).kind = "hook" /\ Head(s).at = "init" =>
              Tail(s) # <<>> /\ Head(Tail(s)) = MountFrame(Head(s).inst)
<1> DEFINE t == Tail(s)
           f == Head(s)
<1>1. /\ t \in Seq(AllFrames) /\ Len(t) = Len(s) - 1 /\ Len(s) \in Nat \ {0}
      /\ f = s[1]
      /\ \A i \in 1 .. Len(s) - 1 : t[i] = s[i + 1]
  BY F!PopProperties
<1> HIDE DEF t, f
<1>2. DOMAIN t = 1 .. Len(s) - 1 /\ DOMAIN s = 1 .. Len(s)
  BY <1>1
<1>3. ASSUME NEW k \in DOMAIN t, t[k].kind = "hook" /\ t[k].at = "init"
      PROVE  k + 1 \in DOMAIN t /\ t[k + 1] = MountFrame(t[k].inst)
  <2>1. k + 1 \in DOMAIN s /\ s[k + 1] = t[k]
    BY <1>1, <1>2
  <2>2. (k + 1) + 1 \in DOMAIN s /\ s[(k + 1) + 1] = MountFrame(t[k].inst)
    BY <1>3, <2>1 DEF InitAboveMount
  <2> QED BY <1>1, <1>2, <2>2
<1>4. ASSUME f.kind = "hook", f.at = "init"
      PROVE  t # <<>> /\ Head(t) = MountFrame(f.inst)
  <2>1. 1 \in DOMAIN s
    BY <1>1, <1>2
  <2>2. 1 + 1 \in DOMAIN s /\ s[1 + 1] = MountFrame(f.inst)
    BY <1>1, <1>4, <2>1 DEF InitAboveMount
  <2>3. Len(t) # 0 /\ t[1] = MountFrame(f.inst)
    BY <1>1, <1>2, <2>2
  <2>4. t # <<>>
    BY <2>3
  <2> QED BY <1>1, <2>3, <2>4, F!PopProperties
<1> QED BY <1>3, <1>4 DEF InitAboveMount, t, f

LEMMA ChildrenPushed ==
  ASSUME NEW s \in Seq(AllFrames), NEW f \in AllFrames, NEW S, ChildrenIn(s, S),
         f.kind = "patch" /\ f.child # 0 => f.child \in S
  PROVE  ChildrenIn(<<f>> \o s, S)
<1> DEFINE t == <<f>> \o s
<1>1. /\ t \in Seq(AllFrames) /\ Len(t) = Len(s) + 1 /\ t[1] = f /\ Len(s) \in Nat
      /\ \A i \in 2 .. Len(s) + 1 : t[i] = s[i - 1]
      /\ \A i \in 1 .. Len(s) : t[i + 1] = s[i]
  BY F!PushProperties
<1> HIDE DEF t
<1>2. DOMAIN t = 1 .. Len(s) + 1 /\ DOMAIN s = 1 .. Len(s)
  BY <1>1
<1>3. ASSUME NEW k \in DOMAIN t,
             t[k].kind = "patch" /\ t[k].child # 0 /\ t[k].child \notin S
      PROVE  /\ k # 1
             /\ t[k - 1].kind = "mount" /\ t[k - 1].inst = t[k].child
  <2>1. k # 1
    BY <1>1, <1>3
  <2>2. k - 1 \in DOMAIN s /\ s[k - 1] = t[k]
    BY <1>1, <1>2, <2>1
  <2>3. k - 1 # 1 /\ s[(k - 1) - 1].kind = "mount" /\ s[(k - 1) - 1].inst = t[k].child
    BY <1>3, <2>2 DEF ChildrenIn
  <2>4. k - 1 \in 2 .. Len(s) + 1 /\ t[k - 1] = s[(k - 1) - 1]
    BY <1>1, <1>2, <2>2, <2>3
  <2> QED BY <2>1, <2>3, <2>4
<1> QED BY <1>3 DEF ChildrenIn, t

\* mountComponentVNode is pushed with the patch that has called it.
LEMMA MountedChildrenPushed ==
  ASSUME NEW s \in Seq(AllFrames), NEW m \in AllFrames, NEW p \in AllFrames,
         NEW S, ChildrenIn(s, S), m.kind = "mount", m.inst = p.child
  PROVE  ChildrenIn(<<m>> \o (<<p>> \o s), S)
<1> DEFINE u == <<p>> \o s
           t == <<m>> \o u
<1>1. /\ u \in Seq(AllFrames) /\ Len(u) = Len(s) + 1 /\ u[1] = p /\ Len(s) \in Nat
      /\ \A i \in 2 .. Len(s) + 1 : u[i] = s[i - 1]
  BY F!PushProperties
<1> HIDE DEF u
<1>2. /\ t \in Seq(AllFrames) /\ Len(t) = Len(u) + 1 /\ t[1] = m /\ Len(u) \in Nat
      /\ \A i \in 2 .. Len(u) + 1 : t[i] = u[i - 1]
  BY <1>1, F!PushProperties
<1> HIDE DEF t
<1>3. DOMAIN t = 1 .. Len(s) + 2 /\ DOMAIN s = 1 .. Len(s)
  BY <1>1, <1>2
<1>4. t[2] = p /\ \A i \in 3 .. Len(s) + 2 : t[i] = s[i - 2]
  <2>1. t[2] = p
    BY <1>1, <1>2
  <2>2. ASSUME NEW i \in 3 .. Len(s) + 2
        PROVE  t[i] = s[i - 2]
    <3>1. t[i] = u[i - 1] /\ i - 1 \in 2 .. Len(s) + 1 /\ (i - 1) - 1 = i - 2
      BY <1>1, <1>2
    <3> QED BY <1>1, <3>1
  <2> QED BY <2>1, <2>2
<1>5. ASSUME NEW k \in DOMAIN t,
             t[k].kind = "patch" /\ t[k].child # 0 /\ t[k].child \notin S
      PROVE  /\ k # 1
             /\ t[k - 1].kind = "mount" /\ t[k - 1].inst = t[k].child
  <2>1. k # 1
    BY <1>2, <1>5
  <2>2. CASE k = 2
    BY <1>2, <1>4, <2>2
  <2>3. CASE k # 2
    <3>1. k \in 3 .. Len(s) + 2 /\ k - 2 \in DOMAIN s /\ s[k - 2] = t[k]
      BY <1>1, <1>3, <1>4, <2>1, <2>3
    <3>2. k - 2 # 1 /\ s[(k - 2) - 1].kind = "mount" /\ s[(k - 2) - 1].inst = t[k].child
      BY <1>5, <3>1 DEF ChildrenIn
    <3>3. k - 1 \in 3 .. Len(s) + 2 /\ (k - 1) - 2 = (k - 2) - 1
      BY <1>1, <1>3, <3>1, <3>2
    <3>4. t[k - 1] = s[(k - 2) - 1]
      BY <1>4, <3>3
    <3> QED BY <2>1, <3>2, <3>4
  <2> QED BY <2>2, <2>3
<1> QED BY <1>5 DEF ChildrenIn, t, u

LEMMA ChildrenPopped ==
  ASSUME NEW s \in Seq(AllFrames), s # <<>>, NEW S, ChildrenIn(s, S),
         Head(s).kind = "mount" => Head(s).inst \in S
  PROVE  /\ ChildrenIn(Tail(s), S)
         /\ Head(s).kind = "patch" /\ Head(s).child # 0 => Head(s).child \in S
<1> DEFINE t == Tail(s)
           f == Head(s)
<1>1. /\ t \in Seq(AllFrames) /\ Len(t) = Len(s) - 1 /\ Len(s) \in Nat \ {0}
      /\ f = s[1]
      /\ \A i \in 1 .. Len(s) - 1 : t[i] = s[i + 1]
  BY F!PopProperties
<1> HIDE DEF t
<1>2. DOMAIN t = 1 .. Len(s) - 1 /\ DOMAIN s = 1 .. Len(s)
  BY <1>1
<1>3. ASSUME NEW k \in DOMAIN t,
             t[k].kind = "patch" /\ t[k].child # 0 /\ t[k].child \notin S
      PROVE  /\ k # 1
             /\ t[k - 1].kind = "mount" /\ t[k - 1].inst = t[k].child
  <2>1. k + 1 \in DOMAIN s /\ s[k + 1] = t[k] /\ (k + 1) - 1 = k
    BY <1>1, <1>2
  <2>2. s[k].kind = "mount" /\ s[k].inst = t[k].child
    BY <1>3, <2>1 DEF ChildrenIn
  <2>3. k # 1
    BY <1>1, <1>3, <2>2
  <2>4. k - 1 \in 1 .. Len(s) - 1 /\ (k - 1) + 1 = k
    BY <1>1, <1>2, <2>3
  <2>5. t[k - 1] = s[k]
    BY <1>1, <2>4
  <2> QED BY <2>2, <2>3, <2>5
<1>4. f.kind = "patch" /\ f.child # 0 => f.child \in S
  <2>1. 1 \in DOMAIN s
    BY <1>1, <1>2
  <2> QED BY <1>1, <2>1 DEF ChildrenIn
<1> QED BY <1>3, <1>4 DEF ChildrenIn, t

LEMMA ChildrenMore ==
  ASSUME NEW s, NEW S, NEW T, ChildrenIn(s, S), S \subseteq T
  PROVE  ChildrenIn(s, T)
BY DEF ChildrenIn

-----------------------------------------------------------------------------
(* The types of what the actions build. *)

LEMMA Names ==
  /\ R!Sources = States /\ R!Subscribers = Watchers
  /\ R!Readings = States \X (0 .. MaxVersion)
  /\ \A i \in Components : Effect(i) \notin Components
  /\ \A i, j \in Components : Effect(i) = Effect(j) => i = j
  /\ Components \subseteq Watchers /\ Effects \subseteq Watchers
  /\ 0 \notin Components /\ 0 .. Count = Components \cup {0}
<1>1. Count \in Nat
  BY LifecycleConstants
<1> QED BY <1>1 DEF R!Sources, R!Subscribers, R!Readings, Effect, Components, Watchers

LEMMA GraphFrameTypes ==
  /\ \A kind \in {"batch", "run", "flush"} :
       /\ R!Frame(kind) \in AllFrames /\ R!Frame(kind).kind = kind
       /\ R!Frame(kind).todo = {}
  /\ \A f \in AllFrames :
       /\ f.kind \in RuntimeKinds => f \in Activations
       /\ f.kind \notin RuntimeKinds => f \in GraphFrames
       /\ f.kind = "notify" => \A w : [f EXCEPT !.todo = @ \ {w}] \in AllFrames
  /\ \A f \in GraphFrames : f.kind \notin RuntimeKinds /\ f.todo \in SUBSET Watchers
  /\ \A f \in Activations : f.kind \in RuntimeKinds /\ f.todo = {}
<1>1. \A kind \in {"batch", "run", "flush"} :
       /\ R!Frame(kind) \in AllFrames /\ R!Frame(kind).kind = kind
       /\ R!Frame(kind).todo = {}
  BY DEF AllFrames, GraphFrames, R!Frame, R!Frames, R!Kinds
<1>2. \A f \in AllFrames :
       /\ f.kind \in RuntimeKinds => f \in Activations
       /\ f.kind \notin RuntimeKinds => f \in GraphFrames
  BY DEF AllFrames, GraphFrames, Activations, RuntimeKinds
<1>3. ASSUME NEW f \in AllFrames, f.kind = "notify", NEW w
      PROVE  [f EXCEPT !.todo = @ \ {w}] \in AllFrames
  <2>1. f \in GraphFrames
    BY <1>2, <1>3 DEF RuntimeKinds
  <2> QED BY <2>1 DEF AllFrames, GraphFrames, R!Frames
<1>4. \A f \in GraphFrames : f.kind \notin RuntimeKinds /\ f.todo \in SUBSET Watchers
  BY Names DEF GraphFrames, R!Frames, RuntimeKinds
<1>5. \A f \in Activations : f.kind \in RuntimeKinds /\ f.todo = {}
  BY DEF Activations
<1> QED BY <1>1, <1>2, <1>3, <1>4, <1>5

\* The loop of notify, from its start.
Relieved(f, w) == [f EXCEPT !.todo = @ \ {w}]

LEMMA NotifyTypes ==
  ASSUME Shape
  PROVE  /\ \A s \in States :
              /\ R!NotifyFrame(s) \in AllFrames /\ R!NotifyFrame(s).kind = "notify"
              /\ R!NotifyFrame(s).todo = subscribers[s]
         /\ \A f \in AllFrames : \A w : f.kind = "notify" =>
              /\ Relieved(f, w) \in AllFrames /\ Relieved(f, w).kind = "notify"
              /\ Relieved(f, w).todo = f.todo \ {w}
<1>1. ASSUME NEW s \in States
      PROVE  /\ R!NotifyFrame(s) \in AllFrames /\ R!NotifyFrame(s).kind = "notify"
             /\ R!NotifyFrame(s).todo = subscribers[s]
  BY Names DEF Shape, R!NotifyFrame, AllFrames, GraphFrames, R!Frames, R!Kinds
<1>2. ASSUME NEW f \in AllFrames, f.kind = "notify", NEW w
      PROVE  /\ Relieved(f, w) \in AllFrames /\ Relieved(f, w).kind = "notify"
             /\ Relieved(f, w).todo = f.todo \ {w}
  <2>1. f \in R!Frames
    BY <1>2, GraphFrameTypes DEF GraphFrames, RuntimeKinds
  <2> QED BY <1>2, <2>1, GraphFrameTypes DEF Relieved, R!Frames
<1> QED BY <1>1, <1>2

LEMMA ActivationTypes ==
  /\ \A i \in Components, name \in Points :
       /\ Hook(name, i) \in AllFrames /\ Hook(name, i) \in Activations
       /\ Hook(name, i).kind = "hook" /\ Hook(name, i).inst = i
       /\ Hook(name, i).at = name
       /\ Hook(name, i).old = <<>> /\ Hook(name, i).done = <<>>
       /\ Hook(name, i).child = 0
  /\ \A i \in Components :
       /\ MountFrame(i) \in AllFrames /\ MountFrame(i) \in Activations
       /\ MountFrame(i).kind = "mount" /\ MountFrame(i).inst = i
       /\ MountFrame(i).at = "init"
       /\ MountFrame(i).old = <<>> /\ MountFrame(i).done = <<>>
       /\ MountFrame(i).child = 0
       /\ UnmountFrame(i) \in AllFrames /\ UnmountFrame(i) \in Activations
       /\ UnmountFrame(i).kind = "unmount" /\ UnmountFrame(i).inst = i
       /\ UnmountFrame(i).at = "cleanup"
       /\ UnmountFrame(i).old = <<>> /\ UnmountFrame(i).done = <<>>
       /\ UnmountFrame(i).child = 0
<1>1. <<>> \in Seq(Components) /\ <<>> \in Seq(Types) /\ 0 \in 0 .. Count
  BY LifecycleConstants
<1>2. ASSUME NEW i \in Components, NEW kind \in RuntimeKinds, NEW p \in Points
      PROVE  Activation(kind, i, p, <<>>, <<>>, <<>>, 0) \in Activations
  BY <1>1, <1>2 DEF Activation, Activations
<1>3. Activations \subseteq AllFrames
  BY DEF AllFrames
<1>4. ASSUME NEW i \in Components, NEW name \in Points
      PROVE  Hook(name, i) \in Activations
  BY <1>2 DEF Hook, RuntimeKinds
<1>5. ASSUME NEW i \in Components
      PROVE  MountFrame(i) \in Activations /\ UnmountFrame(i) \in Activations
  BY <1>2 DEF MountFrame, UnmountFrame, RuntimeKinds, Points
<1> QED BY <1>3, <1>4, <1>5 DEF Hook, MountFrame, UnmountFrame, Activation

LEMMA PatchFrameType ==
  ASSUME Shape, NEW i \in Components
  PROVE  /\ PatchFrame(i) \in Activations /\ PatchFrame(i) \in AllFrames
         /\ PatchFrame(i).kind = "patch" /\ PatchFrame(i).inst = i
         /\ PatchFrame(i).old = tree[i] /\ PatchFrame(i).done = <<>>
         /\ PatchFrame(i).child = 0
<1> DEFINE want == Shows[TypeOf[i]][version[Input[TypeOf[i]]]]
<1>1. tree[i] \in Seq(Components) /\ <<>> \in Seq(Components) /\ 0 \in 0 .. Count
  BY LifecycleConstants DEF Shape
<1>2. TypeOf[i] \in Types /\ Input[TypeOf[i]] \in States
  BY LifecycleConstants
<1>3. version[Input[TypeOf[i]]] \in 0 .. MaxVersion
  BY <1>2 DEF Shape
<1>4. want \in Seq(Types)
  BY <1>2, <1>3, LifecycleConstants
<1> HIDE DEF want
<1>5. PatchFrame(i) = Activation("patch", i, "children", tree[i], want, <<>>, 0)
  BY DEF PatchFrame, want
<1>6. Activation("patch", i, "children", tree[i], want, <<>>, 0) \in Activations
  BY <1>1, <1>4 DEF Activation, Activations, RuntimeKinds, Points
<1> QED BY <1>5, <1>6 DEF Activation, AllFrames

\* The activation on top and those below it.
LEMMA TopType ==
  ASSUME Shape, stack # <<>>
  PROVE  /\ Top \in AllFrames /\ Below \in Seq(AllFrames)
         /\ stack = <<Top>> \o Below
         /\ ToSet(stack) = {Top} \cup ToSet(Below)
         /\ ToSet(stack) \subseteq AllFrames
         /\ Top.kind \in RuntimeKinds => Top \in Activations
<1>1. stack \in Seq(AllFrames)
  BY DEF Shape
<1> QED BY <1>1, SetPopped, GraphFrameTypes DEF Top, Below

LEMMA CurrentType ==
  ASSUME Shape
  PROVE  /\ R!currentSubscriber \in Watchers \cup {None}
         /\ None \notin Watchers
         /\ R!currentSubscriber # None =>
              /\ subscriberStack # <<>> /\ R!currentSubscriber = Head(subscriberStack)
              /\ Tail(subscriberStack) \in Seq(Watchers)
         /\ ToSet(subscriberStack) \subseteq Watchers
BY HeadTailProperties, LifecycleConstants, SetPopped DEF Shape, R!currentSubscriber, ToSet

LEMMA DequeueProperties ==
  ASSUME NEW q \in Seq(Watchers), NEW w
  PROVE  /\ Dequeue(q, w) \in Seq(Watchers)
         /\ ToSet(Dequeue(q, w)) \subseteq ToSet(q)
         /\ \A v \in ToSet(q) : v # w => v \in ToSet(Dequeue(q, w))
<1>1. CASE ~ \E k \in DOMAIN q : q[k] = w
  BY <1>1 DEF Dequeue
<1>2. CASE \E k \in DOMAIN q : q[k] = w
  <2> DEFINE k == CHOOSE k \in DOMAIN q : q[k] = w
             r == RemoveAt(q, k)
  <2>1. k \in 1 .. Len(q) /\ q[k] = w /\ Len(q) \in Nat
    BY <1>2
  <2>2. /\ r \in Seq(Watchers) /\ Len(r) = Len(q) - 1
        /\ \A i \in 1 .. Len(q) - 1 : r[i] = IF i < k THEN q[i] ELSE q[i + 1]
    BY <2>1, GraphConstants, F!RemoveAtProperties
    DEF F!RemoveAt, RemoveAt
  <2>3. Dequeue(q, w) = r
    BY <1>2 DEF Dequeue
  <2> HIDE DEF k, r
  <2>4. DOMAIN r = 1 .. Len(q) - 1 /\ DOMAIN q = 1 .. Len(q)
    BY <2>2
  <2>5. ASSUME NEW v \in ToSet(r)
        PROVE  v \in ToSet(q)
    <3>1. PICK i \in 1 .. Len(q) - 1 : r[i] = v
      BY <2>4 DEF ToSet
    <3>2. i \in DOMAIN q /\ i + 1 \in DOMAIN q
      BY <2>1, <2>4
    <3> QED BY <2>2, <3>1, <3>2 DEF ToSet
  <2>6. ASSUME NEW v \in ToSet(q), v # w
        PROVE  v \in ToSet(r)
    <3>1. PICK i \in 1 .. Len(q) : q[i] = v
      BY <2>4 DEF ToSet
    <3>2. i # k
      BY <2>1, <2>6, <3>1
    <3>3. CASE i < k
      <4>1. i \in DOMAIN r /\ r[i] = v
        BY <2>1, <2>2, <2>4, <3>1, <3>3
      <4> QED BY <4>1 DEF ToSet
    <3>4. CASE ~(i < k)
      <4>1. i - 1 \in DOMAIN r /\ ~(i - 1 < k) /\ (i - 1) + 1 = i
        BY <2>1, <2>4, <3>2, <3>4
      <4>2. r[i - 1] = v
        BY <2>2, <2>4, <3>1, <4>1
      <4> QED BY <4>1, <4>2 DEF ToSet
    <3> QED BY <3>3, <3>4
  <2> QED BY <2>2, <2>3, <2>5, <2>6
<1> QED BY <1>1, <1>2

\* stop of the effects in `stopped': a queue keeps the others.
LEMMA StopProperties ==
  ASSUME Shape, NEW i \in Components, NEW effects \in SUBSET {Effect(i)}, stop(i, effects)
  PROVE  LET stopped == {i} \cup effects IN
         /\ \A w \in Watchers :
              /\ w \in stopped => phase'[w] = "stopped" /\ deps'[w] = {} /\ ~queued'[w]
              /\ w \notin stopped =>
                   phase'[w] = phase[w] /\ deps'[w] = deps[w] /\ queued'[w] = queued[w]
         /\ \A x \in States : subscribers'[x] = subscribers[x] \ stopped
         /\ ToSet(pending') \subseteq ToSet(pending)
         /\ \A w \in ToSet(pending) : w \notin stopped => w \in ToSet(pending')
         /\ phase' \in [Watchers -> {"new", "live", "stopped"}]
         /\ subscribers' \in [States -> SUBSET Watchers]
         /\ deps' \in [Watchers -> SUBSET States]
         /\ pending' \in Seq(Watchers)
         /\ queued' \in [Watchers -> BOOLEAN]
         /\ pending = <<>> => pending' = <<>>
<1>1. /\ pending \in Seq(Watchers) /\ phase \in [Watchers -> {"new", "live", "stopped"}]
      /\ subscribers \in [States -> SUBSET Watchers]
      /\ deps \in [Watchers -> SUBSET States] /\ queued \in [Watchers -> BOOLEAN]
  BY DEF Shape
<1>2. /\ \A w \in Watchers :
           /\ w \in {i} \cup effects =>
                phase'[w] = "stopped" /\ deps'[w] = {} /\ ~queued'[w]
           /\ w \notin {i} \cup effects =>
                phase'[w] = phase[w] /\ deps'[w] = deps[w] /\ queued'[w] = queued[w]
      /\ \A x \in States : subscribers'[x] = subscribers[x] \ ({i} \cup effects)
  BY DEF stop
<1>3. /\ phase' \in [Watchers -> {"new", "live", "stopped"}]
      /\ subscribers' \in [States -> SUBSET Watchers]
      /\ deps' \in [Watchers -> SUBSET States]
  BY <1>1 DEF stop
<1>4. queued' \in [Watchers -> BOOLEAN]
  BY <1>1 DEF stop
<1> DEFINE rest == Dequeue(pending, i)
<1>5. /\ rest \in Seq(Watchers) /\ ToSet(rest) \subseteq ToSet(pending)
      /\ \A v \in ToSet(pending) : v # i => v \in ToSet(rest)
  BY <1>1, DequeueProperties
<1>9. \A w : Dequeue(<<>>, w) = <<>>
  BY DEF Dequeue
<1>6. pending' = IF effects = {} THEN rest ELSE Dequeue(rest, Effect(i))
  BY DEF stop
<1>10. pending = <<>> => pending' = <<>>
  BY <1>6, <1>9
<1> HIDE DEF rest
<1>7. CASE effects = {}
  BY <1>2, <1>3, <1>4, <1>5, <1>6, <1>7, <1>10
<1>8. CASE effects = {Effect(i)}
  <2>1. /\ pending' \in Seq(Watchers) /\ ToSet(pending') \subseteq ToSet(rest)
        /\ \A v \in ToSet(rest) : v # Effect(i) => v \in ToSet(pending')
    BY <1>5, <1>6, <1>8, DequeueProperties
  <2> QED BY <1>2, <1>3, <1>4, <1>5, <1>8, <1>10, <2>1
<1> QED BY <1>7, <1>8

\* A watcher w is started: it forgets what it has read.
Started(w) ==
  /\ subscribers' = R!removeSubscriber(subscribers, deps, w)
  /\ deps' = R!removeDependencies(deps, w)
  /\ obs' = [obs EXCEPT ![w] = {}]
  /\ subscriberStack' = <<w>> \o subscriberStack

LEMMA StartedProperties ==
  ASSUME Shape, NEW w \in Watchers, Started(w)
  PROVE  /\ subscribers' \in [States -> SUBSET Watchers]
         /\ deps' \in [Watchers -> SUBSET States]
         /\ obs' \in [Watchers -> SUBSET (States \X (0 .. MaxVersion))]
         /\ subscriberStack' \in Seq(Watchers)
         /\ ToSet(subscriberStack') = {w} \cup ToSet(subscriberStack)
         /\ \A x \in States : /\ subscribers'[x] \subseteq subscribers[x]
                              /\ subscribers[x] \ {w} \subseteq subscribers'[x]
         /\ deps'[w] = {} /\ obs'[w] = {}
         /\ \A v \in Watchers : v # w => deps'[v] = deps[v] /\ obs'[v] = obs[v]
         /\ subscriberStack' # <<>> /\ R!currentSubscriber' = w
<1>1. /\ subscribers \in [States -> SUBSET Watchers]
      /\ deps \in [Watchers -> SUBSET States]
      /\ obs \in [Watchers -> SUBSET (States \X (0 .. MaxVersion))]
      /\ subscriberStack \in Seq(Watchers)
  BY DEF Shape
<1>2. subscribers' = [x \in States |-> IF x \in deps[w] THEN subscribers[x] \ {w}
                                       ELSE subscribers[x]]
  BY Names DEF Started, R!removeSubscriber
<1>3. deps' = [deps EXCEPT ![w] = {}]
  BY DEF Started, R!removeDependencies
<1>4. obs' = [obs EXCEPT ![w] = {}]
  BY DEF Started
<1>5. subscriberStack' = <<w>> \o subscriberStack
  BY DEF Started
<1>6. /\ subscriberStack' \in Seq(Watchers)
      /\ ToSet(subscriberStack') = {w} \cup ToSet(subscriberStack)
  BY <1>1, <1>5, SetPushed
<1>7. subscriberStack' # <<>> /\ Head(subscriberStack') = w
  BY <1>1, <1>5
<1>8. R!currentSubscriber' = w
  BY <1>7 DEF R!currentSubscriber
<1>9. /\ subscribers' \in [States -> SUBSET Watchers]
      /\ \A x \in States : /\ subscribers'[x] \subseteq subscribers[x]
                           /\ subscribers[x] \ {w} \subseteq subscribers'[x]
  BY <1>1, <1>2
<1>10. /\ deps' \in [Watchers -> SUBSET States] /\ deps'[w] = {}
       /\ \A v \in Watchers : v # w => deps'[v] = deps[v]
  BY <1>1, <1>3
<1>11. /\ obs' \in [Watchers -> SUBSET (States \X (0 .. MaxVersion))] /\ obs'[w] = {}
       /\ \A v \in Watchers : v # w => obs'[v] = obs[v]
  BY <1>1, <1>4
<1> QED BY <1>6, <1>7, <1>8, <1>9, <1>10, <1>11

\* y, if it is a watcher, reads the state s.
Reading(s, y) ==
  /\ subscribers' = R!addSubscriber(subscribers, deps, s, y)
  /\ deps' = R!addDependency(deps, s, y)
  /\ obs' = R!observe(obs, y, {<<s, version[s]>>})

LEMMA ReadingProperties ==
  ASSUME Shape, NEW s \in States, NEW y \in Watchers \cup {None}, Reading(s, y)
  PROVE  /\ subscribers' \in [States -> SUBSET Watchers]
         /\ deps' \in [Watchers -> SUBSET States]
         /\ obs' \in [Watchers -> SUBSET (States \X (0 .. MaxVersion))]
         /\ \A x \in States : /\ subscribers[x] \subseteq subscribers'[x]
                              /\ subscribers'[x] \subseteq subscribers[x] \cup ({y} \ {None})
         /\ \A v \in Watchers : v # y => deps'[v] = deps[v] /\ obs'[v] = obs[v]
         /\ y # None => /\ deps'[y] = deps[y] \cup {s}
                        /\ s \notin deps[y] => y \in subscribers'[s]
                        /\ obs'[y] = obs[y] \cup {<<s, version[s]>>}
<1>1. /\ subscribers \in [States -> SUBSET Watchers]
      /\ deps \in [Watchers -> SUBSET States]
      /\ obs \in [Watchers -> SUBSET (States \X (0 .. MaxVersion))]
      /\ version[s] \in 0 .. MaxVersion
  BY DEF Shape
<1>2. CASE y = None
  <2>1. subscribers' = subscribers /\ deps' = deps /\ obs' = obs
    BY <1>2 DEF Reading, R!addSubscriber, R!addDependency, R!observe
  <2> QED BY <1>1, <1>2, <2>1, CurrentType
<1>3. CASE y # None
  <2>1. y \in Watchers
    BY <1>3
  <2>2. /\ subscribers' = IF s \in deps[y] THEN subscribers
                          ELSE [subscribers EXCEPT ![s] = @ \cup {y}]
        /\ deps' = [deps EXCEPT ![y] = @ \cup {s}]
        /\ obs' = [obs EXCEPT ![y] = @ \cup {<<s, version[s]>>}]
    BY <1>3 DEF Reading, R!addSubscriber, R!addDependency, R!observe
  <2>3. <<s, version[s]>> \in States \X (0 .. MaxVersion)
    BY <1>1
  <2>4. /\ obs' \in [Watchers -> SUBSET (States \X (0 .. MaxVersion))]
        /\ obs'[y] = obs[y] \cup {<<s, version[s]>>}
        /\ \A v \in Watchers : v # y => obs'[v] = obs[v]
    BY <1>1, <2>1, <2>2, <2>3
  <2>5. /\ deps' \in [Watchers -> SUBSET States] /\ deps'[y] = deps[y] \cup {s}
        /\ \A v \in Watchers : v # y => deps'[v] = deps[v]
    BY <1>1, <2>1, <2>2
  <2>6. /\ subscribers' \in [States -> SUBSET Watchers]
        /\ \A x \in States : /\ subscribers[x] \subseteq subscribers'[x]
                             /\ subscribers'[x] \subseteq subscribers[x] \cup {y}
        /\ s \notin deps[y] => y \in subscribers'[s]
    BY <1>1, <2>1, <2>2
  <2> QED BY <1>3, <2>4, <2>5, <2>6
<1> QED BY <1>2, <1>3

\* The changes that the runtime makes to an activation.
Chosen(f, c) == [f EXCEPT !.child = c]
Adopted(f) ==
  [f EXCEPT !.child = 0, !.next = Tail(@), !.done = Append(@, f.child)]
Passed(f) == [f EXCEPT !.old = Tail(@)]
Taken(f, q) == [f EXCEPT !.at = "children", !.old = q]
Begun(f) == [f EXCEPT !.at = "render"]

LEMMA FieldTypes ==
  ASSUME NEW f \in Activations
  PROVE  /\ f \in [kind : RuntimeKinds, todo : {{}}, inst : Components, at : Points,
                   old : Seq(Components), next : Seq(Types), done : Seq(Components),
                   child : 0 .. Count]
         /\ f.inst \in Components /\ f.todo = {}
         /\ f.old \in Seq(Components) /\ f.done \in Seq(Components)
         /\ f.next \in Seq(Types) /\ f.kind \in RuntimeKinds
         /\ f.child \in 0 .. Count
         /\ f.child # 0 => f.child \in Components /\ f.next # <<>>
         /\ f \in AllFrames
BY Names DEF Activations, AllFrames

LEMMA ChildChosen ==
  ASSUME NEW f \in Activations, NEW c \in Components, f.next # <<>>
  PROVE  /\ Chosen(f, c) \in Activations /\ Chosen(f, c) \in AllFrames
         /\ Chosen(f, c).kind = f.kind /\ Chosen(f, c).inst = f.inst /\ Chosen(f, c).at = f.at
         /\ Chosen(f, c).old = f.old /\ Chosen(f, c).next = f.next
         /\ Chosen(f, c).done = f.done /\ Chosen(f, c).child = c
BY FieldTypes, Names DEF Chosen, Activations, AllFrames

LEMMA ChildAdded ==
  ASSUME NEW f \in Activations, f.child # 0
  PROVE  /\ Adopted(f) \in Activations /\ Adopted(f) \in AllFrames
         /\ Adopted(f).kind = f.kind /\ Adopted(f).inst = f.inst /\ Adopted(f).at = f.at
         /\ Adopted(f).old = f.old /\ Adopted(f).next = Tail(f.next)
         /\ Adopted(f).done = Append(f.done, f.child) /\ Adopted(f).child = 0
         /\ ToSet(Adopted(f).done) = ToSet(f.done) \cup {f.child}
<1>1. f.child \in Components /\ f.next # <<>>
  BY FieldTypes
<1>2. Tail(f.next) \in Seq(Types)
  BY <1>1, FieldTypes, SetPopped
<1>3. /\ Append(f.done, f.child) \in Seq(Components)
      /\ ToSet(Append(f.done, f.child)) = ToSet(f.done) \cup {f.child}
  BY <1>1, FieldTypes, SetAppended
<1> DEFINE g == [f EXCEPT !.child = 0, !.next = Tail(f.next),
                          !.done = Append(f.done, f.child)]
<1>4. /\ g \in [kind : RuntimeKinds, todo : {{}}, inst : Components, at : Points,
                 old : Seq(Components), next : Seq(Types), done : Seq(Components),
                 child : 0 .. Count]
      /\ g.child = 0
  BY <1>1, <1>2, <1>3, FieldTypes, Names
<1>5. g \in Activations /\ g \in AllFrames
  BY <1>4 DEF Activations, AllFrames
<1>6. Adopted(f) = g
  BY DEF Adopted
<1> QED BY <1>1, <1>3, <1>5, <1>6, FieldTypes

LEMMA OldPassed ==
  ASSUME NEW f \in Activations, f.old # <<>>
  PROVE  /\ Passed(f) \in Activations /\ Passed(f) \in AllFrames
         /\ Passed(f).kind = f.kind /\ Passed(f).inst = f.inst /\ Passed(f).at = f.at
         /\ Passed(f).old = Tail(f.old) /\ Passed(f).next = f.next /\ Passed(f).done = f.done
         /\ Passed(f).child = f.child
         /\ ToSet(f.old) = {Head(f.old)} \cup ToSet(Passed(f).old)
         /\ Head(f.old) \in Components
<1>1. /\ Tail(f.old) \in Seq(Components) /\ Head(f.old) \in Components
      /\ ToSet(f.old) = {Head(f.old)} \cup ToSet(Tail(f.old))
  BY FieldTypes, SetPopped
<1> QED BY <1>1, FieldTypes DEF Passed, Activations, AllFrames

LEMMA TreeTaken ==
  ASSUME NEW f \in Activations, NEW q \in Seq(Components)
  PROVE  /\ Taken(f, q) \in Activations /\ Taken(f, q) \in AllFrames
         /\ Taken(f, q).kind = f.kind /\ Taken(f, q).inst = f.inst /\ Taken(f, q).at = "children"
         /\ Taken(f, q).old = q /\ Taken(f, q).next = f.next /\ Taken(f, q).done = f.done /\ Taken(f, q).child = f.child
BY FieldTypes DEF Taken, Activations, AllFrames, Points

LEMMA RenderBegun ==
  ASSUME NEW f \in Activations
  PROVE  /\ Begun(f) \in Activations /\ Begun(f) \in AllFrames
         /\ Begun(f).kind = f.kind /\ Begun(f).inst = f.inst /\ Begun(f).at = "render"
         /\ Begun(f).old = f.old /\ Begun(f).next = f.next /\ Begun(f).done = f.done /\ Begun(f).child = f.child
BY FieldTypes DEF Begun, Activations, AllFrames, Points

LEMMA RunProperties ==
  ASSUME Shape, NEW i \in Components, NEW below \in Seq(AllFrames), run(i, below)
  PROVE  /\ i \in Watchers /\ Started(i)
         /\ stack' = <<R!Frame("run")>> \o below /\ stack' \in Seq(AllFrames)
         /\ ToSet(stack') = {R!Frame("run")} \cup ToSet(below)
         /\ disturbed' \subseteq Components
         /\ disturbed \subseteq disturbed'
         /\ InProgress(i) => i \in disturbed'
<1>1. /\ Started(i) /\ stack' = <<R!Frame("run")>> \o below /\ Disturb(i)
      /\ i \in Watchers
  BY Names DEF run, Started
<1>2. R!Frame("run") \in AllFrames
  BY GraphFrameTypes
<1>3. disturbed' = IF InProgress(i) THEN disturbed \cup {i} ELSE disturbed
  BY <1>1 DEF Disturb
<1> QED BY <1>1, <1>2, <1>3, Pushed DEF Shape

LEMMA UnmountProperties ==
  ASSUME Shape, NEW i \in Components, NEW below \in Seq(AllFrames), unmount(i, below)
  PROVE  /\ stop(i, effectCleanups[i]) /\ effectCleanups[i] \in SUBSET {Effect(i)}
         /\ unmounted' = [unmounted EXCEPT ![i] = TRUE]
         /\ effectCleanups' = [effectCleanups EXCEPT ![i] = {}]
         /\ stack' = <<Hook("cleanup", i)>> \o (<<UnmountFrame(i)>> \o below)
         /\ stack' \in Seq(AllFrames)
         /\ ToSet(stack') = {Hook("cleanup", i), UnmountFrame(i)} \cup ToSet(below)
         /\ disturbed' \subseteq Components
         /\ disturbed \subseteq disturbed'
         /\ InProgress(i) => i \in disturbed'
         /\ UNCHANGED <<version, dirty, obs, round, flushing, batchDepth,
                        subscriberStack, mounted, tree, renderErr>>
<1>1. /\ stop(i, effectCleanups[i]) /\ unmounted' = [unmounted EXCEPT ![i] = TRUE]
      /\ effectCleanups' = [effectCleanups EXCEPT ![i] = {}]
      /\ stack' = <<Hook("cleanup", i), UnmountFrame(i)>> \o below /\ Disturb(i)
      /\ UNCHANGED <<version, dirty, obs, round, flushing, batchDepth,
                     subscriberStack, mounted, tree, renderErr>>
  BY DEF unmount
<1>2. Hook("cleanup", i) \in AllFrames /\ UnmountFrame(i) \in AllFrames
  BY ActivationTypes DEF Points
<1>3. disturbed' = IF InProgress(i) THEN disturbed \cup {i} ELSE disturbed
  BY <1>1 DEF Disturb
<1>4. effectCleanups[i] \in SUBSET {Effect(i)}
  BY DEF Shape
<1> QED BY <1>1, <1>2, <1>3, <1>4, Pushed DEF Shape

\* the parts of Shape that a step may disturb
GraphShape ==
  /\ version \in [States -> 0 .. MaxVersion]
  /\ obs \in [Watchers -> SUBSET (States \X (0 .. MaxVersion))]
  /\ subscribers \in [States -> SUBSET Watchers]
  /\ deps \in [Watchers -> SUBSET States]
  /\ phase \in [Watchers -> {"new", "live", "stopped"}]

SchedulerShape ==
  /\ queued \in [Watchers -> BOOLEAN]
  /\ pending \in Seq(Watchers) /\ round \in Seq(Watchers)
  /\ flushing \in BOOLEAN /\ batchDepth \in Int

RuntimeShape ==
  /\ mounted \in [Components -> BOOLEAN] /\ unmounted \in [Components -> BOOLEAN]
  /\ tree \in [Components -> Seq(Components)]
  /\ renderErr \in [Components -> BOOLEAN]
  /\ effectCleanups \in [Components -> SUBSET Effects]
  /\ \A i \in Components : effectCleanups[i] \subseteq {Effect(i)}
  /\ disturbed \subseteq Components

LEMMA ShapeParts ==
  Shape <=> /\ GraphShape /\ SchedulerShape /\ RuntimeShape
            /\ stack \in Seq(AllFrames) /\ subscriberStack \in Seq(Watchers)
BY DEF Shape, GraphShape, SchedulerShape, RuntimeShape

LEMMA ShapeNext ==
  ASSUME GraphShape', SchedulerShape', RuntimeShape',
         stack' \in Seq(AllFrames), subscriberStack' \in Seq(Watchers)
  PROVE  Shape'
BY DEF Shape, GraphShape, SchedulerShape, RuntimeShape

LEMMA ShapeKept ==
  ASSUME Shape
  PROVE  /\ UNCHANGED graph => GraphShape'
         /\ UNCHANGED scheduler => SchedulerShape'
         /\ UNCHANGED runtime => RuntimeShape'
         /\ UNCHANGED subscriberStack => subscriberStack' \in Seq(Watchers)
         /\ UNCHANGED stack => stack' \in Seq(AllFrames)
BY DEF Shape, GraphShape, SchedulerShape, RuntimeShape, graph, scheduler, runtime

LEMMA ShapeInit ==
  ASSUME Init
  PROVE  Shape
<1>1. /\ version = [s \in States |-> 0] /\ obs = [y \in Watchers |-> {}]
      /\ subscribers = [x \in States |-> {}] /\ deps = [y \in Watchers |-> {}]
      /\ phase = [w \in Watchers |-> "new"]
  BY Names DEF Init, R!Init
<1>2. GraphShape
  BY <1>1, LifecycleConstants DEF GraphShape
<1>3. /\ queued = [w \in Watchers |-> FALSE] /\ pending = <<>> /\ round = <<>>
      /\ flushing = FALSE /\ batchDepth = 0 /\ stack = <<>> /\ subscriberStack = <<>>
  BY DEF Init, R!Init
<1>6. flushing \in BOOLEAN
  BY <1>3, Zenon
<1>4. SchedulerShape
  BY <1>3, <1>6 DEF SchedulerShape
<1>5. RuntimeShape
  BY DEF Init, RuntimeShape
<1> QED BY <1>2, <1>3, <1>4, <1>5, ShapeParts

LEMMA MountShape ==
  ASSUME Shape, Mount \/ MountRender \/ MountDone \/ MountFails
  PROVE  Shape'
<1> USE LifecycleConstants
<1>1. CASE Mount
  <2>1. Hook("init", Root) \in AllFrames /\ MountFrame(Root) \in AllFrames
    BY ActivationTypes DEF Points
  <2>2. stack' \in Seq(AllFrames)
    BY <1>1, <2>1, Pushed DEF Mount, Shape
  <2> QED BY <1>1, <2>2, ShapeKept, ShapeNext DEF Mount
<1>2. CASE MountRender
  <2>1. /\ stack # <<>> /\ Top.kind = "mount"
        /\ phase' = [phase EXCEPT ![Top.inst] = "live"]
        /\ run(Top.inst, <<[Top EXCEPT !.at = "render"]>> \o Below)
        /\ UNCHANGED <<version, scheduler, mounted, unmounted, tree, renderErr,
                       effectCleanups>>
    BY <1>2 DEF MountRender, R!Running, Top
  <2>2. Top \in Activations /\ Top.inst \in Components /\ Below \in Seq(AllFrames)
    BY <2>1, TopType, FieldTypes DEF RuntimeKinds
  <2>3. <<[Top EXCEPT !.at = "render"]>> \o Below \in Seq(AllFrames)
    BY <2>2, RenderBegun, Pushed DEF Begun
  <2>4. GraphShape' /\ subscriberStack' \in Seq(Watchers)
    BY <2>1, <2>2, <2>3, RunProperties, StartedProperties DEF GraphShape, Shape
  <2>5. stack' \in Seq(AllFrames) /\ RuntimeShape'
    BY <2>1, <2>2, <2>3, RunProperties DEF RuntimeShape, Shape
  <2> QED BY <2>1, <2>4, <2>5, ShapeKept, ShapeNext
<1>3. CASE MountDone
  <2>1. /\ stack # <<>> /\ Top.kind = "mount"
        /\ mounted' = [mounted EXCEPT ![Top.inst] = TRUE]
        /\ stack' = <<Hook("mounted", Top.inst)>> \o Below
    BY <1>3 DEF MountDone, R!Running, Top
  <2>2. Top \in Activations /\ Top.inst \in Components /\ Below \in Seq(AllFrames)
    BY <2>1, TopType, FieldTypes DEF RuntimeKinds
  <2>3. stack' \in Seq(AllFrames)
    BY <2>1, <2>2, ActivationTypes, Pushed DEF Points
  <2>4. RuntimeShape'
    BY <1>3, <2>1, <2>2 DEF RuntimeShape, Shape, MountDone
  <2> QED BY <1>3, <2>3, <2>4, ShapeKept, ShapeNext DEF MountDone
<1>4. CASE MountFails
  <2> DEFINE i == Top.inst
             cleans == i # Root
             stopped == IF cleans THEN effectCleanups[i] ELSE {}
  <2>1. /\ stack # <<>> /\ Top.kind = "mount"
        /\ stop(i, stopped)
        /\ effectCleanups' = [effectCleanups EXCEPT ![i] = IF cleans THEN {} ELSE @]
        /\ stack' = (IF cleans THEN <<Hook("cleanup", i)>> ELSE <<>>) \o Below
    BY <1>4 DEF MountFails, R!Running, Top
  <2>2. Top \in Activations /\ i \in Components /\ Below \in Seq(AllFrames)
    BY <2>1, TopType, FieldTypes DEF RuntimeKinds
  <2>3. stopped \in SUBSET {Effect(i)}
    BY <2>2 DEF Shape
  <2>4. stack' \in Seq(AllFrames)
    <3>1. <<Hook("cleanup", i)>> \o Below \in Seq(AllFrames)
      BY <2>2, ActivationTypes, Pushed DEF Points
    <3>2. <<>> \o Below = Below
      BY <2>2
    <3> QED BY <2>1, <2>2, <3>1, <3>2
  <2>5. /\ GraphShape' /\ SchedulerShape'
    <3> HIDE DEF i, stopped
    <3>1. /\ phase' \in [Watchers -> {"new", "live", "stopped"}]
          /\ subscribers' \in [States -> SUBSET Watchers]
          /\ deps' \in [Watchers -> SUBSET States]
          /\ pending' \in Seq(Watchers)
          /\ queued' \in [Watchers -> BOOLEAN]
      BY <2>1, <2>2, <2>3, StopProperties
    <3>2. UNCHANGED <<version, obs, round, flushing, batchDepth>>
      BY <1>4 DEF MountFails
    <3>3. GraphShape'
      BY <3>1, <3>2 DEF GraphShape, Shape
    <3>4. SchedulerShape'
      BY <3>1, <3>2 DEF SchedulerShape, Shape
    <3> QED BY <3>3, <3>4
  <2>6. RuntimeShape'
    <3>1. UNCHANGED <<mounted, unmounted, tree, renderErr, disturbed>>
      BY <1>4 DEF MountFails
    <3>2. /\ effectCleanups' \in [Components -> SUBSET Effects]
          /\ \A j \in Components : effectCleanups'[j] \subseteq {Effect(j)}
      BY <2>1, <2>2 DEF Shape
    <3> QED BY <3>1, <3>2 DEF RuntimeShape, Shape
  <2> QED BY <1>4, <2>4, <2>5, <2>6, ShapeKept, ShapeNext DEF MountFails
<1> QED BY <1>1, <1>2, <1>3, <1>4

LEMMA UnmountShape ==
  ASSUME Shape, NEW i \in Components, NEW below \in Seq(AllFrames), unmount(i, below)
  PROVE  Shape'
<1>1. /\ phase' \in [Watchers -> {"new", "live", "stopped"}]
      /\ subscribers' \in [States -> SUBSET Watchers]
      /\ deps' \in [Watchers -> SUBSET States]
      /\ pending' \in Seq(Watchers)
      /\ queued' \in [Watchers -> BOOLEAN]
  BY UnmountProperties, StopProperties
<1>2. GraphShape' /\ SchedulerShape'
  BY <1>1, UnmountProperties DEF GraphShape, SchedulerShape, Shape
<1>3. RuntimeShape'
  BY UnmountProperties DEF RuntimeShape, Shape
<1> QED BY <1>2, <1>3, UnmountProperties, ShapeKept, ShapeNext

\* A step that changes nothing but the stack.
LEMMA CallsShape ==
  ASSUME Shape, UNCHANGED <<graph, scheduler, runtime>>,
         stack' \in Seq(AllFrames), subscriberStack' \in Seq(Watchers)
  PROVE  Shape'
BY ShapeKept, ShapeNext

\* An update changes the graph and the stack.
LEMMA RunShape ==
  ASSUME Shape, NEW i \in Components, NEW below \in Seq(AllFrames), run(i, below),
         UNCHANGED <<version, dirty, phase, scheduler, mounted, unmounted, tree,
                     renderErr, effectCleanups>>
  PROVE  Shape'
<1>1. GraphShape' /\ subscriberStack' \in Seq(Watchers)
  BY RunProperties, StartedProperties DEF GraphShape, Shape
<1>2. stack' \in Seq(AllFrames) /\ RuntimeShape'
  BY RunProperties DEF RuntimeShape, Shape
<1> QED BY <1>1, <1>2, ShapeKept, ShapeNext

LEMMA PatchShape ==
  ASSUME Shape, \/ RenderReturns \/ ChildDone \/ PatchFails \/ PatchDone
                \/ \E c \in Components : UpdateChild(c) \/ MountChild(c)
                \/ RemoveChild \/ SkipOld
  PROVE  Shape'
<1>1. CASE RenderReturns
  <2> DEFINE i == Head(subscriberStack)
  <2>1. /\ stack # <<>> /\ R!currentSubscriber \in Components
        /\ stack' = <<PatchFrame(i)>> \o Below
        /\ subscriberStack' = Tail(subscriberStack)
        /\ Reading(Input[TypeOf[i]], i)
        /\ UNCHANGED <<version, phase, scheduler, runtime>>
    BY <1>1 DEF RenderReturns, Rendering, R!Running, Reading
  <2>2. i \in Components /\ i \in Watchers /\ subscriberStack' \in Seq(Watchers)
    BY <2>1, CurrentType, Names DEF Components, Watchers
  <2>3. Input[TypeOf[i]] \in States
    BY <2>2, LifecycleConstants
  <2>4. GraphShape'
    BY <2>1, <2>2, <2>3, ReadingProperties DEF GraphShape, Shape
  <2>5. stack' \in Seq(AllFrames)
    BY <2>1, <2>2, TopType, PatchFrameType, Pushed
  <2> QED BY <2>1, <2>2, <2>4, <2>5, ShapeKept, ShapeNext
<1>2. CASE ChildDone
  <2>1. /\ stack # <<>> /\ Top.kind = "patch" /\ Top.child # 0
        /\ stack' = <<[Top EXCEPT !.child = 0, !.next = Tail(@),
                                  !.done = Append(@, Top.child)]>> \o Below
        /\ UNCHANGED <<graph, scheduler, subscriberStack, runtime>>
    BY <1>2 DEF ChildDone, R!Running, Top
  <2>2. Top \in Activations /\ Below \in Seq(AllFrames)
    BY <2>1, TopType DEF RuntimeKinds
  <2>4. <<Adopted(Top)>> \o Below \in Seq(AllFrames)
    BY <2>1, <2>2, ChildAdded, Pushed
  <2>3. stack' \in Seq(AllFrames)
    BY <2>1, <2>4 DEF Adopted
  <2> QED BY <2>1, <2>3, CallsShape DEF Shape
<1>3. CASE PatchFails
  <2>1. /\ stack # <<>> /\ Top.kind = "patch" /\ stack' = Below
        /\ renderErr' = [renderErr EXCEPT ![Top.inst] = TRUE]
        /\ disturbed' = disturbed \cup {Top.inst}
        /\ UNCHANGED <<graph, scheduler, subscriberStack, mounted, unmounted, tree,
                       effectCleanups>>
    BY <1>3 DEF PatchFails, R!Running, Top
  <2>2. Top.inst \in Components /\ Below \in Seq(AllFrames)
    BY <2>1, TopType, FieldTypes DEF RuntimeKinds
  <2>3. RuntimeShape'
    BY <2>1, <2>2 DEF RuntimeShape, Shape
  <2> QED BY <2>1, <2>2, <2>3, ShapeKept, ShapeNext
<1>4. CASE PatchDone
  <2>1. /\ stack # <<>> /\ Top.kind = "patch"
        /\ tree' = [tree EXCEPT ![Top.inst] = Top.done]
        /\ renderErr' = [renderErr EXCEPT ![Top.inst] = FALSE]
        /\ stack' = (IF mounted[Top.inst] THEN <<Hook("updated", Top.inst)>> ELSE <<>>)
                      \o Below
        /\ UNCHANGED <<graph, scheduler, subscriberStack, mounted, unmounted,
                       effectCleanups, disturbed>>
    BY <1>4 DEF PatchDone, R!Running, Top
  <2>2. /\ Top.inst \in Components /\ Below \in Seq(AllFrames)
        /\ Top.done \in Seq(Components)
    BY <2>1, TopType, FieldTypes DEF RuntimeKinds
  <2>3. stack' \in Seq(AllFrames)
    <3>1. <<Hook("updated", Top.inst)>> \o Below \in Seq(AllFrames)
      BY <2>2, ActivationTypes, Pushed DEF Points
    <3>2. <<>> \o Below = Below
      BY <2>2
    <3> QED BY <2>1, <2>2, <3>1, <3>2
  <2>4. RuntimeShape'
    BY <2>1, <2>2 DEF RuntimeShape, Shape
  <2> QED BY <2>1, <2>3, <2>4, ShapeKept, ShapeNext
<1>5. ASSUME NEW c \in Components, UpdateChild(c)
      PROVE  Shape'
  <2>1. /\ stack # <<>> /\ Top.kind = "patch" /\ Top.next # <<>>
        /\ run(c, <<[Top EXCEPT !.child = c]>> \o Below)
    BY <1>5 DEF UpdateChild, AtChild, R!Running, Top
  <2>2. Top \in Activations /\ Below \in Seq(AllFrames)
    BY <2>1, TopType DEF RuntimeKinds
  <2>3. <<[Top EXCEPT !.child = c]>> \o Below \in Seq(AllFrames)
    BY <2>1, <2>2, ChildChosen, Pushed DEF Chosen
  <2> QED BY <1>5, <2>1, <2>3, RunShape DEF UpdateChild
<1>6. ASSUME NEW c \in Components, MountChild(c)
      PROVE  Shape'
  <2>1. /\ stack # <<>> /\ Top.kind = "patch" /\ Top.next # <<>>
        /\ stack' = <<Hook("init", c), MountFrame(c), [Top EXCEPT !.child = c]>> \o Below
        /\ UNCHANGED <<graph, scheduler, subscriberStack, runtime>>
    BY <1>6 DEF MountChild, AtChild, R!Running, Top
  <2>2. Top \in Activations /\ Below \in Seq(AllFrames)
    BY <2>1, TopType DEF RuntimeKinds
  <2>3. [Top EXCEPT !.child = c] \in AllFrames
    BY <2>1, <2>2, ChildChosen DEF Chosen
  <2>4. stack' \in Seq(AllFrames)
    BY <2>1, <2>2, <2>3, ActivationTypes, PushedThree DEF Points
  <2> QED BY <2>1, <2>4, CallsShape DEF Shape
<1>7. CASE RemoveChild
  <2>1. /\ stack # <<>> /\ Top.kind = "patch" /\ Top.old # <<>>
        /\ unmount(Head(Top.old), <<[Top EXCEPT !.old = Tail(@)]>> \o Below)
    BY <1>7 DEF RemoveChild, AtOld, PastOld, R!Running, Top
  <2>2. Top \in Activations /\ Below \in Seq(AllFrames)
    BY <2>1, TopType DEF RuntimeKinds
  <2>3. /\ <<[Top EXCEPT !.old = Tail(@)]>> \o Below \in Seq(AllFrames)
        /\ Head(Top.old) \in Components
    BY <2>1, <2>2, OldPassed, Pushed DEF Passed
  <2> QED BY <2>1, <2>3, UnmountShape
<1>8. CASE SkipOld
  <2>1. /\ stack # <<>> /\ Top.kind = "patch" /\ Top.old # <<>>
        /\ stack' = <<[Top EXCEPT !.old = Tail(@)]>> \o Below
        /\ UNCHANGED <<graph, scheduler, subscriberStack, runtime>>
    BY <1>8 DEF SkipOld, AtOld, PastOld, R!Running, Top
  <2>2. Top \in Activations /\ Below \in Seq(AllFrames)
    BY <2>1, TopType DEF RuntimeKinds
  <2>3. stack' \in Seq(AllFrames)
    BY <2>1, <2>2, OldPassed, Pushed DEF Passed
  <2> QED BY <2>1, <2>3, CallsShape DEF Shape
<1> QED BY <1>1, <1>2, <1>3, <1>4, <1>5, <1>6, <1>7, <1>8

LEMMA UnmountingShape ==
  ASSUME Shape, UnmountTree \/ UnmountChild \/ UnmountDone \/ Unmount
  PROVE  Shape'
<1>1. CASE UnmountTree
  <2>1. /\ stack # <<>> /\ Top.kind = "unmount"
        /\ stack' = <<Taken(Top, tree[Top.inst])>> \o Below
        /\ UNCHANGED <<graph, scheduler, subscriberStack, runtime>>
    BY <1>1 DEF UnmountTree, R!Running, Top, Taken
  <2>2. Top \in Activations /\ Below \in Seq(AllFrames)
    BY <2>1, TopType DEF RuntimeKinds
  <2>3. tree[Top.inst] \in Seq(Components)
    BY <2>2, FieldTypes DEF Shape
  <2>4. stack' \in Seq(AllFrames)
    BY <2>1, <2>2, <2>3, TreeTaken, Pushed
  <2> QED BY <2>1, <2>4, CallsShape DEF Shape
<1>2. CASE UnmountChild
  <2> DEFINE rest == <<Passed(Top)>> \o Below
  <2>1. /\ stack # <<>> /\ Top.kind = "unmount" /\ Top.old # <<>>
        /\ \/ stack' = rest /\ UNCHANGED <<graph, scheduler, subscriberStack, runtime>>
           \/ unmount(Head(Top.old), rest)
    BY <1>2 DEF UnmountChild, R!Running, Top, Passed
  <2>2. Top \in Activations /\ Below \in Seq(AllFrames)
    BY <2>1, TopType DEF RuntimeKinds
  <2>3. rest \in Seq(AllFrames) /\ Head(Top.old) \in Components
    BY <2>1, <2>2, OldPassed, Pushed
  <2> HIDE DEF rest
  <2>4. CASE unmount(Head(Top.old), rest)
    BY <2>3, <2>4, UnmountShape
  <2>5. CASE stack' = rest /\ UNCHANGED <<graph, scheduler, subscriberStack, runtime>>
    BY <2>3, <2>5, CallsShape DEF Shape
  <2> QED BY <2>1, <2>4, <2>5
<1>3. CASE UnmountDone
  <2>1. /\ stack # <<>> /\ Top.kind = "unmount"
        /\ tree' = [tree EXCEPT ![Top.inst] = <<>>]
        /\ stack' = <<Hook("unmounted", Top.inst)>> \o Below
        /\ UNCHANGED <<graph, scheduler, subscriberStack, mounted, unmounted,
                       renderErr, effectCleanups, disturbed>>
    BY <1>3 DEF UnmountDone, R!Running, Top
  <2>2. Top.inst \in Components /\ Below \in Seq(AllFrames)
    BY <2>1, TopType, FieldTypes DEF RuntimeKinds
  <2>3. stack' \in Seq(AllFrames)
    BY <2>1, <2>2, ActivationTypes, Pushed DEF Points
  <2>4. RuntimeShape'
    BY <2>1, <2>2 DEF RuntimeShape, Shape
  <2> QED BY <2>1, <2>3, <2>4, ShapeKept, ShapeNext
<1>4. CASE Unmount
  BY <1>4, LifecycleConstants, UnmountShape DEF Unmount, Shape
<1> QED BY <1>1, <1>2, <1>3, <1>4

LEMMA UserShape ==
  ASSUME Shape, Update \/ WatchInInit \/ HookReturns \/ Calls
  PROVE  Shape'
<1> USE LifecycleConstants
<1>1. CASE Update
  BY <1>1, RunShape DEF Update, Shape
<1>2. CASE WatchInInit
  <2> DEFINE w == Effect(Top.inst)
  <2>1. /\ stack # <<>> /\ Top.kind = "hook" /\ w \in Effects
        /\ phase' = [phase EXCEPT ![w] = "live"]
        /\ Started(w)
        /\ stack' = <<R!Frame("run")>> \o stack
        /\ effectCleanups' = [effectCleanups EXCEPT ![Top.inst] = @ \cup {w}]
        /\ UNCHANGED <<version, scheduler, mounted, unmounted, tree, renderErr, disturbed>>
    BY <1>2 DEF WatchInInit, R!Watch, R!run, R!Start, R!Running, Top, Started, scheduler,
                R!scheduler
  <2>2. Top.inst \in Components /\ w \in Watchers
    BY <2>1, TopType, FieldTypes, Names DEF RuntimeKinds
  <2>3. /\ subscribers' \in [States -> SUBSET Watchers]
        /\ deps' \in [Watchers -> SUBSET States]
        /\ obs' \in [Watchers -> SUBSET (States \X (0 .. MaxVersion))]
        /\ subscriberStack' \in Seq(Watchers)
    BY <2>1, <2>2, StartedProperties
  <2>4. GraphShape'
    BY <2>1, <2>2, <2>3 DEF GraphShape, Shape
  <2>5. stack' \in Seq(AllFrames)
    BY <2>1, GraphFrameTypes, Pushed DEF Shape
  <2> HIDE DEF w
  <2>8. w \in Effects /\ w = Effect(Top.inst)
    BY <2>1 DEF w
  <2>6. /\ effectCleanups' \in [Components -> SUBSET Effects]
        /\ \A j \in Components : effectCleanups'[j] \subseteq {Effect(j)}
    <3>1. /\ effectCleanups \in [Components -> SUBSET Effects]
          /\ \A j \in Components : effectCleanups[j] \subseteq {Effect(j)}
      BY DEF Shape
    <3>2. \A j \in Components : effectCleanups'[j] =
            IF j = Top.inst THEN effectCleanups[j] \cup {w} ELSE effectCleanups[j]
      BY <2>1, <3>1
    <3>3. effectCleanups' \in [Components -> SUBSET Effects]
      BY <2>1, <2>8, <3>1
    <3> QED BY <2>8, <3>1, <3>2, <3>3
  <2>7. RuntimeShape'
    BY <2>1, <2>6 DEF RuntimeShape, Shape
  <2> QED BY <2>1, <2>3, <2>4, <2>5, <2>7, ShapeKept, ShapeNext
<1>3. CASE HookReturns
  <2>1. /\ stack # <<>> /\ stack' = Below
        /\ UNCHANGED <<graph, scheduler, subscriberStack, runtime>>
    BY <1>3 DEF HookReturns, R!Running
  <2> QED BY <2>1, TopType, CallsShape DEF Shape
<1>4. CASE Calls
  <2>1. UNCHANGED runtime
    BY <1>4 DEF Calls
  <2>2. RuntimeShape'
    BY <2>1, ShapeKept
  <2>3. ASSUME NEW s \in States, R!GetState(s)
        PROVE  Shape'
    <3>1. /\ Reading(s, R!currentSubscriber)
          /\ UNCHANGED <<version, phase, scheduler, stack, subscriberStack>>
      BY <2>3 DEF R!GetState, Reading, scheduler, R!scheduler, R!calls
    <3>2. GraphShape'
      BY <3>1, CurrentType, ReadingProperties DEF GraphShape, Shape
    <3> QED BY <2>2, <3>1, <3>2, ShapeKept, ShapeNext
  <2>4. ASSUME NEW s \in States, R!Set(s)
        PROVE  Shape'
    <3>1. /\ version[s] < MaxVersion /\ version' = [version EXCEPT ![s] = @ + 1]
          /\ stack' = <<R!NotifyFrame(s)>> \o stack
          /\ UNCHANGED <<obs, subscribers, deps, phase, scheduler, subscriberStack>>
      BY <2>4 DEF R!Set, R!graph, scheduler, R!scheduler
    <3>2. version' \in [States -> 0 .. MaxVersion]
      BY <3>1 DEF Shape
    <3>3. GraphShape'
      BY <3>1, <3>2 DEF GraphShape, Shape
    <3>4. stack' \in Seq(AllFrames)
      BY <3>1, NotifyTypes, Pushed DEF Shape
    <3> QED BY <2>2, <3>1, <3>3, <3>4, ShapeKept, ShapeNext
  <2>5. CASE R!BatchBegin
    <3>1. /\ batchDepth' = batchDepth + 1
          /\ stack' = <<R!Frame("batch")>> \o stack
          /\ UNCHANGED <<graph, queued, pending, round, flushing, subscriberStack>>
      BY <2>5 DEF R!BatchBegin, R!graph, R!values, graph
    <3>2. SchedulerShape'
      BY <3>1 DEF SchedulerShape, Shape
    <3>3. stack' \in Seq(AllFrames)
      BY <3>1, GraphFrameTypes, Pushed DEF Shape
    <3> QED BY <2>2, <3>1, <3>2, <3>3, ShapeKept, ShapeNext
  <2>6. CASE R!BatchEnd
    <3>1. /\ stack # <<>>
          /\ batchDepth' = batchDepth - 1
          /\ flushing' \in {flushing, TRUE}
          /\ stack' \in {Below, <<R!Frame("flush")>> \o Below}
          /\ UNCHANGED <<graph, queued, pending, round, subscriberStack>>
      BY <2>6 DEF R!BatchEnd, R!Running, R!flushSubscribers, R!graph, R!values, graph, Below
    <3>4. flushing \in BOOLEAN /\ batchDepth \in Int
      BY DEF Shape
    <3>5. flushing' \in BOOLEAN
      BY <3>1, <3>4, Zenon
    <3>6. batchDepth' \in Int
      BY <3>1, <3>4
    <3>2. SchedulerShape'
      BY <3>1, <3>5, <3>6 DEF SchedulerShape, Shape
    <3>7. Below \in Seq(AllFrames) /\ <<R!Frame("flush")>> \o Below \in Seq(AllFrames)
      BY <3>1, TopType, GraphFrameTypes, Pushed
    <3>3. stack' \in Seq(AllFrames)
      BY <3>1, <3>7
    <3> QED BY <2>2, <3>1, <3>2, <3>3, ShapeKept, ShapeNext
  <2>7. CASE R!EffectReturns
    <3>1. /\ stack # <<>> /\ subscriberStack # <<>>
          /\ stack' = Below /\ subscriberStack' = Tail(subscriberStack)
          /\ UNCHANGED <<graph, scheduler>>
      BY <2>7 DEF R!EffectReturns, R!Running, R!graph, R!values, graph, scheduler,
                  R!scheduler, Below
    <3>2. stack' \in Seq(AllFrames) /\ subscriberStack' \in Seq(Watchers)
      BY <3>1, TopType, SetPopped DEF Shape
    <3> QED BY <2>2, <3>1, <3>2, ShapeKept, ShapeNext
  <2> QED BY <1>4, <2>3, <2>4, <2>5, <2>6, <2>7 DEF Calls
<1> QED BY <1>1, <1>2, <1>3, <1>4

\* A step of the scheduler, up to running effects.
LEMMA ScheduleStep ==
  ASSUME Shape, Schedule
  PROVE  /\ stack # <<>>
         /\ UNCHANGED <<graph, subscriberStack, batchDepth, runtime>>
         /\ \/ /\ Top.kind = "notify"
               /\ \E w \in Top.todo :
                    \/ /\ phase[w] # "stopped" /\ ~queued[w] /\ w \in Watchers
                       /\ queued' = [queued EXCEPT ![w] = TRUE]
                       /\ pending' = Append(pending, w)
                       /\ \/ /\ batchDepth # 0 \/ flushing
                             /\ stack' = <<Relieved(Top, w)>> \o Below
                             /\ UNCHANGED flushing
                          \/ /\ batchDepth = 0 /\ ~flushing /\ flushing'
                             /\ stack' = <<R!Frame("flush")>> \o
                                           (<<Relieved(Top, w)>> \o Below)
                       /\ UNCHANGED round
                    \/ /\ phase[w] = "stopped" \/ queued[w]
                       /\ stack' = <<Relieved(Top, w)>> \o Below
                       /\ UNCHANGED scheduler
            \/ /\ Top.kind = "notify" /\ Top.todo = {} /\ stack' = Below
               /\ UNCHANGED scheduler
            \/ /\ Top.kind = "flush"
               /\ \/ \E w \in Watchers :
                       /\ round # <<>> /\ Head(round) = w /\ phase[w] = "stopped"
                       /\ round' = Tail(round)
                       /\ queued' = [queued EXCEPT ![w] = FALSE]
                       /\ UNCHANGED <<pending, flushing, stack>>
                  \/ /\ round = <<>> /\ round' = pending /\ pending' = <<>>
                     /\ UNCHANGED <<queued, flushing, stack>>
                  \/ /\ round = <<>> /\ pending = <<>> /\ flushing' = FALSE
                     /\ stack' = Below
                     /\ UNCHANGED <<queued, pending, round>>
<1> USE DEF graph, scheduler, R!graph, R!values, R!scheduler, R!calls, Top, Below, R!Running
<1>1. UNCHANGED runtime
  BY DEF Schedule
<1>2. flushing \in BOOLEAN
  BY DEF Shape
<1>3. ASSUME NEW w \in Watchers, R!QueueWatcher(w)
      PROVE  /\ stack # <<>> /\ Top.kind = "notify" /\ w \in Top.todo
             /\ UNCHANGED <<graph, subscriberStack, batchDepth, round>>
             /\ phase[w] # "stopped" /\ ~queued[w]
             /\ queued' = [queued EXCEPT ![w] = TRUE]
             /\ pending' = Append(pending, w)
             /\ \/ /\ batchDepth # 0 \/ flushing
                   /\ stack' = <<Relieved(Top, w)>> \o Below
                   /\ UNCHANGED flushing
                \/ /\ batchDepth = 0 /\ ~flushing /\ flushing'
                   /\ stack' = <<R!Frame("flush")>> \o (<<Relieved(Top, w)>> \o Below)
  <2>1. /\ stack # <<>> /\ Top.kind = "notify" /\ w \in Top.todo
        /\ UNCHANGED <<graph, subscriberStack, batchDepth, round>>
        /\ phase[w] # "stopped" /\ ~queued[w]
        /\ queued' = [queued EXCEPT ![w] = TRUE]
        /\ pending' = Append(pending, w)
        /\ IF batchDepth = 0 THEN R!flushSubscribers(R!Rest(w))
           ELSE stack' = R!Rest(w) /\ UNCHANGED flushing
    BY <1>3 DEF R!QueueWatcher
  <2>2. R!Rest(w) = <<Relieved(Top, w)>> \o Below
    BY DEF R!Rest, Relieved
  <2> HIDE DEF Top, Below, graph
  <2>3. CASE batchDepth = 0 /\ flushing
    <3>1. stack' = R!Rest(w) /\ flushing' = TRUE
      BY <2>1, <2>3 DEF R!flushSubscribers
    <3>2. flushing = TRUE
      BY <1>2, <2>3
    <3> QED BY <2>1, <2>2, <2>3, <3>1, <3>2
  <2>4. CASE batchDepth = 0 /\ ~flushing
    <3>1. stack' = <<R!Frame("flush")>> \o R!Rest(w) /\ flushing' = TRUE
      BY <2>1, <2>4 DEF R!flushSubscribers
    <3> QED BY <2>1, <2>2, <2>4, <3>1
  <2>5. CASE batchDepth # 0
    BY <2>1, <2>2, <2>5
  <2> QED BY <2>3, <2>4, <2>5
<1>4. ASSUME NEW w \in Watchers, R!SkipWatcher(w)
      PROVE  /\ stack # <<>> /\ Top.kind = "notify" /\ w \in Top.todo
             /\ UNCHANGED <<graph, subscriberStack, scheduler>>
             /\ phase[w] = "stopped" \/ queued[w]
             /\ stack' = <<Relieved(Top, w)>> \o Below
  BY <1>4 DEF R!SkipWatcher, R!Rest, Relieved
<1>5. ASSUME NEW w \in Watchers, R!FlushSkip(w)
      PROVE  /\ stack # <<>> /\ Top.kind = "flush"
             /\ UNCHANGED <<graph, subscriberStack, batchDepth, pending, flushing, stack>>
             /\ round # <<>> /\ Head(round) = w /\ phase[w] = "stopped"
             /\ round' = Tail(round)
             /\ queued' = [queued EXCEPT ![w] = FALSE]
  BY <1>5 DEF R!FlushSkip
<1>6. ASSUME R!NotifyDone
      PROVE  /\ stack # <<>> /\ Top.kind = "notify" /\ Top.todo = {} /\ stack' = Below
             /\ UNCHANGED <<graph, subscriberStack, scheduler>>
  BY <1>6 DEF R!NotifyDone
<1>7. ASSUME R!FlushRound
      PROVE  /\ stack # <<>> /\ Top.kind = "flush"
             /\ UNCHANGED <<graph, subscriberStack, batchDepth, queued, flushing, stack>>
             /\ round = <<>> /\ round' = pending /\ pending' = <<>>
  BY <1>7 DEF R!FlushRound
<1>8. ASSUME R!FlushEnd
      PROVE  /\ stack # <<>> /\ Top.kind = "flush"
             /\ UNCHANGED <<graph, subscriberStack, batchDepth, queued, pending, round>>
             /\ round = <<>> /\ pending = <<>> /\ flushing' = FALSE /\ stack' = Below
  BY <1>8 DEF R!FlushEnd
<1> HIDE DEF graph, scheduler, Top, Below, R!Running
<1>9. UNCHANGED scheduler => UNCHANGED batchDepth
  BY DEF scheduler
<1>10. \/ \E w \in Watchers : R!QueueWatcher(w) \/ R!SkipWatcher(w) \/ R!FlushSkip(w)
       \/ R!NotifyDone \/ R!FlushRound \/ R!FlushEnd
  BY DEF Schedule
<1>11. CASE \E w \in Watchers : R!QueueWatcher(w)
  BY <1>1, <1>3, <1>11
<1>12. CASE \E w \in Watchers : R!SkipWatcher(w)
  BY <1>1, <1>4, <1>9, <1>12
<1>13. CASE \E w \in Watchers : R!FlushSkip(w)
  BY <1>1, <1>5, <1>13
<1>14. CASE R!NotifyDone
  BY <1>1, <1>6, <1>9, <1>14
<1>15. CASE R!FlushRound
  BY <1>1, <1>7, <1>15
<1>16. CASE R!FlushEnd
  BY <1>1, <1>8, <1>16
<1> QED BY <1>10, <1>11, <1>12, <1>13, <1>14, <1>15, <1>16

LEMMA ScheduleShape ==
  ASSUME Shape, Schedule
  PROVE  Shape'
<1>1. /\ stack # <<>>
      /\ UNCHANGED <<graph, subscriberStack, batchDepth, runtime>>
  BY ScheduleStep
<1>2. Top \in AllFrames /\ Below \in Seq(AllFrames) /\ stack \in Seq(AllFrames)
  BY <1>1, TopType DEF Shape
<1>3. /\ pending \in Seq(Watchers) /\ round \in Seq(Watchers)
      /\ queued \in [Watchers -> BOOLEAN] /\ flushing \in BOOLEAN /\ batchDepth \in Int
  BY DEF Shape
<1>4. UNCHANGED scheduler => SchedulerShape'
  BY ShapeKept
<1>5. SchedulerShape' /\ stack' \in Seq(AllFrames)
  <2>1. ASSUME Top.kind = "notify", NEW w
        PROVE  /\ <<Relieved(Top, w)>> \o Below \in Seq(AllFrames)
               /\ <<R!Frame("flush")>> \o (<<Relieved(Top, w)>> \o Below) \in Seq(AllFrames)
    <3>1. <<Relieved(Top, w)>> \o Below \in Seq(AllFrames)
      BY <1>2, <2>1, NotifyTypes, Pushed
    <3> QED BY <3>1, GraphFrameTypes, Pushed
  <2>2. CASE /\ Top.kind = "notify"
             /\ \E w \in Top.todo :
                  \/ /\ phase[w] # "stopped" /\ ~queued[w] /\ w \in Watchers
                     /\ queued' = [queued EXCEPT ![w] = TRUE]
                     /\ pending' = Append(pending, w)
                     /\ \/ /\ batchDepth # 0 \/ flushing
                           /\ stack' = <<Relieved(Top, w)>> \o Below
                           /\ UNCHANGED flushing
                        \/ /\ batchDepth = 0 /\ ~flushing /\ flushing'
                           /\ stack' = <<R!Frame("flush")>> \o
                                         (<<Relieved(Top, w)>> \o Below)
                     /\ UNCHANGED round
                  \/ /\ phase[w] = "stopped" \/ queued[w]
                     /\ stack' = <<Relieved(Top, w)>> \o Below
                     /\ UNCHANGED scheduler
    <3>1. PICK w \in Top.todo :
                  \/ /\ w \in Watchers
                     /\ queued' = [queued EXCEPT ![w] = TRUE]
                     /\ pending' = Append(pending, w)
                     /\ \/ /\ stack' = <<Relieved(Top, w)>> \o Below
                           /\ UNCHANGED flushing
                        \/ /\ flushing'
                           /\ stack' = <<R!Frame("flush")>> \o
                                         (<<Relieved(Top, w)>> \o Below)
                     /\ UNCHANGED round
                  \/ /\ stack' = <<Relieved(Top, w)>> \o Below
                     /\ UNCHANGED scheduler
      BY <2>2
    <3>2. stack' \in Seq(AllFrames)
      BY <2>1, <2>2, <3>1
    <3>3. CASE UNCHANGED scheduler
      BY <1>4, <3>2, <3>3
    <3>4. CASE /\ w \in Watchers
               /\ queued' = [queued EXCEPT ![w] = TRUE]
               /\ pending' = Append(pending, w)
               /\ flushing' \/ UNCHANGED flushing
               /\ UNCHANGED round
      <4>1. pending' \in Seq(Watchers)
        BY <1>3, <3>4, SetAppended
      <4>2. flushing' \in BOOLEAN
        BY <1>3, <3>4
      <4> QED BY <1>1, <1>3, <3>2, <3>4, <4>1, <4>2 DEF SchedulerShape
    <3> QED BY <3>1, <3>3, <3>4
  <2>3. CASE /\ Top.kind = "notify" /\ Top.todo = {} /\ stack' = Below
             /\ UNCHANGED scheduler
    BY <1>2, <1>4, <2>3
  <2>4. CASE /\ \E w \in Watchers :
                  /\ round # <<>> /\ Head(round) = w /\ phase[w] = "stopped"
                  /\ round' = Tail(round)
                  /\ queued' = [queued EXCEPT ![w] = FALSE]
                  /\ UNCHANGED <<pending, flushing, stack>>
    <3>1. round' \in Seq(Watchers)
      BY <1>3, <2>4, SetPopped
    <3> QED BY <1>1, <1>2, <1>3, <2>4, <3>1 DEF SchedulerShape
  <2>5. CASE /\ round = <<>> /\ round' = pending /\ pending' = <<>>
             /\ UNCHANGED <<queued, flushing, stack>>
    BY <1>1, <1>2, <1>3, <2>5 DEF SchedulerShape
  <2>6. CASE /\ round = <<>> /\ pending = <<>> /\ flushing' = FALSE
             /\ stack' = Below
             /\ UNCHANGED <<queued, pending, round>>
    <3>2. flushing' \in BOOLEAN
      BY <2>6, Zenon
    <3>1. SchedulerShape'
      BY <1>1, <1>3, <2>6, <3>2 DEF SchedulerShape
    <3> QED BY <1>2, <2>6, <3>1
  <2> QED BY ScheduleStep, <2>2, <2>3, <2>4, <2>5, <2>6
<1> QED BY <1>1, <1>5, ShapeKept, ShapeNext DEF Shape

\* A flush runs a watcher.
LEMMA FlushRunStep ==
  ASSUME Shape, NEW w \in Watchers, FlushRun(w)
  PROVE  /\ stack # <<>> /\ Top.kind = "flush"
         /\ round # <<>> /\ Head(round) = w /\ phase[w] # "stopped"
         /\ round' = Tail(round)
         /\ queued' = [queued EXCEPT ![w] = FALSE]
         /\ Started(w)
         /\ stack' = <<R!Frame("run")>> \o stack
         /\ UNCHANGED <<version, dirty, phase, pending, flushing, batchDepth>>
         /\ UNCHANGED <<mounted, unmounted, tree, renderErr, effectCleanups>>
         /\ Disturb(w)
         /\ disturbed \subseteq disturbed'
         /\ disturbed' \subseteq disturbed \cup {w}
         /\ disturbed' \subseteq Components
         /\ InProgress(w) => w \in disturbed'
         /\ ~InProgress(w) => disturbed' = disturbed
<1>1. /\ R!FlushRun(w) /\ Disturb(w)
      /\ UNCHANGED <<mounted, unmounted, tree, renderErr, effectCleanups>>
  BY DEF FlushRun
<1>2. /\ stack # <<>> /\ Top.kind = "flush"
      /\ round # <<>> /\ Head(round) = w /\ phase[w] # "stopped"
      /\ round' = Tail(round)
      /\ queued' = [queued EXCEPT ![w] = FALSE]
      /\ Started(w)
      /\ stack' = <<R!Frame("run")>> \o stack
      /\ UNCHANGED <<version, dirty, phase, pending, flushing, batchDepth>>
  BY <1>1 DEF R!FlushRun, R!run, R!Start, R!Running, Top, Started
<1>3. InProgress(w) => w \in Components
  <2>1. ASSUME NEW k \in DOMAIN stack, IsPatchOf(stack[k], w)
        PROVE  w \in Components
    <3>1. stack[k] \in AllFrames
      BY DEF Shape
    <3>2. stack[k] \in Activations
      BY <2>1, <3>1, GraphFrameTypes DEF IsPatchOf, RuntimeKinds
    <3> QED BY <2>1, <3>2, FieldTypes DEF IsPatchOf
  <2> QED BY <2>1 DEF InProgress
<1>4. disturbed' = IF InProgress(w) THEN disturbed \cup {w} ELSE disturbed
  BY <1>1 DEF Disturb
<1>5. disturbed \subseteq Components
  BY DEF Shape
<1> QED BY <1>1, <1>2, <1>3, <1>4, <1>5

LEMMA FlushRunShape ==
  ASSUME Shape, NEW w \in Watchers, FlushRun(w)
  PROVE  Shape'
<1>1. /\ subscribers' \in [States -> SUBSET Watchers]
      /\ deps' \in [Watchers -> SUBSET States]
      /\ obs' \in [Watchers -> SUBSET (States \X (0 .. MaxVersion))]
      /\ subscriberStack' \in Seq(Watchers)
  BY FlushRunStep, StartedProperties
<1>8. UNCHANGED <<version, phase, pending, flushing, batchDepth, mounted, unmounted, tree,
                  renderErr, effectCleanups>>
  BY FlushRunStep
<1>2. GraphShape'
  BY <1>1, <1>8 DEF GraphShape, Shape
<1>10. /\ round # <<>> /\ round' = Tail(round)
       /\ queued' = [queued EXCEPT ![w] = FALSE]
  BY FlushRunStep
<1>11. round \in Seq(Watchers) /\ queued \in [Watchers -> BOOLEAN]
  BY DEF Shape
<1>3. round' \in Seq(Watchers)
  BY <1>10, <1>11, SetPopped
<1>4. queued' \in [Watchers -> BOOLEAN]
  BY <1>10, <1>11
<1>5. SchedulerShape'
  BY <1>3, <1>4, <1>8 DEF SchedulerShape, Shape
<1>9. disturbed' \subseteq Components
  BY FlushRunStep
<1>6. RuntimeShape'
  BY <1>8, <1>9 DEF RuntimeShape, Shape
<1>7. stack' \in Seq(AllFrames)
  <2>1. stack' = <<R!Frame("run")>> \o stack /\ stack \in Seq(AllFrames)
    BY FlushRunStep DEF Shape
  <2> QED BY <2>1, GraphFrameTypes, Pushed
<1> QED BY <1>1, <1>2, <1>5, <1>6, <1>7, ShapeNext

LEMMA ShapeStep ==
  ASSUME Shape, [Next]_vars
  PROVE  Shape'
<1>1. CASE UNCHANGED vars
  <2>1. UNCHANGED <<graph, scheduler, stack, subscriberStack, runtime>>
    BY <1>1 DEF vars
  <2> QED BY <2>1, ShapeKept, ShapeNext
<1>2. CASE Next
  BY <1>2, MountShape, PatchShape, UnmountingShape, UserShape, ScheduleShape,
     FlushRunShape DEF Next
<1> QED BY <1>1, <1>2

-----------------------------------------------------------------------------
(* What each step does to the stack and to the rest, in terms of pushes.  *)

\* A step that changes only the stack.
OnlyCalls == UNCHANGED <<graph, scheduler, subscriberStack, runtime>>

LEMMA Unfolded ==
  /\ UNCHANGED graph => UNCHANGED <<version, dirty, obs, subscribers, deps, phase>>
  /\ UNCHANGED scheduler => UNCHANGED <<queued, pending, round, flushing, batchDepth>>
  /\ UNCHANGED runtime => UNCHANGED <<mounted, unmounted, tree, renderErr, effectCleanups,
                                      disturbed>>
  /\ OnlyCalls => /\ UNCHANGED <<version, dirty, obs, subscribers, deps, phase>>
                  /\ UNCHANGED <<queued, pending, round, flushing, batchDepth>>
                  /\ UNCHANGED <<mounted, unmounted, tree, renderErr, effectCleanups,
                                 disturbed>>
                  /\ UNCHANGED subscriberStack
BY DEF OnlyCalls, graph, scheduler, runtime

\* The activation of the runtime that is on top.
LEMMA TopFields ==
  ASSUME Shape, stack # <<>>, Top.kind \in RuntimeKinds
  PROVE  /\ Top \in Activations /\ Top \in AllFrames /\ Below \in Seq(AllFrames)
         /\ Top.inst \in Components /\ Top.todo = {}
         /\ Top.old \in Seq(Components) /\ Top.done \in Seq(Components)
         /\ Top.next \in Seq(Types) /\ Top.child \in 0 .. Count
         /\ Top.child # 0 => Top.child \in Components /\ Top.next # <<>>
         /\ Top \in ToSet(stack)
         /\ stack = <<Top>> \o Below /\ ToSet(stack) = {Top} \cup ToSet(Below)
         /\ ToSet(stack) \subseteq AllFrames
BY TopType, FieldTypes

LEMMA MountStep ==
  ASSUME Shape, Mount
  PROVE  /\ stack = <<>> \/ \A k \in DOMAIN stack : stack[k].kind = "batch"
         /\ ~Created(Root) /\ Root \in Components /\ OnlyCalls
         /\ stack' = <<Hook("init", Root)>> \o (<<MountFrame(Root)>> \o stack)
<1>1. /\ stack = <<>> \/ \A k \in DOMAIN stack : stack[k].kind = "batch"
      /\ ~Created(Root) /\ OnlyCalls
      /\ stack' = <<Hook("init", Root), MountFrame(Root)>> \o stack
  BY DEF Mount, Program, OnlyCalls
<1>2. /\ Root \in Components /\ Hook("init", Root) \in AllFrames
      /\ MountFrame(Root) \in AllFrames
  BY LifecycleConstants, ActivationTypes DEF Points
<1>3. stack \in Seq(AllFrames)
  BY DEF Shape
<1> QED BY <1>1, <1>2, <1>3, Pushed

LEMMA MountRenderStep ==
  ASSUME Shape, MountRender
  PROVE  /\ stack # <<>> /\ Top.kind = "mount" /\ Top.at = "init"
         /\ phase' = [phase EXCEPT ![Top.inst] = "live"]
         /\ run(Top.inst, <<Begun(Top)>> \o Below)
         /\ <<Begun(Top)>> \o Below \in Seq(AllFrames)
         /\ Started(Top.inst)
         /\ stack' = <<R!Frame("run")>> \o (<<Begun(Top)>> \o Below)
         /\ UNCHANGED <<version, dirty, scheduler, mounted, unmounted, tree, renderErr,
                        effectCleanups>>
<1>1. /\ stack # <<>> /\ Top.kind = "mount" /\ Top.at = "init"
      /\ phase' = [phase EXCEPT ![Top.inst] = "live"]
      /\ run(Top.inst, <<Begun(Top)>> \o Below)
      /\ UNCHANGED <<version, dirty, scheduler, mounted, unmounted, tree, renderErr,
                     effectCleanups>>
  BY DEF MountRender, R!Running, Top, Begun
<1>2. Top \in Activations /\ Top.inst \in Components /\ Below \in Seq(AllFrames)
  BY <1>1, TopFields DEF RuntimeKinds
<1>3. <<Begun(Top)>> \o Below \in Seq(AllFrames)
  BY <1>2, RenderBegun, Pushed
<1> QED BY <1>1, <1>2, <1>3, RunProperties

LEMMA MountDoneStep ==
  ASSUME Shape, MountDone
  PROVE  /\ stack # <<>> /\ Top.kind = "mount" /\ Top.at = "render" /\ ~renderErr[Top.inst]
         /\ mounted' = [mounted EXCEPT ![Top.inst] = TRUE]
         /\ stack' = <<Hook("mounted", Top.inst)>> \o Below
         /\ UNCHANGED <<graph, scheduler, subscriberStack, unmounted, tree, renderErr,
                        effectCleanups, disturbed>>
BY DEF MountDone, R!Running, Top

LEMMA MountFailsStep ==
  ASSUME Shape, MountFails
  PROVE  LET i == Top.inst
             cleans == i # Root
             stopped == IF cleans THEN effectCleanups[i] ELSE {}
         IN
         /\ stack # <<>> /\ Top.kind = "mount" /\ Top.at = "render" /\ renderErr[i]
         /\ stop(i, stopped) /\ stopped \in SUBSET {Effect(i)}
         /\ effectCleanups' = [effectCleanups EXCEPT ![i] = IF cleans THEN {} ELSE @]
         /\ stack' = IF cleans THEN <<Hook("cleanup", i)>> \o Below ELSE Below
         /\ UNCHANGED <<version, dirty, obs, round, flushing, batchDepth, subscriberStack,
                        mounted, unmounted, tree, renderErr, disturbed>>
<1> DEFINE i == Top.inst
           cleans == i # Root
           stopped == IF cleans THEN effectCleanups[i] ELSE {}
<1>1. /\ stack # <<>> /\ Top.kind = "mount" /\ Top.at = "render" /\ renderErr[i]
      /\ stop(i, stopped)
      /\ effectCleanups' = [effectCleanups EXCEPT ![i] = IF cleans THEN {} ELSE @]
      /\ stack' = (IF cleans THEN <<Hook("cleanup", i)>> ELSE <<>>) \o Below
      /\ UNCHANGED <<version, dirty, obs, round, flushing, batchDepth, subscriberStack,
                     mounted, unmounted, tree, renderErr, disturbed>>
  BY DEF MountFails, R!Running, Top
<1>2. i \in Components /\ Below \in Seq(AllFrames)
  BY <1>1, TopFields DEF RuntimeKinds
<1>3. stopped \in SUBSET {Effect(i)}
  BY <1>2 DEF Shape
<1>4. <<>> \o Below = Below
  BY <1>2
<1>5. stack' = IF cleans THEN <<Hook("cleanup", i)>> \o Below ELSE Below
  BY <1>1, <1>4
<1> QED BY <1>1, <1>3, <1>5

LEMMA RenderReturnsStep ==
  ASSUME Shape, RenderReturns
  PROVE  LET i == R!currentSubscriber IN
         /\ stack # <<>> /\ Top.kind = "run" /\ i \in Components /\ i \in Watchers
         /\ subscriberStack # <<>> /\ i = Head(subscriberStack)
         /\ i \in ToSet(subscriberStack)
         /\ Input[TypeOf[i]] \in States
         /\ Reading(Input[TypeOf[i]], i)
         /\ stack' = <<PatchFrame(i)>> \o Below
         /\ subscriberStack' = Tail(subscriberStack)
         /\ Tail(subscriberStack) \in Seq(Watchers)
         /\ ToSet(subscriberStack) = {i} \cup ToSet(subscriberStack')
         /\ UNCHANGED <<version, dirty, phase, scheduler, runtime>>
<1> DEFINE i == Head(subscriberStack)
<1>1. /\ stack # <<>> /\ Top.kind = "run" /\ R!currentSubscriber \in Components
      /\ Reading(Input[TypeOf[i]], i)
      /\ stack' = <<PatchFrame(i)>> \o Below
      /\ subscriberStack' = Tail(subscriberStack)
      /\ UNCHANGED <<version, dirty, phase, scheduler, runtime>>
  BY DEF RenderReturns, Rendering, R!Running, Reading, Top
<1>2. /\ subscriberStack # <<>> /\ i = R!currentSubscriber /\ i \in Watchers
      /\ Tail(subscriberStack) \in Seq(Watchers)
  BY <1>1, CurrentType, Names DEF Components, Watchers
<1>3. Input[TypeOf[i]] \in States
  BY <1>1, <1>2, LifecycleConstants
<1>4. subscriberStack \in Seq(Watchers)
  BY DEF Shape
<1>5. ToSet(subscriberStack) = {i} \cup ToSet(subscriberStack')
  BY <1>1, <1>2, <1>4, SetPopped
<1> QED BY <1>1, <1>2, <1>3, <1>5

LEMMA ChildDoneStep ==
  ASSUME Shape, ChildDone
  PROVE  /\ stack # <<>> /\ Top.kind = "patch" /\ Top.child # 0 /\ ~ChildFailed
         /\ stack' = <<Adopted(Top)>> \o Below
         /\ OnlyCalls
BY DEF ChildDone, R!Running, Top, Adopted, OnlyCalls

LEMMA PatchFailsStep ==
  ASSUME Shape, PatchFails
  PROVE  /\ stack # <<>> /\ Top.kind = "patch" /\ Top.inst \in Components
         /\ renderErr' = [renderErr EXCEPT ![Top.inst] = TRUE]
         /\ disturbed' = disturbed \cup {Top.inst} /\ disturbed' # {}
         /\ stack' = Below
         /\ UNCHANGED <<graph, scheduler, subscriberStack, mounted, unmounted, tree,
                        effectCleanups>>
<1>1. /\ stack # <<>> /\ Top.kind = "patch"
      /\ renderErr' = [renderErr EXCEPT ![Top.inst] = TRUE]
      /\ disturbed' = disturbed \cup {Top.inst}
      /\ stack' = Below
      /\ UNCHANGED <<graph, scheduler, subscriberStack, mounted, unmounted, tree,
                     effectCleanups>>
  BY DEF PatchFails, R!Running, Top
<1>2. Top.inst \in Components
  BY <1>1, TopFields DEF RuntimeKinds
<1> QED BY <1>1, <1>2

LEMMA PatchDoneStep ==
  ASSUME Shape, PatchDone
  PROVE  /\ stack # <<>> /\ Top.kind = "patch" /\ Top.inst \in Components
         /\ Top.child = 0 /\ Top.next = <<>> /\ Top.old = <<>>
         /\ tree' = [tree EXCEPT ![Top.inst] = Top.done]
         /\ renderErr' = [renderErr EXCEPT ![Top.inst] = FALSE]
         /\ stack' = IF mounted[Top.inst] THEN <<Hook("updated", Top.inst)>> \o Below
                     ELSE Below
         /\ UNCHANGED <<graph, scheduler, subscriberStack, mounted, unmounted,
                        effectCleanups, disturbed>>
<1>1. /\ stack # <<>> /\ Top.kind = "patch"
      /\ Top.child = 0 /\ Top.next = <<>> /\ Top.old = <<>>
      /\ tree' = [tree EXCEPT ![Top.inst] = Top.done]
      /\ renderErr' = [renderErr EXCEPT ![Top.inst] = FALSE]
      /\ stack' = (IF mounted[Top.inst] THEN <<Hook("updated", Top.inst)>> ELSE <<>>)
                    \o Below
      /\ UNCHANGED <<graph, scheduler, subscriberStack, mounted, unmounted,
                     effectCleanups, disturbed>>
  BY DEF PatchDone, R!Running, Top
<1>2. Top.inst \in Components /\ Below \in Seq(AllFrames)
  BY <1>1, TopFields DEF RuntimeKinds
<1>3. <<>> \o Below = Below
  BY <1>2
<1>4. stack' = IF mounted[Top.inst] THEN <<Hook("updated", Top.inst)>> \o Below ELSE Below
  BY <1>1, <1>3
<1> QED BY <1>1, <1>2, <1>4

LEMMA UpdateChildStep ==
  ASSUME Shape, NEW c \in Components, UpdateChild(c)
  PROVE  /\ stack # <<>> /\ Top.kind = "patch" /\ Top.child = 0 /\ Top.next # <<>>
         /\ c \in ToSet(Top.old) /\ TypeOf[c] = Head(Top.next) /\ ~unmounted[c]
         /\ run(c, <<Chosen(Top, c)>> \o Below)
         /\ <<Chosen(Top, c)>> \o Below \in Seq(AllFrames)
         /\ Started(c)
         /\ stack' = <<R!Frame("run")>> \o (<<Chosen(Top, c)>> \o Below)
         /\ UNCHANGED <<version, dirty, phase, scheduler, mounted, unmounted, tree,
                        renderErr, effectCleanups>>
<1>1. /\ stack # <<>> /\ Top.kind = "patch" /\ Top.child = 0 /\ Top.next # <<>>
      /\ c \in ToSet(Top.old) /\ TypeOf[c] = Head(Top.next) /\ ~unmounted[c]
      /\ run(c, <<Chosen(Top, c)>> \o Below)
      /\ UNCHANGED <<version, dirty, phase, scheduler, mounted, unmounted, tree,
                     renderErr, effectCleanups>>
  BY DEF UpdateChild, AtChild, Matching, R!Running, Top, Chosen
<1>2. Top \in Activations /\ Below \in Seq(AllFrames)
  BY <1>1, TopFields DEF RuntimeKinds
<1>3. <<Chosen(Top, c)>> \o Below \in Seq(AllFrames)
  BY <1>1, <1>2, ChildChosen, Pushed
<1> QED BY <1>1, <1>3, RunProperties

LEMMA MountChildStep ==
  ASSUME Shape, NEW c \in Components, MountChild(c)
  PROVE  /\ stack # <<>> /\ Top.kind = "patch" /\ Top.child = 0 /\ Top.next # <<>>
         /\ \A d \in ToSet(Top.old) : TypeOf[d] # Head(Top.next)
         /\ TypeOf[c] = Head(Top.next) /\ ~Created(c)
         /\ stack' = <<Hook("init", c)>> \o
                       (<<MountFrame(c)>> \o (<<Chosen(Top, c)>> \o Below))
         /\ OnlyCalls
<1>1. /\ stack # <<>> /\ Top.kind = "patch" /\ Top.child = 0 /\ Top.next # <<>>
      /\ \A d \in ToSet(Top.old) : TypeOf[d] # Head(Top.next)
      /\ TypeOf[c] = Head(Top.next) /\ ~Created(c)
      /\ stack' = <<Hook("init", c), MountFrame(c), Chosen(Top, c)>> \o Below
      /\ OnlyCalls
  BY DEF MountChild, AtChild, Matching, R!Running, Top, Chosen, OnlyCalls
<1>2. Top \in Activations /\ Below \in Seq(AllFrames)
  BY <1>1, TopFields DEF RuntimeKinds
<1>3. /\ Chosen(Top, c) \in AllFrames /\ Hook("init", c) \in AllFrames
      /\ MountFrame(c) \in AllFrames
  BY <1>1, <1>2, ChildChosen, ActivationTypes DEF Points
<1> DEFINE init == Hook("init", c)
           mount == MountFrame(c)
           patch == Chosen(Top, c)
<1>4. init \in AllFrames /\ mount \in AllFrames /\ patch \in AllFrames
  BY <1>3
<1> HIDE DEF init, mount, patch
<1>5. <<init, mount, patch>> \o Below = <<init>> \o (<<mount>> \o (<<patch>> \o Below))
  BY ONLY <1>2, <1>4, ThreePushed
<1> QED BY <1>1, <1>5 DEF init, mount, patch

LEMMA RemoveChildStep ==
  ASSUME Shape, RemoveChild
  PROVE  /\ stack # <<>> /\ Top.kind = "patch" /\ Top.child = 0 /\ Top.next = <<>>
         /\ Top.old # <<>> /\ Head(Top.old) \notin ToSet(Top.done)
         /\ Head(Top.old) \in Components /\ ~unmounted[Head(Top.old)]
         /\ <<Passed(Top)>> \o Below \in Seq(AllFrames)
         /\ unmount(Head(Top.old), <<Passed(Top)>> \o Below)
<1>1. /\ stack # <<>> /\ Top.kind = "patch" /\ Top.child = 0 /\ Top.next = <<>>
      /\ Top.old # <<>> /\ Head(Top.old) \notin ToSet(Top.done)
      /\ ~unmounted[Head(Top.old)]
      /\ unmount(Head(Top.old), <<Passed(Top)>> \o Below)
  BY DEF RemoveChild, AtOld, PastOld, R!Running, Top, Passed
<1>2. Top \in Activations /\ Below \in Seq(AllFrames)
  BY <1>1, TopFields DEF RuntimeKinds
<1> QED BY <1>1, <1>2, OldPassed, Pushed

LEMMA SkipOldStep ==
  ASSUME Shape, SkipOld
  PROVE  /\ stack # <<>> /\ Top.kind = "patch" /\ Top.child = 0 /\ Top.next = <<>>
         /\ Top.old # <<>>
         /\ Head(Top.old) \in ToSet(Top.done) \/ unmounted[Head(Top.old)]
         /\ stack' = <<Passed(Top)>> \o Below
         /\ OnlyCalls
BY DEF SkipOld, AtOld, PastOld, R!Running, Top, Passed, OnlyCalls

LEMMA UnmountTreeStep ==
  ASSUME Shape, UnmountTree
  PROVE  /\ stack # <<>> /\ Top.kind = "unmount" /\ Top.at = "cleanup"
         /\ tree[Top.inst] \in Seq(Components)
         /\ stack' = <<Taken(Top, tree[Top.inst])>> \o Below
         /\ OnlyCalls
<1>1. /\ stack # <<>> /\ Top.kind = "unmount" /\ Top.at = "cleanup"
      /\ stack' = <<Taken(Top, tree[Top.inst])>> \o Below
      /\ OnlyCalls
  BY DEF UnmountTree, R!Running, Top, Taken, OnlyCalls
<1>2. Top.inst \in Components
  BY <1>1, TopFields DEF RuntimeKinds
<1> QED BY <1>1, <1>2 DEF Shape

LEMMA UnmountChildStep ==
  ASSUME Shape, UnmountChild
  PROVE  /\ stack # <<>> /\ Top.kind = "unmount" /\ Top.at = "children" /\ Top.old # <<>>
         /\ Head(Top.old) \in Components
         /\ <<Passed(Top)>> \o Below \in Seq(AllFrames)
         /\ \/ /\ unmounted[Head(Top.old)]
               /\ stack' = <<Passed(Top)>> \o Below /\ OnlyCalls
            \/ /\ ~unmounted[Head(Top.old)]
               /\ unmount(Head(Top.old), <<Passed(Top)>> \o Below)
<1>1. /\ stack # <<>> /\ Top.kind = "unmount" /\ Top.at = "children" /\ Top.old # <<>>
      /\ \/ /\ unmounted[Head(Top.old)]
            /\ stack' = <<Passed(Top)>> \o Below /\ OnlyCalls
         \/ /\ ~unmounted[Head(Top.old)]
            /\ unmount(Head(Top.old), <<Passed(Top)>> \o Below)
  BY DEF UnmountChild, R!Running, Top, Passed, OnlyCalls
<1>2. Top \in Activations /\ Below \in Seq(AllFrames)
  BY <1>1, TopFields DEF RuntimeKinds
<1> QED BY <1>1, <1>2, OldPassed, Pushed

LEMMA UnmountDoneStep ==
  ASSUME Shape, UnmountDone
  PROVE  /\ stack # <<>> /\ Top.kind = "unmount" /\ Top.at = "children" /\ Top.old = <<>>
         /\ tree' = [tree EXCEPT ![Top.inst] = <<>>]
         /\ stack' = <<Hook("unmounted", Top.inst)>> \o Below
         /\ UNCHANGED <<graph, scheduler, subscriberStack, mounted, unmounted,
                        renderErr, effectCleanups, disturbed>>
BY DEF UnmountDone, R!Running, Top

\* What the program calls.
LEMMA UpdateStep ==
  ASSUME Shape, Update
  PROVE  /\ stack = <<>> \/ \A k \in DOMAIN stack : stack[k].kind = "batch"
         /\ Root \in Components /\ mounted[Root] /\ ~unmounted[Root]
         /\ run(Root, stack) /\ Started(Root) /\ stack \in Seq(AllFrames)
         /\ stack' = <<R!Frame("run")>> \o stack
         /\ UNCHANGED <<version, dirty, phase, scheduler, mounted, unmounted, tree,
                        renderErr, effectCleanups>>
<1>1. /\ stack = <<>> \/ \A k \in DOMAIN stack : stack[k].kind = "batch"
      /\ mounted[Root] /\ ~unmounted[Root]
      /\ run(Root, stack)
      /\ UNCHANGED <<version, dirty, phase, scheduler, mounted, unmounted, tree,
                     renderErr, effectCleanups>>
  BY DEF Update, Program, HasHandle
<1>2. Root \in Components /\ stack \in Seq(AllFrames)
  BY LifecycleConstants DEF Shape
<1> QED BY <1>1, <1>2, RunProperties

\* User code is the program, the function of a batch or of a computed, a hook
\* or an effect.
LEMMA UserOnTop ==
  ASSUME UserCode
  PROVE  stack = <<>> \/ /\ Top.kind \in {"batch", "run", "compute", "hook"}
                         /\ Top.kind = "run" => R!currentSubscriber \notin Components
BY DEF UserCode, R!UserCode, Rendering, R!Running, Top

LEMMA UnmountStep ==
  ASSUME Shape, Unmount
  PROVE  /\ UserCode /\ Root \in Components /\ mounted[Root] /\ ~unmounted[Root]
         /\ stack \in Seq(AllFrames) /\ unmount(Root, stack)
BY LifecycleConstants DEF Unmount, HasHandle, Shape

LEMMA WatchInInitStep ==
  ASSUME Shape, WatchInInit
  PROVE  /\ stack # <<>> /\ Top.kind = "hook" /\ Top.at = "init"
         /\ Effect(Top.inst) \in Effects /\ Effect(Top.inst) \in Watchers
         /\ phase[Effect(Top.inst)] = "new"
         /\ phase' = [phase EXCEPT ![Effect(Top.inst)] = "live"]
         /\ Started(Effect(Top.inst))
         /\ stack' = <<R!Frame("run")>> \o stack
         /\ effectCleanups' = [effectCleanups EXCEPT ![Top.inst] = @ \cup {Effect(Top.inst)}]
         /\ UNCHANGED <<version, dirty, scheduler, mounted, unmounted, tree, renderErr,
                        disturbed>>
<1>1. Effect(Top.inst) \in Effects
  BY DEF WatchInInit
<1>2. Effect(Top.inst) \in Watchers
  BY <1>1, Names
<1> QED BY <1>1, <1>2
        DEF WatchInInit, R!Watch, R!run, R!Start, R!Running, Top, Started, scheduler,
            R!scheduler

LEMMA HookReturnsStep ==
  ASSUME Shape, HookReturns
  PROVE  stack # <<>> /\ Top.kind = "hook" /\ stack' = Below /\ OnlyCalls
BY DEF HookReturns, R!Running, OnlyCalls, Top

LEMMA GetStateStep ==
  ASSUME Shape, NEW s \in States, R!GetState(s)
  PROVE  /\ Reading(s, R!currentSubscriber)
         /\ R!currentSubscriber \in Watchers \cup {None}
         /\ UNCHANGED <<version, dirty, phase, scheduler, stack, subscriberStack>>
BY CurrentType DEF R!GetState, Reading, scheduler, R!scheduler, R!calls

LEMMA SetStep ==
  ASSUME Shape, NEW s \in States, R!Set(s)
  PROVE  /\ version' = [version EXCEPT ![s] = @ + 1]
         /\ stack' = <<R!NotifyFrame(s)>> \o stack
         /\ UNCHANGED <<dirty, obs, subscribers, deps, phase, scheduler, subscriberStack>>
BY DEF R!Set, R!graph, scheduler, R!scheduler

LEMMA BatchBeginStep ==
  ASSUME Shape, R!BatchBegin
  PROVE  /\ batchDepth' = batchDepth + 1
         /\ stack' = <<R!Frame("batch")>> \o stack
         /\ UNCHANGED <<graph, queued, pending, round, flushing, subscriberStack>>
BY DEF R!BatchBegin, R!graph, R!values, graph

LEMMA BatchEndStep ==
  ASSUME Shape, R!BatchEnd
  PROVE  /\ stack # <<>> /\ Top.kind = "batch"
         /\ batchDepth' = batchDepth - 1
         /\ UNCHANGED <<graph, queued, pending, round, subscriberStack>>
         /\ \/ /\ batchDepth # 1 \/ flushing
               /\ stack' = Below /\ UNCHANGED flushing
            \/ /\ batchDepth = 1 /\ ~flushing
               /\ stack' = <<R!Frame("flush")>> \o Below /\ flushing' = TRUE
<1>1. /\ stack # <<>> /\ Top.kind = "batch"
      /\ batchDepth' = batchDepth - 1
      /\ UNCHANGED <<graph, queued, pending, round, subscriberStack>>
      /\ IF batchDepth = 1 THEN R!flushSubscribers(Below)
         ELSE stack' = Below /\ UNCHANGED flushing
  BY DEF R!BatchEnd, R!Running, R!graph, R!values, graph, Below, Top
<1>2. flushing \in BOOLEAN
  BY DEF Shape
<1>3. CASE batchDepth = 1 /\ flushing
  <2>1. stack' = Below /\ flushing' = TRUE
    BY <1>1, <1>3 DEF R!flushSubscribers
  <2>2. flushing = TRUE
    BY <1>2, <1>3
  <2> QED BY <1>1, <1>3, <2>1, <2>2
<1>4. CASE batchDepth = 1 /\ ~flushing
  <2>1. stack' = <<R!Frame("flush")>> \o Below /\ flushing' = TRUE
    BY <1>1, <1>4 DEF R!flushSubscribers
  <2> QED BY <1>1, <1>4, <2>1
<1>5. CASE batchDepth # 1
  BY <1>1, <1>5
<1> QED BY <1>3, <1>4, <1>5

LEMMA EffectReturnsStep ==
  ASSUME Shape, R!EffectReturns
  PROVE  /\ stack # <<>> /\ Top.kind = "run" /\ subscriberStack # <<>>
         /\ stack' = Below /\ subscriberStack' = Tail(subscriberStack)
         /\ Tail(subscriberStack) \in Seq(Watchers)
         /\ ToSet(subscriberStack) = {Head(subscriberStack)} \cup ToSet(subscriberStack')
         /\ UNCHANGED <<graph, scheduler>>
<1>1. /\ stack # <<>> /\ Top.kind = "run" /\ subscriberStack # <<>>
      /\ stack' = Below /\ subscriberStack' = Tail(subscriberStack)
      /\ UNCHANGED <<graph, scheduler>>
  BY DEF R!EffectReturns, R!Running, R!graph, R!values, graph, scheduler,
         R!scheduler, Below, Top
<1>2. subscriberStack \in Seq(Watchers)
  BY DEF Shape
<1> QED BY <1>1, <1>2, SetPopped

\* What user code may do, unless it Sets or reads something.
LEMMA CallsCases ==
  ASSUME Shape, Calls
  PROVE  /\ UserCode /\ UNCHANGED runtime
         /\ \/ \E s \in States : R!GetState(s)
            \/ Cardinality(disturbed) < MaxDisturbed /\ \E s \in States : R!Set(s)
            \/ R!BatchBegin \/ R!BatchEnd
            \/ R!EffectReturns
BY DEF Calls

-----------------------------------------------------------------------------
(* The scheduler's flags tell what is on the stack: a flush is begun only  *)
(* outside every batch and flush, and is the only one.                     *)

\* The kinds of what is pushed.
LEMMA TellsPushed ==
  ASSUME Shape, NEW st \in Seq(AllFrames), NEW f \in AllFrames,
         F!SchedulerTells(st, flushing, batchDepth),
         f.kind \notin {"batch", "flush"},
         f.kind = "notify" \/ st = <<>> \/ Head(st).kind # "notify"
  PROVE  F!SchedulerTells(<<f>> \o st, flushing, batchDepth)
BY GraphConstants, F!SchedulerPush DEF Shape

LEMMA TellsPopped ==
  ASSUME Shape, Tells, stack # <<>>, Top.kind \notin {"batch", "flush"}
  PROVE  F!SchedulerTells(Below, flushing, batchDepth)
BY GraphConstants, F!SchedulerPop DEF Shape, Tells, Top, Below

\* The top is replaced: only what is a batch, a flush or a notify loop matters.
LEMMA TellsReplaced ==
  ASSUME Shape, Tells, stack # <<>>, NEW f \in AllFrames,
         \A kind \in {"batch", "flush", "notify"} : f.kind = kind <=> Top.kind = kind
  PROVE  F!SchedulerTells(<<f>> \o Below, flushing, batchDepth)
<1> DEFINE t == <<f>> \o Below
<1>1. /\ Below \in Seq(AllFrames) /\ Len(Below) = Len(stack) - 1
      /\ Len(stack) \in Nat \ {0} /\ Top = stack[1]
      /\ \A i \in 2 .. Len(stack) : stack[i] = Below[i - 1]
  BY F!PopProperties DEF Shape, Top, Below
<1>2. /\ t \in Seq(AllFrames) /\ Len(t) = Len(Below) + 1 /\ t[1] = f
      /\ \A i \in 2 .. Len(Below) + 1 : t[i] = Below[i - 1]
  BY <1>1, F!PushProperties
<1> HIDE DEF t
<1>3. Len(t) = Len(stack) /\ DOMAIN t = 1 .. Len(stack) /\ DOMAIN stack = 1 .. Len(stack)
  BY <1>1, <1>2 DEF Shape
<1>4. \A i \in 1 .. Len(stack), kind \in {"batch", "flush", "notify"} :
        t[i].kind = kind <=> stack[i].kind = kind
  <2> TAKE i \in 1 .. Len(stack), kind \in {"batch", "flush", "notify"}
  <2>1. CASE i = 1
    BY <1>1, <1>2, <2>1
  <2>2. CASE i # 1
    <3>1. t[i] = stack[i]
      BY <1>1, <1>2, <2>2
    <3> QED BY <3>1
  <2> QED BY <2>1, <2>2
<1>5. F!BatchLevels(t) = F!BatchLevels(stack)
  <2>1. \A p \in 1 .. Len(stack) : Len(stack) + 1 - p \in 1 .. Len(stack)
    BY <1>1
  <2> QED BY <1>3, <1>4, <2>1 DEF F!BatchLevels
<1>6. F!FlagTells(t, flushing) /\ F!BatchesInside(t)
  BY <1>3, <1>4 DEF Tells, F!SchedulerTells, F!FlagTells, F!BatchesInside
<1>7. F!InterruptedUnbatched(t)
  <2> SUFFICES ASSUME NEW i \in DOMAIN t, NEW j \in DOMAIN t,
                      i < j, t[j].kind = "notify", t[i].kind # "notify",
                      NEW m \in j .. Len(t)
               PROVE  t[m].kind \notin {"batch", "flush"}
    BY DEF F!InterruptedUnbatched
  <2>1. m \in 1 .. Len(stack) /\ m \in j .. Len(stack)
    BY <1>3
  <2>2. stack[j].kind = "notify" /\ stack[i].kind # "notify"
    BY <1>3, <1>4
  <2>3. stack[m].kind \notin {"batch", "flush"}
    BY <1>3, <2>1, <2>2 DEF Tells, F!SchedulerTells, F!InterruptedUnbatched
  <2> QED BY <1>4, <2>1, <2>3
<1> QED BY <1>5, <1>6, <1>7 DEF Tells, F!SchedulerTells, F!DepthTells, t

\* Two activations are pushed.
LEMMA TellsPushedTwo ==
  ASSUME Shape, NEW st \in Seq(AllFrames), NEW f \in AllFrames, NEW g \in AllFrames,
         F!SchedulerTells(st, flushing, batchDepth),
         f.kind \notin {"batch", "flush", "notify"},
         g.kind \notin {"batch", "flush", "notify"},
         st = <<>> \/ Head(st).kind # "notify"
  PROVE  F!SchedulerTells(<<f>> \o (<<g>> \o st), flushing, batchDepth)
<1> DEFINE u == <<g>> \o st
<1>1. F!SchedulerTells(u, flushing, batchDepth)
  BY TellsPushed
<1>2. u \in Seq(AllFrames) /\ u # <<>> /\ Head(u) = g
  BY HeadPushed
<1> HIDE DEF u
<1>3. F!SchedulerTells(<<f>> \o u, flushing, batchDepth)
  BY <1>1, <1>2, TellsPushed
<1> QED BY <1>3 DEF u

\* unmount pushes two activations.
LEMMA TellsUnmount ==
  ASSUME Shape, NEW i \in Components, NEW below \in Seq(AllFrames), unmount(i, below),
         F!SchedulerTells(below, flushing, batchDepth),
         below = <<>> \/ Head(below).kind # "notify"
  PROVE  Tells'
<1>1. /\ stack' = <<Hook("cleanup", i)>> \o (<<UnmountFrame(i)>> \o below)
      /\ flushing' = flushing /\ batchDepth' = batchDepth
  BY UnmountProperties
<1>2. /\ Hook("cleanup", i) \in AllFrames /\ UnmountFrame(i) \in AllFrames
      /\ Hook("cleanup", i).kind = "hook" /\ UnmountFrame(i).kind = "unmount"
  BY ActivationTypes DEF Points
<1>3. F!SchedulerTells(<<Hook("cleanup", i)>> \o (<<UnmountFrame(i)>> \o below),
                       flushing, batchDepth)
  BY <1>2, TellsPushedTwo
<1> QED BY <1>1, <1>3 DEF Tells

\* The top of a stack, replaced or not, is no notify loop.
LEMMA TellsOver ==
  ASSUME Shape, Tells, stack # <<>>, Top.kind \in RuntimeKinds,
         NEW f \in AllFrames, f.kind \in RuntimeKinds
  PROVE  /\ <<f>> \o Below \in Seq(AllFrames)
         /\ F!SchedulerTells(<<f>> \o Below, flushing, batchDepth)
         /\ <<f>> \o Below # <<>> /\ Head(<<f>> \o Below).kind # "notify"
         /\ \A g \in AllFrames : g.kind \notin {"batch", "flush", "notify"} =>
              F!SchedulerTells(<<g>> \o (<<f>> \o Below), flushing, batchDepth)
<1>1. Below \in Seq(AllFrames)
  BY TopFields
<1>2. /\ <<f>> \o Below \in Seq(AllFrames) /\ <<f>> \o Below # <<>>
      /\ Head(<<f>> \o Below) = f
  BY <1>1, HeadPushed
<1>3. F!SchedulerTells(<<f>> \o Below, flushing, batchDepth)
  BY TellsReplaced DEF RuntimeKinds
<1> DEFINE u == <<f>> \o Below
<1>4. /\ u \in Seq(AllFrames) /\ Head(u).kind # "notify"
      /\ F!SchedulerTells(u, flushing, batchDepth)
  BY <1>2, <1>3 DEF RuntimeKinds
<1> HIDE DEF u
<1>5. \A g \in AllFrames : g.kind \notin {"batch", "flush", "notify"} =>
        F!SchedulerTells(<<g>> \o u, flushing, batchDepth)
  BY <1>4, TellsPushed
<1> QED BY <1>2, <1>3, <1>4, <1>5 DEF u

LEMMA TellsInit ==
  ASSUME Init
  PROVE  Tells
<1>1. stack = <<>> /\ ~flushing /\ batchDepth = 0
  BY DEF Init, R!Init
<1>2. DOMAIN stack = {} /\ F!BatchLevels(stack) = {}
  BY <1>1 DEF F!BatchLevels
<1>3. F!Cardinality({}) = 0
  BY GraphConstants, F!FS_EmptySet
<1>4. F!DepthTells(stack, batchDepth)
  BY <1>1, <1>2, <1>3 DEF F!DepthTells
<1>5. F!FlagTells(stack, flushing)
  BY <1>1, <1>2 DEF F!FlagTells
<1>6. F!BatchesInside(stack) /\ F!InterruptedUnbatched(stack)
  BY <1>2 DEF F!BatchesInside, F!InterruptedUnbatched
<1> QED BY <1>4, <1>5, <1>6 DEF Tells, F!SchedulerTells

LEMMA TellsMount ==
  ASSUME Shape, Tells, Mount \/ MountRender \/ MountDone \/ MountFails
  PROVE  Tells'
<1> USE DEF Tells
<1>1. CASE Mount
  <2>1. /\ stack \in Seq(AllFrames) /\ Root \in Components
        /\ stack = <<>> \/ Head(stack).kind # "notify"
        /\ UNCHANGED <<flushing, batchDepth>>
        /\ stack' = <<Hook("init", Root)>> \o (<<MountFrame(Root)>> \o stack)
    <3>1. stack \in Seq(AllFrames)
      BY DEF Shape
    <3>2. stack # <<>> => Head(stack) = stack[1] /\ 1 \in DOMAIN stack
      BY <3>1, F!PopProperties
    <3> QED BY <1>1, <3>1, <3>2, MountStep, Unfolded
  <2>2. /\ Hook("init", Root) \in AllFrames /\ MountFrame(Root) \in AllFrames
        /\ Hook("init", Root).kind = "hook" /\ MountFrame(Root).kind = "mount"
    BY <2>1, ActivationTypes DEF Points
  <2> QED BY <2>1, <2>2, TellsPushedTwo
<1>2. CASE MountRender
  <2>1. /\ stack # <<>> /\ Top.kind = "mount" /\ UNCHANGED <<flushing, batchDepth>>
        /\ stack' = <<R!Frame("run")>> \o (<<Begun(Top)>> \o Below)
    BY <1>2, MountRenderStep, Unfolded
  <2>2. Begun(Top) \in AllFrames /\ Begun(Top).kind = "mount"
    BY <2>1, TopFields, RenderBegun DEF RuntimeKinds
  <2>3. R!Frame("run") \in AllFrames /\ R!Frame("run").kind = "run"
    BY GraphFrameTypes
  <2> QED BY <2>1, <2>2, <2>3, TellsOver DEF RuntimeKinds
<1>3. CASE MountDone
  <2>1. /\ stack # <<>> /\ Top.kind = "mount" /\ UNCHANGED <<flushing, batchDepth>>
        /\ stack' = <<Hook("mounted", Top.inst)>> \o Below
    BY <1>3, MountDoneStep, Unfolded
  <2>2. Hook("mounted", Top.inst) \in AllFrames /\ Hook("mounted", Top.inst).kind = "hook"
    BY <2>1, TopFields, ActivationTypes DEF RuntimeKinds, Points
  <2> QED BY <2>1, <2>2, TellsOver DEF RuntimeKinds
<1>4. CASE MountFails
  <2>1. /\ stack # <<>> /\ Top.kind = "mount" /\ UNCHANGED <<flushing, batchDepth>>
        /\ stack' \in {<<Hook("cleanup", Top.inst)>> \o Below, Below}
    BY <1>4, MountFailsStep
  <2>2. Hook("cleanup", Top.inst) \in AllFrames /\ Hook("cleanup", Top.inst).kind = "hook"
    BY <2>1, TopFields, ActivationTypes DEF RuntimeKinds, Points
  <2>3. F!SchedulerTells(<<Hook("cleanup", Top.inst)>> \o Below, flushing, batchDepth)
    BY <2>1, <2>2, TellsOver DEF RuntimeKinds
  <2>4. F!SchedulerTells(Below, flushing, batchDepth)
    BY <2>1, TellsPopped
  <2> QED BY <2>1, <2>3, <2>4
<1> QED BY <1>1, <1>2, <1>3, <1>4

LEMMA TellsPatch ==
  ASSUME Shape, Tells,
         \/ RenderReturns \/ ChildDone \/ PatchFails \/ PatchDone
         \/ \E c \in Components : UpdateChild(c) \/ MountChild(c)
         \/ RemoveChild \/ SkipOld
  PROVE  Tells'
<1> USE DEF Tells
<1>0. R!Frame("run") \in AllFrames /\ R!Frame("run").kind = "run"
  BY GraphFrameTypes
<1>1. CASE RenderReturns
  <2>1. /\ stack # <<>> /\ Top.kind = "run" /\ UNCHANGED <<flushing, batchDepth>>
        /\ stack' = <<PatchFrame(R!currentSubscriber)>> \o Below
        /\ R!currentSubscriber \in Components
    BY <1>1, RenderReturnsStep, Unfolded
  <2>2. /\ PatchFrame(R!currentSubscriber) \in AllFrames
        /\ PatchFrame(R!currentSubscriber).kind = "patch"
    BY <2>1, PatchFrameType
  <2> QED BY <2>1, <2>2, TellsReplaced
<1>2. CASE ChildDone
  <2>1. /\ stack # <<>> /\ Top.kind = "patch" /\ UNCHANGED <<flushing, batchDepth>>
        /\ stack' = <<Adopted(Top)>> \o Below /\ Top.child # 0
    BY <1>2, ChildDoneStep, Unfolded
  <2>2. Adopted(Top) \in AllFrames /\ Adopted(Top).kind = "patch"
    BY <2>1, TopFields, ChildAdded DEF RuntimeKinds
  <2> QED BY <2>1, <2>2, TellsOver DEF RuntimeKinds
<1>3. CASE PatchFails
  <2>1. /\ stack # <<>> /\ Top.kind = "patch" /\ UNCHANGED <<flushing, batchDepth>>
        /\ stack' = Below
    BY <1>3, PatchFailsStep, Unfolded
  <2> QED BY <2>1, TellsPopped
<1>4. CASE PatchDone
  <2>1. /\ stack # <<>> /\ Top.kind = "patch" /\ UNCHANGED <<flushing, batchDepth>>
        /\ stack' \in {<<Hook("updated", Top.inst)>> \o Below, Below}
    BY <1>4, PatchDoneStep, Unfolded
  <2>2. Hook("updated", Top.inst) \in AllFrames /\ Hook("updated", Top.inst).kind = "hook"
    BY <2>1, TopFields, ActivationTypes DEF RuntimeKinds, Points
  <2>3. F!SchedulerTells(<<Hook("updated", Top.inst)>> \o Below, flushing, batchDepth)
    BY <2>1, <2>2, TellsOver DEF RuntimeKinds
  <2>4. F!SchedulerTells(Below, flushing, batchDepth)
    BY <2>1, TellsPopped
  <2> QED BY <2>1, <2>3, <2>4
<1>5. ASSUME NEW c \in Components, UpdateChild(c)
      PROVE  Tells'
  <2>1. /\ stack # <<>> /\ Top.kind = "patch" /\ UNCHANGED <<flushing, batchDepth>>
        /\ stack' = <<R!Frame("run")>> \o (<<Chosen(Top, c)>> \o Below)
        /\ Top.next # <<>>
    BY <1>5, UpdateChildStep, Unfolded
  <2>2. Chosen(Top, c) \in AllFrames /\ Chosen(Top, c).kind = "patch"
    BY <2>1, TopFields, ChildChosen DEF RuntimeKinds
  <2> QED BY <1>0, <2>1, <2>2, TellsOver DEF RuntimeKinds
<1>6. ASSUME NEW c \in Components, MountChild(c)
      PROVE  Tells'
  <2>1. /\ stack # <<>> /\ Top.kind = "patch" /\ UNCHANGED <<flushing, batchDepth>>
        /\ stack' = <<Hook("init", c)>> \o
                      (<<MountFrame(c)>> \o (<<Chosen(Top, c)>> \o Below))
        /\ Top.next # <<>>
    BY <1>6, MountChildStep, Unfolded
  <2>2. Chosen(Top, c) \in AllFrames /\ Chosen(Top, c).kind = "patch"
    BY <2>1, TopFields, ChildChosen DEF RuntimeKinds
  <2> DEFINE u == <<Chosen(Top, c)>> \o Below
  <2>3. /\ u \in Seq(AllFrames) /\ F!SchedulerTells(u, flushing, batchDepth)
        /\ Head(u).kind # "notify"
    BY <2>1, <2>2, TellsOver DEF RuntimeKinds
  <2>4. /\ Hook("init", c) \in AllFrames /\ MountFrame(c) \in AllFrames
        /\ Hook("init", c).kind = "hook" /\ MountFrame(c).kind = "mount"
    BY ActivationTypes DEF Points
  <2> HIDE DEF u
  <2>5. F!SchedulerTells(<<Hook("init", c)>> \o (<<MountFrame(c)>> \o u),
                         flushing, batchDepth)
    BY <2>3, <2>4, TellsPushedTwo
  <2> QED BY <2>1, <2>5 DEF u
<1>7. CASE RemoveChild
  <2>1. /\ stack # <<>> /\ Top.kind = "patch" /\ Top.old # <<>>
        /\ Head(Top.old) \in Components
        /\ unmount(Head(Top.old), <<Passed(Top)>> \o Below)
    BY <1>7, RemoveChildStep
  <2>2. Passed(Top) \in AllFrames /\ Passed(Top).kind = "patch"
    BY <2>1, TopFields, OldPassed DEF RuntimeKinds
  <2> QED BY <2>1, <2>2, TellsOver, TellsUnmount DEF RuntimeKinds
<1>8. CASE SkipOld
  <2>1. /\ stack # <<>> /\ Top.kind = "patch" /\ UNCHANGED <<flushing, batchDepth>>
        /\ stack' = <<Passed(Top)>> \o Below /\ Top.old # <<>>
    BY <1>8, SkipOldStep, Unfolded
  <2>2. Passed(Top) \in AllFrames /\ Passed(Top).kind = "patch"
    BY <2>1, TopFields, OldPassed DEF RuntimeKinds
  <2> QED BY <2>1, <2>2, TellsOver DEF RuntimeKinds
<1> HIDE DEF Tells
<1> QED BY <1>1, <1>2, <1>3, <1>4, <1>5, <1>6, <1>7, <1>8

LEMMA TellsUnmounting ==
  ASSUME Shape, Tells, UnmountTree \/ UnmountChild \/ UnmountDone \/ Unmount
  PROVE  Tells'
<1> USE DEF Tells
<1>1. CASE UnmountTree
  <2>1. /\ stack # <<>> /\ Top.kind = "unmount" /\ UNCHANGED <<flushing, batchDepth>>
        /\ stack' = <<Taken(Top, tree[Top.inst])>> \o Below
        /\ tree[Top.inst] \in Seq(Components)
    BY <1>1, UnmountTreeStep, Unfolded
  <2>2. /\ Taken(Top, tree[Top.inst]) \in AllFrames
        /\ Taken(Top, tree[Top.inst]).kind = "unmount"
    BY <2>1, TopFields, TreeTaken DEF RuntimeKinds
  <2> QED BY <2>1, <2>2, TellsOver DEF RuntimeKinds
<1>2. CASE UnmountChild
  <2>1. /\ stack # <<>> /\ Top.kind = "unmount" /\ Top.old # <<>>
        /\ Head(Top.old) \in Components
        /\ \/ stack' = <<Passed(Top)>> \o Below /\ UNCHANGED <<flushing, batchDepth>>
           \/ unmount(Head(Top.old), <<Passed(Top)>> \o Below)
    BY <1>2, UnmountChildStep, Unfolded
  <2>2. Passed(Top) \in AllFrames /\ Passed(Top).kind = "unmount"
    BY <2>1, TopFields, OldPassed DEF RuntimeKinds
  <2> DEFINE u == <<Passed(Top)>> \o Below
  <2>3. /\ u \in Seq(AllFrames) /\ F!SchedulerTells(u, flushing, batchDepth)
        /\ Head(u).kind # "notify"
    BY <2>1, <2>2, TellsOver DEF RuntimeKinds
  <2> HIDE DEF u
  <2>4. CASE unmount(Head(Top.old), u)
    BY <2>1, <2>3, <2>4, TellsUnmount
  <2>5. CASE stack' = u /\ UNCHANGED <<flushing, batchDepth>>
    BY <2>3, <2>5
  <2> QED BY <2>1, <2>4, <2>5 DEF u
<1>3. CASE UnmountDone
  <2>1. /\ stack # <<>> /\ Top.kind = "unmount" /\ UNCHANGED <<flushing, batchDepth>>
        /\ stack' = <<Hook("unmounted", Top.inst)>> \o Below
    BY <1>3, UnmountDoneStep, Unfolded
  <2>2. /\ Hook("unmounted", Top.inst) \in AllFrames
        /\ Hook("unmounted", Top.inst).kind = "hook"
    BY <2>1, TopFields, ActivationTypes DEF RuntimeKinds, Points
  <2> QED BY <2>1, <2>2, TellsOver DEF RuntimeKinds
<1>4. CASE Unmount
  <2>1. /\ Root \in Components /\ stack \in Seq(AllFrames) /\ unmount(Root, stack)
        /\ stack = <<>> \/ Head(stack).kind # "notify"
    BY <1>4, UnmountStep, UserOnTop DEF Top
  <2> QED BY <2>1, TellsUnmount
<1> HIDE DEF Tells
<1> QED BY <1>1, <1>2, <1>3, <1>4

LEMMA TellsUser ==
  ASSUME Shape, Tells, Update \/ WatchInInit \/ HookReturns \/ Calls
  PROVE  Tells'
<1> USE DEF Tells
<1>0. /\ stack \in Seq(AllFrames) /\ flushing \in BOOLEAN /\ batchDepth \in Int
      /\ \A kind \in {"batch", "run", "flush"} :
           R!Frame(kind) \in AllFrames /\ R!Frame(kind).kind = kind
  BY GraphFrameTypes DEF Shape
<1>1. CASE Update
  <2>1. /\ UNCHANGED <<flushing, batchDepth>>
        /\ stack' = <<R!Frame("run")>> \o stack
        /\ stack = <<>> \/ \A k \in DOMAIN stack : stack[k].kind = "batch"
    BY <1>1, UpdateStep, Unfolded
  <2>2. stack # <<>> => Head(stack) = stack[1] /\ 1 \in DOMAIN stack
    BY <1>0, F!PopProperties
  <2> QED BY <1>0, <2>1, <2>2, TellsPushed
<1>2. CASE WatchInInit
  <2>1. /\ UNCHANGED <<flushing, batchDepth>>
        /\ stack' = <<R!Frame("run")>> \o stack
        /\ Head(stack).kind = "hook"
    BY <1>2, WatchInInitStep, Unfolded DEF Top
  <2> QED BY <1>0, <2>1, TellsPushed
<1>3. CASE HookReturns
  <2>1. /\ stack # <<>> /\ Top.kind = "hook" /\ stack' = Below
        /\ UNCHANGED <<flushing, batchDepth>>
    BY <1>3, HookReturnsStep, Unfolded
  <2> QED BY <2>1, TellsPopped
<1>4. CASE Calls
  <2>0. stack = <<>> \/ Head(stack).kind # "notify"
    BY <1>4, CallsCases, UserOnTop DEF Top
  <2>1. ASSUME NEW s \in States, R!GetState(s)
        PROVE  Tells'
    BY <2>1, GetStateStep, Unfolded
  <2>2. ASSUME NEW s \in States, R!Set(s)
        PROVE  Tells'
    <3>1. /\ stack' = <<R!NotifyFrame(s)>> \o stack
          /\ UNCHANGED <<flushing, batchDepth>>
      BY <2>2, SetStep, Unfolded
    <3>2. R!NotifyFrame(s) \in AllFrames /\ R!NotifyFrame(s).kind = "notify"
      BY NotifyTypes
    <3> QED BY <1>0, <3>1, <3>2, TellsPushed
  <2>3. CASE R!BatchBegin
    <3>1. /\ stack' = <<R!Frame("batch")>> \o stack
          /\ flushing' = flushing /\ batchDepth' = batchDepth + 1
      BY <2>3, BatchBeginStep
    <3> QED BY <1>0, <2>0, <3>1, GraphConstants, F!SchedulerPush
  <2>4. CASE R!BatchEnd
    <3>1. /\ stack # <<>> /\ Head(stack).kind = "batch"
          /\ batchDepth' = batchDepth - 1
          /\ \/ stack' = Below /\ UNCHANGED flushing
             \/ /\ batchDepth = 1 /\ ~flushing
                /\ stack' = <<R!Frame("flush")>> \o Below /\ flushing' = TRUE
      BY <2>4, BatchEndStep DEF Top
    <3>2. F!SchedulerTells(Below, flushing, batchDepth - 1)
      BY <1>0, <3>1, GraphConstants, F!SchedulerPop DEF Below
    <3>3. CASE stack' = Below /\ UNCHANGED flushing
      BY <3>1, <3>2, <3>3
    <3>4. CASE /\ batchDepth = 1 /\ ~flushing
               /\ stack' = <<R!Frame("flush")>> \o Below /\ flushing' = TRUE
      <4>1. flushing = FALSE /\ batchDepth - 1 = 0
        BY <1>0, <3>4
      <4>2. F!SchedulerTells(Below, FALSE, 0)
        BY <3>2, <4>1
      <4>3. F!SchedulerTells(<<R!Frame("flush")>> \o Below, TRUE, 0)
        BY <1>0, <3>1, <4>2, TopType, GraphConstants, F!SchedulerPushFlush
      <4> QED BY <3>1, <3>4, <4>1, <4>3
    <3> QED BY <3>1, <3>3, <3>4
  <2>5. CASE R!EffectReturns
    <3>1. /\ stack # <<>> /\ Top.kind = "run" /\ stack' = Below
          /\ UNCHANGED <<flushing, batchDepth>>
      BY <2>5, EffectReturnsStep, Unfolded
    <3> QED BY <3>1, TellsPopped
  <2> HIDE DEF Tells
  <2> QED BY <1>4, CallsCases, <2>1, <2>2, <2>3, <2>4, <2>5
<1> HIDE DEF Tells
<1> QED BY <1>1, <1>2, <1>3, <1>4

LEMMA TellsSchedule ==
  ASSUME Shape, Tells, Schedule
  PROVE  Tells'
<1> USE DEF Tells
<1>0. /\ stack \in Seq(AllFrames) /\ flushing \in BOOLEAN /\ batchDepth \in Int
      /\ R!Frame("flush") \in AllFrames /\ R!Frame("flush").kind = "flush"
  BY GraphFrameTypes DEF Shape
<1>1. stack # <<>> /\ batchDepth' = batchDepth /\ Below \in Seq(AllFrames) /\ Top \in AllFrames
  BY ScheduleStep, TopType
<1>2. ASSUME Top.kind = "notify", NEW w
      PROVE  /\ <<Relieved(Top, w)>> \o Below \in Seq(AllFrames)
             /\ F!SchedulerTells(<<Relieved(Top, w)>> \o Below, flushing, batchDepth)
  <2>1. Relieved(Top, w) \in AllFrames /\ Relieved(Top, w).kind = "notify"
    BY <1>1, <1>2, NotifyTypes
  <2> QED BY <1>1, <1>2, <2>1, TellsReplaced, Pushed
<1>3. CASE /\ Top.kind = "notify"
           /\ \E w : stack' = <<Relieved(Top, w)>> \o Below /\ UNCHANGED flushing
  BY <1>1, <1>2, <1>3
<1>4. CASE /\ Top.kind = "notify" /\ batchDepth = 0 /\ ~flushing /\ flushing' = TRUE
           /\ \E w : stack' = <<R!Frame("flush")>> \o (<<Relieved(Top, w)>> \o Below)
  <2>1. PICK w : stack' = <<R!Frame("flush")>> \o (<<Relieved(Top, w)>> \o Below)
    BY <1>4
  <2> DEFINE u == <<Relieved(Top, w)>> \o Below
  <2>2. flushing = FALSE
    BY <1>0, <1>4
  <2>3. u \in Seq(AllFrames) /\ F!SchedulerTells(u, FALSE, 0)
    BY <1>2, <1>4, <2>2
  <2> HIDE DEF u
  <2>4. F!SchedulerTells(<<R!Frame("flush")>> \o u, TRUE, 0)
    BY <1>0, <2>3, GraphConstants, F!SchedulerPushFlush
  <2>5. batchDepth' = 0 /\ stack' = <<R!Frame("flush")>> \o u
    BY <1>1, <1>4, <2>1 DEF u
  <2> QED BY <1>4, <2>4, <2>5
<1>5. CASE Top.kind = "notify" /\ stack' = Below /\ UNCHANGED flushing
  BY <1>1, <1>5, TellsPopped
<1>6. CASE UNCHANGED <<flushing, stack>>
  BY <1>1, <1>6
<1>7. CASE Top.kind = "flush" /\ flushing' = FALSE /\ stack' = Below
  <2>1. F!SchedulerTells(Below, FALSE, batchDepth)
    BY <1>0, <1>1, <1>7, GraphConstants, F!SchedulerPop DEF Top, Below
  <2> QED BY <1>1, <1>7, <2>1
<1> HIDE DEF Tells
<1>8. UNCHANGED scheduler => UNCHANGED flushing
  BY Unfolded
<1> QED BY ScheduleStep, <1>3, <1>4, <1>5, <1>6, <1>7, <1>8

LEMMA TellsFlushRun ==
  ASSUME Shape, Tells, NEW w \in Watchers, FlushRun(w)
  PROVE  Tells'
<1>1. /\ stack # <<>> /\ Head(stack).kind # "notify" /\ UNCHANGED <<flushing, batchDepth>>
      /\ stack' = <<R!Frame("run")>> \o stack
  BY FlushRunStep DEF Top
<1>2. /\ stack \in Seq(AllFrames)
      /\ R!Frame("run") \in AllFrames /\ R!Frame("run").kind = "run"
  BY GraphFrameTypes DEF Shape
<1> QED BY <1>1, <1>2, TellsPushed DEF Tells

LEMMA TellsNext ==
  ASSUME Shape, Tells, [Next]_vars
  PROVE  Tells'
<1>1. CASE UNCHANGED vars
  BY <1>1, Unfolded DEF vars, Tells
<1>2. CASE Next
  BY <1>2, TellsMount, TellsPatch, TellsUnmounting, TellsUser, TellsSchedule,
     TellsFlushRun DEF Next
<1> QED BY <1>1, <1>2

\* Under a flush there is no batch and no other flush.
LEMMA FlushAlone ==
  ASSUME Shape, Tells, stack # <<>>, Top.kind = "flush"
  PROVE  \A j \in DOMAIN stack : j # 1 => stack[j].kind \notin {"flush", "batch"}
<1>1. /\ Top = stack[1] /\ Len(stack) \in Nat \ {0} /\ stack \in Seq(AllFrames)
      /\ 1 \in DOMAIN stack
  BY F!PopProperties DEF Shape, Top
<1>2. ASSUME NEW j \in DOMAIN stack, j # 1
      PROVE  stack[j].kind # "flush"
  BY <1>1, <1>2 DEF Tells, F!SchedulerTells, F!FlagTells
<1>3. ASSUME NEW j \in DOMAIN stack, stack[j].kind = "batch"
      PROVE  j < 1
  BY <1>1, <1>3 DEF Tells, F!SchedulerTells, F!BatchesInside
<1>4. \A j \in DOMAIN stack : ~(j < 1)
  BY <1>1
<1> QED BY <1>2, <1>3, <1>4

\* A flush that renders a component finds no patch of that component begun in a
\* batch or a flush (RendersDoNotNest): Sets by hooks wait until the patch is
\* over.
THEOREM RendersDoNotNestCorrect ==
  Spec => RendersDoNotNest
<1> DEFINE Step ==
      R!Running("flush") =>
        \A i \in disturbed' \ disturbed, k \in DOMAIN stack :
          IsPatchOf(stack[k], i) =>
            \A j \in k .. Len(stack) : stack[j].kind \notin {"flush", "batch"}
<1>1. Init => Shape /\ Tells
  BY ShapeInit, TellsInit
<1>2. Shape /\ Tells /\ [Next]_vars => Shape' /\ Tells'
  BY ShapeStep, TellsNext
<1>3. ASSUME Shape, Tells, Next
      PROVE  Step
  <2> SUFFICES ASSUME R!Running("flush"),
                      NEW i \in disturbed' \ disturbed, NEW k \in DOMAIN stack,
                      IsPatchOf(stack[k], i), NEW j \in k .. Len(stack)
               PROVE  stack[j].kind \notin {"flush", "batch"}
    OBVIOUS
  <2>1. /\ stack # <<>> /\ Top.kind = "flush" /\ Top = stack[1]
        /\ stack \in Seq(AllFrames) /\ DOMAIN stack = 1 .. Len(stack)
    BY <1>3, F!PopProperties DEF R!Running, Top, Shape
  <2>2. k # 1 /\ j \in DOMAIN stack /\ j # 1
    BY <2>1 DEF IsPatchOf
  <2> QED BY <1>3, <2>1, <2>2, FlushAlone
<1>4. Shape /\ Tells /\ [Next]_vars => [Step]_vars
  BY <1>3
<1> HIDE DEF Step
<1>5. Spec => [][Step]_vars
  BY <1>1, <1>2, <1>4, PTL DEF Spec
<1> QED BY <1>5 DEF RendersDoNotNest, Step

-----------------------------------------------------------------------------
(* Whatever is run, queued, subscribed or in a tree has been created.      *)

LEMMA KnownPushed ==
  ASSUME NEW s \in Seq(AllFrames), NEW f \in AllFrames, NEW S, StackKnown(s, S),
         FrameKnown(f, S), f.kind = "patch" /\ f.child # 0 => f.child \in S
  PROVE  /\ <<f>> \o s \in Seq(AllFrames)
         /\ StackKnown(<<f>> \o s, S)
<1>1. ChildrenIn(<<f>> \o s, S)
  BY ChildrenPushed DEF StackKnown
<1>2. ToSet(<<f>> \o s) = {f} \cup ToSet(s)
  BY Pushed
<1> QED BY <1>1, <1>2, Pushed DEF StackKnown

LEMMA KnownPopped ==
  ASSUME NEW s \in Seq(AllFrames), s # <<>>, NEW S, StackKnown(s, S),
         Head(s).kind = "mount" => Head(s).inst \in S
  PROVE  /\ Tail(s) \in Seq(AllFrames)
         /\ StackKnown(Tail(s), S) /\ FrameKnown(Head(s), S)
         /\ Head(s).kind = "patch" /\ Head(s).child # 0 => Head(s).child \in S
<1>1. /\ ChildrenIn(Tail(s), S)
      /\ Head(s).kind = "patch" /\ Head(s).child # 0 => Head(s).child \in S
  BY ChildrenPopped DEF StackKnown
<1>2. ToSet(s) = {Head(s)} \cup ToSet(Tail(s)) /\ Tail(s) \in Seq(AllFrames)
  BY SetPopped
<1> QED BY <1>1, <1>2 DEF StackKnown

LEMMA TopKnown ==
  ASSUME stack \in Seq(AllFrames), stack # <<>>, NEW S, StackKnown(stack, S),
         Top.kind = "mount" => Top.inst \in S
  PROVE  /\ Below \in Seq(AllFrames) /\ StackKnown(Below, S) /\ FrameKnown(Top, S)
         /\ Top.kind = "patch" /\ Top.child # 0 => Top.child \in S
BY KnownPopped DEF Top, Below

LEMMA KnownMore ==
  ASSUME NEW s, NEW S, NEW T, S \subseteq T
  PROVE  /\ StackKnown(s, S) => StackKnown(s, T)
         /\ GraphKnown(S) => GraphKnown(T)
         /\ TreeKnown(S) => TreeKnown(T)
BY ChildrenMore DEF StackKnown, FrameKnown, GraphKnown, TreeKnown

\* New activations hold no components.
LEMMA KnownEmpty ==
  ASSUME NEW S
  PROVE  /\ \A i \in Components, name \in Points : FrameKnown(Hook(name, i), S)
         /\ \A i \in Components : /\ FrameKnown(MountFrame(i), S)
                                  /\ FrameKnown(UnmountFrame(i), S)
         /\ \A kind \in {"batch", "run", "flush"} : FrameKnown(R!Frame(kind), S)
<1>1. \A f \in Activations : f.todo = {}
  BY GraphFrameTypes
<1>2. \A i \in Components, name \in Points : FrameKnown(Hook(name, i), S)
  BY <1>1, ActivationTypes, SetEmpty DEF FrameKnown
<1>3. \A i \in Components : FrameKnown(MountFrame(i), S) /\ FrameKnown(UnmountFrame(i), S)
  BY <1>1, ActivationTypes, SetEmpty DEF FrameKnown
<1>4. \A kind \in {"batch", "run", "flush"} : FrameKnown(R!Frame(kind), S)
  BY GraphFrameTypes DEF FrameKnown, RuntimeKinds
<1> QED BY <1>2, <1>3, <1>4

\* The effect of a watcher is started.
LEMMA KnownRun ==
  ASSUME NEW s \in Seq(AllFrames), NEW S, StackKnown(s, S)
  PROVE  StackKnown(<<R!Frame("run")>> \o s, S)
BY KnownPushed, KnownEmpty, GraphFrameTypes

LEMMA KnownHook ==
  ASSUME NEW s \in Seq(AllFrames), NEW S, StackKnown(s, S), NEW i \in Components,
         NEW name \in Points
  PROVE  StackKnown(<<Hook(name, i)>> \o s, S)
BY KnownPushed, KnownEmpty, ActivationTypes

\* Phases: what has been created stays so.
LEMMA OldKept ==
  ASSUME Shape
  PROVE  /\ UNCHANGED phase => Olds' = Olds
         /\ \A w \in Watchers :
              phase' = [phase EXCEPT ![w] = "live"] => Olds' = Olds \cup {w}
<1>1. UNCHANGED phase => Olds' = Olds
  BY DEF Olds, Old
<1>2. ASSUME NEW w \in Watchers, phase' = [phase EXCEPT ![w] = "live"]
      PROVE  Olds' = Olds \cup {w}
  <2>1. \A v \in Watchers : phase'[v] = IF v = w THEN "live" ELSE phase[v]
    BY <1>2 DEF Shape
  <2> QED BY <2>1 DEF Olds, Old
<1> QED BY <1>1, <1>2

LEMMA OldStopped ==
  ASSUME Shape, NEW i \in Components, NEW effects \in SUBSET {Effect(i)}, stop(i, effects),
         GraphKnown(Olds), UNCHANGED <<round, subscriberStack>>
  PROVE  Olds \subseteq Olds' /\ i \in Olds' /\ GraphKnown(Olds)'
<1>1. /\ \A w \in Watchers : phase'[w] = "stopped" \/ phase'[w] = phase[w]
      /\ \A x \in States : subscribers'[x] \subseteq subscribers[x]
      /\ ToSet(pending') \subseteq ToSet(pending)
      /\ phase'[i] = "stopped"
  BY StopProperties, Names
<1>2. Olds \subseteq Olds' /\ i \in Olds'
  BY <1>1, Names DEF Olds, Old
<1>3. /\ \A x \in States : subscribers'[x] \subseteq Olds'
      /\ ToSet(subscriberStack') \subseteq Olds'
      /\ ToSet(pending') \subseteq Olds' /\ ToSet(round') \subseteq Olds'
  BY <1>1, <1>2 DEF GraphKnown
<1> QED BY <1>2, <1>3 DEF GraphKnown

\* A watcher is started.
LEMMA StartKnown ==
  ASSUME Shape, NEW w \in Watchers, Started(w), w \in Olds', Olds \subseteq Olds',
         GraphKnown(Olds), UNCHANGED pending, ToSet(round') \subseteq ToSet(round)
  PROVE  GraphKnown(Olds)'
<1>1. /\ ToSet(subscriberStack') = {w} \cup ToSet(subscriberStack)
      /\ \A x \in States : subscribers'[x] \subseteq subscribers[x]
  BY StartedProperties
<1>2. /\ \A x \in States : subscribers'[x] \subseteq Olds'
      /\ ToSet(subscriberStack') \subseteq Olds'
      /\ ToSet(pending') \subseteq Olds' /\ ToSet(round') \subseteq Olds'
  BY <1>1 DEF GraphKnown
<1> QED BY <1>2 DEF GraphKnown

\* A component is unmounted.
LEMMA UnmountKnown ==
  ASSUME Shape, NEW i \in Components, NEW below \in Seq(AllFrames), unmount(i, below),
         GraphKnown(Olds), TreeKnown(Olds), StackKnown(below, Olds)
  PROVE  Known'
<1>1. /\ Olds \subseteq Olds' /\ GraphKnown(Olds)'
      /\ mounted' = mounted /\ tree' = tree
      /\ stack' = <<Hook("cleanup", i)>> \o (<<UnmountFrame(i)>> \o below)
  BY UnmountProperties, OldStopped
<1>2. TreeKnown(Olds)'
  BY <1>1 DEF TreeKnown
<1>3. StackKnown(below, Olds')
  BY <1>1, KnownMore
<1> DEFINE u == <<UnmountFrame(i)>> \o below
<1>4. u \in Seq(AllFrames) /\ StackKnown(u, Olds')
  BY <1>3, KnownPushed, KnownEmpty, ActivationTypes
<1> HIDE DEF u
<1>5. StackKnown(<<Hook("cleanup", i)>> \o u, Olds')
  BY <1>4, KnownHook DEF Points
<1> QED BY <1>1, <1>2, <1>5 DEF Known, u

\* Nothing but the stack changes.
LEMMA CallsKnown ==
  ASSUME Shape, Known, OnlyCalls, StackKnown(stack', Olds)
  PROVE  Known'
<1>1. /\ UNCHANGED <<subscribers, subscriberStack, pending, round, mounted, tree>>
      /\ Olds' = Olds
  BY Unfolded, OldKept
<1> QED BY <1>1 DEF Known, GraphKnown, TreeKnown

LEMMA KnownMount ==
  ASSUME Shape, Known, Mount \/ MountRender \/ MountDone \/ MountFails
  PROVE  Known'
<1>0. GraphKnown(Olds) /\ TreeKnown(Olds) /\ StackKnown(stack, Olds) /\ stack \in Seq(AllFrames)
  BY DEF Known, Shape
<1>1. CASE Mount
  <2>1. /\ Root \in Components /\ OnlyCalls
        /\ stack' = <<Hook("init", Root)>> \o (<<MountFrame(Root)>> \o stack)
    BY <1>1, MountStep
  <2> DEFINE u == <<MountFrame(Root)>> \o stack
  <2>2. u \in Seq(AllFrames) /\ StackKnown(u, Olds)
    BY <1>0, <2>1, KnownPushed, KnownEmpty, ActivationTypes
  <2> HIDE DEF u
  <2>3. StackKnown(<<Hook("init", Root)>> \o u, Olds)
    BY <2>1, <2>2, KnownHook DEF Points
  <2> QED BY <2>1, <2>3, CallsKnown DEF u
<1>2. CASE MountRender
  <2>1. /\ stack # <<>> /\ Top.kind = "mount" /\ Top.at = "init"
        /\ phase' = [phase EXCEPT ![Top.inst] = "live"]
        /\ Started(Top.inst)
        /\ stack' = <<R!Frame("run")>> \o (<<Begun(Top)>> \o Below)
        /\ UNCHANGED <<pending, round, mounted, tree>>
    BY <1>2, MountRenderStep, Unfolded
  <2>2. /\ Top \in Activations /\ Top.inst \in Watchers /\ Top.inst \in Components
        /\ Below \in Seq(AllFrames)
    BY <2>1, TopFields, Names DEF RuntimeKinds
  <2>3. Olds' = Olds \cup {Top.inst}
    BY <2>1, <2>2, OldKept
  <2>4. GraphKnown(Olds)'
    BY <1>0, <2>1, <2>2, <2>3, StartKnown
  <2>5. TreeKnown(Olds)'
    BY <1>0, <2>1, <2>3 DEF TreeKnown
  <2>11. StackKnown(stack, Olds') /\ Top.inst \in Olds'
    BY <1>0, <2>3, KnownMore
  <2>6. StackKnown(Below, Olds') /\ FrameKnown(Top, Olds')
    BY <1>0, <2>1, <2>11, TopKnown
  <2>7. /\ Begun(Top) \in AllFrames /\ Begun(Top).kind = "mount"
        /\ Begun(Top).inst = Top.inst /\ Begun(Top).todo = {}
        /\ Begun(Top).old = Top.old /\ Begun(Top).done = Top.done
    BY <2>1, <2>2, RenderBegun, FieldTypes
  <2>8. FrameKnown(Begun(Top), Olds')
    BY <2>1, <2>3, <2>6, <2>7 DEF FrameKnown, RuntimeKinds
  <2> DEFINE u == <<Begun(Top)>> \o Below
  <2>9. u \in Seq(AllFrames) /\ StackKnown(u, Olds')
    BY <2>2, <2>6, <2>7, <2>8, KnownPushed
  <2> HIDE DEF u
  <2>10. StackKnown(<<R!Frame("run")>> \o u, Olds')
    BY <2>9, KnownRun
  <2> QED BY <2>1, <2>4, <2>5, <2>10 DEF Known, u
<1>3. CASE MountDone \/ MountFails
  <2>1. /\ stack # <<>> /\ Top.kind = "mount" /\ Top.at = "render"
    BY <1>3, MountDoneStep, MountFailsStep
  <2>2. Top \in ToSet(stack) /\ Top.inst \in Components
    BY <2>1, TopFields DEF RuntimeKinds
  <2>3. Top.inst \in Olds
    BY <1>0, <2>1, <2>2 DEF StackKnown, FrameKnown
  <2>4. Below \in Seq(AllFrames) /\ StackKnown(Below, Olds)
    BY <1>0, <2>1, <2>3, KnownPopped DEF Top, Below
  <2>5. CASE MountDone
    <3>1. /\ mounted' = [mounted EXCEPT ![Top.inst] = TRUE]
          /\ stack' = <<Hook("mounted", Top.inst)>> \o Below
          /\ UNCHANGED <<phase, subscribers, pending, round, subscriberStack, tree>>
      BY <2>5, MountDoneStep, Unfolded
    <3>2. Olds' = Olds
      BY <3>1, OldKept
    <3>3. GraphKnown(Olds)'
      BY <1>0, <3>1, <3>2 DEF GraphKnown
    <3>4. TreeKnown(Olds)'
      BY <1>0, <2>2, <2>3, <3>1, <3>2 DEF TreeKnown, Shape
    <3>5. StackKnown(stack', Olds')
      BY <2>2, <2>4, <3>1, <3>2, KnownHook DEF Points
    <3> QED BY <3>3, <3>4, <3>5 DEF Known
  <2>6. CASE MountFails
    <3> DEFINE stopped == IF Top.inst # Root THEN effectCleanups[Top.inst] ELSE {}
    <3>1. /\ stop(Top.inst, stopped) /\ stopped \in SUBSET {Effect(Top.inst)}
          /\ stack' \in {<<Hook("cleanup", Top.inst)>> \o Below, Below}
          /\ UNCHANGED <<round, subscriberStack, mounted, tree>>
      BY <2>6, MountFailsStep
    <3> HIDE DEF stopped
    <3>2. Olds \subseteq Olds' /\ GraphKnown(Olds)'
      BY <1>0, <2>2, <3>1, OldStopped
    <3>3. TreeKnown(Olds)'
      BY <1>0, <3>1, <3>2 DEF TreeKnown
    <3>4. StackKnown(Below, Olds')
      BY <2>4, <3>2, KnownMore
    <3>5. StackKnown(<<Hook("cleanup", Top.inst)>> \o Below, Olds')
      BY <2>2, <2>4, <3>4, KnownHook DEF Points
    <3> QED BY <3>1, <3>2, <3>3, <3>4, <3>5 DEF Known
  <2> QED BY <1>3, <2>5, <2>6
<1> QED BY <1>1, <1>2, <1>3

\* The top goes on in another form, or another activation takes its place.
LEMMA KnownOver ==
  ASSUME Shape, Known, stack # <<>>, Top.kind # "mount", NEW f \in AllFrames,
         FrameKnown(f, Olds), f.kind = "patch" /\ f.child # 0 => f.child \in Olds
  PROVE  /\ <<f>> \o Below \in Seq(AllFrames)
         /\ StackKnown(<<f>> \o Below, Olds)
         /\ StackKnown(Below, Olds) /\ FrameKnown(Top, Olds)
<1>1. Below \in Seq(AllFrames) /\ StackKnown(Below, Olds) /\ FrameKnown(Top, Olds)
  BY TopKnown DEF Known, Shape
<1> QED BY <1>1, KnownPushed

\* The loop over the old children goes on.
LEMMA PassedKnown ==
  ASSUME Shape, Known, stack # <<>>, Top.kind \in {"patch", "unmount"}, Top.old # <<>>,
         Top.kind = "patch" => Top.child = 0
  PROVE  /\ <<Passed(Top)>> \o Below \in Seq(AllFrames)
         /\ StackKnown(<<Passed(Top)>> \o Below, Olds)
<1>1. FrameKnown(Top, Olds) /\ Below \in Seq(AllFrames)
  BY TopKnown DEF Known, Shape
<1>2. /\ Passed(Top) \in AllFrames /\ Passed(Top).kind = Top.kind
      /\ Passed(Top).inst = Top.inst /\ Passed(Top).done = Top.done
      /\ Passed(Top).child = Top.child /\ Passed(Top).todo = {}
      /\ ToSet(Top.old) = {Head(Top.old)} \cup ToSet(Passed(Top).old)
  BY TopFields, OldPassed, FieldTypes DEF RuntimeKinds
<1>3. FrameKnown(Passed(Top), Olds)
  BY <1>1, <1>2 DEF FrameKnown, RuntimeKinds
<1> QED BY <1>2, <1>3, KnownOver

LEMMA KnownMountChild ==
  ASSUME NEW s \in Seq(AllFrames), NEW p \in AllFrames, NEW S, NEW c \in Components,
         StackKnown(s, S), FrameKnown(p, S), p.child = c
  PROVE  StackKnown(<<MountFrame(c)>> \o (<<p>> \o s), S)
<1>1. /\ MountFrame(c) \in AllFrames /\ MountFrame(c).kind = "mount"
      /\ MountFrame(c).inst = c
  BY ActivationTypes
<1>2. ChildrenIn(<<MountFrame(c)>> \o (<<p>> \o s), S)
  BY <1>1, MountedChildrenPushed DEF StackKnown
<1> DEFINE u == <<p>> \o s
<1>3. u \in Seq(AllFrames) /\ ToSet(u) = {p} \cup ToSet(s)
  BY Pushed
<1> HIDE DEF u
<1>4. ToSet(<<MountFrame(c)>> \o u) = {MountFrame(c)} \cup ToSet(u)
  BY <1>1, <1>3, Pushed
<1>5. FrameKnown(MountFrame(c), S)
  BY KnownEmpty
<1> QED BY <1>2, <1>3, <1>4, <1>5 DEF StackKnown, u

LEMMA KnownPatch ==
  ASSUME Shape, Known,
         \/ RenderReturns \/ ChildDone \/ PatchFails \/ PatchDone
         \/ \E c \in Components : UpdateChild(c) \/ MountChild(c)
         \/ RemoveChild \/ SkipOld
  PROVE  Known'
<1>0. GraphKnown(Olds) /\ TreeKnown(Olds) /\ StackKnown(stack, Olds) /\ stack \in Seq(AllFrames)
  BY DEF Known, Shape
<1>1. CASE RenderReturns
  <2> DEFINE i == R!currentSubscriber
  <2>1. /\ stack # <<>> /\ Top.kind = "run" /\ i \in Components /\ i \in Watchers
        /\ i \in ToSet(subscriberStack) /\ Input[TypeOf[i]] \in States
        /\ Reading(Input[TypeOf[i]], i)
        /\ stack' = <<PatchFrame(i)>> \o Below
        /\ ToSet(subscriberStack) = {i} \cup ToSet(subscriberStack')
        /\ UNCHANGED <<phase, pending, round, mounted, tree>>
    BY <1>1, RenderReturnsStep, Unfolded
  <2> HIDE DEF i
  <2>2. Olds' = Olds /\ i \in Olds
    BY <1>0, <2>1, OldKept DEF GraphKnown
  <2>3. \A x \in States : subscribers'[x] \subseteq subscribers[x] \cup {i}
    BY <2>1, ReadingProperties
  <2>4. GraphKnown(Olds)' /\ TreeKnown(Olds)'
    BY <1>0, <2>1, <2>2, <2>3 DEF GraphKnown, TreeKnown
  <2>5. /\ PatchFrame(i) \in AllFrames /\ PatchFrame(i).kind = "patch"
        /\ PatchFrame(i).inst = i /\ PatchFrame(i).old = tree[i]
        /\ PatchFrame(i).done = <<>> /\ PatchFrame(i).child = 0
        /\ PatchFrame(i).todo = {}
    BY <2>1, PatchFrameType, FieldTypes
  <2>6. FrameKnown(PatchFrame(i), Olds)
    BY <1>0, <2>1, <2>2, <2>5, SetEmpty DEF FrameKnown, TreeKnown
  <2>7. StackKnown(<<PatchFrame(i)>> \o Below, Olds)
    BY <2>1, <2>5, <2>6, KnownOver
  <2> QED BY <2>1, <2>2, <2>4, <2>7 DEF Known
<1>2. CASE ChildDone
  <2>1. /\ stack # <<>> /\ Top.kind = "patch" /\ Top.child # 0
        /\ stack' = <<Adopted(Top)>> \o Below /\ OnlyCalls
    BY <1>2, ChildDoneStep
  <2>2. FrameKnown(Top, Olds) /\ Top.child \in Olds
    BY <1>0, <2>1, TopKnown
  <2>3. /\ Adopted(Top) \in AllFrames /\ Adopted(Top).kind = "patch"
        /\ Adopted(Top).inst = Top.inst /\ Adopted(Top).old = Top.old
        /\ Adopted(Top).child = 0
        /\ ToSet(Adopted(Top).done) = ToSet(Top.done) \cup {Top.child}
        /\ Adopted(Top).todo = {}
    BY <2>1, TopFields, ChildAdded, FieldTypes DEF RuntimeKinds
  <2>4. FrameKnown(Adopted(Top), Olds)
    BY <2>1, <2>2, <2>3 DEF FrameKnown, RuntimeKinds
  <2>5. StackKnown(<<Adopted(Top)>> \o Below, Olds)
    BY <2>1, <2>3, <2>4, KnownOver
  <2> QED BY <2>1, <2>5, CallsKnown
<1>3. CASE PatchFails
  <2>1. /\ stack # <<>> /\ Top.kind = "patch" /\ stack' = Below
        /\ UNCHANGED <<phase, subscribers, subscriberStack, pending, round, mounted, tree>>
    BY <1>3, PatchFailsStep, Unfolded
  <2>2. Olds' = Olds /\ StackKnown(Below, Olds)
    BY <1>0, <2>1, TopKnown, OldKept
  <2> QED BY <1>0, <2>1, <2>2 DEF Known, GraphKnown, TreeKnown
<1>4. CASE PatchDone
  <2>1. /\ stack # <<>> /\ Top.kind = "patch" /\ Top.inst \in Components
        /\ tree' = [tree EXCEPT ![Top.inst] = Top.done]
        /\ stack' \in {<<Hook("updated", Top.inst)>> \o Below, Below}
        /\ UNCHANGED <<phase, subscribers, subscriberStack, pending, round, mounted>>
    BY <1>4, PatchDoneStep, Unfolded
  <2>2. /\ Olds' = Olds /\ StackKnown(Below, Olds) /\ FrameKnown(Top, Olds)
        /\ Below \in Seq(AllFrames)
    BY <1>0, <2>1, TopKnown, OldKept
  <2>3. ToSet(Top.done) \subseteq Olds
    BY <2>1, <2>2 DEF FrameKnown, RuntimeKinds
  <2>4. TreeKnown(Olds)'
    BY <1>0, <2>1, <2>2, <2>3 DEF TreeKnown, Shape
  <2>5. StackKnown(<<Hook("updated", Top.inst)>> \o Below, Olds)
    BY <2>1, <2>2, KnownHook DEF Points
  <2> QED BY <1>0, <2>1, <2>2, <2>4, <2>5 DEF Known, GraphKnown
<1>5. ASSUME NEW c \in Components, UpdateChild(c)
      PROVE  Known'
  <2>1. /\ stack # <<>> /\ Top.kind = "patch" /\ Top.next # <<>>
        /\ c \in ToSet(Top.old) /\ Started(c)
        /\ stack' = <<R!Frame("run")>> \o (<<Chosen(Top, c)>> \o Below)
        /\ UNCHANGED <<phase, pending, round, mounted, tree>>
    BY <1>5, UpdateChildStep, Unfolded
  <2>2. FrameKnown(Top, Olds) /\ Olds' = Olds
    BY <1>0, <2>1, TopKnown, OldKept
  <2>3. c \in Olds /\ c \in Watchers
    BY <2>1, <2>2, Names DEF FrameKnown, RuntimeKinds
  <2>4. GraphKnown(Olds)' /\ TreeKnown(Olds)'
    BY <1>0, <2>1, <2>2, <2>3, StartKnown DEF TreeKnown
  <2>5. /\ Chosen(Top, c) \in AllFrames /\ Chosen(Top, c).kind = "patch"
        /\ Chosen(Top, c).inst = Top.inst /\ Chosen(Top, c).old = Top.old
        /\ Chosen(Top, c).done = Top.done /\ Chosen(Top, c).child = c
        /\ Chosen(Top, c).todo = {}
    BY <2>1, TopFields, ChildChosen, FieldTypes DEF RuntimeKinds
  <2>6. FrameKnown(Chosen(Top, c), Olds)
    BY <2>1, <2>2, <2>5 DEF FrameKnown, RuntimeKinds
  <2> DEFINE u == <<Chosen(Top, c)>> \o Below
  <2>7. u \in Seq(AllFrames) /\ StackKnown(u, Olds)
    BY <2>1, <2>3, <2>5, <2>6, KnownOver
  <2> HIDE DEF u
  <2>8. StackKnown(<<R!Frame("run")>> \o u, Olds)
    BY <2>7, KnownRun
  <2> QED BY <2>1, <2>2, <2>4, <2>8 DEF Known, u
<1>6. ASSUME NEW c \in Components, MountChild(c)
      PROVE  Known'
  <2>1. /\ stack # <<>> /\ Top.kind = "patch" /\ Top.next # <<>>
        /\ stack' = <<Hook("init", c)>> \o
                      (<<MountFrame(c)>> \o (<<Chosen(Top, c)>> \o Below))
        /\ OnlyCalls
    BY <1>6, MountChildStep
  <2>2. FrameKnown(Top, Olds) /\ StackKnown(Below, Olds) /\ Below \in Seq(AllFrames)
    BY <1>0, <2>1, TopKnown
  <2>3. /\ Chosen(Top, c) \in AllFrames /\ Chosen(Top, c).kind = "patch"
        /\ Chosen(Top, c).inst = Top.inst /\ Chosen(Top, c).old = Top.old
        /\ Chosen(Top, c).done = Top.done /\ Chosen(Top, c).child = c
        /\ Chosen(Top, c).todo = {}
    BY <2>1, TopFields, ChildChosen, FieldTypes DEF RuntimeKinds
  <2>4. FrameKnown(Chosen(Top, c), Olds)
    BY <2>1, <2>2, <2>3 DEF FrameKnown, RuntimeKinds
  <2>5. StackKnown(<<MountFrame(c)>> \o (<<Chosen(Top, c)>> \o Below), Olds)
    BY <2>2, <2>3, <2>4, KnownMountChild
  <2> DEFINE u == <<MountFrame(c)>> \o (<<Chosen(Top, c)>> \o Below)
  <2>6. u \in Seq(AllFrames) /\ StackKnown(u, Olds)
    BY <2>2, <2>3, <2>5, ActivationTypes, Pushed
  <2> HIDE DEF u
  <2>7. StackKnown(<<Hook("init", c)>> \o u, Olds)
    BY <2>6, KnownHook DEF Points
  <2> QED BY <2>1, <2>7, CallsKnown DEF u
<1>7. CASE RemoveChild
  <2>1. /\ stack # <<>> /\ Top.kind = "patch" /\ Top.old # <<>> /\ Top.child = 0
        /\ Head(Top.old) \in Components
        /\ unmount(Head(Top.old), <<Passed(Top)>> \o Below)
    BY <1>7, RemoveChildStep
  <2>2. /\ <<Passed(Top)>> \o Below \in Seq(AllFrames)
        /\ StackKnown(<<Passed(Top)>> \o Below, Olds)
    BY <2>1, PassedKnown
  <2> QED BY <1>0, <2>1, <2>2, UnmountKnown
<1>8. CASE SkipOld
  <2>1. /\ stack # <<>> /\ Top.kind = "patch" /\ Top.old # <<>> /\ Top.child = 0
        /\ stack' = <<Passed(Top)>> \o Below /\ OnlyCalls
    BY <1>8, SkipOldStep
  <2> QED BY <2>1, PassedKnown, CallsKnown
<1> QED BY <1>1, <1>2, <1>3, <1>4, <1>5, <1>6, <1>7, <1>8

LEMMA KnownUnmounting ==
  ASSUME Shape, Known, UnmountTree \/ UnmountChild \/ UnmountDone \/ Unmount
  PROVE  Known'
<1>0. GraphKnown(Olds) /\ TreeKnown(Olds) /\ StackKnown(stack, Olds) /\ stack \in Seq(AllFrames)
  BY DEF Known, Shape
<1>1. CASE UnmountTree
  <2>1. /\ stack # <<>> /\ Top.kind = "unmount"
        /\ tree[Top.inst] \in Seq(Components)
        /\ stack' = <<Taken(Top, tree[Top.inst])>> \o Below /\ OnlyCalls
    BY <1>1, UnmountTreeStep
  <2>2. FrameKnown(Top, Olds) /\ Top.inst \in Components
    BY <1>0, <2>1, TopKnown, TopFields DEF RuntimeKinds
  <2> DEFINE t == Taken(Top, tree[Top.inst])
  <2>6. Top \in Activations
    BY <2>1, TopFields DEF RuntimeKinds
  <2>7. /\ t \in Activations /\ t \in AllFrames /\ t.kind = Top.kind /\ t.inst = Top.inst
        /\ t.old = tree[Top.inst] /\ t.done = Top.done
    BY <2>1, <2>6, TreeTaken
  <2>3. /\ t \in AllFrames /\ t.kind = "unmount" /\ t.inst = Top.inst
        /\ t.old = tree[Top.inst] /\ t.done = Top.done /\ t.todo = {}
    <3> HIDE DEF t
    <3> QED BY <2>1, <2>7, FieldTypes
  <2>4. FrameKnown(t, Olds)
    <3> HIDE DEF t
    <3> QED BY <1>0, <2>2, <2>1, <2>3 DEF FrameKnown, RuntimeKinds, TreeKnown
  <2>5. StackKnown(<<t>> \o Below, Olds)
    BY <2>1, <2>3, <2>4, KnownOver
  <2> QED BY <2>1, <2>5, CallsKnown
<1>2. CASE UnmountChild
  <2>1. /\ stack # <<>> /\ Top.kind = "unmount" /\ Top.old # <<>>
        /\ Head(Top.old) \in Components
        /\ \/ stack' = <<Passed(Top)>> \o Below /\ OnlyCalls
           \/ unmount(Head(Top.old), <<Passed(Top)>> \o Below)
    BY <1>2, UnmountChildStep
  <2>2. /\ <<Passed(Top)>> \o Below \in Seq(AllFrames)
        /\ StackKnown(<<Passed(Top)>> \o Below, Olds)
    BY <2>1, PassedKnown
  <2> QED BY <1>0, <2>1, <2>2, UnmountKnown, CallsKnown
<1>3. CASE UnmountDone
  <2>1. /\ stack # <<>> /\ Top.kind = "unmount"
        /\ tree' = [tree EXCEPT ![Top.inst] = <<>>]
        /\ stack' = <<Hook("unmounted", Top.inst)>> \o Below
        /\ UNCHANGED <<phase, subscribers, subscriberStack, pending, round, mounted>>
    BY <1>3, UnmountDoneStep, Unfolded
  <2>2. /\ Olds' = Olds /\ StackKnown(Below, Olds) /\ Below \in Seq(AllFrames)
        /\ Top.inst \in Components
    BY <1>0, <2>1, TopKnown, TopFields, OldKept DEF RuntimeKinds
  <2>3. TreeKnown(Olds)'
    BY <1>0, <2>1, <2>2, SetEmpty DEF TreeKnown, Shape
  <2>4. StackKnown(<<Hook("unmounted", Top.inst)>> \o Below, Olds)
    BY <2>2, KnownHook DEF Points
  <2> QED BY <1>0, <2>1, <2>2, <2>3, <2>4 DEF Known, GraphKnown
<1>4. CASE Unmount
  BY <1>0, <1>4, UnmountStep, UnmountKnown
<1> QED BY <1>1, <1>2, <1>3, <1>4

\* Calls of user code change no tree.
LEMMA KnownCalls ==
  ASSUME Shape, Known, Calls
  PROVE  Known'
<1>0. GraphKnown(Olds) /\ TreeKnown(Olds) /\ StackKnown(stack, Olds) /\ stack \in Seq(AllFrames)
  BY DEF Known, Shape
<1>1. /\ UserCode /\ UNCHANGED <<mounted, tree>>
      /\ \/ \E s \in States : R!GetState(s)
         \/ Cardinality(disturbed) < MaxDisturbed /\ \E s \in States : R!Set(s)
         \/ R!BatchBegin \/ R!BatchEnd
         \/ R!EffectReturns
  BY CallsCases, Unfolded
<1>2. ASSUME UNCHANGED phase
      PROVE  Olds' = Olds /\ TreeKnown(Olds)'
  BY <1>0, <1>1, <1>2, OldKept DEF TreeKnown
<1>3. ASSUME NEW s \in States, R!GetState(s)
      PROVE  Known'
  <2>1. /\ Reading(s, R!currentSubscriber) /\ R!currentSubscriber \in Watchers \cup {None}
        /\ UNCHANGED <<phase, pending, round, stack, subscriberStack>>
    BY <1>3, GetStateStep, Unfolded
  <2>2. R!currentSubscriber # None => R!currentSubscriber \in Olds
    <3>2. subscriberStack \in Seq(Watchers)
      BY DEF Shape
    <3>3. subscriberStack # <<>> => Head(subscriberStack) \in ToSet(subscriberStack)
      <4> SUFFICES ASSUME subscriberStack # <<>>
                   PROVE  Head(subscriberStack) \in ToSet(subscriberStack)
        OBVIOUS
      <4>1. ToSet(subscriberStack) =
              {Head(subscriberStack)} \cup ToSet(Tail(subscriberStack))
        BY <3>2, SetPopped
      <4> QED BY <4>1
    <3>1. R!currentSubscriber # None => R!currentSubscriber \in ToSet(subscriberStack)
      BY <3>3, CurrentType
    <3> QED BY <1>0, <3>1 DEF GraphKnown
  <2>3. \A x \in States :
          subscribers'[x] \subseteq subscribers[x] \cup ({R!currentSubscriber} \ {None})
    BY <2>1, ReadingProperties
  <2>4. GraphKnown(Olds)'
    BY <1>0, <1>2, <2>1, <2>2, <2>3 DEF GraphKnown
  <2> QED BY <1>0, <1>2, <2>1, <2>4 DEF Known
<1>4. ASSUME NEW s \in States, R!Set(s)
      PROVE  Known'
  <2>1. /\ stack' = <<R!NotifyFrame(s)>> \o stack
        /\ UNCHANGED <<subscribers, phase, pending, round, subscriberStack>>
    BY <1>4, SetStep, Unfolded
  <2>2. /\ R!NotifyFrame(s) \in AllFrames /\ R!NotifyFrame(s).kind = "notify"
        /\ R!NotifyFrame(s).todo = subscribers[s]
    BY NotifyTypes
  <2>3. FrameKnown(R!NotifyFrame(s), Olds)
    BY <1>0, <2>2 DEF FrameKnown, GraphKnown, RuntimeKinds
  <2>4. StackKnown(<<R!NotifyFrame(s)>> \o stack, Olds)
    BY <1>0, <2>2, <2>3, KnownPushed
  <2> QED BY <1>0, <1>2, <2>1, <2>4 DEF Known, GraphKnown
<1>5. CASE R!BatchBegin
  <2>1. /\ stack' = <<R!Frame("batch")>> \o stack
        /\ UNCHANGED <<subscribers, phase, pending, round, subscriberStack>>
    BY <1>5, BatchBeginStep, Unfolded
  <2>2. StackKnown(<<R!Frame("batch")>> \o stack, Olds)
    BY <1>0, KnownPushed, KnownEmpty, GraphFrameTypes
  <2> QED BY <1>0, <1>2, <2>1, <2>2 DEF Known, GraphKnown
<1>6. CASE R!BatchEnd
  <2>1. /\ stack # <<>> /\ Top.kind = "batch"
        /\ UNCHANGED <<subscribers, phase, pending, round, subscriberStack>>
        /\ stack' = Below \/ stack' = <<R!Frame("flush")>> \o Below
    BY <1>6, BatchEndStep, Unfolded
  <2>2. StackKnown(Below, Olds) /\ Below \in Seq(AllFrames)
    BY <1>0, <2>1, TopKnown
  <2>3. StackKnown(<<R!Frame("flush")>> \o Below, Olds)
    BY <2>2, KnownPushed, KnownEmpty, GraphFrameTypes
  <2> QED BY <1>0, <1>2, <2>1, <2>2, <2>3 DEF Known, GraphKnown
<1>7. CASE R!EffectReturns
  <2>1. /\ stack # <<>> /\ Top.kind = "run" /\ stack' = Below
        /\ ToSet(subscriberStack) = {Head(subscriberStack)} \cup ToSet(subscriberStack')
        /\ UNCHANGED <<subscribers, phase, pending, round>>
    BY <1>7, EffectReturnsStep, Unfolded
  <2>2. StackKnown(Below, Olds)
    BY <1>0, <2>1, TopKnown
  <2> QED BY <1>0, <1>2, <2>1, <2>2 DEF Known, GraphKnown
<1> QED BY <1>1, <1>3, <1>4, <1>5, <1>6, <1>7

LEMMA KnownUser ==
  ASSUME Shape, Known, Update \/ WatchInInit \/ HookReturns \/ Calls
  PROVE  Known'
<1>0. GraphKnown(Olds) /\ TreeKnown(Olds) /\ StackKnown(stack, Olds) /\ stack \in Seq(AllFrames)
  BY DEF Known, Shape
<1>1. CASE Update
  <2>1. /\ Root \in Components /\ mounted[Root] /\ Started(Root)
        /\ stack' = <<R!Frame("run")>> \o stack
        /\ UNCHANGED <<phase, pending, round, mounted, tree>>
    BY <1>1, UpdateStep, Unfolded
  <2>2. Olds' = Olds /\ Root \in Olds /\ Root \in Watchers
    BY <1>0, <2>1, OldKept, Names DEF TreeKnown
  <2>3. GraphKnown(Olds)' /\ TreeKnown(Olds)'
    BY <1>0, <2>1, <2>2, StartKnown DEF TreeKnown
  <2>4. StackKnown(<<R!Frame("run")>> \o stack, Olds)
    BY <1>0, KnownRun
  <2> QED BY <2>1, <2>2, <2>3, <2>4 DEF Known
<1>2. CASE WatchInInit
  <2> DEFINE w == Effect(Top.inst)
  <2>1. /\ w \in Watchers /\ Started(w)
        /\ phase' = [phase EXCEPT ![w] = "live"]
        /\ stack' = <<R!Frame("run")>> \o stack
        /\ UNCHANGED <<pending, round, mounted, tree>>
    BY <1>2, WatchInInitStep, Unfolded
  <2> HIDE DEF w
  <2>2. Olds' = Olds \cup {w}
    BY <2>1, OldKept
  <2>3. GraphKnown(Olds)' /\ TreeKnown(Olds)'
    BY <1>0, <2>1, <2>2, StartKnown DEF TreeKnown
  <2>4. StackKnown(<<R!Frame("run")>> \o stack, Olds')
    BY <1>0, <2>2, KnownMore, KnownRun
  <2> QED BY <2>1, <2>3, <2>4 DEF Known
<1>3. CASE HookReturns
  <2>1. stack # <<>> /\ Top.kind = "hook" /\ stack' = Below /\ OnlyCalls
    BY <1>3, HookReturnsStep
  <2>2. StackKnown(Below, Olds)
    BY <1>0, <2>1, TopKnown
  <2> QED BY <2>1, <2>2, CallsKnown
<1> QED BY <1>1, <1>2, <1>3, KnownCalls

LEMMA KnownSchedule ==
  ASSUME Shape, Known, Schedule
  PROVE  Known'
<1>0. GraphKnown(Olds) /\ TreeKnown(Olds) /\ StackKnown(stack, Olds) /\ stack \in Seq(AllFrames)
  BY DEF Known, Shape
<1>1. /\ stack # <<>> /\ Olds' = Olds
      /\ UNCHANGED <<phase, subscribers, subscriberStack, mounted, tree>>
  BY ScheduleStep, Unfolded, OldKept
<1>2. TreeKnown(Olds)'
  BY <1>0, <1>1 DEF TreeKnown
<1>3. ASSUME Top.kind = "notify", NEW w \in Top.todo
      PROVE  /\ w \in Olds
             /\ <<Relieved(Top, w)>> \o Below \in Seq(AllFrames)
             /\ StackKnown(<<Relieved(Top, w)>> \o Below, Olds)
             /\ StackKnown(<<R!Frame("flush")>> \o (<<Relieved(Top, w)>> \o Below), Olds)
  <2>1. FrameKnown(Top, Olds)
    BY <1>0, <1>1, <1>3, TopKnown
  <2>2. /\ Relieved(Top, w) \in AllFrames /\ Relieved(Top, w).kind = "notify"
        /\ Relieved(Top, w).todo = Top.todo \ {w}
    BY <1>1, <1>3, TopType, NotifyTypes
  <2>3. FrameKnown(Relieved(Top, w), Olds) /\ w \in Olds
    BY <1>3, <2>1, <2>2 DEF FrameKnown, RuntimeKinds
  <2> DEFINE u == <<Relieved(Top, w)>> \o Below
  <2>4. u \in Seq(AllFrames) /\ StackKnown(u, Olds)
    BY <1>1, <1>3, <2>2, <2>3, KnownOver
  <2> HIDE DEF u
  <2>5. StackKnown(<<R!Frame("flush")>> \o u, Olds)
    BY <2>4, KnownPushed, KnownEmpty, GraphFrameTypes
  <2> QED BY <2>3, <2>4, <2>5 DEF u
<1>4. StackKnown(Below, Olds) \/ Top.kind = "mount"
  BY <1>0, <1>1, TopKnown
<1>8. pending \in Seq(Watchers) /\ round \in Seq(Watchers)
  BY DEF Shape
<1>9. \A w \in Watchers : ToSet(Append(pending, w)) = ToSet(pending) \cup {w}
  BY <1>8, SetAppended
<1>10. round # <<>> => ToSet(round) = {Head(round)} \cup ToSet(Tail(round))
  BY <1>8, SetPopped
<1>5. /\ \A w \in Watchers : ToSet(Append(pending, w)) = ToSet(pending) \cup {w}
      /\ round # <<>> => ToSet(round) = {Head(round)} \cup ToSet(Tail(round))
      /\ ToSet(<<>>) = {}
  BY <1>9, <1>10, SetEmpty
<1>6. CASE Top.kind = "notify"
  <2>1. \/ \E w \in Top.todo :
             \/ /\ w \in Watchers /\ pending' = Append(pending, w) /\ UNCHANGED round
                /\ \/ stack' = <<Relieved(Top, w)>> \o Below
                   \/ stack' = <<R!Frame("flush")>> \o (<<Relieved(Top, w)>> \o Below)
             \/ stack' = <<Relieved(Top, w)>> \o Below /\ UNCHANGED <<pending, round>>
        \/ stack' = Below /\ UNCHANGED <<pending, round>>
    BY <1>6, ScheduleStep, Unfolded
  <2>2. CASE stack' = Below /\ UNCHANGED <<pending, round>>
    BY <1>0, <1>1, <1>2, <1>4, <1>6, <2>2 DEF Known, GraphKnown
  <2>3. ASSUME NEW w \in Top.todo, w \in Watchers, pending' = Append(pending, w),
               UNCHANGED round,
               \/ stack' = <<Relieved(Top, w)>> \o Below
               \/ stack' = <<R!Frame("flush")>> \o (<<Relieved(Top, w)>> \o Below)
        PROVE  Known'
    <3>1. ToSet(pending') = ToSet(pending) \cup {w} /\ w \in Olds
      BY <1>3, <1>5, <1>6, <2>3
    <3>2. GraphKnown(Olds)'
      BY <1>0, <1>1, <2>3, <3>1 DEF GraphKnown
    <3>3. StackKnown(stack', Olds)
      BY <1>3, <1>6, <2>3
    <3> QED BY <1>1, <1>2, <3>2, <3>3 DEF Known
  <2>4. ASSUME NEW w \in Top.todo, stack' = <<Relieved(Top, w)>> \o Below,
               UNCHANGED <<pending, round>>
        PROVE  Known'
    <3>1. StackKnown(stack', Olds)
      BY <1>3, <1>6, <2>4
    <3>2. GraphKnown(Olds)'
      BY <1>0, <1>1, <2>4 DEF GraphKnown
    <3> QED BY <1>1, <1>2, <3>1, <3>2 DEF Known
  <2> QED BY <2>1, <2>2, <2>3, <2>4
<1>7. CASE Top.kind = "flush"
  <2>1. \/ round # <<>> /\ round' = Tail(round) /\ UNCHANGED <<pending, stack>>
        \/ round' = pending /\ pending' = <<>> /\ UNCHANGED stack
        \/ stack' = Below /\ UNCHANGED <<pending, round>>
    BY <1>7, ScheduleStep
  <2>2. GraphKnown(Olds)'
    BY <1>0, <1>1, <1>5, <2>1 DEF GraphKnown
  <2>3. StackKnown(stack', Olds)
    BY <1>0, <1>4, <1>7, <2>1
  <2> QED BY <1>1, <1>2, <2>2, <2>3 DEF Known
<1> QED BY <1>6, <1>7, ScheduleStep

LEMMA KnownFlushRun ==
  ASSUME Shape, Known, NEW w \in Watchers, FlushRun(w)
  PROVE  Known'
<1>0. GraphKnown(Olds) /\ TreeKnown(Olds) /\ StackKnown(stack, Olds) /\ stack \in Seq(AllFrames)
  BY DEF Known, Shape
<1>1. /\ round # <<>> /\ Head(round) = w /\ round' = Tail(round) /\ Started(w)
      /\ stack' = <<R!Frame("run")>> \o stack
      /\ UNCHANGED <<phase, pending, mounted, tree>>
  BY FlushRunStep
<1>2. ToSet(round) = {w} \cup ToSet(round')
  BY <1>1, SetPopped DEF Shape
<1>3. Olds' = Olds /\ w \in Olds
  BY <1>0, <1>1, <1>2, OldKept DEF GraphKnown
<1>4. GraphKnown(Olds)' /\ TreeKnown(Olds)'
  BY <1>0, <1>1, <1>2, <1>3, StartKnown DEF TreeKnown
<1>5. StackKnown(<<R!Frame("run")>> \o stack, Olds)
  BY <1>0, KnownRun
<1> QED BY <1>1, <1>3, <1>4, <1>5 DEF Known

LEMMA KnownInit ==
  ASSUME Init
  PROVE  Known
<1>1. /\ subscribers = [x \in R!Sources |-> {}] /\ subscriberStack = <<>>
      /\ pending = <<>> /\ round = <<>> /\ stack = <<>>
      /\ mounted = [i \in Components |-> FALSE] /\ tree = [i \in Components |-> <<>>]
  BY DEF Init, R!Init
<1>2. GraphKnown(Olds)
  BY <1>1, Names, SetEmpty DEF GraphKnown
<1>3. TreeKnown(Olds)
  BY <1>1, SetEmpty DEF TreeKnown
<1>4. StackKnown(stack, Olds)
  BY <1>1 DEF StackKnown, ChildrenIn, ToSet
<1> QED BY <1>2, <1>3, <1>4 DEF Known

LEMMA KnownNext ==
  ASSUME Shape, Known, [Next]_vars
  PROVE  Known'
<1>1. CASE UNCHANGED vars
  <2>1. UNCHANGED <<phase, subscribers, subscriberStack, pending, round, stack, mounted, tree>>
    BY <1>1 DEF vars, graph, scheduler, runtime
  <2> QED BY <2>1, OldKept DEF Known, GraphKnown, TreeKnown
<1> QED BY <1>1, KnownMount, KnownPatch, KnownUnmounting, KnownUser, KnownSchedule,
           KnownFlushRun DEF Next

-----------------------------------------------------------------------------
(* The queue.                                                              *)

\* While the queue is left alone watchers may only become live.
LEMMA QueueKept ==
  ASSUME QueueInv, \A w \in Watchers : phase'[w] = phase[w] \/ phase'[w] = "live",
         UNCHANGED <<queued, pending, round, flushing, batchDepth>>
  PROVE  QueueInv'
BY DEF QueueInv

LEMMA QueueStarted ==
  ASSUME Shape, QueueInv, UNCHANGED <<queued, pending, round, flushing, batchDepth>>,
         \/ UNCHANGED phase
         \/ \E w \in Watchers : phase' = [phase EXCEPT ![w] = "live"]
  PROVE  QueueInv'
<1>1. \A w \in Watchers : phase'[w] = phase[w] \/ phase'[w] = "live"
  BY DEF Shape
<1> QED BY <1>1, QueueKept

LEMMA QueueStopped ==
  ASSUME Shape, QueueInv, NEW i \in Components, NEW effects \in SUBSET {Effect(i)},
         stop(i, effects), UNCHANGED <<round, flushing, batchDepth>>
  PROVE  QueueInv'
<1> DEFINE stopped == {i} \cup effects
<1>1. /\ \A w \in Watchers : w \in stopped => ~queued'[w]
      /\ \A w \in Watchers : w \notin stopped => phase'[w] = phase[w] /\ queued'[w] = queued[w]
      /\ \A w \in ToSet(pending) : w \notin stopped => w \in ToSet(pending')
      /\ pending = <<>> => pending' = <<>>
  BY StopProperties
<1> HIDE DEF stopped
<1>2. ASSUME NEW w \in Watchers, queued'[w]
      PROVE  /\ phase'[w] = "live"
             /\ w \in ToSet(pending') \/ w \in ToSet(round')
  BY <1>1, <1>2 DEF QueueInv
<1> QED BY <1>1, <1>2 DEF QueueInv

\* The flags speak of what is on the stack.
LEMMA FlushTells ==
  ASSUME Shape, Tells
  PROVE  /\ stack # <<>> /\ Top.kind = "flush" => flushing
         /\ batchDepth \in Nat
<1>1. stack \in Seq(AllFrames)
  BY DEF Shape
<1>2. batchDepth \in Nat
  <2>1. F!Cardinality(F!BatchLevels(stack)) \in Nat
    BY <1>1, GraphConstants, F!LevelsFinite
  <2> QED BY <2>1 DEF Tells, F!SchedulerTells, F!DepthTells
<1>3. stack # <<>> => Top = stack[1] /\ 1 \in DOMAIN stack
  BY <1>1, F!PopProperties DEF Top
<1>4. stack # <<>> /\ Top.kind = "flush" => flushing
  BY <1>3 DEF Tells, F!SchedulerTells, F!FlagTells
<1> QED BY <1>2, <1>4

LEMMA QueueInit ==
  ASSUME Init
  PROVE  QueueInv
<1>1. /\ queued = [w \in Watchers |-> FALSE] /\ pending = <<>> /\ round = <<>>
  BY DEF Init, R!Init
<1> QED BY <1>1 DEF QueueInv

LEMMA QueueTree ==
  ASSUME Shape, QueueInv,
         \/ Mount \/ MountRender \/ MountDone \/ MountFails
         \/ RenderReturns \/ ChildDone \/ PatchFails \/ PatchDone
         \/ \E c \in Components : UpdateChild(c) \/ MountChild(c)
         \/ RemoveChild \/ SkipOld
         \/ UnmountTree \/ UnmountChild \/ UnmountDone
         \/ Update \/ Unmount \/ WatchInInit \/ HookReturns
  PROVE  QueueInv'
<1>1. CASE MountFails
  <2>1. /\ stack # <<>> /\ Top.kind = "mount" /\ UNCHANGED <<round, flushing, batchDepth>>
        /\ stop(Top.inst, IF Top.inst # Root THEN effectCleanups[Top.inst] ELSE {})
    BY <1>1, MountFailsStep
  <2>2. /\ Top.inst \in Components
        /\ (IF Top.inst # Root THEN effectCleanups[Top.inst] ELSE {})
             \in SUBSET {Effect(Top.inst)}
    BY <1>1, <2>1, TopFields, MountFailsStep DEF RuntimeKinds
  <2> QED BY <2>1, <2>2, QueueStopped
<1>2. ASSUME NEW i \in Components, NEW below \in Seq(AllFrames), unmount(i, below)
      PROVE  QueueInv'
  BY <1>2, UnmountProperties, QueueStopped
<1>3. CASE RemoveChild \/ UnmountChild \/ Unmount
  BY <1>2, <1>3, RemoveChildStep, UnmountChildStep, UnmountStep, QueueStarted, Unfolded
<1>4. CASE MountRender \/ WatchInInit
  <2>1. stack # <<>> /\ Top.kind \in RuntimeKinds
    BY <1>4, MountRenderStep, WatchInInitStep DEF RuntimeKinds
  <2>2. \E w \in Watchers : phase' = [phase EXCEPT ![w] = "live"]
    BY <1>4, <2>1, MountRenderStep, WatchInInitStep, TopFields, Names
  <2>3. UNCHANGED scheduler
    BY <1>4, MountRenderStep, WatchInInitStep
  <2> QED BY <2>2, <2>3, QueueStarted, Unfolded
<1>5. CASE \/ Mount \/ MountDone
           \/ RenderReturns \/ ChildDone \/ PatchFails \/ PatchDone
           \/ \E c \in Components : UpdateChild(c) \/ MountChild(c)
           \/ SkipOld \/ UnmountTree \/ UnmountDone \/ Update \/ HookReturns
  <2>1. UNCHANGED <<phase, scheduler>>
    <3>1. Mount \/ MountDone \/ RenderReturns => UNCHANGED <<phase, scheduler>>
      BY MountStep, MountDoneStep, RenderReturnsStep, Unfolded DEF OnlyCalls
    <3>2. ChildDone \/ PatchFails \/ PatchDone \/ SkipOld => UNCHANGED <<phase, scheduler>>
      BY ChildDoneStep, PatchFailsStep, PatchDoneStep, SkipOldStep, Unfolded DEF OnlyCalls
    <3>3. (\E c \in Components : UpdateChild(c) \/ MountChild(c)) =>
             UNCHANGED <<phase, scheduler>>
      BY UpdateChildStep, MountChildStep, Unfolded DEF OnlyCalls
    <3>4. UnmountTree \/ UnmountDone \/ Update \/ HookReturns => UNCHANGED <<phase, scheduler>>
      BY UnmountTreeStep, UnmountDoneStep, UpdateStep, HookReturnsStep, Unfolded
         DEF OnlyCalls
    <3> QED BY <1>5, <3>1, <3>2, <3>3, <3>4
  <2> QED BY <2>1, QueueStarted, Unfolded
<1> QED BY <1>1, <1>3, <1>4, <1>5

LEMMA QueueCalls ==
  ASSUME Shape, Tells, QueueInv, Calls
  PROVE  QueueInv'
<1>1. ASSUME NEW s \in States, R!GetState(s) \/ R!Set(s)
      PROVE  QueueInv'
  BY <1>1, GetStateStep, SetStep, QueueStarted, Unfolded
<1>2. CASE R!EffectReturns
  BY <1>2, EffectReturnsStep, QueueStarted, Unfolded
<1>3. CASE R!BatchBegin \/ R!BatchEnd
  <2>1. /\ UNCHANGED <<phase, queued, pending, round>>
        /\ \/ batchDepth' = batchDepth + 1 /\ UNCHANGED flushing
           \/ batchDepth' = batchDepth - 1 /\ batchDepth # 1 /\ UNCHANGED flushing
           \/ flushing /\ UNCHANGED flushing
           \/ flushing' = TRUE
    BY <1>3, BatchBeginStep, BatchEndStep, Unfolded
  <2>2. batchDepth \in Nat
    BY FlushTells
  <2>3. pending # <<>> => flushing \/ batchDepth # 0
    BY DEF QueueInv
  <2> QED BY <2>1, <2>2, <2>3 DEF QueueInv
<1> QED BY <1>1, <1>2, <1>3, CallsCases

LEMMA QueueSchedule ==
  ASSUME Shape, Tells, Known, QueueInv, Schedule
  PROVE  QueueInv'
<1>1. /\ stack # <<>> /\ UNCHANGED <<phase, batchDepth>>
      /\ pending \in Seq(Watchers) /\ round \in Seq(Watchers) /\ queued \in [Watchers -> BOOLEAN]
  BY ScheduleStep, Unfolded DEF Shape
<1>2. CASE UNCHANGED <<queued, pending, round, flushing>>
  BY <1>1, <1>2, QueueKept
<1>3. ASSUME Top.kind = "notify", NEW w \in Top.todo, phase[w] # "stopped", w \in Watchers,
             queued' = [queued EXCEPT ![w] = TRUE], pending' = Append(pending, w),
             \/ (batchDepth # 0 \/ flushing) /\ UNCHANGED flushing
             \/ flushing',
             UNCHANGED round
      PROVE  QueueInv'
  <2>1. phase[w] = "live"
    <3>1. Top.kind # "mount" /\ stack \in Seq(AllFrames) /\ StackKnown(stack, Olds)
      BY <1>3 DEF Known, Shape
    <3>2. FrameKnown(Top, Olds)
      BY <1>1, <3>1, TopKnown
    <3>3. w \in Olds
      BY <1>3, <3>2 DEF FrameKnown
    <3> QED BY <1>3, <3>3 DEF Olds, Old, Shape
  <2>2. ToSet(pending') = ToSet(pending) \cup {w}
    BY <1>1, <1>3, SetAppended
  <2>3. \A v \in Watchers : queued'[v] => v = w \/ queued[v]
    BY <1>1, <1>3
  <2>6. CASE UNCHANGED flushing
    BY <1>1, <1>3, <2>1, <2>2, <2>3, <2>6 DEF QueueInv
  <2>4. CASE flushing'
    BY <1>1, <1>3, <2>1, <2>2, <2>3, <2>4 DEF QueueInv
  <2> QED BY <1>3, <2>4, <2>6
<1>4. ASSUME NEW w \in Watchers, round # <<>>, Head(round) = w, phase[w] = "stopped",
             round' = Tail(round), queued' = [queued EXCEPT ![w] = FALSE],
             UNCHANGED <<pending, flushing>>
      PROVE  QueueInv'
  <2>1. ToSet(round) = {w} \cup ToSet(Tail(round))
    BY <1>1, <1>4, SetPopped
  <2>2. \A v \in Watchers : queued'[v] => v # w /\ queued[v]
    BY <1>1, <1>4
  <2> QED BY <1>1, <1>4, <2>1, <2>2 DEF QueueInv
<1>5. ASSUME Top.kind = "flush", round = <<>>, round' = pending, pending' = <<>>,
             UNCHANGED <<queued, flushing>>
      PROVE  QueueInv'
  <2>1. flushing
    BY <1>1, <1>5, FlushTells
  <2> QED BY <1>1, <1>5, <2>1, SetEmpty DEF QueueInv
<1>6. ASSUME round = <<>>, pending = <<>>, UNCHANGED <<queued, pending, round>>
      PROVE  QueueInv'
  BY <1>1, <1>6 DEF QueueInv
<1>7. CASE Top.kind = "notify"
  <2>1. \/ \E w \in Top.todo :
             \/ /\ phase[w] # "stopped" /\ w \in Watchers
                /\ queued' = [queued EXCEPT ![w] = TRUE] /\ pending' = Append(pending, w)
                /\ \/ (batchDepth # 0 \/ flushing) /\ UNCHANGED flushing
                   \/ flushing'
                /\ UNCHANGED round
             \/ UNCHANGED <<queued, pending, round, flushing>>
        \/ UNCHANGED <<queued, pending, round, flushing>>
    BY <1>7, ScheduleStep, Unfolded
  <2> QED BY <1>2, <1>3, <1>7, <2>1
<1>8. CASE Top.kind = "flush"
  BY <1>4, <1>5, <1>6, <1>8, ScheduleStep
<1> QED BY <1>7, <1>8, ScheduleStep

LEMMA QueueFlushRun ==
  ASSUME Shape, QueueInv, NEW w \in Watchers, FlushRun(w)
  PROVE  QueueInv'
<1>1. /\ round # <<>> /\ Head(round) = w /\ round' = Tail(round)
      /\ queued' = [queued EXCEPT ![w] = FALSE]
      /\ UNCHANGED <<phase, pending, flushing, batchDepth>>
      /\ round \in Seq(Watchers) /\ queued \in [Watchers -> BOOLEAN]
  BY FlushRunStep DEF Shape
<1>2. ToSet(round) = {w} \cup ToSet(Tail(round))
  BY <1>1, SetPopped
<1>3. \A v \in Watchers : queued'[v] => v # w /\ queued[v]
  BY <1>1
<1> QED BY <1>1, <1>2, <1>3 DEF QueueInv

LEMMA QueueNext ==
  ASSUME Shape, Tells, Known, QueueInv, [Next]_vars
  PROVE  QueueInv'
<1>1. CASE UNCHANGED vars
  BY <1>1, Unfolded, QueueStarted DEF vars
<1> QED BY <1>1, QueueTree, QueueCalls, QueueSchedule, QueueFlushRun DEF Next

LEMMA ShapeTyped ==
  ASSUME Shape, QueueInv
  PROVE  TypeOK
<1>1. \A k \in DOMAIN stack :
        \/ stack[k] \in R!Frames
        \/ stack[k].kind \in RuntimeKinds /\ stack[k].inst \in Components
  <2>1. \A f \in AllFrames : f \in R!Frames \/ f \in Activations
    BY DEF AllFrames, GraphFrames
  <2>2. \A f \in Activations : f.kind \in RuntimeKinds /\ f.inst \in Components
    BY FieldTypes
  <2>3. \A k \in DOMAIN stack : stack[k] \in AllFrames
    BY DEF Shape
  <2> QED BY <2>1, <2>2, <2>3
<1> QED BY <1>1 DEF TypeOK, Shape, QueueInv

\* What a component keeps, what the stack holds and what is disturbed are of
\* their types, and nothing that is stopped or was never started is queued: a
\* component or effect leaves the queue with its stop, and is told of a Set
\* only after it was created.
THEOREM TypeCorrect ==
  Spec => []TypeOK
<1>1. Init => Shape /\ Tells /\ Known /\ QueueInv
  BY ShapeInit, TellsInit, KnownInit, QueueInit
<1>2. Shape /\ Tells /\ Known /\ QueueInv /\ [Next]_vars =>
        Shape' /\ Tells' /\ Known' /\ QueueInv'
  BY ShapeStep, TellsNext, KnownNext, QueueNext
<1>3. Shape /\ QueueInv => TypeOK
  BY ShapeTyped
<1> QED BY <1>1, <1>2, <1>3, PTL DEF Spec

-----------------------------------------------------------------------------
(* Render functions are innermost.                                         *)

LEMMA NobodyRenders ==
  ASSUME Shape, RenderOnTop, ~Rendering
  PROVE  NoRender(subscriberStack)
<1>1. CASE NoRender(subscriberStack)
  BY <1>1
<1>2. CASE R!Running("run") /\ subscriberStack # <<>> /\ NoRender(Tail(subscriberStack))
  <2>1. subscriberStack \in Seq(Watchers) /\ subscriberStack # <<>>
    BY <1>2 DEF Shape
  <2>2. Head(subscriberStack) \notin Components
    BY <1>2 DEF Rendering, R!currentSubscriber
  <2>3. ToSet(subscriberStack) = {Head(subscriberStack)} \cup ToSet(Tail(subscriberStack))
    BY <2>1, SetPopped
  <2> QED BY <1>2, <2>2, <2>3 DEF NoRender
<1> QED BY <1>1, <1>2 DEF RenderOnTop

\* Only a render function that returns has been rendering.
LEMMA StepNobodyRenders ==
  ASSUME Shape, RenderOnTop, Next
  PROVE  RenderReturns \/ NoRender(subscriberStack)
<1> SUFFICES ASSUME ~RenderReturns
             PROVE  ~Rendering
  BY NobodyRenders
<1>1. CASE Mount \/ Update
  <2>1. \A k \in DOMAIN stack : stack[k].kind = "batch"
    BY <1>1, MountStep, UpdateStep
  <2>2. stack # <<>> => Head(stack) = stack[1] /\ 1 \in DOMAIN stack
    BY F!PopProperties DEF Shape
  <2> QED BY <2>1, <2>2 DEF Rendering, R!Running
<1>2. CASE Unmount \/ Calls
  BY <1>2, UnmountStep, CallsCases DEF UserCode
<1>3. CASE \/ MountRender \/ MountDone \/ MountFails
           \/ ChildDone \/ PatchFails \/ PatchDone
           \/ \E c \in Components : UpdateChild(c) \/ MountChild(c)
           \/ RemoveChild \/ SkipOld
  <2>1. Top.kind \in {"mount", "patch"}
    BY <1>3, MountRenderStep, MountDoneStep, MountFailsStep, ChildDoneStep, PatchFailsStep,
       PatchDoneStep, UpdateChildStep, MountChildStep, RemoveChildStep, SkipOldStep
  <2> QED BY <2>1 DEF Rendering, R!Running, Top
<1>4. CASE \/ UnmountTree \/ UnmountChild \/ UnmountDone \/ WatchInInit \/ HookReturns
           \/ Schedule \/ \E w \in Watchers : FlushRun(w)
  <2>1. Top.kind \in {"unmount", "hook", "notify", "flush"}
    BY <1>4, UnmountTreeStep, UnmountChildStep, UnmountDoneStep, WatchInInitStep,
       HookReturnsStep, ScheduleStep, FlushRunStep
  <2> QED BY <2>1 DEF Rendering, R!Running, Top
<1> QED BY <1>1, <1>2, <1>3, <1>4 DEF Next

LEMMA RenderStarts ==
  ASSUME Shape, NEW w \in Watchers, Started(w), NoRender(subscriberStack),
         NEW s \in Seq(AllFrames), stack' = <<R!Frame("run")>> \o s
  PROVE  RenderOnTop'
<1>1. /\ subscriberStack' = <<w>> \o subscriberStack /\ subscriberStack \in Seq(Watchers)
  BY DEF Started, Shape
<1>2. subscriberStack' # <<>> /\ Tail(subscriberStack') = subscriberStack
  BY <1>1, HeadPushed
<1>3. stack' # <<>> /\ Head(stack').kind = "run"
  BY GraphFrameTypes, HeadPushed
<1> QED BY <1>2, <1>3 DEF RenderOnTop, R!Running

LEMMA RenderOnTopNext ==
  ASSUME Shape, RenderOnTop, [Next]_vars
  PROVE  RenderOnTop'
<1>1. CASE UNCHANGED vars
  BY <1>1 DEF vars, RenderOnTop, R!Running
<1>2. CASE RenderReturns
  <2>1. R!Running("run") /\ R!currentSubscriber \in Components
    BY <1>2 DEF RenderReturns, Rendering
  <2>2. /\ subscriberStack # <<>> /\ subscriberStack' = Tail(subscriberStack)
        /\ Head(subscriberStack) \in Components /\ subscriberStack \in Seq(Watchers)
    BY <1>2, RenderReturnsStep DEF Shape
  <2>3. ToSet(subscriberStack) = {Head(subscriberStack)} \cup ToSet(Tail(subscriberStack))
    BY <2>2, SetPopped
  <2>4. NoRender(Tail(subscriberStack))
    BY <2>2, <2>3 DEF RenderOnTop, NoRender
  <2> QED BY <2>2, <2>4 DEF RenderOnTop
<1>3. ASSUME NoRender(subscriberStack), UNCHANGED subscriberStack
      PROVE  RenderOnTop'
  BY <1>3 DEF RenderOnTop
<1>4. ASSUME NoRender(subscriberStack), NEW s \in Seq(AllFrames),
             NEW w \in Watchers, Started(w), stack' = <<R!Frame("run")>> \o s
      PROVE  RenderOnTop'
  BY <1>4, RenderStarts
<1>5. CASE Next /\ ~RenderReturns
  <2>1. NoRender(subscriberStack)
    BY <1>5, StepNobodyRenders
  <2>2. CASE \/ MountRender \/ Update \/ WatchInInit
             \/ \E c \in Components : UpdateChild(c)
             \/ \E w \in Watchers : FlushRun(w)
    <3>1. \E s \in Seq(AllFrames), w \in Watchers :
             Started(w) /\ stack' = <<R!Frame("run")>> \o s
      <4>1. CASE MountRender
        <5>1. /\ <<Begun(Top)>> \o Below \in Seq(AllFrames) /\ Started(Top.inst)
              /\ stack' = <<R!Frame("run")>> \o (<<Begun(Top)>> \o Below)
              /\ stack # <<>> /\ Top.kind = "mount"
          BY <4>1, MountRenderStep
        <5>2. Top.inst \in Watchers
          BY <5>1, TopFields, Names DEF RuntimeKinds
        <5> QED BY <5>1, <5>2
      <4>2. CASE Update
        BY <4>2, UpdateStep, Names
      <4>3. CASE WatchInInit
        BY <4>3, WatchInInitStep DEF Shape
      <4>4. ASSUME NEW c \in Components, UpdateChild(c)
            PROVE  \E s \in Seq(AllFrames), w \in Watchers :
                      Started(w) /\ stack' = <<R!Frame("run")>> \o s
        BY <4>4, UpdateChildStep, Names
      <4>5. ASSUME NEW w \in Watchers, FlushRun(w)
            PROVE  \E s \in Seq(AllFrames), v \in Watchers :
                      Started(v) /\ stack' = <<R!Frame("run")>> \o s
        BY <4>5, FlushRunStep DEF Shape
      <4> QED BY <2>2, <4>1, <4>2, <4>3, <4>4, <4>5
    <3> QED BY <1>4, <2>1, <3>1
  <2>3. ASSUME Calls
        PROVE  RenderOnTop'
    <3>1. UNCHANGED subscriberStack \/ R!EffectReturns
      BY <2>3, CallsCases, GetStateStep, SetStep, BatchBeginStep, BatchEndStep
    <3>2. R!EffectReturns => ToSet(subscriberStack') \subseteq ToSet(subscriberStack)
      BY EffectReturnsStep
    <3> QED BY <1>3, <2>1, <3>1, <3>2 DEF RenderOnTop, NoRender
  <2>4. ASSUME NEW i \in Components, NEW below \in Seq(AllFrames), unmount(i, below)
        PROVE  UNCHANGED subscriberStack
    BY <2>4, UnmountProperties
  <2>5. RemoveChild \/ UnmountChild \/ Unmount => UNCHANGED subscriberStack
    BY <2>4, RemoveChildStep, UnmountChildStep, UnmountStep, Unfolded
  <2>6. Mount \/ MountDone \/ MountFails \/ ChildDone \/ PatchFails \/ PatchDone =>
          UNCHANGED subscriberStack
    BY MountStep, MountDoneStep, MountFailsStep, ChildDoneStep, PatchFailsStep,
       PatchDoneStep, Unfolded
  <2>7. SkipOld \/ UnmountTree \/ UnmountDone \/ HookReturns \/ Schedule =>
          UNCHANGED subscriberStack
    BY SkipOldStep, UnmountTreeStep, UnmountDoneStep, HookReturnsStep, ScheduleStep, Unfolded
  <2>8. \A c \in Components : MountChild(c) => UNCHANGED subscriberStack
    BY MountChildStep, Unfolded
  <2> QED BY <1>3, <1>5, <2>1, <2>2, <2>3, <2>5, <2>6, <2>7, <2>8 DEF Next
<1> QED BY <1>1, <1>2, <1>5

LEMMA RenderOnTopInit ==
  ASSUME Init
  PROVE  RenderOnTop
<1>1. subscriberStack = <<>>
  BY DEF Init, R!Init
<1> QED BY <1>1, SetEmpty DEF RenderOnTop, NoRender

-----------------------------------------------------------------------------
(* Moves: activations of other kinds than K come and go.                   *)

Without(K) == {f \in AllFrames : f.kind \notin K /\ (f.kind = "hook" => f.at # "init")}

IsBase(base, K) ==
  \/ base = stack
  \/ stack # <<>> /\ Top.kind \notin K /\ base = Below

Move(st, K) ==
  \E base \in Seq(AllFrames), q \in Seq(Without(K)) : IsBase(base, K) /\ st = q \o base

LEMMA MoveMade ==
  ASSUME NEW K, NEW base \in Seq(AllFrames), IsBase(base, K)
  PROVE  /\ Move(base, K)
         /\ \A f \in Without(K) : Move(<<f>> \o base, K)
         /\ \A f, g \in Without(K) : Move(<<f>> \o (<<g>> \o base), K)
         /\ \A f, g, h \in Without(K) : Move(<<f>> \o (<<g>> \o (<<h>> \o base)), K)
<1>1. <<>> \in Seq(Without(K)) /\ <<>> \o base = base
  OBVIOUS
<1>2. Move(base, K)
  BY <1>1 DEF Move
<1>3. ASSUME NEW f \in Without(K)
      PROVE  Move(<<f>> \o base, K)
  <2>1. <<f>> \in Seq(Without(K))
    OBVIOUS
  <2> QED BY <2>1 DEF Move
<1>4. ASSUME NEW f \in Without(K), NEW g \in Without(K)
      PROVE  Move(<<f>> \o (<<g>> \o base), K)
  <2>1. <<f, g>> \in Seq(Without(K)) /\ f \in AllFrames /\ g \in AllFrames
    BY DEF Without
  <2>2. <<f, g>> \o base = <<f>> \o (<<g>> \o base)
    BY <2>1, Pushed
  <2> QED BY <2>1, <2>2 DEF Move
<1>5. ASSUME NEW f \in Without(K), NEW g \in Without(K), NEW h \in Without(K)
      PROVE  Move(<<f>> \o (<<g>> \o (<<h>> \o base)), K)
  <2>1. /\ <<f, g, h>> \in Seq(Without(K))
        /\ f \in AllFrames /\ g \in AllFrames /\ h \in AllFrames
    BY DEF Without
  <2>2. <<f, g, h>> \o base = <<f>> \o (<<g>> \o (<<h>> \o base))
    BY <2>1, ThreePushed
  <2> QED BY <2>1, <2>2 DEF Move
<1> QED BY <1>2, <1>3, <1>4, <1>5

LEMMA Concatenated ==
  ASSUME NEW K, NEW base \in Seq(AllFrames), NEW q \in Seq(Without(K))
  PROVE  /\ q \o base \in Seq(AllFrames)
         /\ \A f \in ToSet(base) : f \in ToSet(q \o base)
         /\ \A f \in ToSet(q \o base) : f \in ToSet(base) \/ f.kind \notin K
         /\ \A kind \in K : Once(base, kind) => Once(q \o base, kind)
         /\ "patch" \in K => \A S : ChildrenIn(base, S) => ChildrenIn(q \o base, S)
         /\ InitAboveMount(base) => InitAboveMount(q \o base)
<1> DEFINE t == q \o base
           n == Len(q)
<1>1. /\ q \in Seq(AllFrames)
      /\ \A f \in Without(K) : f.kind \notin K /\ (f.kind = "hook" => f.at # "init")
  BY DEF Without
<1>2. /\ t \in Seq(AllFrames) /\ n \in Nat /\ Len(base) \in Nat /\ Len(t) = n + Len(base)
      /\ \A k \in 1 .. n : /\ t[k] = q[k] /\ t[k].kind \notin K
                           /\ t[k].kind = "hook" => t[k].at # "init"
      /\ \A k \in 1 .. Len(base) : t[n + k] = base[k]
  BY <1>1, ConcatProperties
<1> HIDE DEF t, n
<1>3. /\ DOMAIN t = 1 .. n + Len(base) /\ DOMAIN base = 1 .. Len(base)
      /\ \A k \in DOMAIN t : k > n => k - n \in DOMAIN base /\ t[k] = base[k - n]
  <2>1. DOMAIN t = 1 .. n + Len(base) /\ DOMAIN base = 1 .. Len(base)
    BY <1>2
  <2>2. ASSUME NEW k \in DOMAIN t, k > n
        PROVE  k - n \in DOMAIN base /\ t[k] = base[k - n]
    <3>1. k - n \in 1 .. Len(base) /\ n + (k - n) = k
      BY <1>2, <2>1, <2>2
    <3> QED BY <1>2, <2>1, <3>1
  <2> QED BY <2>1, <2>2
<1>4. \A k \in DOMAIN t : t[k].kind \in K => k > n
  BY <1>2, <1>3
<1>5. ASSUME NEW f \in ToSet(base)
      PROVE  f \in ToSet(t)
  <2>1. PICK k \in 1 .. Len(base) : base[k] = f
    BY <1>3 DEF ToSet
  <2>2. n + k \in DOMAIN t /\ t[n + k] = f
    BY <1>2, <1>3, <2>1
  <2> QED BY <2>2 DEF ToSet
<1>6. ASSUME NEW f \in ToSet(t)
      PROVE  f \in ToSet(base) \/ f.kind \notin K
  <2>1. PICK k \in DOMAIN t : t[k] = f
    BY DEF ToSet
  <2> QED BY <1>3, <1>4, <2>1 DEF ToSet
<1>7. ASSUME NEW kind \in K, Once(base, kind)
      PROVE  Once(t, kind)
  <2> SUFFICES ASSUME NEW k \in DOMAIN t, NEW l \in DOMAIN t, Clash(t[k], t[l], kind)
               PROVE  k = l
    BY DEF Once
  <2>1. k > n /\ l > n
    BY <1>4 DEF Clash
  <2>2. k - n = l - n
    BY <1>3, <1>7, <2>1 DEF Once
  <2> QED BY <1>2, <1>3, <2>2
<1>8. ASSUME "patch" \in K, NEW S, ChildrenIn(base, S)
      PROVE  ChildrenIn(t, S)
  <2> SUFFICES ASSUME NEW k \in DOMAIN t, t[k].kind = "patch", t[k].child # 0,
                      t[k].child \notin S
               PROVE  /\ k # 1
                      /\ t[k - 1].kind = "mount" /\ t[k - 1].inst = t[k].child
    BY DEF ChildrenIn
  <2>1. k > n /\ k - n \in DOMAIN base /\ t[k] = base[k - n]
    BY <1>3, <1>4, <1>8
  <2>2. /\ k - n # 1
        /\ base[(k - n) - 1].kind = "mount" /\ base[(k - n) - 1].inst = t[k].child
    BY <1>8, <2>1 DEF ChildrenIn
  <2>3. k - 1 \in DOMAIN t /\ k - 1 > n /\ (k - 1) - n = (k - n) - 1
    BY <1>2, <1>3, <2>1, <2>2
  <2>4. t[k - 1] = base[(k - n) - 1]
    BY <1>3, <2>3
  <2> QED BY <1>2, <2>1, <2>2, <2>3, <2>4
<1>9. ASSUME InitAboveMount(base)
      PROVE  InitAboveMount(t)
  <2> SUFFICES ASSUME NEW k \in DOMAIN t, t[k].kind = "hook", t[k].at = "init"
               PROVE  k + 1 \in DOMAIN t /\ t[k + 1] = MountFrame(t[k].inst)
    BY DEF InitAboveMount
  <2>1. k > n
    BY <1>2, <1>3
  <2>2. k - n \in DOMAIN base /\ t[k] = base[k - n]
    BY <1>3, <2>1
  <2>3. (k - n) + 1 \in DOMAIN base /\ base[(k - n) + 1] = MountFrame(t[k].inst)
    BY <1>9, <2>2 DEF InitAboveMount
  <2>4. k + 1 \in DOMAIN t /\ k + 1 > n /\ (k + 1) - n = (k - n) + 1
    BY <1>2, <1>3, <2>1, <2>3
  <2>5. t[k + 1] = base[(k - n) + 1]
    BY <1>3, <2>4
  <2> QED BY <2>3, <2>4, <2>5
<1> QED BY <1>2, <1>5, <1>6, <1>7, <1>8, <1>9 DEF t

LEMMA MoveKeeps ==
  ASSUME Shape, NEW K, NEW st, Move(st, K)
  PROVE  /\ st \in Seq(AllFrames)
         /\ \A f \in AllFrames : f.kind \in K => (f \in ToSet(st) <=> f \in ToSet(stack))
         /\ \A kind \in K : Once(stack, kind) => Once(st, kind)
         /\ {"patch", "mount"} \subseteq K =>
              \A S : ChildrenIn(stack, S) => ChildrenIn(st, S)
         /\ InitAboveMount(stack) => InitAboveMount(st)
<1>1. PICK base \in Seq(AllFrames), q \in Seq(Without(K)) : IsBase(base, K) /\ st = q \o base
  BY DEF Move
<1>2. /\ \A f \in AllFrames : f.kind \in K => (f \in ToSet(base) <=> f \in ToSet(stack))
      /\ \A kind \in K : Once(stack, kind) => Once(base, kind)
      /\ "mount" \in K => \A S : ChildrenIn(stack, S) => ChildrenIn(base, S)
      /\ InitAboveMount(stack) => InitAboveMount(base)
  <2>1. CASE base = stack
    BY <2>1
  <2>2. CASE stack # <<>> /\ Top.kind \notin K /\ base = Below
    <3>1. stack \in Seq(AllFrames) /\ ToSet(stack) = {Top} \cup ToSet(Below)
      BY <2>2, TopType DEF Shape
    <3>2. \A kind : Once(stack, kind) => Once(Below, kind)
      BY <2>2, <3>1, OncePopped DEF Below
    <3>3. "mount" \in K => \A S : ChildrenIn(stack, S) => ChildrenIn(Below, S)
      BY <2>2, <3>1, ChildrenPopped DEF Below, Top
    <3>4. InitAboveMount(stack) => InitAboveMount(Below)
      BY <2>2, <3>1, InitPopped DEF Below
    <3> QED BY <2>2, <3>1, <3>2, <3>3, <3>4
  <2> QED BY <1>1, <2>1, <2>2 DEF IsBase
<1>3. /\ st \in Seq(AllFrames)
      /\ \A f \in ToSet(base) : f \in ToSet(st)
      /\ \A f \in ToSet(st) : f \in ToSet(base) \/ f.kind \notin K
      /\ \A kind \in K : Once(base, kind) => Once(st, kind)
      /\ "patch" \in K => \A S : ChildrenIn(base, S) => ChildrenIn(st, S)
      /\ InitAboveMount(base) => InitAboveMount(st)
  BY <1>1, Concatenated
<1> QED BY <1>2, <1>3

TreeKinds == {"mount", "patch", "unmount"}

Plain ==
  \/ Update \/ WatchInInit \/ HookReturns \/ Calls \/ Schedule
  \/ \E w \in Watchers : FlushRun(w)

\* Steps that neither build nor take down a tree.
LEMMA PlainMoves ==
  ASSUME Shape, Plain
  PROVE  Move(stack', TreeKinds)
<1>1. stack \in Seq(AllFrames) /\ IsBase(stack, TreeKinds)
  <2>1. stack \in Seq(AllFrames)
    BY DEF Shape
  <2> QED BY <2>1 DEF IsBase
<1>2. ASSUME stack # <<>>, Top.kind \notin TreeKinds
      PROVE  Below \in Seq(AllFrames) /\ IsBase(Below, TreeKinds)
  BY <1>2, TopType DEF IsBase
<1>3. \A kind \in {"batch", "run", "flush"} : R!Frame(kind) \in Without(TreeKinds)
  BY GraphFrameTypes DEF Without, TreeKinds
<1>4. CASE Update \/ WatchInInit \/ \E w \in Watchers : FlushRun(w)
  <2>1. stack' = <<R!Frame("run")>> \o stack
    BY <1>4, UpdateStep, WatchInInitStep, FlushRunStep
  <2> QED BY <1>1, <1>3, <2>1, MoveMade
<1>5. CASE HookReturns
  <2>1. stack # <<>> /\ Top.kind \notin TreeKinds /\ stack' = Below
    BY <1>5, HookReturnsStep DEF TreeKinds
  <2> QED BY <1>2, <2>1, MoveMade
<1>6. ASSUME NEW s \in States, R!GetState(s) \/ R!Set(s)
      PROVE  Move(stack', TreeKinds)
  <2>1. R!NotifyFrame(s) \in Without(TreeKinds)
    BY NotifyTypes DEF Without, TreeKinds
  <2>2. stack' = stack \/ stack' = <<R!NotifyFrame(s)>> \o stack
    BY <1>6, GetStateStep, SetStep
  <2> QED BY <1>1, <2>1, <2>2, MoveMade
<1>7. CASE R!BatchBegin
  BY <1>1, <1>3, <1>7, BatchBeginStep, MoveMade
<1>8. CASE R!BatchEnd \/ R!EffectReturns
  <2>1. /\ stack # <<>> /\ Top.kind \notin TreeKinds
        /\ stack' = Below \/ stack' = <<R!Frame("flush")>> \o Below
    BY <1>8, BatchEndStep, EffectReturnsStep DEF TreeKinds
  <2> QED BY <1>2, <1>3, <2>1, MoveMade
<1>9. CASE Schedule
  <2>1. /\ stack # <<>> /\ Top.kind \in {"notify", "flush"} /\ Top.kind \notin TreeKinds
        /\ Top \in AllFrames
    BY <1>9, ScheduleStep, TopType DEF TreeKinds
  <2>2. Top.kind = "notify" => \A w : Relieved(Top, w) \in Without(TreeKinds)
    BY <2>1, NotifyTypes DEF Without, TreeKinds
  <2>3. \/ stack' = stack \/ stack' = Below
        \/ Top.kind = "notify" /\ \E w \in Top.todo :
             \/ stack' = <<Relieved(Top, w)>> \o Below
             \/ stack' = <<R!Frame("flush")>> \o (<<Relieved(Top, w)>> \o Below)
    BY <1>9, ScheduleStep
  <2> QED BY <1>1, <1>2, <1>3, <2>1, <2>2, <2>3, MoveMade
<1> QED BY <1>4, <1>5, <1>6, <1>7, <1>8, <1>9, CallsCases DEF Plain

LEMMA PlainKeeps ==
  ASSUME Shape, Plain
  PROVE  /\ UNCHANGED <<mounted, unmounted, tree, renderErr>>
         /\ \A i \in Components : phase'[i] = phase[i]
         /\ \A w \in Watchers : phase'[w] = phase[w] \/ phase'[w] = "live"
         /\ Mounts' = Mounts /\ Gone' = Gone
         /\ Olds \subseteq Olds' /\ Olds' \cap Components = Olds \cap Components
<1>1. UNCHANGED <<mounted, unmounted, tree, renderErr>>
  BY UpdateStep, WatchInInitStep, HookReturnsStep, CallsCases, ScheduleStep, FlushRunStep,
     Unfolded DEF Plain
<1>2. CASE UNCHANGED phase
  BY <1>1, <1>2 DEF Olds, Old, Mounts, Gone
<1>3. CASE WatchInInit
  <2>1. /\ Top.kind = "hook" /\ stack # <<>>
        /\ phase' = [phase EXCEPT ![Effect(Top.inst)] = "live"]
    BY <1>3, WatchInInitStep
  <2>2. Effect(Top.inst) \notin Components
    BY <2>1, TopFields, Names DEF RuntimeKinds
  <2>3. /\ \A i \in Components : phase'[i] = phase[i]
        /\ \A w \in Watchers : phase'[w] = phase[w] \/ phase'[w] = "live"
    BY <2>1, <2>2, Names DEF Shape
  <2> QED BY <1>1, <2>3, Names DEF Olds, Old, Mounts, Gone
<1>4. ASSUME Calls
      PROVE  UNCHANGED phase
  BY <1>4, CallsCases, GetStateStep, SetStep, BatchBeginStep, BatchEndStep,
     EffectReturnsStep, Unfolded
<1>5. Update \/ HookReturns \/ Schedule => UNCHANGED phase
  BY UpdateStep, HookReturnsStep, ScheduleStep, Unfolded
<1>6. \A w \in Watchers : FlushRun(w) => UNCHANGED phase
  BY FlushRunStep
<1> QED BY <1>2, <1>3, <1>4, <1>5, <1>6 DEF Plain

\* Steps that neither mount a component nor go on with that.
Settling ==
  \/ RenderReturns \/ ChildDone \/ PatchFails \/ PatchDone
  \/ \E c \in Components : UpdateChild(c)
  \/ RemoveChild \/ SkipOld
  \/ UnmountTree \/ UnmountChild \/ UnmountDone \/ Unmount

LEMMA UnmountMove ==
  ASSUME Shape, NEW i \in Components, NEW below \in Seq(AllFrames), unmount(i, below),
         IsBase(below, {"mount"}) \/
           \E f \in Without({"mount"}), base \in Seq(AllFrames) :
              IsBase(base, {"mount"}) /\ below = <<f>> \o base
  PROVE  Move(stack', {"mount"})
<1>1. stack' = <<Hook("cleanup", i)>> \o (<<UnmountFrame(i)>> \o below)
  BY UnmountProperties
<1>2. Hook("cleanup", i) \in Without({"mount"}) /\ UnmountFrame(i) \in Without({"mount"})
  BY ActivationTypes DEF Without, Points
<1>3. CASE IsBase(below, {"mount"})
  BY <1>1, <1>2, <1>3, MoveMade
<1>4. ASSUME NEW f \in Without({"mount"}), NEW base \in Seq(AllFrames),
             IsBase(base, {"mount"}), below = <<f>> \o base
      PROVE  Move(stack', {"mount"})
  BY <1>1, <1>2, <1>4, MoveMade
<1> QED BY <1>3, <1>4

LEMMA SettlingMoves ==
  ASSUME Shape, Settling
  PROVE  Move(stack', {"mount"})
<1>1. stack \in Seq(AllFrames) /\ IsBase(stack, {"mount"})
  <2>1. stack \in Seq(AllFrames)
    BY DEF Shape
  <2> QED BY <2>1 DEF IsBase
<1>2. ASSUME stack # <<>>, Top.kind # "mount"
      PROVE  Below \in Seq(AllFrames) /\ IsBase(Below, {"mount"})
  BY <1>2, TopType DEF IsBase
<1>3. ASSUME NEW f \in AllFrames, f.kind # "mount", f.kind = "hook" => f.at # "init"
      PROVE  f \in Without({"mount"})
  BY <1>3 DEF Without
<1>4. CASE RenderReturns
  <2>1. /\ stack # <<>> /\ Top.kind = "run" /\ R!currentSubscriber \in Components
        /\ stack' = <<PatchFrame(R!currentSubscriber)>> \o Below
    BY <1>4, RenderReturnsStep
  <2>2. PatchFrame(R!currentSubscriber) \in Without({"mount"})
    BY <1>3, <2>1, PatchFrameType
  <2> QED BY <1>2, <2>1, <2>2, MoveMade
<1>5. ASSUME stack # <<>>, Top.kind \in {"patch", "unmount"}
      PROVE  /\ Top \in Activations
             /\ Top.child # 0 => Adopted(Top) \in Without({"mount"})
             /\ Top.old # <<>> => Passed(Top) \in Without({"mount"})
             /\ \A q \in Seq(Components) : Taken(Top, q) \in Without({"mount"})
             /\ Top.next # <<>> =>
                  \A c \in Components : Chosen(Top, c) \in Without({"mount"})
             /\ \A name \in Points \ {"init"} : Hook(name, Top.inst) \in Without({"mount"})
  <2>1. Top \in Activations /\ Top.inst \in Components
    BY <1>5, TopFields DEF RuntimeKinds
  <2> QED BY <1>3, <1>5, <2>1, ChildAdded, OldPassed, TreeTaken, ChildChosen, ActivationTypes, SMTT(30)
<1>6. CASE ChildDone \/ PatchFails \/ PatchDone
  <2>1. /\ stack # <<>> /\ Top.kind = "patch"
        /\ \/ stack' = <<Adopted(Top)>> \o Below /\ Top.child # 0
           \/ stack' = Below
           \/ stack' = <<Hook("updated", Top.inst)>> \o Below
    BY <1>6, ChildDoneStep, PatchFailsStep, PatchDoneStep
  <2> QED BY <1>2, <1>5, <2>1, MoveMade DEF Points
<1>7. ASSUME NEW c \in Components, UpdateChild(c)
      PROVE  Move(stack', {"mount"})
  <2>1. /\ stack # <<>> /\ Top.kind = "patch" /\ Top.next # <<>>
        /\ stack' = <<R!Frame("run")>> \o (<<Chosen(Top, c)>> \o Below)
    BY <1>7, UpdateChildStep
  <2>2. R!Frame("run") \in Without({"mount"})
    BY <1>3, GraphFrameTypes
  <2> QED BY <1>2, <1>5, <2>1, <2>2, MoveMade
<1>8. CASE SkipOld \/ UnmountTree \/ UnmountDone
  <2>1. /\ stack # <<>> /\ Top.kind \in {"patch", "unmount"}
        /\ \/ stack' = <<Passed(Top)>> \o Below /\ Top.old # <<>>
           \/ \E q \in Seq(Components) : stack' = <<Taken(Top, q)>> \o Below
           \/ stack' = <<Hook("unmounted", Top.inst)>> \o Below
    BY <1>8, SkipOldStep, UnmountTreeStep, UnmountDoneStep
  <2>2. Below \in Seq(AllFrames) /\ IsBase(Below, {"mount"})
    BY <1>2, <2>1
  <2>3. "unmounted" \in Points
    BY DEF Points
  <2> QED BY <1>5, <2>1, <2>2, <2>3, MoveMade
<1>9. CASE RemoveChild \/ UnmountChild
  <2>1. /\ stack # <<>> /\ Top.kind \in {"patch", "unmount"} /\ Top.old # <<>>
        /\ Head(Top.old) \in Components
        /\ <<Passed(Top)>> \o Below \in Seq(AllFrames)
        /\ \/ stack' = <<Passed(Top)>> \o Below
           \/ unmount(Head(Top.old), <<Passed(Top)>> \o Below)
    BY <1>9, RemoveChildStep, UnmountChildStep
  <2>2. Below \in Seq(AllFrames) /\ IsBase(Below, {"mount"})
    BY <1>2, <2>1
  <2>3. Passed(Top) \in Without({"mount"})
    BY <1>5, <2>1
  <2> QED BY <2>1, <2>2, <2>3, MoveMade, UnmountMove
<1>10. CASE Unmount
  BY <1>1, <1>10, UnmountStep, UnmountMove
<1> QED BY <1>4, <1>6, <1>7, <1>8, <1>9, <1>10 DEF Settling

-----------------------------------------------------------------------------
(* A component is mounted once.                                            *)

LEMMA MountsMoved ==
  ASSUME Shape, NEW K, "mount" \in K, NEW st, Move(st, K)
  PROVE  /\ Creating(st) = Creating(stack)
         /\ \A M, S, T : MountsOnce(stack, M, S) /\ S \subseteq T => MountsOnce(st, M, T)
<1>1. /\ st \in Seq(AllFrames) /\ stack \in Seq(AllFrames)
      /\ \A f \in AllFrames : f.kind = "mount" => (f \in ToSet(st) <=> f \in ToSet(stack))
      /\ Once(stack, "mount") => Once(st, "mount")
  <2>1. stack \in Seq(AllFrames)
    BY DEF Shape
  <2> QED BY <2>1, MoveKeeps
<1>2. ToSet(st) \subseteq AllFrames /\ ToSet(stack) \subseteq AllFrames
  BY <1>1 DEF ToSet
<1>3. Creating(st) = Creating(stack)
  BY <1>1, <1>2 DEF Creating
<1>4. ASSUME NEW M, NEW S, NEW T, MountsOnce(stack, M, S), S \subseteq T
      PROVE  MountsOnce(st, M, T)
  BY <1>1, <1>2, <1>4 DEF MountsOnce
<1> QED BY <1>3, <1>4

LEMMA MountsPushed ==
  ASSUME NEW s \in Seq(AllFrames), NEW f \in AllFrames, NEW M, NEW S, MountsOnce(s, M, S),
         f.kind = "mount" => /\ f.inst \notin M /\ f.inst \notin Creating(s)
                             /\ f.inst # Root => Root \in S
  PROVE  /\ MountsOnce(<<f>> \o s, M, S)
         /\ f.kind = "mount" => Creating(<<f>> \o s) = Creating(s) \cup {f.inst}
         /\ f.kind # "mount" => Creating(<<f>> \o s) = Creating(s)
<1>1. ToSet(<<f>> \o s) = {f} \cup ToSet(s)
  BY Pushed
<1>2. f.kind = "mount" => f.inst \in Components
  BY GraphFrameTypes, FieldTypes DEF RuntimeKinds
<1>3. \A g \in ToSet(s) : ~Clash(f, g, "mount")
  BY <1>2 DEF Clash, Creating
<1>4. Once(<<f>> \o s, "mount")
  BY <1>3, OncePushed DEF MountsOnce
<1>5. MountsOnce(<<f>> \o s, M, S)
  BY <1>1, <1>4 DEF MountsOnce
<1>6. /\ f.kind = "mount" => Creating(<<f>> \o s) = Creating(s) \cup {f.inst}
      /\ f.kind # "mount" => Creating(<<f>> \o s) = Creating(s)
  BY <1>1, <1>2 DEF Creating
<1> QED BY <1>5, <1>6

LEMMA MountsPopped ==
  ASSUME Shape, stack # <<>>, Top.kind = "mount", NEW M, NEW S, MountsOnce(stack, M, S)
  PROVE  /\ Below \in Seq(AllFrames)
         /\ MountsOnce(Below, M, S) /\ MountsOnce(Below, M \cup {Top.inst}, S)
         /\ Top.inst \in Components
         /\ Top.inst \notin M /\ Top.inst \notin Creating(Below)
         /\ Top.inst # Root => Root \in S
         /\ Creating(stack) = Creating(Below) \cup {Top.inst}
<1>1. /\ stack \in Seq(AllFrames) /\ ToSet(stack) = {Top} \cup ToSet(Below)
      /\ Below \in Seq(AllFrames) /\ Top.inst \in Components
  BY TopType, TopFields DEF Shape, RuntimeKinds
<1>2. /\ Once(Below, "mount")
      /\ \A g \in ToSet(Below) : ~Clash(Top, g, "mount")
  BY <1>1, OncePopped DEF MountsOnce, Top, Below
<1>3. \A g \in ToSet(Below) : g.kind = "mount" => g.inst # Top.inst
  BY <1>2 DEF Clash
<1>4. MountsOnce(Below, M, S) /\ MountsOnce(Below, M \cup {Top.inst}, S)
  BY <1>1, <1>2, <1>3 DEF MountsOnce
<1>5. Top.inst \notin Creating(Below)
  BY <1>3 DEF Creating
<1>6. Top.inst \notin M /\ (Top.inst # Root => Root \in S)
  BY <1>1 DEF MountsOnce
<1>7. Creating(stack) = Creating(Below) \cup {Top.inst}
  BY <1>1 DEF Creating
<1> QED BY <1>1, <1>4, <1>5, <1>6, <1>7

\* Created, in sets.
LEMMA CreatedMade ==
  ASSUME Shape, NEW i \in Components
  PROVE  Created(i) <=> i \in Made
<1>1. (\E k \in DOMAIN stack : stack[k].kind = "mount" /\ stack[k].inst = i) <=>
        i \in Creating(stack)
  BY DEF Creating, ToSet
<1>2. phase[i] # "new" <=> i \in Olds \cap Components
  BY Names DEF Olds, Old
<1> QED BY <1>1, <1>2 DEF Created, Made

\* What is known of the steps that mount components.
LEMMA SettlingKeeps ==
  ASSUME Shape, Known, Settling
  PROVE  /\ Mounts' = Mounts
         /\ Olds \subseteq Olds' /\ Olds' \cap Components = Olds \cap Components
<1>1. ASSUME NEW i \in Components, NEW below \in Seq(AllFrames), unmount(i, below),
             i \in Olds
      PROVE  /\ UNCHANGED mounted
             /\ Olds \subseteq Olds' /\ Olds' \cap Components = Olds \cap Components
  <2>1. /\ UNCHANGED mounted /\ UNCHANGED <<round, subscriberStack>>
        /\ stop(i, effectCleanups[i]) /\ effectCleanups[i] \in SUBSET {Effect(i)}
    BY <1>1, UnmountProperties
  <2>2. Olds \subseteq Olds'
    BY <2>1, OldStopped DEF Known
  <2>3. \A w \in Watchers : w \in {i} \cup effectCleanups[i] \/ phase'[w] = phase[w]
    BY <2>1, StopProperties
  <2>4. \A j \in Components : j \in Olds' => j \in Olds
    BY <1>1, <2>1, <2>3, Names DEF Olds, Old
  <2> QED BY <2>1, <2>2, <2>4
<1>2. CASE RemoveChild \/ UnmountChild \/ Unmount
  <2>1. \/ UNCHANGED <<phase, mounted>>
        \/ \E i \in Components, below \in Seq(AllFrames) : unmount(i, below) /\ i \in Olds
    <3>1. CASE RemoveChild \/ UnmountChild
      <4>1. /\ stack # <<>> /\ Top.kind \in {"patch", "unmount"} /\ Top.old # <<>>
            /\ Head(Top.old) \in Components
            /\ <<Passed(Top)>> \o Below \in Seq(AllFrames)
            /\ \/ UNCHANGED <<phase, mounted>>
               \/ unmount(Head(Top.old), <<Passed(Top)>> \o Below)
        BY <3>1, RemoveChildStep, UnmountChildStep, Unfolded
      <4>2. FrameKnown(Top, Olds)
        BY <4>1, TopKnown DEF Known, Shape
      <4>3. Head(Top.old) \in ToSet(Top.old)
        BY <4>1, TopFields, OldPassed DEF RuntimeKinds
      <4>4. Head(Top.old) \in Olds
        BY <4>1, <4>2, <4>3 DEF FrameKnown, RuntimeKinds
      <4> QED BY <4>1, <4>4
    <3>2. CASE Unmount
      BY <3>2, UnmountStep DEF Known, TreeKnown
    <3> QED BY <1>2, <3>1, <3>2
  <2> QED BY <1>1, <2>1, OldKept DEF Mounts
<1>3. CASE \/ RenderReturns \/ ChildDone \/ PatchFails \/ PatchDone
           \/ \E c \in Components : UpdateChild(c)
           \/ SkipOld \/ UnmountTree \/ UnmountDone
  <2>1. RenderReturns \/ ChildDone \/ PatchFails \/ PatchDone => UNCHANGED <<phase, mounted>>
    BY RenderReturnsStep, ChildDoneStep, PatchFailsStep, PatchDoneStep, Unfolded
  <2>2. SkipOld \/ UnmountTree \/ UnmountDone => UNCHANGED <<phase, mounted>>
    BY SkipOldStep, UnmountTreeStep, UnmountDoneStep, Unfolded
  <2>3. \A c \in Components : UpdateChild(c) => UNCHANGED <<phase, mounted>>
    BY UpdateChildStep
  <2> QED BY <1>3, <2>1, <2>2, <2>3, OldKept DEF Mounts
<1> QED BY <1>2, <1>3 DEF Settling

\* The four steps that mount a component, or go on with that.
Mounting ==
  \/ Mount \/ MountRender \/ MountDone \/ MountFails
  \/ \E c \in Components : MountChild(c)

\* A new component is created.
LEMMA MountsNew ==
  ASSUME Shape, Known, MountInv, NEW base \in Seq(AllFrames), IsBase(base, {"mount"}),
         NEW q \in Seq(Without({"mount"})), NEW c \in Components, ~Created(c),
         c # Root => Root \in Olds, OnlyCalls,
         stack' = <<Hook("init", c)>> \o (<<MountFrame(c)>> \o (q \o base))
  PROVE  /\ MountInv' /\ Olds' = Olds
         /\ Made' = Made \cup {c} /\ c \notin Made /\ c \notin Mounts
<1> DEFINE s == q \o base
<1>1. Move(s, {"mount"})
  BY DEF Move
<1>2. /\ s \in Seq(AllFrames) /\ Creating(s) = Creating(stack)
      /\ MountsOnce(s, Mounts, Olds)
  BY <1>1, MoveKeeps, MountsMoved DEF MountInv
<1> HIDE DEF s
<1>3. c \notin Made /\ c \notin Olds /\ c \notin Creating(s)
  BY <1>2, CreatedMade DEF Made
<1>4. c \notin Mounts
  BY <1>3 DEF Mounts, Known, TreeKnown
<1> DEFINE u == <<MountFrame(c)>> \o s
<1>5. /\ MountFrame(c) \in AllFrames /\ MountFrame(c).kind = "mount"
      /\ MountFrame(c).inst = c
      /\ Hook("init", c) \in AllFrames /\ Hook("init", c).kind = "hook"
  BY ActivationTypes DEF Points
<1>6. /\ u \in Seq(AllFrames) /\ MountsOnce(u, Mounts, Olds)
      /\ Creating(u) = Creating(s) \cup {c}
  BY <1>2, <1>3, <1>4, <1>5, MountsPushed, HeadPushed
<1> HIDE DEF u
<1>7. /\ MountsOnce(<<Hook("init", c)>> \o u, Mounts, Olds)
      /\ Creating(<<Hook("init", c)>> \o u) = Creating(u)
  BY <1>5, <1>6, MountsPushed
<1>8. Olds' = Olds /\ Mounts' = Mounts
  BY Unfolded, OldKept DEF Mounts
<1>9. stack' = <<Hook("init", c)>> \o u
  BY DEF s, u
<1>10. MountInv'
  BY <1>7, <1>8, <1>9 DEF MountInv
<1>11. Made' = Made \cup {c}
  BY <1>2, <1>6, <1>7, <1>8, <1>9 DEF Made
<1> QED BY <1>3, <1>4, <1>8, <1>10, <1>11

LEMMA MountChildMounts ==
  ASSUME Shape, Known, MountInv, NEW c \in Components, MountChild(c)
  PROVE  /\ MountInv' /\ Olds' = Olds /\ Root \in Olds
         /\ Made' = Made \cup {c} /\ c \notin Made /\ c \notin Mounts
<1>1. /\ stack # <<>> /\ Top.kind = "patch" /\ Top.next # <<>> /\ ~Created(c) /\ OnlyCalls
      /\ stack' = <<Hook("init", c)>> \o
                    (<<MountFrame(c)>> \o (<<Chosen(Top, c)>> \o Below))
  BY MountChildStep
<1>2. Top \in Activations /\ Below \in Seq(AllFrames) /\ Top.inst \in Components
  BY <1>1, TopFields DEF RuntimeKinds
<1>3. Chosen(Top, c) \in Without({"mount"})
  BY <1>1, <1>2, ChildChosen DEF Without
<1>4. <<Chosen(Top, c)>> \in Seq(Without({"mount"})) /\ IsBase(Below, {"mount"})
  BY <1>1, <1>3 DEF IsBase
<1>5. FrameKnown(Top, Olds)
  BY <1>1, TopKnown DEF Known, Shape
<1>6. Root \in Olds
  BY <1>1, <1>2, <1>5 DEF FrameKnown, MountInv
<1> QED BY <1>1, <1>2, <1>4, <1>6, MountsNew

\* What a component's creation, mounting or failure to mount changes.
LEMMA MountInvMounting ==
  ASSUME Shape, Known, MountInv, Mounting
  PROVE  MountInv' /\ Made \subseteq Made' /\ Olds \subseteq Olds'
<1>1. CASE Mount
  <2>1. /\ stack \in Seq(AllFrames) /\ Root \in Components /\ ~Created(Root) /\ OnlyCalls
        /\ stack' = <<Hook("init", Root)>> \o (<<MountFrame(Root)>> \o stack)
    BY <1>1, MountStep DEF Shape
  <2>2. IsBase(stack, {"mount"}) /\ <<>> \in Seq(Without({"mount"})) /\ <<>> \o stack = stack
    BY <2>1 DEF IsBase
  <2> QED BY <2>1, <2>2, MountsNew
<1>2. CASE MountRender
  <2>1. /\ stack # <<>> /\ Top.kind = "mount"
        /\ phase' = [phase EXCEPT ![Top.inst] = "live"] /\ UNCHANGED mounted
        /\ stack' = <<R!Frame("run")>> \o (<<Begun(Top)>> \o Below)
    BY <1>2, MountRenderStep
  <2>2. /\ Below \in Seq(AllFrames) /\ MountsOnce(Below, Mounts, Olds)
        /\ Top.inst \in Components /\ Top.inst \notin Mounts
        /\ Top.inst \notin Creating(Below) /\ (Top.inst # Root => Root \in Olds)
        /\ Creating(stack) = Creating(Below) \cup {Top.inst}
    BY <2>1, MountsPopped DEF MountInv
  <2>3. Olds' = Olds \cup {Top.inst} /\ Mounts' = Mounts
    BY <2>1, <2>2, Names, OldKept DEF Mounts
  <2>4. MountsOnce(Below, Mounts, Olds') /\ Root \in Olds'
    BY <2>2, <2>3 DEF MountsOnce
  <2>5. /\ Begun(Top) \in AllFrames /\ Begun(Top).kind = "mount"
        /\ Begun(Top).inst = Top.inst
    BY <2>1, TopFields, RenderBegun DEF RuntimeKinds
  <2> DEFINE u == <<Begun(Top)>> \o Below
  <2>6. /\ u \in Seq(AllFrames) /\ MountsOnce(u, Mounts, Olds')
        /\ Creating(u) = Creating(stack)
    BY <2>2, <2>4, <2>5, MountsPushed, HeadPushed
  <2> HIDE DEF u
  <2>7. /\ MountsOnce(<<R!Frame("run")>> \o u, Mounts, Olds')
        /\ Creating(<<R!Frame("run")>> \o u) = Creating(u)
    BY <2>6, MountsPushed, GraphFrameTypes
  <2>8. stack' = <<R!Frame("run")>> \o u
    BY <2>1 DEF u
  <2> QED BY <2>3, <2>4, <2>6, <2>7, <2>8 DEF MountInv, Made
<1>3. CASE MountDone \/ MountFails
  <2>1. /\ stack # <<>> /\ Top.kind = "mount" /\ Top.at = "render"
    BY <1>3, MountDoneStep, MountFailsStep
  <2>2. /\ Below \in Seq(AllFrames) /\ MountsOnce(Below, Mounts, Olds)
        /\ MountsOnce(Below, Mounts \cup {Top.inst}, Olds)
        /\ Top.inst \in Components
        /\ Creating(stack) = Creating(Below) \cup {Top.inst}
    BY <2>1, MountsPopped DEF MountInv
  <2>3. Top \in ToSet(stack)
    BY <2>1, TopFields DEF RuntimeKinds
  <2>4. Top.inst \in Olds
    BY <2>1, <2>3 DEF Known, StackKnown, FrameKnown
  <2>5. \A name \in Points : /\ Hook(name, Top.inst) \in AllFrames
                             /\ Hook(name, Top.inst).kind # "mount"
    BY <2>2, ActivationTypes
  <2>6. CASE MountDone
    <3>1. /\ mounted' = [mounted EXCEPT ![Top.inst] = TRUE]
          /\ stack' = <<Hook("mounted", Top.inst)>> \o Below
          /\ UNCHANGED phase
      BY <2>6, MountDoneStep, Unfolded
    <3>2. Olds' = Olds /\ Mounts' = Mounts \cup {Top.inst}
      BY <2>2, <3>1, OldKept DEF Mounts, Shape
    <3>3. /\ MountsOnce(<<Hook("mounted", Top.inst)>> \o Below, Mounts \cup {Top.inst}, Olds)
          /\ Creating(<<Hook("mounted", Top.inst)>> \o Below) = Creating(Below)
      BY <2>2, <2>5, MountsPushed DEF Points
    <3>4. MountInv'
      BY <3>1, <3>2, <3>3 DEF MountInv
    <3>5. Made \subseteq Made'
      BY <2>2, <2>4, <3>1, <3>2, <3>3 DEF Made
    <3> QED BY <3>2, <3>4, <3>5
  <2>7. CASE MountFails
    <3> DEFINE stopped == IF Top.inst # Root THEN effectCleanups[Top.inst] ELSE {}
    <3>1. /\ stop(Top.inst, stopped) /\ stopped \in SUBSET {Effect(Top.inst)}
          /\ stack' \in {<<Hook("cleanup", Top.inst)>> \o Below, Below}
          /\ UNCHANGED <<round, subscriberStack, mounted>>
      BY <2>7, MountFailsStep
    <3> HIDE DEF stopped
    <3>2. Olds \subseteq Olds' /\ Mounts' = Mounts
      BY <2>2, <3>1, OldStopped DEF Known, Mounts
    <3>3. MountsOnce(Below, Mounts, Olds') /\ Root \in Olds'
      BY <2>2, <2>4, <3>2 DEF MountsOnce, MountInv
    <3>4. /\ MountsOnce(<<Hook("cleanup", Top.inst)>> \o Below, Mounts, Olds')
          /\ Creating(<<Hook("cleanup", Top.inst)>> \o Below) = Creating(Below)
      BY <2>2, <2>5, <3>3, MountsPushed DEF Points
    <3>5. MountInv'
      BY <3>1, <3>2, <3>3, <3>4 DEF MountInv
    <3>6. Made \subseteq Made'
      BY <2>2, <2>4, <3>1, <3>2, <3>4 DEF Made
    <3> QED BY <3>2, <3>5, <3>6
  <2> QED BY <1>3, <2>6, <2>7
<1>4. ASSUME NEW c \in Components, MountChild(c)
      PROVE  MountInv' /\ Made \subseteq Made' /\ Olds \subseteq Olds'
  BY <1>4, MountChildMounts
<1> QED BY <1>1, <1>2, <1>3, <1>4 DEF Mounting

LEMMA MountInvNext ==
  ASSUME Shape, Known, MountInv, [Next]_vars
  PROVE  MountInv' /\ Made \subseteq Made' /\ Olds \subseteq Olds'
<1>1. CASE UNCHANGED vars
  <2>1. UNCHANGED <<phase, stack, mounted>>
    BY <1>1 DEF vars, graph, runtime
  <2>2. Olds' = Olds /\ Mounts' = Mounts
    BY <2>1, OldKept DEF Mounts
  <2> QED BY <2>1, <2>2 DEF MountInv, Made
<1>2. CASE Plain \/ Settling
  <2>1. /\ Mounts' = Mounts /\ Olds \subseteq Olds'
        /\ Olds' \cap Components = Olds \cap Components
    BY <1>2, PlainKeeps, SettlingKeeps
  <2>2. Creating(stack') = Creating(stack) /\ MountsOnce(stack', Mounts, Olds')
    <3>1. /\ MountsOnce(stack, Mounts, Olds)
          /\ "mount" \in TreeKinds /\ "mount" \in {"mount"}
      BY DEF MountInv, TreeKinds
    <3> QED BY <1>2, <2>1, <3>1, PlainMoves, SettlingMoves, MountsMoved
  <2> QED BY <2>1, <2>2 DEF MountInv, Made
<1>3. Next => Plain \/ Settling \/ Mounting
  BY DEF Next, Plain, Settling, Mounting
<1> QED BY <1>1, <1>2, <1>3, MountInvMounting

LEMMA MountInvInit ==
  ASSUME Init
  PROVE  MountInv
<1>1. stack = <<>> /\ phase = [w \in Watchers |-> "new"]
  BY DEF Init, R!Init
<1>2. Olds = {}
  BY <1>1 DEF Olds, Old
<1>3. MountsOnce(<<>>, Mounts, Olds)
  BY SetEmpty DEF MountsOnce, Once
<1> QED BY <1>1, <1>2, <1>3 DEF MountInv

-----------------------------------------------------------------------------
(* A component has one parent.                                             *)

LEMMA ParentsLess ==
  ASSUME NEW st, NEW t, NEW S, ParentsIn(st, t, S), NEW st2, NEW t2, NEW T, S \subseteq T,
         \A c, p \in Components : Kid(c, p, st2, t2) => Kid(c, p, st, t)
  PROVE  ParentsIn(st2, t2, T)
BY DEF ParentsIn

LEMMA KidMoved ==
  ASSUME Shape, NEW K, {"patch", "unmount"} \subseteq K, NEW st, Move(st, K), NEW t,
         NEW c, NEW p
  PROVE  Kid(c, p, st, t) <=> Kid(c, p, stack, t)
<1>1. /\ st \in Seq(AllFrames) /\ stack \in Seq(AllFrames)
      /\ \A f \in AllFrames : f.kind \in K => (f \in ToSet(st) <=> f \in ToSet(stack))
  <2>1. stack \in Seq(AllFrames)
    BY DEF Shape
  <2> QED BY <2>1, MoveKeeps
<1>2. ToSet(st) \subseteq AllFrames /\ ToSet(stack) \subseteq AllFrames
  BY <1>1 DEF ToSet
<1>3. \A f \in AllFrames : HeldBy(f, c, p) => f.kind \in K
  BY DEF HeldBy
<1> QED BY <1>1, <1>2, <1>3 DEF Kid

\* The children that an activation holds when the runtime has changed it.
LEMMA HeldOn ==
  ASSUME NEW f \in Activations, NEW x \in Components, NEW p
  PROVE  /\ f.child # 0 => (HeldBy(Adopted(f), x, p) <=> HeldBy(f, x, p))
         /\ f.old # <<>> => (HeldBy(Passed(f), x, p) => HeldBy(f, x, p))
         /\ \A c \in Components : f.next # <<>> =>
              /\ HeldBy(Chosen(f, c), x, p) => HeldBy(f, x, p) \/ (x = c /\ p = f.inst)
              /\ f.child = 0 => (HeldBy(f, x, p) => HeldBy(Chosen(f, c), x, p))
         /\ \A q \in Seq(Components) :
              HeldBy(Taken(f, q), x, p) => HeldBy(f, x, p) \/ (x \in ToSet(q) /\ p = f.inst)
<1>0. x # 0
  BY Names
<1>1. f.child # 0 => (HeldBy(Adopted(f), x, p) <=> HeldBy(f, x, p))
  <2> SUFFICES ASSUME f.child # 0
               PROVE  HeldBy(Adopted(f), x, p) <=> HeldBy(f, x, p)
    OBVIOUS
  <2>1. /\ Adopted(f).kind = f.kind /\ Adopted(f).inst = f.inst
        /\ Adopted(f).old = f.old /\ Adopted(f).child = 0
        /\ ToSet(Adopted(f).done) = ToSet(f.done) \cup {f.child}
    BY ChildAdded
  <2> QED BY <1>0, <2>1 DEF HeldBy
<1>2. f.old # <<>> => (HeldBy(Passed(f), x, p) => HeldBy(f, x, p))
  BY OldPassed DEF HeldBy
<1>3. ASSUME NEW c \in Components, f.next # <<>>
      PROVE  /\ HeldBy(Chosen(f, c), x, p) => HeldBy(f, x, p) \/ (x = c /\ p = f.inst)
             /\ f.child = 0 => (HeldBy(f, x, p) => HeldBy(Chosen(f, c), x, p))
  BY <1>0, <1>3, ChildChosen DEF HeldBy
<1>4. ASSUME NEW q \in Seq(Components)
      PROVE  HeldBy(Taken(f, q), x, p) => HeldBy(f, x, p) \/ (x \in ToSet(q) /\ p = f.inst)
  BY TreeTaken DEF HeldBy
<1> QED BY <1>1, <1>2, <1>3, <1>4

LEMMA HeldByNew ==
  ASSUME NEW x, NEW p
  PROVE  /\ \A i \in Components, name \in Points : ~HeldBy(Hook(name, i), x, p)
         /\ \A i \in Components : /\ ~HeldBy(MountFrame(i), x, p)
                                  /\ x \in Components => ~HeldBy(UnmountFrame(i), x, p)
         /\ \A f \in GraphFrames : ~HeldBy(f, x, p)
<1>1. \A i \in Components, name \in Points : ~HeldBy(Hook(name, i), x, p)
  BY ActivationTypes DEF HeldBy
<1>2. \A i \in Components : /\ ~HeldBy(MountFrame(i), x, p)
                            /\ x \in Components => ~HeldBy(UnmountFrame(i), x, p)
  BY ActivationTypes, SetEmpty, Names DEF HeldBy
<1>3. \A f \in GraphFrames : ~HeldBy(f, x, p)
  BY DEF HeldBy, GraphFrames
<1> QED BY <1>1, <1>2, <1>3

LEMMA UnmountKids ==
  ASSUME Shape, NEW i \in Components, NEW below \in Seq(AllFrames), unmount(i, below)
  PROVE  \A c \in Components : \A p : Kid(c, p, stack', tree') <=> Kid(c, p, below, tree)
<1>1. /\ ToSet(stack') = {Hook("cleanup", i), UnmountFrame(i)} \cup ToSet(below)
      /\ tree' = tree
  BY UnmountProperties
<1>2. \A c \in Components : \A p : ~HeldBy(Hook("cleanup", i), c, p) /\ ~HeldBy(UnmountFrame(i), c, p)
  BY HeldByNew DEF Points
<1> QED BY <1>1, <1>2 DEF Kid

\* When the top has turned into f, and f holds nothing new.
LEMMA KidsOver ==
  ASSUME Shape, stack # <<>>, NEW f \in AllFrames, NEW t,
         NEW c \in Components, NEW p \in Components,
         HeldBy(f, c, p) => Kid(c, p, stack, t)
  PROVE  /\ <<f>> \o Below \in Seq(AllFrames)
         /\ Kid(c, p, <<f>> \o Below, t) => Kid(c, p, stack, t)
         /\ Kid(c, p, Below, t) => Kid(c, p, stack, t)
<1>1. /\ Below \in Seq(AllFrames) /\ ToSet(stack) = {Top} \cup ToSet(Below)
      /\ <<f>> \o Below \in Seq(AllFrames)
      /\ ToSet(<<f>> \o Below) = {f} \cup ToSet(Below)
  BY TopType, Pushed
<1> QED BY <1>1 DEF Kid

LEMMA SettlingKids ==
  ASSUME Shape, Settling, NEW c \in Components, NEW p \in Components,
         Kid(c, p, stack', tree')
  PROVE  Kid(c, p, stack, tree)
<1>1. ASSUME stack # <<>>, Top.kind \in {"patch", "unmount"}
      PROVE  /\ Top \in Activations /\ Top.inst \in Components
             /\ Below \in Seq(AllFrames)
             /\ HeldBy(Top, c, p) => Kid(c, p, stack, tree)
  <2>1. Top \in ToSet(stack)
    BY <1>1, TopFields DEF RuntimeKinds
  <2> QED BY <1>1, <2>1, TopFields DEF RuntimeKinds, Kid
<1>2. CASE RenderReturns
  <2>1. /\ stack # <<>> /\ Top.kind = "run" /\ R!currentSubscriber \in Components
        /\ stack' = <<PatchFrame(R!currentSubscriber)>> \o Below /\ tree' = tree
    BY <1>2, RenderReturnsStep, Unfolded
  <2> DEFINE f == PatchFrame(R!currentSubscriber)
  <2>2. /\ f \in AllFrames /\ f.inst = R!currentSubscriber
        /\ f.old = tree[R!currentSubscriber] /\ f.done = <<>> /\ f.child = 0
    BY <2>1, PatchFrameType
  <2>3. HeldBy(f, c, p) => Kid(c, p, stack, tree)
    <3> HIDE DEF f
    <3> QED BY <2>2, SetEmpty, Names DEF HeldBy, Kid
  <2> QED BY <2>1, <2>2, <2>3, KidsOver
<1>3. CASE ChildDone \/ SkipOld \/ UnmountTree
  <2>1. /\ stack # <<>> /\ Top.kind \in {"patch", "unmount"} /\ tree' = tree
        /\ \/ Top.child # 0 /\ stack' = <<Adopted(Top)>> \o Below
           \/ Top.old # <<>> /\ stack' = <<Passed(Top)>> \o Below
           \/ stack' = <<Taken(Top, tree[Top.inst])>> \o Below
    BY <1>3, ChildDoneStep, SkipOldStep, UnmountTreeStep, Unfolded
  <2>2. Top \in Activations /\ Top.inst \in Components /\ (HeldBy(Top, c, p) => Kid(c, p, stack, tree))
    BY <1>1, <2>1
  <2>3. CASE Top.child # 0 /\ stack' = <<Adopted(Top)>> \o Below
    <3>1. /\ Adopted(Top) \in AllFrames
          /\ HeldBy(Adopted(Top), c, p) => Kid(c, p, stack, tree)
      BY <2>2, <2>3, ChildAdded, HeldOn
    <3> QED BY <2>1, <2>3, <3>1, KidsOver
  <2>4. CASE Top.old # <<>> /\ stack' = <<Passed(Top)>> \o Below
    <3>1. /\ Passed(Top) \in AllFrames
          /\ HeldBy(Passed(Top), c, p) => Kid(c, p, stack, tree)
      BY <2>2, <2>4, OldPassed, HeldOn
    <3> QED BY <2>1, <2>4, <3>1, KidsOver
  <2>5. CASE stack' = <<Taken(Top, tree[Top.inst])>> \o Below
    <3>1. tree[Top.inst] \in Seq(Components)
      BY <2>2 DEF Shape
    <3>2. Taken(Top, tree[Top.inst]) \in AllFrames
      BY <2>2, <3>1, TreeTaken
    <3>3. HeldBy(Taken(Top, tree[Top.inst]), c, p) => Kid(c, p, stack, tree)
      <4>1. HeldBy(Taken(Top, tree[Top.inst]), c, p) =>
               HeldBy(Top, c, p) \/ (c \in ToSet(tree[Top.inst]) /\ p = Top.inst)
        BY <2>2, <3>1, HeldOn
      <4> QED BY <2>2, <4>1 DEF Kid
    <3> QED BY <2>1, <2>5, <3>2, <3>3, KidsOver
  <2> QED BY <2>1, <2>3, <2>4, <2>5
<1>4. CASE PatchFails \/ PatchDone \/ UnmountDone
  <2>1. /\ stack # <<>> /\ Top.kind \in {"patch", "unmount"}
        /\ \/ stack' = Below
           \/ \E name \in Points : stack' = <<Hook(name, Top.inst)>> \o Below
        /\ \/ tree' = tree
           \/ tree' = [tree EXCEPT ![Top.inst] = Top.done]
           \/ tree' = [tree EXCEPT ![Top.inst] = <<>>]
    BY <1>4, PatchFailsStep, PatchDoneStep, UnmountDoneStep DEF Points
  <2>2. /\ Top \in Activations /\ Top.inst \in Components /\ Below \in Seq(AllFrames)
        /\ HeldBy(Top, c, p) => Kid(c, p, stack, tree)
    BY <1>1, <2>1
  <2>3. c \in ToSet(tree'[p]) => c \in ToSet(tree[p]) \/ (p = Top.inst /\ c \in ToSet(Top.done))
    BY <2>1, <2>2, SetEmpty DEF Shape
  <2>4. p = Top.inst /\ c \in ToSet(Top.done) => HeldBy(Top, c, p)
    BY <2>1 DEF HeldBy
  <2>5. \A f \in ToSet(stack') : f \in ToSet(Below) \/ ~HeldBy(f, c, p)
    <3>1. \A name \in Points : /\ ~HeldBy(Hook(name, Top.inst), c, p)
                               /\ ToSet(<<Hook(name, Top.inst)>> \o Below) =
                                    {Hook(name, Top.inst)} \cup ToSet(Below)
      BY <2>2, HeldByNew, ActivationTypes, Pushed
    <3> QED BY <2>1, <3>1
  <2>6. ToSet(Below) \subseteq ToSet(stack)
    BY <2>1, TopType
  <2> QED BY <2>2, <2>3, <2>4, <2>5, <2>6 DEF Kid
<1>5. ASSUME NEW x \in Components, UpdateChild(x)
      PROVE  Kid(c, p, stack, tree)
  <2>1. /\ stack # <<>> /\ Top.kind = "patch" /\ Top.next # <<>> /\ x \in ToSet(Top.old)
        /\ stack' = <<R!Frame("run")>> \o (<<Chosen(Top, x)>> \o Below)
        /\ tree' = tree
    BY <1>5, UpdateChildStep
  <2>2. Top \in Activations /\ (HeldBy(Top, c, p) => Kid(c, p, stack, tree))
    BY <1>1, <2>1
  <2>3. c = x /\ p = Top.inst => HeldBy(Top, c, p)
    BY <2>1 DEF HeldBy
  <2>4. /\ Chosen(Top, x) \in AllFrames
        /\ HeldBy(Chosen(Top, x), c, p) => Kid(c, p, stack, tree)
    BY <2>1, <2>2, <2>3, ChildChosen, HeldOn
  <2> DEFINE u == <<Chosen(Top, x)>> \o Below
  <2>5. u \in Seq(AllFrames) /\ (Kid(c, p, u, tree) => Kid(c, p, stack, tree))
    BY <2>1, <2>4, KidsOver
  <2> HIDE DEF u
  <2>6. /\ ToSet(<<R!Frame("run")>> \o u) = {R!Frame("run")} \cup ToSet(u)
        /\ ~HeldBy(R!Frame("run"), c, p)
    BY <2>5, Pushed, GraphFrameTypes DEF HeldBy
  <2>7. Kid(c, p, <<R!Frame("run")>> \o u, tree) => Kid(c, p, u, tree)
    BY <2>6 DEF Kid
  <2>8. stack' = <<R!Frame("run")>> \o u
    BY <2>1 DEF u
  <2> QED BY <2>1, <2>5, <2>7, <2>8
<1>6. CASE RemoveChild \/ UnmountChild
  <2>1. /\ stack # <<>> /\ Top.kind \in {"patch", "unmount"} /\ Top.old # <<>>
        /\ Head(Top.old) \in Components
        /\ \/ stack' = <<Passed(Top)>> \o Below /\ tree' = tree
           \/ unmount(Head(Top.old), <<Passed(Top)>> \o Below)
    BY <1>6, RemoveChildStep, UnmountChildStep, Unfolded
  <2>2. Top \in Activations /\ (HeldBy(Top, c, p) => Kid(c, p, stack, tree))
    BY <1>1, <2>1
  <2>3. /\ Passed(Top) \in AllFrames
        /\ HeldBy(Passed(Top), c, p) => Kid(c, p, stack, tree)
    BY <2>1, <2>2, OldPassed, HeldOn
  <2>4. /\ <<Passed(Top)>> \o Below \in Seq(AllFrames)
        /\ Kid(c, p, <<Passed(Top)>> \o Below, tree) => Kid(c, p, stack, tree)
    BY <2>1, <2>3, KidsOver
  <2> QED BY <2>1, <2>4, UnmountKids
<1>7. CASE Unmount
  BY <1>7, UnmountStep, UnmountKids
<1> QED BY <1>2, <1>3, <1>4, <1>5, <1>6, <1>7 DEF Settling

\* The child is new to its parent.
LEMMA MountChildKids ==
  ASSUME Shape, NEW x \in Components, MountChild(x), NEW c \in Components,
         NEW p \in Components, Kid(c, p, stack', tree')
  PROVE  Kid(c, p, stack, tree) \/ (c = x /\ p = Top.inst)
<1>1. /\ stack # <<>> /\ Top.kind = "patch" /\ Top.next # <<>> /\ tree' = tree
      /\ stack' = <<Hook("init", x)>> \o
                    (<<MountFrame(x)>> \o (<<Chosen(Top, x)>> \o Below))
  BY MountChildStep, Unfolded
<1>2. /\ Top \in Activations /\ Below \in Seq(AllFrames)
      /\ ToSet(stack) = {Top} \cup ToSet(Below)
  BY <1>1, TopFields DEF RuntimeKinds
<1>3. /\ Chosen(Top, x) \in AllFrames /\ MountFrame(x) \in AllFrames
      /\ Hook("init", x) \in AllFrames
  BY <1>1, <1>2, ChildChosen, ActivationTypes DEF Points
<1> DEFINE u == <<Chosen(Top, x)>> \o Below
<1>4. ToSet(stack') = {Hook("init", x), MountFrame(x), Chosen(Top, x)} \cup ToSet(Below)
  <2>1. u \in Seq(AllFrames) /\ ToSet(u) = {Chosen(Top, x)} \cup ToSet(Below)
    BY <1>2, <1>3, Pushed
  <2>2. stack' = <<Hook("init", x)>> \o (<<MountFrame(x)>> \o u)
    BY <1>1
  <2> HIDE DEF u
  <2>3. ToSet(stack') = {Hook("init", x), MountFrame(x)} \cup ToSet(u)
    BY <1>3, <2>1, <2>2, PushedOnto
  <2> QED BY <2>1, <2>3
<1>5. ~HeldBy(Hook("init", x), c, p) /\ ~HeldBy(MountFrame(x), c, p)
  BY HeldByNew DEF Points
<1>6. HeldBy(Chosen(Top, x), c, p) => HeldBy(Top, c, p) \/ (c = x /\ p = Top.inst)
  BY <1>1, <1>2, HeldOn
<1> QED BY <1>1, <1>2, <1>4, <1>5, <1>6 DEF Kid

LEMMA OneParentNext ==
  ASSUME Shape, Known, MountInv, OneParent, [Next]_vars
  PROVE  OneParent'
<1>1. Made \subseteq Made'
  BY MountInvNext
<1>2. ASSUME \A c, p \in Components : Kid(c, p, stack', tree') => Kid(c, p, stack, tree)
      PROVE  OneParent'
  BY <1>1, <1>2, ParentsLess DEF OneParent
<1>3. CASE UNCHANGED vars
  <2>1. UNCHANGED <<stack, tree>>
    BY <1>3 DEF vars, runtime
  <2> QED BY <1>2, <2>1
<1>4. CASE Plain
  <2>1. Move(stack', TreeKinds) /\ tree' = tree /\ {"patch", "unmount"} \subseteq TreeKinds
    BY <1>4, PlainMoves, PlainKeeps DEF TreeKinds
  <2>2. \A c, p \in Components : Kid(c, p, stack', tree) <=> Kid(c, p, stack, tree)
    BY <2>1, KidMoved
  <2> QED BY <1>2, <2>1, <2>2
<1>5. CASE Settling
  BY <1>2, <1>5, SettlingKids
<1>6. CASE Mount \/ MountRender \/ MountDone \/ MountFails
  <2>1. tree' = tree
    BY <1>6, MountStep, MountRenderStep, MountDoneStep, MountFailsStep, Unfolded
  <2>2. \A c, p \in Components : \A f \in ToSet(stack') :
          HeldBy(f, c, p) => f \in ToSet(stack)
    <3>1. CASE Mount
      <4>1. /\ stack \in Seq(AllFrames) /\ Root \in Components
            /\ stack' = <<Hook("init", Root)>> \o (<<MountFrame(Root)>> \o stack)
        BY <3>1, MountStep DEF Shape
      <4>2. Hook("init", Root) \in AllFrames /\ MountFrame(Root) \in AllFrames
        BY <4>1, ActivationTypes DEF Points
      <4>3. ToSet(stack') = {Hook("init", Root), MountFrame(Root)} \cup ToSet(stack)
        BY <4>1, <4>2, PushedOnto
      <4> QED BY <4>1, <4>3, HeldByNew DEF Points
    <3>2. CASE MountRender
      <4>1. /\ stack # <<>> /\ Top.kind = "mount"
            /\ stack' = <<R!Frame("run")>> \o (<<Begun(Top)>> \o Below)
        BY <3>2, MountRenderStep
      <4>2. /\ Begun(Top) \in AllFrames /\ Begun(Top).kind = "mount"
            /\ Below \in Seq(AllFrames) /\ ToSet(stack) = {Top} \cup ToSet(Below)
        BY <4>1, TopFields, RenderBegun DEF RuntimeKinds
      <4>3. ToSet(stack') = {R!Frame("run"), Begun(Top)} \cup ToSet(Below)
        BY <4>1, <4>2, PushedOnto, GraphFrameTypes
      <4> QED BY <4>2, <4>3, GraphFrameTypes DEF HeldBy
    <3>3. CASE MountDone \/ MountFails
      <4>1. /\ stack # <<>> /\ Top.kind = "mount"
            /\ \/ stack' = Below
               \/ \E name \in Points : stack' = <<Hook(name, Top.inst)>> \o Below
        BY <3>3, MountDoneStep, MountFailsStep DEF Points
      <4>2. /\ Top.inst \in Components
            /\ Below \in Seq(AllFrames) /\ ToSet(stack) = {Top} \cup ToSet(Below)
        BY <4>1, TopFields DEF RuntimeKinds
      <4>3. \A name \in Points : ToSet(<<Hook(name, Top.inst)>> \o Below) =
                                   {Hook(name, Top.inst)} \cup ToSet(Below)
        BY <4>2, Pushed, ActivationTypes
      <4> QED BY <4>1, <4>2, <4>3, HeldByNew
    <3> QED BY <1>6, <3>1, <3>2, <3>3
  <2> QED BY <1>2, <2>1, <2>2 DEF Kid
<1>7. ASSUME NEW x \in Components, MountChild(x)
      PROVE  OneParent'
  <2>1. /\ Root \in Olds /\ Olds' = Olds /\ Made' = Made \cup {x} /\ x \notin Made
    BY <1>7, MountChildMounts
  <2>2. x # Root
    BY <2>1 DEF Made
  <2>3. \A q \in Components : ~Kid(x, q, stack, tree)
    BY <2>1 DEF OneParent, ParentsIn
  <2>4. ASSUME NEW c \in Components, NEW p \in Components, Kid(c, p, stack', tree')
        PROVE  /\ c # Root /\ c \in Made'
               /\ \A q \in Components : Kid(c, q, stack', tree') => p = q
    <3>1. \A q \in Components : Kid(c, q, stack', tree') =>
             Kid(c, q, stack, tree) \/ (c = x /\ q = Top.inst)
      BY <1>7, MountChildKids
    <3>2. CASE c = x
      BY <2>1, <2>2, <2>3, <2>4, <3>1, <3>2
    <3>3. CASE c # x
      BY <2>1, <2>4, <3>1, <3>3 DEF OneParent, ParentsIn
    <3> QED BY <3>2, <3>3
  <2> QED BY <2>4 DEF OneParent, ParentsIn
<1>8. Next => Plain \/ Settling \/ Mounting
  BY DEF Next, Plain, Settling, Mounting
<1> QED BY <1>3, <1>4, <1>5, <1>6, <1>7, <1>8 DEF Mounting

LEMMA OneParentInit ==
  ASSUME Init
  PROVE  OneParent
<1>1. stack = <<>> /\ tree = [i \in Components |-> <<>>]
  BY DEF Init, R!Init
<1> QED BY <1>1, SetEmpty DEF OneParent, ParentsIn, Kid

-----------------------------------------------------------------------------
(* While no patch is disturbed: patches and unmounts do not meet. *)

LEMMA PatchingPushed ==
  ASSUME NEW s \in Seq(AllFrames), NEW f \in AllFrames, NEW i
  PROVE  Patching(<<f>> \o s, i) <=> Patching(s, i) \/ IsPatchOf(f, i)
<1>1. ToSet(<<f>> \o s) = {f} \cup ToSet(s)
  BY Pushed
<1> QED BY <1>1 DEF Patching

LEMMA PatchingHere ==
  ASSUME Shape, NEW i
  PROVE  Patching(stack, i) <=> InProgress(i)
<1>1. Patching(stack, i) => InProgress(i)
  BY DEF Patching, InProgress, ToSet
<1>2. InProgress(i) => Patching(stack, i)
  BY DEF Patching, InProgress, ToSet
<1> QED BY <1>1, <1>2

LEMMA CalmPushed ==
  ASSUME NEW s \in Seq(AllFrames), NEW f \in AllFrames, NEW M, NEW U, NEW t,
         StackCalm(s, M, U, t), FrameCalm(f, M, U, t),
         f.kind = "patch" => /\ ~Patching(s, f.inst)
                             /\ f.child # 0 => f.child \in M
  PROVE  StackCalm(<<f>> \o s, M, U, t)
<1>1. ToSet(<<f>> \o s) = {f} \cup ToSet(s)
  BY Pushed
<1>2. \A g \in ToSet(s) : ~Clash(f, g, "patch")
  BY DEF Clash, Patching, IsPatchOf
<1>3. Once(<<f>> \o s, "patch")
  BY <1>2, OncePushed DEF StackCalm
<1>4. ChildrenIn(<<f>> \o s, M)
  BY ChildrenPushed DEF StackCalm
<1>5. \A g \in ToSet(<<f>> \o s) : FrameCalm(g, M, U, t)
  BY <1>1 DEF StackCalm
<1> QED BY <1>3, <1>4, <1>5 DEF StackCalm

\* A frame that is neither a patch nor an unmount.
LEMMA CalmQuiet ==
  ASSUME NEW s \in Seq(AllFrames), NEW f \in AllFrames, NEW M, NEW U, NEW t,
         StackCalm(s, M, U, t), f.kind \notin {"patch", "unmount"}
  PROVE  /\ <<f>> \o s \in Seq(AllFrames)
         /\ StackCalm(<<f>> \o s, M, U, t)
         /\ \A i : Patching(<<f>> \o s, i) <=> Patching(s, i)
<1>1. FrameCalm(f, M, U, t)
  BY DEF FrameCalm
<1>2. \A i : ~IsPatchOf(f, i)
  BY DEF IsPatchOf
<1> QED BY <1>1, <1>2, CalmPushed, PatchingPushed, Pushed

\* mountComponent of the child of a patch
LEMMA CalmMountPushed ==
  ASSUME NEW s \in Seq(AllFrames), NEW m \in AllFrames, NEW p \in AllFrames,
         NEW M, NEW U, NEW t,
         StackCalm(s, M, U, t), FrameCalm(p, M, U, t),
         p.kind = "patch", ~Patching(s, p.inst), m.kind = "mount", m.inst = p.child
  PROVE  StackCalm(<<m>> \o (<<p>> \o s), M, U, t)
<1> DEFINE u == <<p>> \o s
<1>1. u \in Seq(AllFrames) /\ ToSet(u) = {p} \cup ToSet(s)
  BY Pushed
<1>2. \A g \in ToSet(s) : ~Clash(p, g, "patch")
  BY DEF Clash, Patching, IsPatchOf
<1>3. Once(u, "patch")
  BY <1>2, OncePushed DEF StackCalm
<1>4. ChildrenIn(<<m>> \o u, M)
  BY MountedChildrenPushed DEF StackCalm
<1> HIDE DEF u
<1>5. ToSet(<<m>> \o u) = {m} \cup ToSet(u)
  BY <1>1, Pushed
<1>6. \A g \in ToSet(u) : ~Clash(m, g, "patch")
  BY DEF Clash
<1>7. Once(<<m>> \o u, "patch")
  BY <1>1, <1>3, <1>6, OncePushed
<1>8. FrameCalm(m, M, U, t)
  BY DEF FrameCalm
<1>9. \A g \in ToSet(<<m>> \o u) : FrameCalm(g, M, U, t)
  BY <1>1, <1>5, <1>8 DEF StackCalm
<1>10. StackCalm(<<m>> \o u, M, U, t)
  BY <1>4, <1>7, <1>9 DEF StackCalm
<1> QED BY <1>10 DEF u

LEMMA CalmPopped ==
  ASSUME NEW s \in Seq(AllFrames), s # <<>>, NEW M, NEW U, NEW t, StackCalm(s, M, U, t),
         Head(s).kind = "mount" => Head(s).inst \in M
  PROVE  /\ StackCalm(Tail(s), M, U, t) /\ FrameCalm(Head(s), M, U, t)
         /\ Head(s).kind = "patch" =>
              /\ Head(s).child # 0 => Head(s).child \in M
              /\ ~Patching(Tail(s), Head(s).inst)
<1>1. ToSet(s) = {Head(s)} \cup ToSet(Tail(s))
  BY SetPopped
<1>2. Once(Tail(s), "patch") /\ \A g \in ToSet(Tail(s)) : ~Clash(Head(s), g, "patch")
  BY OncePopped DEF StackCalm
<1>3. /\ ChildrenIn(Tail(s), M)
      /\ Head(s).kind = "patch" /\ Head(s).child # 0 => Head(s).child \in M
  BY ChildrenPopped DEF StackCalm
<1>4. \A g \in ToSet(s) : FrameCalm(g, M, U, t)
  BY DEF StackCalm
<1>5. Head(s).kind = "patch" => ~Patching(Tail(s), Head(s).inst)
  BY <1>2 DEF Clash, Patching, IsPatchOf
<1> QED BY <1>1, <1>2, <1>3, <1>4, <1>5 DEF StackCalm

LEMMA CalmTop ==
  ASSUME Shape, stack # <<>>, NEW M, NEW U, NEW t, StackCalm(stack, M, U, t),
         Top.kind = "mount" => Top.inst \in M
  PROVE  /\ Below \in Seq(AllFrames)
         /\ StackCalm(Below, M, U, t) /\ FrameCalm(Top, M, U, t)
         /\ Top.kind = "patch" =>
              /\ Top.child # 0 => Top.child \in M
              /\ ~Patching(Below, Top.inst)
         /\ \A i : Patching(stack, i) <=> Patching(Below, i) \/ IsPatchOf(Top, i)
<1>1. stack \in Seq(AllFrames) /\ stack # <<>>
  BY DEF Shape
<1>2. ToSet(stack) = {Top} \cup ToSet(Below) /\ Below \in Seq(AllFrames)
  BY TopType
<1>3. \A i : Patching(stack, i) <=> Patching(Below, i) \/ IsPatchOf(Top, i)
  BY <1>2 DEF Patching
<1> QED BY <1>1, <1>2, <1>3, CalmPopped DEF Top, Below

LEMMA CalmMore ==
  ASSUME NEW s, NEW M, NEW N, NEW U, NEW t, M \subseteq N
  PROVE  /\ StackCalm(s, M, U, t) => StackCalm(s, N, U, t)
         /\ TreeCalm(s, M, U, t) => TreeCalm(s, N, U, t)
<1>1. ASSUME NEW f, FrameCalm(f, M, U, t)
      PROVE  FrameCalm(f, N, U, t)
  BY <1>1 DEF FrameCalm, PatchCalm, UnmountCalm
<1>2. StackCalm(s, M, U, t) => StackCalm(s, N, U, t)
  BY <1>1, ChildrenMore DEF StackCalm
<1> QED BY <1>2 DEF TreeCalm

\* i is gone, too.
LEMMA CalmGone ==
  ASSUME NEW s, NEW M, NEW U, NEW t, NEW i, StackCalm(s, M, U, t),
         ~Patching(s, i),
         \A f \in ToSet(s) : f.kind = "patch" => i \notin ToSet(f.done) /\ i # f.child
  PROVE  StackCalm(s, M, U \cup {i}, t)
<1>1. ASSUME NEW f \in ToSet(s)
      PROVE  FrameCalm(f, M, U \cup {i}, t)
  <2>1. FrameCalm(f, M, U, t)
    BY DEF StackCalm
  <2>2. f.kind = "patch" => f.inst # i
    BY DEF Patching, IsPatchOf
  <2>3. f.kind = "patch" => PatchCalm(f, M, U \cup {i})
    BY <2>1, <2>2 DEF FrameCalm, PatchCalm
  <2>4. f.kind = "unmount" => UnmountCalm(f, M, U \cup {i}, t)
    BY <2>1 DEF FrameCalm, UnmountCalm
  <2> QED BY <2>3, <2>4 DEF FrameCalm
<1> QED BY <1>1 DEF StackCalm

LEMMA TreeGone ==
  ASSUME NEW s, NEW s2, NEW M, NEW U, NEW t, NEW i \in M, TreeCalm(s, M, U, t),
         \A p \in Components : Patching(s, p) => Patching(s2, p),
         \A p \in Components : i \in ToSet(t[p]) => p \in U \/ Patching(s2, p)
  PROVE  TreeCalm(s2, M, U \cup {i}, t)
<1>1. /\ U \cup {i} \subseteq M
      /\ \A p \in Components : ToSet(t[p]) \subseteq M
  BY DEF TreeCalm
<1>2. ASSUME NEW p \in Components, p \notin U \cup {i}, ~Patching(s2, p)
      PROVE  ToSet(t[p]) \cap (U \cup {i}) = {}
  <2>1. ToSet(t[p]) \cap U = {}
    BY <1>2 DEF TreeCalm
  <2> QED BY <1>2, <2>1
<1> QED BY <1>1, <1>2 DEF TreeCalm

LEMMA TreeCalmSame ==
  ASSUME NEW s, NEW s2, NEW M, NEW U, NEW t, TreeCalm(s, M, U, t),
         \A p \in Components : Patching(s, p) => Patching(s2, p)
  PROVE  TreeCalm(s2, M, U, t)
BY DEF TreeCalm

\* The tree of i is now q.
LEMMA CalmTree ==
  ASSUME NEW s, NEW M, NEW U, NEW t, NEW t2, NEW i, StackCalm(s, M, U, t),
         \A p \in Components : p # i => t2[p] = t[p],
         \A f \in ToSet(s) : f.kind = "unmount" => f.inst \in Components,
         ToSet(t2[i]) = {} \/ i \notin U
  PROVE  StackCalm(s, M, U, t2)
<1>1. ASSUME NEW f \in ToSet(s)
      PROVE  FrameCalm(f, M, U, t2)
  <2>1. FrameCalm(f, M, U, t)
    BY DEF StackCalm
  <2>2. f.kind = "patch" => PatchCalm(f, M, U)
    BY <2>1 DEF FrameCalm
  <2>3. f.kind = "unmount" => UnmountCalm(f, M, U, t2)
    <3> SUFFICES ASSUME f.kind = "unmount"
                 PROVE  UnmountCalm(f, M, U, t2)
      OBVIOUS
    <3>1. UnmountCalm(f, M, U, t) /\ f.inst \in Components
      BY <2>1 DEF FrameCalm
    <3>2. CASE f.inst = i
      BY <3>1, <3>2 DEF UnmountCalm
    <3>3. CASE f.inst # i
      BY <3>1, <3>3 DEF UnmountCalm
    <3> QED BY <3>2, <3>3
  <2> QED BY <2>2, <2>3 DEF FrameCalm
<1> QED BY <1>1 DEF StackCalm

LEMMA CalmMoved ==
  ASSUME Shape, NEW st, Move(st, TreeKinds), NEW M, NEW U, NEW t,
         StackCalm(stack, M, U, t)
  PROVE  /\ st \in Seq(AllFrames)
         /\ StackCalm(st, M, U, t)
         /\ \A i : Patching(st, i) <=> Patching(stack, i)
<1>1. /\ st \in Seq(AllFrames) /\ stack \in Seq(AllFrames)
      /\ \A f \in AllFrames : f.kind \in TreeKinds => (f \in ToSet(st) <=> f \in ToSet(stack))
      /\ Once(stack, "patch") => Once(st, "patch")
      /\ ChildrenIn(stack, M) => ChildrenIn(st, M)
  <2>1. stack \in Seq(AllFrames)
    BY DEF Shape
  <2>2. "patch" \in TreeKinds /\ {"patch", "mount"} \subseteq TreeKinds
    BY DEF TreeKinds
  <2> QED BY <2>1, <2>2, MoveKeeps
<1>2. ToSet(st) \subseteq AllFrames /\ ToSet(stack) \subseteq AllFrames
  BY <1>1 DEF ToSet
<1>3. \A f \in ToSet(st) : FrameCalm(f, M, U, t)
  BY <1>1, <1>2 DEF StackCalm, FrameCalm, TreeKinds
<1>4. \A i : Patching(st, i) <=> Patching(stack, i)
  BY <1>1, <1>2 DEF Patching, IsPatchOf, TreeKinds
<1> QED BY <1>1, <1>3, <1>4 DEF StackCalm

\* Who is being rendered.
LEMMA CurrentIdle ==
  ASSUME Shape', NoRender(subscriberStack')
  PROVE  CurrentCalm'
<1>1. /\ None \notin Components
      /\ subscriberStack' \in Seq(Watchers)
  BY Names, LifecycleConstants DEF Shape
<1>2. CASE subscriberStack' = <<>>
  BY <1>1, <1>2 DEF CurrentCalm, R!currentSubscriber
<1>3. CASE subscriberStack' # <<>>
  <2>1. ToSet(subscriberStack') = {Head(subscriberStack')} \cup ToSet(Tail(subscriberStack'))
    BY <1>1, <1>3, SetPopped
  <2> QED BY <1>3, <2>1 DEF CurrentCalm, R!currentSubscriber, NoRender
<1> QED BY <1>2, <1>3

LEMMA CurrentKept ==
  ASSUME Shape', Shape, RenderOnTop, Next, UNCHANGED subscriberStack \/
           ToSet(subscriberStack') \subseteq ToSet(subscriberStack), ~RenderReturns
  PROVE  CurrentCalm'
<1>1. NoRender(subscriberStack)
  BY StepNobodyRenders
<1> QED BY <1>1, CurrentIdle DEF NoRender

LEMMA CurrentStarted ==
  ASSUME Shape, NEW w \in Watchers, Started(w),
         w \in Components => ~Patching(stack', w) /\ w \notin Gone'
  PROVE  CurrentCalm'
<1>1. R!currentSubscriber' = w
  BY StartedProperties
<1> QED BY <1>1 DEF CurrentCalm

\* mountComponent goes on.
LEMMA CalmBegun ==
  ASSUME NEW s \in Seq(AllFrames), s # <<>>, NEW m \in AllFrames, NEW M, NEW U, NEW t,
         StackCalm(s, M, U, t),
         Head(s).kind = "mount", m.kind = "mount", m.inst = Head(s).inst
  PROVE  /\ <<m>> \o Tail(s) \in Seq(AllFrames)
         /\ StackCalm(<<m>> \o Tail(s), M, U, t)
         /\ \A i : Patching(<<m>> \o Tail(s), i) <=> Patching(s, i)
<1> DEFINE b == Tail(s)
           u == <<m>> \o b
<1>1. /\ b \in Seq(AllFrames) /\ Len(b) = Len(s) - 1 /\ Len(s) \in Nat \ {0}
      /\ Head(s) = s[1]
      /\ \A i \in 1 .. Len(s) - 1 : b[i] = s[i + 1]
  BY F!PopProperties
<1>2. ToSet(s) = {Head(s)} \cup ToSet(b)
  BY SetPopped
<1>3. Once(b, "patch")
  BY OncePopped DEF StackCalm
<1> HIDE DEF b
<1>4. /\ u \in Seq(AllFrames) /\ Len(u) = Len(b) + 1 /\ u[1] = m
      /\ \A i \in 2 .. Len(b) + 1 : u[i] = b[i - 1]
  BY <1>1, F!PushProperties
<1>5. ToSet(u) = {m} \cup ToSet(b)
  BY <1>1, Pushed
<1>6. Once(u, "patch")
  BY <1>1, <1>3, OncePushed DEF Clash
<1> HIDE DEF u
<1>7. DOMAIN u = 1 .. Len(s) /\ DOMAIN s = 1 .. Len(s)
  BY <1>1, <1>4
<1>8. \A k \in 2 .. Len(s) : u[k] = s[k]
  BY <1>1, <1>4
<1>9. ASSUME NEW k \in DOMAIN u,
             u[k].kind = "patch" /\ u[k].child # 0 /\ u[k].child \notin M
      PROVE  /\ k # 1
             /\ u[k - 1].kind = "mount" /\ u[k - 1].inst = u[k].child
  <2>1. k # 1 /\ k \in 2 .. Len(s) /\ s[k] = u[k] /\ k \in DOMAIN s
    BY <1>1, <1>4, <1>7, <1>8, <1>9
  <2>2. s[k - 1].kind = "mount" /\ s[k - 1].inst = u[k].child
    BY <1>9, <2>1 DEF StackCalm, ChildrenIn
  <2>3. CASE k = 2
    BY <1>1, <1>4, <2>2, <2>3
  <2>4. CASE k # 2
    <3>1. u[k - 1] = s[k - 1]
      BY <1>1, <1>8, <2>1, <2>4
    <3> QED BY <2>1, <2>2, <3>1
  <2> QED BY <2>1, <2>3, <2>4
<1>10. ChildrenIn(u, M)
  BY <1>9 DEF ChildrenIn
<1>11. \A f \in ToSet(u) : FrameCalm(f, M, U, t)
  BY <1>2, <1>5 DEF StackCalm, FrameCalm
<1>12. \A i : Patching(u, i) <=> Patching(s, i)
  BY <1>2, <1>5 DEF Patching, IsPatchOf
<1> QED BY <1>4, <1>6, <1>10, <1>11, <1>12 DEF StackCalm, u, b

LEMMA PhaseKept ==
  ASSUME Shape, PhaseCalm, UNCHANGED <<unmounted, renderErr>>,
         \A i \in Components : phase'[i] = "stopped" <=> phase[i] = "stopped"
  PROVE  PhaseCalm' /\ Gone' = Gone
<1>1. Gone' = Gone
  BY DEF Gone
<1> QED BY <1>1 DEF PhaseCalm

LEMMA CalmPlain ==
  ASSUME Shape, Shape', RenderOnTop, Calm, Next, Plain, disturbed' = {}
  PROVE  Calm'
<1>1. Move(stack', TreeKinds)
  BY PlainMoves
<1>2. /\ UNCHANGED <<mounted, unmounted, tree, renderErr>>
      /\ \A i \in Components : phase'[i] = phase[i]
      /\ Mounts' = Mounts /\ Gone' = Gone
  BY PlainKeeps
<1>3. /\ StackCalm(stack', Mounts, Gone, tree)
      /\ \A i : Patching(stack', i) <=> Patching(stack, i)
  BY <1>1, CalmMoved DEF Calm
<1>4. TreeCalm(stack', Mounts, Gone, tree)
  BY <1>3, TreeCalmSame DEF Calm
<1>5. PhaseCalm'
  BY <1>2, PhaseKept DEF Calm
<1>6. ASSUME UNCHANGED subscriberStack \/
               ToSet(subscriberStack') \subseteq ToSet(subscriberStack), ~RenderReturns
      PROVE  CurrentCalm'
  BY <1>6, CurrentKept
<1>7. ASSUME NEW w \in Watchers, Started(w), w \in Components => w \notin Gone,
             w \in Components => ~InProgress(w)
      PROVE  CurrentCalm'
  BY <1>2, <1>3, <1>7, CurrentStarted, PatchingHere
<1>8. ASSUME Update
      PROVE  CurrentCalm'
  <2>1. /\ Root \in Components /\ ~unmounted[Root] /\ Started(Root)
        /\ run(Root, stack) /\ stack \in Seq(AllFrames)
    BY <1>8, UpdateStep
  <2>2. ~InProgress(Root)
    BY <2>1, RunProperties
  <2> QED BY <1>7, <2>1, <2>2, Names DEF Gone
<1>9. ASSUME WatchInInit
      PROVE  CurrentCalm'
  <2>1. Effect(Top.inst) \in Watchers /\ Started(Effect(Top.inst)) /\ Top.kind = "hook" /\ stack # <<>>
    BY <1>9, WatchInInitStep
  <2>2. Effect(Top.inst) \notin Components
    BY <2>1, TopFields, Names DEF RuntimeKinds
  <2> QED BY <1>7, <2>1, <2>2
<1>10. ASSUME NEW w \in Watchers, FlushRun(w)
       PROVE  CurrentCalm'
  <2>1. Started(w) /\ phase[w] # "stopped" /\ (InProgress(w) => w \in disturbed')
    BY <1>10, FlushRunStep
  <2> QED BY <1>7, <2>1 DEF Calm, PhaseCalm
<1>11. HookReturns \/ Schedule => UNCHANGED subscriberStack
  BY HookReturnsStep, ScheduleStep, Unfolded
<1>12. Calls => UNCHANGED subscriberStack \/
                  ToSet(subscriberStack') \subseteq ToSet(subscriberStack)
  <2>1. Calls => UNCHANGED subscriberStack \/ R!EffectReturns
    BY CallsCases, GetStateStep, SetStep, BatchBeginStep, BatchEndStep
  <2> QED BY <2>1, EffectReturnsStep
<1>13. RenderReturns => ~HookReturns /\ ~Schedule /\ ~Calls
  <2>1. RenderReturns => Rendering /\ Top.kind = "run"
    BY RenderReturnsStep DEF RenderReturns
  <2> QED BY <2>1, HookReturnsStep, ScheduleStep, CallsCases DEF UserCode
<1>14. CurrentCalm'
  BY <1>6, <1>8, <1>9, <1>10, <1>11, <1>12, <1>13 DEF Plain
<1> QED BY <1>2, <1>3, <1>4, <1>5, <1>14 DEF Calm

LEMMA CalmMounting ==
  ASSUME Shape, Shape', RenderOnTop, MountInv, Calm, Next, disturbed' = {},
         Mount \/ MountRender \/ MountDone \/ MountFails
  PROVE  Calm'
<1>1. CASE Mount
  <2>1. /\ stack \in Seq(AllFrames) /\ Root \in Components /\ OnlyCalls
        /\ stack' = <<Hook("init", Root)>> \o (<<MountFrame(Root)>> \o stack)
    BY <1>1, MountStep DEF Shape
  <2>2. /\ UNCHANGED <<mounted, unmounted, tree, renderErr, phase, subscriberStack>>
        /\ Mounts' = Mounts /\ Gone' = Gone
    BY <2>1, Unfolded DEF Mounts, Gone
  <2> DEFINE u == <<MountFrame(Root)>> \o stack
  <2>3. /\ Hook("init", Root) \in AllFrames /\ MountFrame(Root) \in AllFrames
        /\ Hook("init", Root).kind = "hook" /\ MountFrame(Root).kind = "mount"
    BY <2>1, ActivationTypes DEF Points
  <2>4. /\ u \in Seq(AllFrames) /\ StackCalm(u, Mounts, Gone, tree)
        /\ \A i : Patching(u, i) <=> Patching(stack, i)
    BY <2>1, <2>3, CalmQuiet DEF Calm
  <2>5. stack' = <<Hook("init", Root)>> \o u
    BY <2>1
  <2> HIDE DEF u
  <2>6. /\ StackCalm(stack', Mounts, Gone, tree)
        /\ \A i : Patching(stack', i) <=> Patching(stack, i)
    BY <2>3, <2>4, <2>5, CalmQuiet
  <2>7. TreeCalm(stack', Mounts, Gone, tree) /\ PhaseCalm'
    BY <2>2, <2>6, TreeCalmSame, PhaseKept DEF Calm
  <2>8. ~RenderReturns
    BY <1>1, <2>2, StepNobodyRenders, RenderReturnsStep DEF NoRender
  <2>9. CurrentCalm'
    BY <2>2, <2>8, CurrentKept
  <2> QED BY <2>2, <2>6, <2>7, <2>9 DEF Calm
<1>2. CASE MountRender
  <2> DEFINE i == Top.inst
             u == <<Begun(Top)>> \o Below
  <2>1. /\ stack # <<>> /\ Top.kind = "mount"
        /\ phase' = [phase EXCEPT ![i] = "live"]
        /\ run(i, u) /\ u \in Seq(AllFrames) /\ Started(i)
        /\ stack' = <<R!Frame("run")>> \o u
        /\ UNCHANGED <<mounted, unmounted, tree, renderErr>>
    BY <1>2, MountRenderStep
  <2>2. /\ i \in Components /\ i \notin Mounts
        /\ Begun(Top) \in AllFrames /\ Begun(Top).kind = "mount" /\ Begun(Top).inst = i
    BY <2>1, TopFields, RenderBegun, MountsPopped DEF RuntimeKinds, MountInv
  <2>3. i \notin Gone
    BY <2>2 DEF Calm, TreeCalm
  <2>4. /\ StackCalm(u, Mounts, Gone, tree)
        /\ \A p : Patching(u, p) <=> Patching(stack, p)
    <3>1. stack \in Seq(AllFrames)
      BY DEF Shape
    <3> QED BY <2>1, <2>2, <3>1, CalmBegun DEF Calm, Top, Below
  <2>5. /\ Mounts' = Mounts /\ Gone' = Gone
    BY <2>1 DEF Mounts, Gone
  <2> HIDE DEF u, i
  <2>6. /\ StackCalm(stack', Mounts, Gone, tree)
        /\ \A p : Patching(stack', p) <=> Patching(stack, p)
    BY <2>1, <2>4, GraphFrameTypes, CalmQuiet
  <2>7. TreeCalm(stack', Mounts, Gone, tree)
    BY <2>6, TreeCalmSame DEF Calm
  <2>8. PhaseCalm'
    BY <2>1, <2>2, <2>3, Names, PhaseKept DEF Calm, PhaseCalm, Shape
  <2>9. ~InProgress(i) /\ i \in Watchers
    BY <2>1, <2>2, Names, RunProperties
  <2>10. CurrentCalm'
    BY <2>1, <2>3, <2>5, <2>6, <2>9, CurrentStarted, PatchingHere
  <2> QED BY <2>1, <2>5, <2>6, <2>7, <2>8, <2>10 DEF Calm
<1>3. CASE MountDone
  <2> DEFINE i == Top.inst
  <2>1. /\ stack # <<>> /\ Top.kind = "mount"
        /\ mounted' = [mounted EXCEPT ![i] = TRUE]
        /\ stack' = <<Hook("mounted", i)>> \o Below
        /\ UNCHANGED <<graph, subscriberStack, unmounted, tree, renderErr>>
    BY <1>3, MountDoneStep
  <2>2. i \in Components /\ Hook("mounted", i) \in AllFrames /\ Hook("mounted", i).kind = "hook"
    BY <2>1, TopFields, ActivationTypes DEF RuntimeKinds, Points
  <2>3. Mounts' = Mounts \cup {i} /\ Gone' = Gone /\ UNCHANGED phase
    BY <2>1, <2>2, Unfolded DEF Mounts, Gone, Shape
  <2>4. StackCalm(stack, Mounts', Gone, tree) /\ TreeCalm(stack, Mounts', Gone, tree)
    BY <2>3, CalmMore DEF Calm
  <2>5. /\ Below \in Seq(AllFrames) /\ StackCalm(Below, Mounts', Gone, tree)
        /\ \A p : Patching(stack, p) <=> Patching(Below, p)
    BY <2>1, <2>3, <2>4, CalmTop DEF IsPatchOf
  <2>6. /\ StackCalm(stack', Mounts', Gone, tree)
        /\ \A p : Patching(stack', p) <=> Patching(stack, p)
    BY <2>1, <2>2, <2>5, CalmQuiet
  <2>7. TreeCalm(stack', Mounts', Gone, tree) /\ PhaseCalm'
    BY <2>1, <2>3, <2>4, <2>6, TreeCalmSame, PhaseKept DEF Calm
  <2>8. ~RenderReturns
    BY <2>1, RenderReturnsStep
  <2>9. CurrentCalm'
    BY <2>1, <2>8, CurrentKept
  <2> QED BY <2>1, <2>3, <2>6, <2>7, <2>9 DEF Calm
<1>4. CASE MountFails
  <2>1. stack # <<>> /\ Top.kind = "mount" /\ renderErr[Top.inst]
    BY <1>4, MountFailsStep
  <2> QED BY <2>1, TopFields DEF RuntimeKinds, Calm, PhaseCalm
<1> QED BY <1>1, <1>2, <1>3, <1>4

LEMMA CalmMountChild ==
  ASSUME Shape, Shape', Known, RenderOnTop, MountInv, Calm, Next,
         NEW c \in Components, MountChild(c)
  PROVE  Calm'
<1>1. /\ stack # <<>> /\ Top.kind = "patch" /\ Top.next # <<>> /\ OnlyCalls
      /\ stack' = <<Hook("init", c)>> \o
                    (<<MountFrame(c)>> \o (<<Chosen(Top, c)>> \o Below))
  BY MountChildStep
<1>2. /\ UNCHANGED <<mounted, unmounted, tree, renderErr, phase, subscriberStack>>
      /\ Mounts' = Mounts /\ Gone' = Gone
  BY <1>1, Unfolded DEF Mounts, Gone
<1>3. c \notin Mounts /\ c \notin Gone
  BY MountChildMounts DEF Calm, TreeCalm
<1>4. /\ Below \in Seq(AllFrames) /\ StackCalm(Below, Mounts, Gone, tree)
      /\ PatchCalm(Top, Mounts, Gone) /\ ~Patching(Below, Top.inst)
      /\ \A i : Patching(stack, i) <=> Patching(Below, i) \/ IsPatchOf(Top, i)
  BY <1>1, CalmTop DEF Calm, FrameCalm
<1> DEFINE p == Chosen(Top, c)
           v == <<p>> \o Below
           u == <<MountFrame(c)>> \o v
<1>5. /\ p \in AllFrames /\ p.kind = "patch" /\ p.inst = Top.inst /\ p.child = c
      /\ p.old = Top.old /\ p.done = Top.done
  BY <1>1, TopFields, ChildChosen DEF RuntimeKinds
<1>6. /\ Hook("init", c) \in AllFrames /\ Hook("init", c).kind = "hook"
      /\ MountFrame(c) \in AllFrames /\ MountFrame(c).kind = "mount" /\ MountFrame(c).inst = c
  BY ActivationTypes DEF Points
<1> HIDE DEF p
<1>7. FrameCalm(p, Mounts, Gone, tree) /\ \A i : IsPatchOf(p, i) <=> IsPatchOf(Top, i)
  BY <1>1, <1>3, <1>4, <1>5 DEF FrameCalm, PatchCalm, IsPatchOf
<1>8. StackCalm(u, Mounts, Gone, tree)
  BY <1>4, <1>5, <1>6, <1>7, CalmMountPushed
<1>9. v \in Seq(AllFrames) /\ \A i : Patching(v, i) <=> Patching(stack, i)
  BY <1>4, <1>5, <1>7, PatchingPushed, Pushed
<1> HIDE DEF v
<1>10. u \in Seq(AllFrames) /\ \A i : Patching(u, i) <=> Patching(stack, i)
  BY <1>6, <1>9, PatchingPushed, Pushed DEF IsPatchOf
<1>11. stack' = <<Hook("init", c)>> \o u
  BY <1>1 DEF u, v, p
<1> HIDE DEF u
<1>12. /\ StackCalm(stack', Mounts, Gone, tree)
       /\ \A i : Patching(stack', i) <=> Patching(stack, i)
  BY <1>6, <1>8, <1>10, <1>11, CalmQuiet
<1>13. TreeCalm(stack', Mounts, Gone, tree) /\ PhaseCalm'
  BY <1>2, <1>12, TreeCalmSame, PhaseKept DEF Calm
<1>14. ~RenderReturns
  BY <1>1, RenderReturnsStep
<1>15. CurrentCalm'
  BY <1>2, <1>14, CurrentKept
<1> QED BY <1>2, <1>12, <1>13, <1>15 DEF Calm

\* The top of the stack has changed, and nothing else.
LEMMA CalmOver ==
  ASSUME Shape, Shape', RenderOnTop, Calm, Next, stack # <<>>, Top.kind \in {"patch", "unmount"},
         NEW f \in AllFrames, stack' = <<f>> \o Below, f.kind = Top.kind, f.inst = Top.inst,
         FrameCalm(Top, Mounts, Gone, tree) /\
           (Top.kind = "patch" /\ Top.child # 0 => Top.child \in Mounts) =>
             /\ FrameCalm(f, Mounts, Gone, tree)
             /\ f.kind = "patch" /\ f.child # 0 => f.child \in Mounts,
         OnlyCalls
  PROVE  Calm'
<1>1. /\ UNCHANGED <<mounted, unmounted, tree, renderErr, phase, subscriberStack>>
      /\ Mounts' = Mounts /\ Gone' = Gone
  BY Unfolded DEF Mounts, Gone
<1>2. /\ Below \in Seq(AllFrames) /\ StackCalm(Below, Mounts, Gone, tree)
      /\ FrameCalm(Top, Mounts, Gone, tree)
      /\ Top.kind = "patch" => /\ Top.child # 0 => Top.child \in Mounts
                               /\ ~Patching(Below, Top.inst)
      /\ \A i : Patching(stack, i) <=> Patching(Below, i) \/ IsPatchOf(Top, i)
  BY CalmTop DEF Calm
<1>3. StackCalm(<<f>> \o Below, Mounts, Gone, tree)
  BY <1>2, CalmPushed
<1>4. \A i : Patching(stack', i) <=> Patching(stack, i)
  BY <1>2, PatchingPushed DEF IsPatchOf
<1>5. TreeCalm(stack', Mounts, Gone, tree) /\ PhaseCalm'
  BY <1>1, <1>4, TreeCalmSame, PhaseKept DEF Calm
<1>6. ~RenderReturns
  BY RenderReturnsStep
<1>7. CurrentCalm'
  BY <1>1, <1>6, CurrentKept
<1> QED BY <1>1, <1>3, <1>5, <1>7 DEF Calm

LEMMA CalmPatching ==
  ASSUME Shape, Shape', RenderOnTop, Calm, Next, disturbed' = {},
         ChildDone \/ PatchFails \/ SkipOld \/ UnmountTree
  PROVE  Calm'
<1>1. CASE ChildDone
  <2>1. /\ stack # <<>> /\ Top.kind = "patch" /\ Top.child # 0
        /\ stack' = <<Adopted(Top)>> \o Below /\ OnlyCalls
    BY <1>1, ChildDoneStep
  <2>2. /\ Adopted(Top) \in AllFrames
        /\ Adopted(Top).kind = Top.kind /\ Adopted(Top).inst = Top.inst
        /\ Adopted(Top).old = Top.old /\ Adopted(Top).child = 0
        /\ ToSet(Adopted(Top).done) = ToSet(Top.done) \cup {Top.child}
    BY <2>1, TopFields, ChildAdded DEF RuntimeKinds
  <2>3. 0 \notin Gone
    BY Names DEF Gone
  <2>4. FrameCalm(Top, Mounts, Gone, tree) /\ Top.child \in Mounts =>
          FrameCalm(Adopted(Top), Mounts, Gone, tree)
    BY <2>1, <2>2, <2>3 DEF FrameCalm, PatchCalm
  <2> QED BY <2>1, <2>2, <2>4, CalmOver
<1>2. CASE PatchFails
  BY <1>2, PatchFailsStep
<1>3. CASE SkipOld
  <2>1. /\ stack # <<>> /\ Top.kind = "patch" /\ Top.old # <<>>
        /\ stack' = <<Passed(Top)>> \o Below /\ OnlyCalls
    BY <1>3, SkipOldStep
  <2>2. /\ Passed(Top) \in AllFrames
        /\ Passed(Top).kind = Top.kind /\ Passed(Top).inst = Top.inst
        /\ Passed(Top).child = Top.child /\ Passed(Top).done = Top.done
        /\ ToSet(Top.old) = {Head(Top.old)} \cup ToSet(Passed(Top).old)
    BY <2>1, TopFields, OldPassed DEF RuntimeKinds
  <2>3. FrameCalm(Top, Mounts, Gone, tree) => FrameCalm(Passed(Top), Mounts, Gone, tree)
    BY <2>1, <2>2 DEF FrameCalm, PatchCalm
  <2> QED BY <2>1, <2>2, <2>3, CalmOver
<1>4. CASE UnmountTree
  <2>1. /\ stack # <<>> /\ Top.kind = "unmount" /\ tree[Top.inst] \in Seq(Components)
        /\ stack' = <<Taken(Top, tree[Top.inst])>> \o Below /\ OnlyCalls
    BY <1>4, UnmountTreeStep
  <2> DEFINE f == Taken(Top, tree[Top.inst])
  <2>2. /\ f \in AllFrames /\ f.kind = Top.kind /\ f.inst = Top.inst
        /\ f.old = tree[Top.inst] /\ Top.inst \in Components
    BY <2>1, TopFields, TreeTaken DEF RuntimeKinds
  <2> HIDE DEF f
  <2>3. FrameCalm(Top, Mounts, Gone, tree) => FrameCalm(f, Mounts, Gone, tree)
    BY <2>1, <2>2 DEF FrameCalm, UnmountCalm, Calm, TreeCalm
  <2> QED BY <2>1, <2>2, <2>3, CalmOver DEF f
<1> QED BY <1>1, <1>2, <1>3, <1>4

LEMMA CalmRender ==
  ASSUME Shape, Shape', RenderOnTop, Calm, RenderReturns
  PROVE  Calm'
<1> DEFINE i == R!currentSubscriber
           f == PatchFrame(i)
<1>1. /\ stack # <<>> /\ Top.kind = "run" /\ i \in Components /\ i \in ToSet(subscriberStack)
      /\ subscriberStack # <<>> /\ subscriberStack' = Tail(subscriberStack)
      /\ stack' = <<f>> \o Below
      /\ UNCHANGED <<phase, runtime>>
  BY RenderReturnsStep
<1>2. /\ UNCHANGED <<mounted, unmounted, tree, renderErr>>
      /\ Mounts' = Mounts /\ Gone' = Gone
  BY <1>1, Unfolded DEF Mounts, Gone
<1>3. /\ f \in AllFrames /\ f.kind = "patch" /\ f.inst = i /\ f.old = tree[i]
      /\ f.done = <<>> /\ f.child = 0
  BY <1>1, PatchFrameType
<1>4. ~Patching(stack, i) /\ i \notin Gone
  BY <1>1 DEF Calm, CurrentCalm
<1>5. /\ Below \in Seq(AllFrames) /\ StackCalm(Below, Mounts, Gone, tree)
      /\ \A p : Patching(stack, p) <=> Patching(Below, p)
  BY <1>1, CalmTop DEF Calm, IsPatchOf
<1>6. NoRender(Tail(subscriberStack))
  <2>1. i \in Components \cap ToSet(subscriberStack)
    BY <1>1
  <2> QED BY <2>1 DEF RenderOnTop, NoRender
<1> HIDE DEF f, i
<1>7. FrameCalm(f, Mounts, Gone, tree)
  BY <1>1, <1>3, <1>4, SetEmpty, Names DEF FrameCalm, PatchCalm, Calm, TreeCalm, Gone
<1>8. StackCalm(stack', Mounts, Gone, tree)
  BY <1>1, <1>3, <1>4, <1>5, <1>7, CalmPushed
<1>9. \A p : Patching(stack, p) => Patching(stack', p)
  BY <1>1, <1>3, <1>5, PatchingPushed
<1>10. TreeCalm(stack', Mounts, Gone, tree) /\ PhaseCalm'
  BY <1>1, <1>2, <1>9, TreeCalmSame, PhaseKept DEF Calm
<1>11. CurrentCalm'
  BY <1>1, <1>6, CurrentIdle
<1> QED BY <1>2, <1>8, <1>10, <1>11 DEF Calm

\* A tree is stored, or cleared.
LEMMA CalmTreeSet ==
  ASSUME Shape, Shape', RenderOnTop, Calm, Next, disturbed' = {},
         PatchDone \/ UnmountDone
  PROVE  Calm'
<1> DEFINE i == Top.inst
<1>1. /\ stack # <<>> /\ Top.kind \in {"patch", "unmount"}
      /\ \/ stack' = Below
         \/ \E name \in Points : stack' = <<Hook(name, i)>> \o Below
      /\ UNCHANGED <<mounted, unmounted, phase, subscriberStack>>
      /\ renderErr' = [renderErr EXCEPT ![i] = FALSE] \/ UNCHANGED renderErr
      /\ \/ Top.kind = "patch" /\ tree' = [tree EXCEPT ![i] = Top.done]
         \/ Top.kind = "unmount" /\ tree' = [tree EXCEPT ![i] = <<>>]
  BY PatchDoneStep, UnmountDoneStep, Unfolded DEF Points
<1>2. Mounts' = Mounts /\ Gone' = Gone
  BY <1>1 DEF Mounts, Gone
<1>3. i \in Components
  BY <1>1, TopFields DEF RuntimeKinds
<1>4. /\ Below \in Seq(AllFrames) /\ StackCalm(Below, Mounts, Gone, tree)
      /\ FrameCalm(Top, Mounts, Gone, tree)
      /\ \A p : Patching(stack, p) <=> Patching(Below, p) \/ IsPatchOf(Top, p)
  BY <1>1, CalmTop DEF Calm
<1> DEFINE q == tree'[i]
<1>5. /\ \A p \in Components : p # i => tree'[p] = tree[p]
      /\ ToSet(q) \subseteq Mounts /\ ToSet(q) \cap Gone = {}
      /\ ToSet(q) = {} \/ i \notin Gone
  <2>1. \A p \in Components : p # i => tree'[p] = tree[p]
    BY <1>1 DEF Shape
  <2>2. CASE Top.kind = "patch"
    <3>1. q = Top.done
      BY <1>1, <1>3, <2>2 DEF Shape
    <3> QED BY <1>4, <2>1, <2>2, <3>1 DEF FrameCalm, PatchCalm
  <2>3. CASE Top.kind = "unmount"
    <3>1. q = <<>>
      BY <1>1, <1>3, <2>3 DEF Shape
    <3> QED BY <2>1, <3>1, SetEmpty
  <2> QED BY <1>1, <2>2, <2>3
<1>6. \A f \in ToSet(Below) : f.kind = "unmount" => f.inst \in Components
  <2>1. \A f \in ToSet(Below) : f \in AllFrames
    BY <1>4 DEF ToSet
  <2> QED BY <2>1, GraphFrameTypes, FieldTypes DEF RuntimeKinds
<1> HIDE DEF q, i
<1>7. StackCalm(Below, Mounts, Gone, tree')
  BY <1>4, <1>5, <1>6, CalmTree DEF q
<1>8. /\ StackCalm(stack', Mounts, Gone, tree')
      /\ \A p : Patching(stack', p) <=> Patching(Below, p)
  <2>1. ASSUME NEW name \in Points, stack' = <<Hook(name, i)>> \o Below
        PROVE  /\ StackCalm(stack', Mounts, Gone, tree')
               /\ \A p : Patching(stack', p) <=> Patching(Below, p)
    <3>1. Hook(name, i) \in AllFrames /\ Hook(name, i).kind = "hook"
      BY <1>3, ActivationTypes
    <3> QED BY <1>4, <1>7, <2>1, <3>1, CalmQuiet
  <2> QED BY <1>1, <1>7, <2>1
<1>9. TreeCalm(stack', Mounts, Gone, tree')
  <2>1. ASSUME NEW p \in Components
        PROVE  /\ ToSet(tree'[p]) \subseteq Mounts
               /\ p \notin Gone /\ ~Patching(stack', p) => ToSet(tree'[p]) \cap Gone = {}
    <3>1. CASE p = i
      BY <1>5, <3>1 DEF q
    <3>2. CASE p # i
      <4>1. Patching(stack, p) <=> Patching(stack', p)
        BY <1>4, <1>8, <3>2 DEF IsPatchOf, i
      <4> QED BY <1>5, <2>1, <3>2, <4>1 DEF Calm, TreeCalm
    <3> QED BY <3>1, <3>2
  <2> QED BY <2>1 DEF TreeCalm, Calm
<1>10. PhaseCalm'
  BY <1>1, <1>2 DEF Calm, PhaseCalm, Shape
<1>11. ~RenderReturns
  BY <1>1, RenderReturnsStep
<1>12. CurrentCalm'
  BY <1>1, <1>11, CurrentKept
<1> QED BY <1>2, <1>8, <1>9, <1>10, <1>12 DEF Calm

LEMMA CalmUpdateChild ==
  ASSUME Shape, Shape', RenderOnTop, Calm, Next, disturbed' = {},
         NEW c \in Components, UpdateChild(c)
  PROVE  Calm'
<1> DEFINE p == Chosen(Top, c)
           u == <<p>> \o Below
<1>1. /\ stack # <<>> /\ Top.kind = "patch" /\ Top.next # <<>>
      /\ c \in ToSet(Top.old) /\ ~unmounted[c]
      /\ run(c, u) /\ u \in Seq(AllFrames) /\ Started(c)
      /\ stack' = <<R!Frame("run")>> \o u
      /\ UNCHANGED <<phase, mounted, unmounted, tree, renderErr>>
  BY UpdateChildStep
<1>2. Mounts' = Mounts /\ Gone' = Gone /\ c \notin Gone
  BY <1>1 DEF Mounts, Gone
<1>3. /\ Below \in Seq(AllFrames) /\ StackCalm(Below, Mounts, Gone, tree)
      /\ PatchCalm(Top, Mounts, Gone) /\ ~Patching(Below, Top.inst)
      /\ \A i : Patching(stack, i) <=> Patching(Below, i) \/ IsPatchOf(Top, i)
  BY <1>1, CalmTop DEF Calm, FrameCalm
<1>4. /\ p \in AllFrames /\ p.kind = "patch" /\ p.inst = Top.inst /\ p.child = c
      /\ p.old = Top.old /\ p.done = Top.done
  BY <1>1, TopFields, ChildChosen DEF RuntimeKinds
<1>5. ~InProgress(c) /\ c \in Watchers
  BY <1>1, Names, RunProperties
<1> HIDE DEF p
<1>6. FrameCalm(p, Mounts, Gone, tree) /\ \A i : IsPatchOf(p, i) <=> IsPatchOf(Top, i)
  BY <1>1, <1>2, <1>3, <1>4 DEF FrameCalm, PatchCalm, IsPatchOf
<1>7. c \in Mounts
  BY <1>1, <1>3 DEF PatchCalm
<1>8. /\ StackCalm(u, Mounts, Gone, tree)
      /\ \A i : Patching(u, i) <=> Patching(stack, i)
  BY <1>3, <1>4, <1>6, <1>7, CalmPushed, PatchingPushed
<1> HIDE DEF u
<1>9. /\ StackCalm(stack', Mounts, Gone, tree)
      /\ \A i : Patching(stack', i) <=> Patching(stack, i)
  BY <1>1, <1>8, GraphFrameTypes, CalmQuiet
<1>10. TreeCalm(stack', Mounts, Gone, tree) /\ PhaseCalm'
  BY <1>1, <1>9, TreeCalmSame, PhaseKept DEF Calm
<1>11. CurrentCalm'
  BY <1>1, <1>2, <1>5, <1>9, CurrentStarted, PatchingHere
<1> QED BY <1>1, <1>2, <1>9, <1>10, <1>11 DEF Calm

\* A component goes of which no patch is in progress and that no patch is
\* going to keep.
LEMMA CalmUnmount ==
  ASSUME Shape, Shape', RenderOnTop, Calm, Next, ~RenderReturns, NEW i \in Mounts,
         NEW below \in Seq(AllFrames), unmount(i, below),
         StackCalm(below, Mounts, Gone \cup {i}, tree),
         \A p \in Components : Patching(stack, p) => Patching(below, p),
         \A p \in Components : i \in ToSet(tree[p]) => p \in Gone \/ Patching(below, p)
  PROVE  Calm'
<1>0. i \in Components
  BY DEF Mounts
<1>1. /\ stop(i, effectCleanups[i]) /\ effectCleanups[i] \in SUBSET {Effect(i)}
      /\ unmounted' = [unmounted EXCEPT ![i] = TRUE]
      /\ stack' = <<Hook("cleanup", i)>> \o (<<UnmountFrame(i)>> \o below)
      /\ UNCHANGED <<subscriberStack, mounted, tree, renderErr>>
  BY <1>0, UnmountProperties
<1>2. Mounts' = Mounts /\ Gone' = Gone \cup {i}
  BY <1>0, <1>1 DEF Mounts, Gone, Shape
<1>3. /\ Hook("cleanup", i) \in AllFrames /\ Hook("cleanup", i).kind = "hook"
      /\ UnmountFrame(i) \in AllFrames /\ UnmountFrame(i).kind = "unmount"
      /\ UnmountFrame(i).inst = i /\ UnmountFrame(i).at = "cleanup"
      /\ UnmountFrame(i).old = <<>>
  BY <1>0, ActivationTypes DEF Points
<1> DEFINE g == UnmountFrame(i)
           u == <<g>> \o below
<1> HIDE DEF g
<1>4. FrameCalm(g, Mounts, Gone \cup {i}, tree)
  BY <1>3, SetEmpty DEF FrameCalm, UnmountCalm, g
<1>5. /\ u \in Seq(AllFrames) /\ StackCalm(u, Mounts, Gone \cup {i}, tree)
      /\ \A p : Patching(u, p) <=> Patching(below, p)
  BY <1>3, <1>4, CalmPushed, PatchingPushed, Pushed DEF IsPatchOf, g
<1>6. stack' = <<Hook("cleanup", i)>> \o u
  BY <1>1 DEF g
<1> HIDE DEF u
<1>7. /\ StackCalm(stack', Mounts, Gone \cup {i}, tree)
      /\ \A p : Patching(stack', p) <=> Patching(below, p)
  BY <1>3, <1>5, <1>6, CalmQuiet
<1>8. TreeCalm(stack', Mounts, Gone \cup {i}, tree)
  BY <1>7, TreeGone DEF Calm
<1>9. PhaseCalm'
  <2>1. ASSUME NEW p \in Components
        PROVE  p \in Gone' <=> phase'[p] = "stopped"
    <3>1. p = i => phase'[p] = "stopped"
      BY <1>0, <1>1, Names, StopProperties
    <3>2. p # i => phase'[p] = phase[p]
      BY <1>0, <1>1, Names, StopProperties
    <3> QED BY <1>2, <3>1, <3>2 DEF Calm, PhaseCalm
  <2> QED BY <1>1, <2>1 DEF Calm, PhaseCalm
<1>10. CurrentCalm'
  BY <1>1, CurrentKept
<1> QED BY <1>1, <1>2, <1>7, <1>8, <1>9, <1>10 DEF Calm

\* A child that leaves is in no other patch.
LEMMA NobodyElse ==
  ASSUME Shape, OneParent, Calm, stack # <<>>, Top.kind \in {"patch", "unmount"},
         NEW c \in Components, c \in ToSet(Top.old)
  PROVE  /\ c \in Mounts
         /\ \A f \in ToSet(Below) : f.kind = "patch" => c \notin ToSet(f.done) /\ c # f.child
         /\ \A p \in Components : c \in ToSet(tree[p]) => p = Top.inst
<1>1. /\ Below \in Seq(AllFrames) /\ FrameCalm(Top, Mounts, Gone, tree)
      /\ StackCalm(Below, Mounts, Gone, tree)
      /\ Top.kind = "patch" => ~Patching(Below, Top.inst)
  BY CalmTop DEF Calm
<1>2. Top.inst \in Components /\ ToSet(stack) = {Top} \cup ToSet(Below)
  BY TopFields DEF RuntimeKinds
<1>3. c \in Mounts
  BY <1>1 DEF FrameCalm, PatchCalm, UnmountCalm
<1>4. Kid(c, Top.inst, stack, tree)
  BY <1>2 DEF Kid, HeldBy
<1>5. \A p \in Components : Kid(c, p, stack, tree) => p = Top.inst
  BY <1>2, <1>4 DEF OneParent, ParentsIn
<1>6. ASSUME NEW f \in ToSet(Below), f.kind = "patch", c \in ToSet(f.done) \/ c = f.child
      PROVE  FALSE
  <2>1. f \in AllFrames /\ f \in ToSet(stack)
    BY <1>1, <1>2 DEF ToSet
  <2>2. f.inst \in Components
    BY <1>6, <2>1, GraphFrameTypes, FieldTypes DEF RuntimeKinds
  <2>3. f.inst = Top.inst
    BY <1>5, <1>6, <2>1, <2>2 DEF Kid, HeldBy
  <2>4. CASE Top.kind = "patch"
    BY <1>1, <1>6, <2>3, <2>4 DEF Patching, IsPatchOf
  <2>5. CASE Top.kind = "unmount"
    <3>1. Top.inst \in Gone
      BY <1>1, <2>5 DEF FrameCalm, UnmountCalm
    <3>2. f.inst \notin Gone
      BY <1>1, <1>6 DEF StackCalm, FrameCalm, PatchCalm
    <3> QED BY <2>3, <3>1, <3>2
  <2> QED BY <2>4, <2>5
<1>7. \A p \in Components : c \in ToSet(tree[p]) => p = Top.inst
  BY <1>5 DEF Kid
<1> QED BY <1>3, <1>6, <1>7

LEMMA CalmRemoveChild ==
  ASSUME Shape, Shape', RenderOnTop, OneParent, Calm, Next, disturbed' = {}, RemoveChild
  PROVE  Calm'
<1> DEFINE c == Head(Top.old)
           p == Passed(Top)
           u == <<p>> \o Below
<1>1. /\ stack # <<>> /\ Top.kind = "patch" /\ Top.child = 0 /\ Top.old # <<>>
      /\ c \notin ToSet(Top.done) /\ c \in Components
      /\ u \in Seq(AllFrames) /\ unmount(c, u)
  BY RemoveChildStep
<1>2. /\ p \in AllFrames /\ p.kind = "patch" /\ p.inst = Top.inst
      /\ p.child = 0 /\ p.done = Top.done
      /\ ToSet(Top.old) = {c} \cup ToSet(p.old) /\ Top.inst \in Components
  BY <1>1, TopFields, OldPassed DEF RuntimeKinds
<1>3. ~InProgress(c)
  BY <1>1, UnmountProperties
<1>4. ~RenderReturns
  BY <1>1, RenderReturnsStep
<1> HIDE DEF p, c
<1>5. /\ c \in Mounts
      /\ \A f \in ToSet(Below) : f.kind = "patch" => c \notin ToSet(f.done) /\ c # f.child
      /\ \A q \in Components : c \in ToSet(tree[q]) => q = Top.inst
  BY <1>1, <1>2, NobodyElse
<1>6. /\ Below \in Seq(AllFrames) /\ StackCalm(Below, Mounts, Gone, tree)
      /\ PatchCalm(Top, Mounts, Gone) /\ ~Patching(Below, Top.inst)
      /\ \A i : Patching(stack, i) <=> Patching(Below, i) \/ IsPatchOf(Top, i)
  BY <1>1, CalmTop DEF Calm, FrameCalm
<1>7. FrameCalm(p, Mounts, Gone, tree) /\ \A i : IsPatchOf(p, i) <=> IsPatchOf(Top, i)
  BY <1>1, <1>2, <1>6 DEF FrameCalm, PatchCalm, IsPatchOf
<1>8. /\ StackCalm(u, Mounts, Gone, tree)
      /\ \A i : Patching(u, i) <=> Patching(stack, i)
  BY <1>2, <1>6, <1>7, CalmPushed, PatchingPushed
<1>9. ToSet(u) = {p} \cup ToSet(Below)
  BY <1>2, <1>6, Pushed
<1>10. /\ ~Patching(u, c)
       /\ \A f \in ToSet(u) : f.kind = "patch" => c \notin ToSet(f.done) /\ c # f.child
  BY <1>1, <1>2, <1>3, <1>5, <1>8, <1>9, PatchingHere, Names
<1> HIDE DEF u
<1>11. StackCalm(u, Mounts, Gone \cup {c}, tree)
  BY <1>8, <1>10, CalmGone
<1>12. Patching(u, Top.inst)
  BY <1>1, <1>6, <1>8 DEF IsPatchOf
<1> QED BY <1>1, <1>4, <1>5, <1>8, <1>11, <1>12, CalmUnmount

LEMMA CalmUnmountChild ==
  ASSUME Shape, Shape', RenderOnTop, OneParent, Calm, Next, disturbed' = {}, UnmountChild
  PROVE  Calm'
<1> DEFINE c == Head(Top.old)
           p == Passed(Top)
           u == <<p>> \o Below
<1>1. /\ stack # <<>> /\ Top.kind = "unmount" /\ Top.old # <<>> /\ Top.at = "children"
      /\ c \in Components /\ u \in Seq(AllFrames)
      /\ \/ unmounted[c] /\ stack' = u /\ OnlyCalls
         \/ unmount(c, u)
  BY UnmountChildStep
<1>2. /\ p \in AllFrames /\ p.kind = "unmount" /\ p.inst = Top.inst /\ p.at = Top.at
      /\ ToSet(Top.old) = {c} \cup ToSet(p.old) /\ Top.inst \in Components
  BY <1>1, TopFields, OldPassed DEF RuntimeKinds
<1>3. CASE unmounted[c] /\ stack' = u /\ OnlyCalls
  <2>1. c \in Gone
    BY <1>1, <1>3 DEF Gone
  <2> HIDE DEF p, c
  <2>2. FrameCalm(Top, Mounts, Gone, tree) => FrameCalm(p, Mounts, Gone, tree)
    BY <1>1, <1>2, <2>1 DEF FrameCalm, UnmountCalm
  <2> QED BY <1>1, <1>2, <1>3, <2>2, CalmOver
<1>4. CASE unmount(c, u)
  <2>1. ~InProgress(c)
    BY <1>1, <1>4, UnmountProperties
  <2>2. ~RenderReturns
    BY <1>1, RenderReturnsStep
  <2> HIDE DEF p, c
  <2>3. /\ c \in Mounts
        /\ \A f \in ToSet(Below) : f.kind = "patch" => c \notin ToSet(f.done) /\ c # f.child
        /\ \A q \in Components : c \in ToSet(tree[q]) => q = Top.inst
    BY <1>1, <1>2, NobodyElse
  <2>4. /\ Below \in Seq(AllFrames) /\ StackCalm(Below, Mounts, Gone, tree)
        /\ UnmountCalm(Top, Mounts, Gone, tree)
        /\ \A i : Patching(stack, i) <=> Patching(Below, i)
    BY <1>1, CalmTop DEF Calm, FrameCalm, IsPatchOf
  <2>5. StackCalm(Below, Mounts, Gone \cup {c}, tree)
    BY <2>1, <2>3, <2>4, PatchingHere, CalmGone
  <2>6. FrameCalm(p, Mounts, Gone \cup {c}, tree)
    BY <1>1, <1>2, <2>4 DEF FrameCalm, UnmountCalm
  <2>7. /\ StackCalm(u, Mounts, Gone \cup {c}, tree)
        /\ \A i : Patching(u, i) <=> Patching(stack, i)
    BY <1>2, <2>4, <2>5, <2>6, CalmPushed, PatchingPushed DEF IsPatchOf
  <2>8. Top.inst \in Gone
    BY <2>4 DEF UnmountCalm
  <2> HIDE DEF u
  <2> QED BY <1>1, <1>4, <2>2, <2>3, <2>7, <2>8, CalmUnmount
<1> QED BY <1>1, <1>3, <1>4

LEMMA CalmUnmountRoot ==
  ASSUME Shape, Shape', RenderOnTop, OneParent, Calm, Next, disturbed' = {}, Unmount
  PROVE  Calm'
<1>1. /\ UserCode /\ Root \in Components /\ mounted[Root]
      /\ stack \in Seq(AllFrames) /\ unmount(Root, stack)
  BY UnmountStep
<1>2. ~InProgress(Root) /\ Root \in Mounts
  BY <1>1, UnmountProperties DEF Mounts
<1>3. ~RenderReturns
  BY <1>1 DEF UserCode, RenderReturns
<1>4. \A p \in Components : ~Kid(Root, p, stack, tree)
  BY <1>1 DEF OneParent, ParentsIn
<1>5. ASSUME NEW f \in ToSet(stack), f.kind = "patch"
      PROVE  Root \notin ToSet(f.done) /\ Root # f.child
  <2>1. f \in AllFrames
    BY <1>1 DEF ToSet
  <2>2. f.inst \in Components
    BY <1>5, <2>1, GraphFrameTypes, FieldTypes DEF RuntimeKinds
  <2> QED BY <1>4, <1>5, <2>2 DEF Kid, HeldBy
<1>6. \A p \in Components : Root \notin ToSet(tree[p])
  BY <1>4 DEF Kid
<1>7. StackCalm(stack, Mounts, Gone \cup {Root}, tree)
  BY <1>2, <1>5, PatchingHere, CalmGone DEF Calm
<1> QED BY <1>1, <1>2, <1>3, <1>6, <1>7, CalmUnmount

LEMMA DisturbedGrows ==
  ASSUME Shape, [Next]_vars
  PROVE  disturbed \subseteq disturbed'
<1>1. CASE UNCHANGED vars
  BY <1>1 DEF vars, runtime
<1>2. ASSUME NEW i \in Components, NEW below \in Seq(AllFrames),
             run(i, below) \/ unmount(i, below)
      PROVE  disturbed \subseteq disturbed'
  BY <1>2, RunProperties, UnmountProperties
<1>3. CASE MountRender \/ Update \/ \E c \in Components : UpdateChild(c)
  <2>1. MountRender => Top.inst \in Components
    BY MountRenderStep, TopFields DEF RuntimeKinds
  <2> QED BY <1>2, <1>3, <2>1, MountRenderStep, UpdateStep, UpdateChildStep
<1>4. CASE RemoveChild \/ UnmountChild \/ Unmount
  BY <1>2, <1>4, RemoveChildStep, UnmountChildStep, UnmountStep, Unfolded
<1>5. CASE Mount \/ MountDone \/ MountFails \/ RenderReturns \/ ChildDone \/ PatchFails
  BY <1>5, MountStep, MountDoneStep, MountFailsStep, RenderReturnsStep, ChildDoneStep,
     PatchFailsStep, Unfolded
<1>6. CASE PatchDone \/ SkipOld \/ UnmountTree \/ UnmountDone \/ WatchInInit \/ HookReturns
  BY <1>6, PatchDoneStep, SkipOldStep, UnmountTreeStep, UnmountDoneStep, WatchInInitStep,
     HookReturnsStep, Unfolded
<1>7. CASE Calls \/ Schedule
  BY <1>7, CallsCases, ScheduleStep, Unfolded
<1>8. ASSUME NEW c \in Components, MountChild(c)
      PROVE  disturbed \subseteq disturbed'
  BY <1>8, MountChildStep, Unfolded
<1>9. ASSUME NEW w \in Watchers, FlushRun(w)
      PROVE  disturbed \subseteq disturbed'
  BY <1>9, FlushRunStep
<1> QED BY <1>1, <1>3, <1>4, <1>5, <1>6, <1>7, <1>8, <1>9 DEF Next

LEMMA CalmNext ==
  ASSUME Shape, Shape', Known, RenderOnTop, MountInv, OneParent, CalmInv, [Next]_vars
  PROVE  CalmInv'
<1> SUFFICES ASSUME disturbed' = {}
             PROVE  Calm'
  BY DEF CalmInv
<1>1. Calm
  BY DisturbedGrows DEF CalmInv
<1>2. CASE UNCHANGED vars
  <2>1. /\ Mounts' = Mounts /\ Gone' = Gone
        /\ UNCHANGED <<stack, tree, subscriberStack, renderErr, phase>>
    BY <1>2 DEF vars, runtime, graph, Mounts, Gone
  <2> QED BY <1>1, <2>1 DEF Calm, PhaseCalm, CurrentCalm, R!currentSubscriber
<1>3. ASSUME Next, Plain
      PROVE  Calm'
  BY <1>1, <1>3, CalmPlain
<1>4. ASSUME Next, Mount \/ MountRender \/ MountDone \/ MountFails
      PROVE  Calm'
  BY <1>1, <1>4, CalmMounting
<1>5. ASSUME Next, NEW c \in Components, MountChild(c) \/ UpdateChild(c)
      PROVE  Calm'
  BY <1>1, <1>5, CalmMountChild, CalmUpdateChild
<1>6. ASSUME Next, ChildDone \/ PatchFails \/ SkipOld \/ UnmountTree \/ PatchDone \/ UnmountDone
      PROVE  Calm'
  BY <1>1, <1>6, CalmPatching, CalmTreeSet
<1>7. ASSUME Next, RenderReturns \/ RemoveChild \/ UnmountChild \/ Unmount
      PROVE  Calm'
  BY <1>1, <1>7, CalmRender, CalmRemoveChild, CalmUnmountChild, CalmUnmountRoot
<1>8. Next => Plain \/ Settling \/ Mounting
  BY DEF Next, Plain, Settling, Mounting
<1> QED BY <1>2, <1>3, <1>4, <1>5, <1>6, <1>7, <1>8 DEF Settling, Mounting

LEMMA CalmInit ==
  ASSUME Init
  PROVE  CalmInv
<1>1. /\ stack = <<>> /\ subscriberStack = <<>> /\ tree = [i \in Components |-> <<>>]
      /\ unmounted = [i \in Components |-> FALSE] /\ renderErr = [i \in Components |-> FALSE]
      /\ \A i \in Components : phase[i] = "new"
  BY Names DEF Init, R!Init
<1>2. Gone = {}
  BY <1>1 DEF Gone
<1>3. StackCalm(stack, Mounts, Gone, tree)
  BY <1>1, SetEmpty DEF StackCalm, Once, ChildrenIn
<1>4. TreeCalm(stack, Mounts, Gone, tree)
  BY <1>1, <1>2, SetEmpty DEF TreeCalm
<1>5. PhaseCalm
  BY <1>1, <1>2 DEF PhaseCalm
<1>6. CurrentCalm
  BY <1>1, <1>2, SetEmpty DEF CurrentCalm, Patching
<1> QED BY <1>3, <1>4, <1>5, <1>6 DEF CalmInv, Calm

-----------------------------------------------------------------------------
(* Which hooks a step calls. *)

LEMMA NoHook ==
  ASSUME Shape, NEW name, NEW i,
         \/ stack' = stack
         \/ stack # <<>> /\ stack' = Below
         \/ \E f \in AllFrames, s \in Seq(AllFrames) : stack' = <<f>> \o s /\ f.kind # "hook"
  PROVE  ~CallsHook(name, i)
<1>1. stack \in Seq(AllFrames)
  BY DEF Shape
<1>2. stack # <<>> => Len(Below) = Len(stack) - 1 /\ Len(stack) \in Nat
  BY <1>1, F!PopProperties DEF Below
<1>3. CASE stack' = stack
  BY <1>3 DEF CallsHook
<1>4. CASE stack # <<>> /\ stack' = Below
  BY <1>2, <1>4 DEF CallsHook
<1>5. CASE \E f \in AllFrames, s \in Seq(AllFrames) : stack' = <<f>> \o s /\ f.kind # "hook"
  <2>1. PICK f \in AllFrames, s \in Seq(AllFrames) : stack' = <<f>> \o s /\ f.kind # "hook"
    BY <1>5
  <2>2. Head(stack') = f
    BY <2>1, HeadPushed
  <2>3. Hook(name, i).kind = "hook"
    BY DEF Hook, Activation
  <2> QED BY <2>1, <2>2, <2>3 DEF CallsHook
<1> QED BY <1>3, <1>4, <1>5

LEMMA HookOnTop ==
  ASSUME NEW n \in Points, NEW j \in Components, NEW s \in Seq(AllFrames),
         stack' = <<Hook(n, j)>> \o s, NEW name \in Points, NEW i \in Components,
         CallsHook(name, i)
  PROVE  name = n /\ i = j
<1>1. /\ Hook(n, j) \in AllFrames /\ Hook(n, j).at = n /\ Hook(n, j).inst = j
      /\ Hook(name, i).at = name /\ Hook(name, i).inst = i
  BY ActivationTypes
<1>2. Head(stack') = Hook(n, j)
  BY <1>1, HeadPushed
<1> QED BY <1>1, <1>2 DEF CallsHook

\* Steps that do not call a hook.
LEMMA QuietSteps ==
  ASSUME Shape, NEW name, NEW i,
         \/ Plain \/ MountRender \/ RenderReturns \/ ChildDone \/ PatchFails \/ SkipOld
         \/ UnmountTree \/ \E c \in Components : UpdateChild(c)
  PROVE  ~CallsHook(name, i)
<1> DEFINE Quiet ==
      \/ stack' = stack
      \/ stack # <<>> /\ stack' = Below
      \/ \E f \in AllFrames, s \in Seq(AllFrames) : stack' = <<f>> \o s /\ f.kind # "hook"
<1>1. Quiet => ~CallsHook(name, i)
  BY NoHook
<1>2. stack \in Seq(AllFrames)
  BY DEF Shape
<1>3. stack # <<>> => Below \in Seq(AllFrames)
  BY TopType
<1>4. ASSUME NEW f \in AllFrames, NEW s \in Seq(AllFrames), f.kind # "hook", stack' = <<f>> \o s
      PROVE  Quiet
  BY <1>4
<1>5. ASSUME stack' = stack \/ (stack # <<>> /\ stack' = Below)
      PROVE  Quiet
  BY <1>5
<1> HIDE DEF Quiet
<1>6. ASSUME NEW s \in Seq(AllFrames), NEW kind \in {"batch", "run", "flush"},
             stack' = <<R!Frame(kind)>> \o s
      PROVE  Quiet
  BY <1>4, <1>6, GraphFrameTypes
<1>7. MountRender \/ (\E c \in Components : UpdateChild(c)) \/ Update \/ WatchInInit => Quiet
  BY <1>2, <1>6, MountRenderStep, UpdateChildStep, UpdateStep, WatchInInitStep
<1>8. HookReturns \/ PatchFails => Quiet
  BY <1>5, HookReturnsStep, PatchFailsStep
<1>9. ASSUME NEW w \in Watchers, FlushRun(w)
      PROVE  Quiet
  BY <1>2, <1>6, <1>9, FlushRunStep
<1>10. ASSUME RenderReturns
       PROVE  Quiet
  <2> DEFINE g == PatchFrame(R!currentSubscriber)
  <2>1. /\ stack # <<>> /\ R!currentSubscriber \in Components
        /\ stack' = <<g>> \o Below
    BY <1>10, RenderReturnsStep
  <2>2. g \in AllFrames /\ g.kind = "patch"
    BY <2>1, PatchFrameType
  <2> QED BY <1>3, <1>4, <2>1, <2>2
<1>11. ASSUME ChildDone \/ SkipOld \/ UnmountTree
       PROVE  Quiet
  <2>1. /\ stack # <<>> /\ Top.kind \in {"patch", "unmount"}
        /\ \/ Top.child # 0 /\ stack' = <<Adopted(Top)>> \o Below
           \/ Top.old # <<>> /\ stack' = <<Passed(Top)>> \o Below
           \/ /\ tree[Top.inst] \in Seq(Components)
              /\ stack' = <<Taken(Top, tree[Top.inst])>> \o Below
    BY <1>11, ChildDoneStep, SkipOldStep, UnmountTreeStep
  <2>2. Top \in Activations
    BY <2>1, TopFields DEF RuntimeKinds
  <2>3. CASE Top.child # 0 /\ stack' = <<Adopted(Top)>> \o Below
    <3>1. Adopted(Top) \in AllFrames /\ Adopted(Top).kind # "hook"
      BY <2>1, <2>2, <2>3, ChildAdded
    <3> QED BY <1>3, <1>4, <2>1, <2>3, <3>1
  <2>4. CASE Top.old # <<>> /\ stack' = <<Passed(Top)>> \o Below
    <3>1. Passed(Top) \in AllFrames /\ Passed(Top).kind # "hook"
      BY <2>1, <2>2, <2>4, OldPassed
    <3> QED BY <1>3, <1>4, <2>1, <2>4, <3>1
  <2>5. CASE /\ tree[Top.inst] \in Seq(Components)
             /\ stack' = <<Taken(Top, tree[Top.inst])>> \o Below
    <3>1. Taken(Top, tree[Top.inst]) \in AllFrames /\ Taken(Top, tree[Top.inst]).kind # "hook"
      BY <2>1, <2>2, <2>5, TreeTaken
    <3> QED BY <1>3, <1>4, <2>1, <2>5, <3>1
  <2> QED BY <2>1, <2>3, <2>4, <2>5
<1>12. ASSUME Calls
       PROVE  Quiet
  <2>1. ASSUME NEW s \in States, R!Set(s)
        PROVE  Quiet
    <3>1. R!NotifyFrame(s) \in AllFrames /\ R!NotifyFrame(s).kind = "notify"
      BY NotifyTypes
    <3> QED BY <1>2, <1>4, <2>1, <3>1, SetStep
  <2>2. (\E s \in States : R!GetState(s)) => Quiet
    BY <1>5, GetStateStep
  <2>3. R!BatchBegin => Quiet
    BY <1>2, <1>6, BatchBeginStep
  <2>4. R!BatchEnd => Quiet
    BY <1>3, <1>5, <1>6, BatchEndStep
  <2>5. R!EffectReturns => Quiet
    BY <1>5, EffectReturnsStep
  <2> QED BY <1>12, <2>1, <2>2, <2>3, <2>4, <2>5, CallsCases
<1>13. ASSUME Schedule
       PROVE  Quiet
  <2>1. /\ stack # <<>>
        /\ \/ stack' = stack \/ stack' = Below
           \/ /\ Top.kind = "notify"
              /\ \E w : stack' = <<Relieved(Top, w)>> \o Below \/
                        stack' = <<R!Frame("flush")>> \o (<<Relieved(Top, w)>> \o Below)
    BY <1>13, ScheduleStep
  <2>2. Top \in AllFrames /\ Below \in Seq(AllFrames)
    BY <2>1, TopType
  <2>3. ASSUME Top.kind = "notify", NEW w
        PROVE  /\ Relieved(Top, w) \in AllFrames /\ Relieved(Top, w).kind # "hook"
               /\ <<Relieved(Top, w)>> \o Below \in Seq(AllFrames)
    <3>1. Relieved(Top, w) \in AllFrames /\ Relieved(Top, w).kind = "notify"
      BY <2>2, <2>3, NotifyTypes
    <3> QED BY <2>2, <3>1, Pushed
  <2>4. ASSUME Top.kind = "notify", NEW w, stack' = <<Relieved(Top, w)>> \o Below
        PROVE  Quiet
    BY <1>4, <2>2, <2>3, <2>4
  <2>5. ASSUME Top.kind = "notify", NEW w,
               stack' = <<R!Frame("flush")>> \o (<<Relieved(Top, w)>> \o Below)
        PROVE  Quiet
    BY <1>6, <2>3, <2>5
  <2> QED BY <1>5, <2>1, <2>4, <2>5
<1> QED BY <1>1, <1>7, <1>8, <1>9, <1>10, <1>11, <1>12, <1>13 DEF Plain

LEMMA PointNames ==
  /\ "init" \in Points /\ "mounted" \in Points /\ "updated" \in Points
  /\ "cleanup" \in Points /\ "unmounted" \in Points
BY DEF Points

LEMMA HookOfUnmount ==
  ASSUME Shape, NEW j \in Components, NEW below \in Seq(AllFrames), unmount(j, below),
         NEW name \in Points, NEW i \in Components, CallsHook(name, i)
  PROVE  name = "cleanup" /\ i = j
<1>1. /\ stack' = <<Hook("cleanup", j)>> \o (<<UnmountFrame(j)>> \o below)
      /\ UnmountFrame(j) \in AllFrames
  BY UnmountProperties, ActivationTypes
<1>2. <<UnmountFrame(j)>> \o below \in Seq(AllFrames)
  BY <1>1, Pushed
<1> QED BY <1>1, <1>2, HookOnTop, PointNames

\* The steps that call the hooks of HooksInOrder.
LEMMA HookCalled ==
  ASSUME Shape, Next, NEW i \in Components,
         NEW name \in {"mounted", "updated", "cleanup", "unmounted"}, CallsHook(name, i)
  PROVE  \/ MountFails
         \/ MountDone /\ name = "mounted" /\ i = Top.inst
         \/ PatchDone /\ mounted[i] /\ name = "updated" /\ i = Top.inst
         \/ UnmountDone /\ name = "unmounted" /\ i = Top.inst
         \/ /\ RemoveChild \/ UnmountChild \/ Unmount
            /\ name = "cleanup"
            /\ \E below \in Seq(AllFrames) : unmount(i, below)
<1>0. name \in Points
  BY PointNames
<1>1. stack # <<>> => Below \in Seq(AllFrames)
  BY TopType
<1>2. CASE MountDone
  <2>1. /\ stack # <<>> /\ Top.kind = "mount"
        /\ stack' = <<Hook("mounted", Top.inst)>> \o Below
    BY <1>2, MountDoneStep
  <2>2. Top.inst \in Components
    BY <2>1, TopFields DEF RuntimeKinds
  <2> QED BY <1>0, <1>1, <1>2, <2>1, <2>2, HookOnTop, PointNames
<1>3. CASE PatchDone
  <2>1. /\ stack # <<>> /\ Top.inst \in Components
        /\ stack' = IF mounted[Top.inst] THEN <<Hook("updated", Top.inst)>> \o Below
                    ELSE Below
    BY <1>3, PatchDoneStep
  <2>2. mounted[Top.inst]
    BY <2>1, NoHook
  <2> QED BY <1>0, <1>1, <1>3, <2>1, <2>2, HookOnTop, PointNames
<1>4. CASE UnmountDone
  <2>1. /\ stack # <<>> /\ Top.kind = "unmount"
        /\ stack' = <<Hook("unmounted", Top.inst)>> \o Below
    BY <1>4, UnmountDoneStep
  <2>2. Top.inst \in Components
    BY <2>1, TopFields DEF RuntimeKinds
  <2> QED BY <1>0, <1>1, <1>4, <2>1, <2>2, HookOnTop, PointNames
<1>5. CASE RemoveChild \/ UnmountChild \/ Unmount
  <2>1. \/ OnlyCalls /\ \E f \in AllFrames, s \in Seq(AllFrames) :
                          stack' = <<f>> \o s /\ f.kind # "hook"
        \/ \E j \in Components, below \in Seq(AllFrames) : unmount(j, below)
    <3>1. CASE RemoveChild
      BY <3>1, RemoveChildStep
    <3>2. CASE Unmount
      BY <3>2, UnmountStep
    <3>3. CASE UnmountChild
      <4>1. /\ stack # <<>> /\ Top.kind = "unmount" /\ Top.old # <<>>
            /\ Head(Top.old) \in Components
            /\ <<Passed(Top)>> \o Below \in Seq(AllFrames)
            /\ \/ stack' = <<Passed(Top)>> \o Below /\ OnlyCalls
               \/ unmount(Head(Top.old), <<Passed(Top)>> \o Below)
        BY <3>3, UnmountChildStep
      <4>2. Passed(Top) \in AllFrames /\ Passed(Top).kind # "hook"
        BY <4>1, TopFields, OldPassed DEF RuntimeKinds
      <4> QED BY <1>1, <4>1, <4>2
    <3> QED BY <1>5, <3>1, <3>2, <3>3
  <2>2. PICK j \in Components, below \in Seq(AllFrames) : unmount(j, below)
    BY <2>1, NoHook
  <2>3. name = "cleanup" /\ i = j
    BY <1>0, <2>2, HookOfUnmount
  <2> QED BY <1>5, <2>2, <2>3
<1>6. ASSUME Mount
      PROVE  FALSE
  <2>1. /\ Root \in Components /\ stack \in Seq(AllFrames)
        /\ stack' = <<Hook("init", Root)>> \o (<<MountFrame(Root)>> \o stack)
    BY <1>6, MountStep DEF Shape
  <2>2. <<MountFrame(Root)>> \o stack \in Seq(AllFrames)
    BY <2>1, ActivationTypes, Pushed
  <2> QED BY <1>0, <2>1, <2>2, HookOnTop, PointNames
<1>7. ASSUME NEW c \in Components, MountChild(c)
      PROVE  FALSE
  <2>1. /\ stack # <<>> /\ Top.kind = "patch" /\ Top.next # <<>>
        /\ stack' = <<Hook("init", c)>> \o
                      (<<MountFrame(c)>> \o (<<Chosen(Top, c)>> \o Below))
    BY <1>7, MountChildStep
  <2>2. MountFrame(c) \in AllFrames /\ Chosen(Top, c) \in AllFrames
    BY <2>1, TopFields, ActivationTypes, ChildChosen DEF RuntimeKinds
  <2> DEFINE u == <<MountFrame(c)>> \o (<<Chosen(Top, c)>> \o Below)
  <2>3. u \in Seq(AllFrames) /\ stack' = <<Hook("init", c)>> \o u
    BY <1>1, <2>1, <2>2, PushedOnto
  <2> HIDE DEF u
  <2> QED BY <1>0, <2>3, HookOnTop, PointNames
<1>8. \/ MountFails \/ MountDone \/ PatchDone \/ UnmountDone
      \/ RemoveChild \/ UnmountChild \/ Unmount
  BY <1>6, <1>7, QuietSteps DEF Next, Plain
<1> QED BY <1>2, <1>3, <1>4, <1>5, <1>8

LEMMA HooksCalm ==
  ASSUME Shape, Known, RenderOnTop, MountInv, OneParent, CalmInv, Next, disturbed' = {},
         NEW i \in Components
  PROVE  /\ CallsHook("mounted", i) =>
               ~mounted[i] /\ ~unmounted[i] /\ \A c \in ToSet(tree[i]) : mounted[c]
         /\ CallsHook("updated", i) =>
               /\ mounted[i] /\ ~unmounted[i]
               /\ \A c \in ToSet(tree'[i]) : mounted[c] /\ ~unmounted[c]
         /\ CallsHook("cleanup", i) =>
               mounted[i] /\ ~unmounted[i] /\ \A c \in ToSet(tree[i]) : ~unmounted[c]
         /\ CallsHook("unmounted", i) =>
               mounted[i] /\ unmounted[i] /\ \A c \in ToSet(tree[i]) : unmounted[c]
<1>1. Calm
  BY DisturbedGrows DEF CalmInv
<1>2. /\ Gone \subseteq Mounts /\ ToSet(tree[i]) \subseteq Mounts
      /\ \A c \in Mounts : mounted[c]
      /\ \A c \in Gone : unmounted[c] /\ mounted[c]
      /\ \A c \in Components : unmounted[c] => c \in Gone
      /\ mounted[i] <=> i \in Mounts
      /\ i \notin Gone /\ ~Patching(stack, i) => ToSet(tree[i]) \cap Gone = {}
  BY <1>1 DEF Calm, TreeCalm, Mounts, Gone
<1>3. ~MountFails
  <2>1. MountFails => stack # <<>> /\ Top.kind = "mount" /\ renderErr[Top.inst]
    BY MountFailsStep
  <2> QED BY <1>1, <2>1, TopFields DEF RuntimeKinds, Calm, PhaseCalm
<1>4. ASSUME MountDone, i = Top.inst
      PROVE  ~mounted[i] /\ ~unmounted[i] /\ \A c \in ToSet(tree[i]) : mounted[c]
  <2>1. stack # <<>> /\ Top.kind = "mount"
    BY <1>4, MountDoneStep
  <2>2. i \notin Mounts
    BY <1>4, <2>1, MountsPopped DEF MountInv
  <2> QED BY <1>2, <2>2
<1>5. ASSUME PatchDone, i = Top.inst, mounted[i]
      PROVE  /\ mounted[i] /\ ~unmounted[i]
             /\ \A c \in ToSet(tree'[i]) : mounted[c] /\ ~unmounted[c]
  <2>1. /\ stack # <<>> /\ Top.kind = "patch"
        /\ tree' = [tree EXCEPT ![i] = Top.done]
    BY <1>5, PatchDoneStep
  <2>2. PatchCalm(Top, Mounts, Gone)
    BY <1>1, <2>1, CalmTop DEF Calm, FrameCalm
  <2>3. tree'[i] = Top.done
    BY <2>1 DEF Shape
  <2>4. \A c \in ToSet(Top.done) : c \in Mounts /\ c \notin Gone
    BY <2>2 DEF PatchCalm
  <2>5. Mounts \subseteq Components
    BY DEF Mounts
  <2> QED BY <1>2, <1>5, <2>2, <2>3, <2>4, <2>5 DEF PatchCalm
<1>6. ASSUME UnmountDone, i = Top.inst
      PROVE  mounted[i] /\ unmounted[i] /\ \A c \in ToSet(tree[i]) : unmounted[c]
  <2>1. stack # <<>> /\ Top.kind = "unmount" /\ Top.at = "children" /\ Top.old = <<>>
    BY <1>6, UnmountDoneStep
  <2>2. UnmountCalm(Top, Mounts, Gone, tree)
    BY <1>1, <2>1, CalmTop DEF Calm, FrameCalm
  <2>3. ToSet(tree[i]) \subseteq Gone /\ i \in Gone
    BY <1>6, <2>1, <2>2, SetEmpty DEF UnmountCalm
  <2> QED BY <1>2, <2>3
<1>7. ASSUME RemoveChild \/ UnmountChild \/ Unmount,
             NEW below \in Seq(AllFrames), unmount(i, below)
      PROVE  mounted[i] /\ ~unmounted[i] /\ \A c \in ToSet(tree[i]) : ~unmounted[c]
  <2>1. ~InProgress(i)
    BY <1>7, UnmountProperties
  <2>2. unmounted' = [unmounted EXCEPT ![i] = TRUE]
    BY <1>7, UnmountProperties
  <2>3. ASSUME NEW j \in Components, NEW b \in Seq(AllFrames), unmount(j, b)
        PROVE  i = j
    <3>1. /\ stack' = <<Hook("cleanup", j)>> \o (<<UnmountFrame(j)>> \o b)
          /\ stack' = <<Hook("cleanup", i)>> \o (<<UnmountFrame(i)>> \o below)
      BY <1>7, <2>3, UnmountProperties
    <3>2. /\ <<UnmountFrame(j)>> \o b \in Seq(AllFrames) /\ Hook("cleanup", j) \in AllFrames
          /\ <<UnmountFrame(i)>> \o below \in Seq(AllFrames) /\ Hook("cleanup", i) \in AllFrames
      BY <1>7, <2>3, ActivationTypes, Pushed DEF Points
    <3>3. Head(stack') = Hook("cleanup", j) /\ Head(stack') = Hook("cleanup", i)
      BY <3>1, <3>2, HeadPushed
    <3>4. Hook("cleanup", j).inst = j /\ Hook("cleanup", i).inst = i
      BY ActivationTypes DEF Points
    <3> QED BY <3>3, <3>4
  <2>4. mounted[i] /\ ~unmounted[i]
    <3>1. CASE Unmount
      BY <2>3, <3>1, UnmountStep
    <3>2. CASE RemoveChild \/ UnmountChild
      <4>1. /\ stack # <<>> /\ Top.kind \in {"patch", "unmount"} /\ Top.old # <<>>
            /\ Head(Top.old) \in Components
            /\ \/ stack' = <<Passed(Top)>> \o Below
               \/ ~unmounted[Head(Top.old)] /\ unmount(Head(Top.old), <<Passed(Top)>> \o Below)
            /\ <<Passed(Top)>> \o Below \in Seq(AllFrames)
        BY <3>2, RemoveChildStep, UnmountChildStep
      <4>2. stack' # <<Passed(Top)>> \o Below
        <5>1. /\ Passed(Top) \in AllFrames /\ Passed(Top).kind = Top.kind
              /\ Below \in Seq(AllFrames)
          BY <4>1, TopFields, OldPassed DEF RuntimeKinds
        <5>2. Head(<<Passed(Top)>> \o Below) = Passed(Top)
          BY <5>1, HeadPushed
        <5>3. /\ stack' = <<Hook("cleanup", i)>> \o (<<UnmountFrame(i)>> \o below)
              /\ Hook("cleanup", i) \in AllFrames /\ Hook("cleanup", i).kind = "hook"
              /\ <<UnmountFrame(i)>> \o below \in Seq(AllFrames)
          BY <1>7, UnmountProperties, ActivationTypes, Pushed, SMTT(30) DEF Points
        <5>4. Head(stack') = Hook("cleanup", i)
          BY <5>3, HeadPushed
        <5> QED BY <4>1, <5>1, <5>2, <5>3, <5>4
      <4>3. i = Head(Top.old) /\ ~unmounted[i]
        BY <2>3, <4>1, <4>2
      <4>4. i \in ToSet(Top.old)
        BY <4>1, <4>3, TopFields, OldPassed DEF RuntimeKinds
      <4>5. i \in Mounts
        BY <1>1, <4>1, <4>4, NobodyElse
      <4> QED BY <1>2, <4>3, <4>5
    <3> QED BY <1>7, <3>1, <3>2
  <2>5. i \notin Gone
    BY <2>4 DEF Gone
  <2>6. ToSet(tree[i]) \cap Gone = {}
    BY <1>2, <2>1, <2>5, PatchingHere
  <2>7. Mounts \subseteq Components
    BY DEF Mounts
  <2> QED BY <1>2, <2>4, <2>6, <2>7
<1> QED BY <1>3, <1>4, <1>5, <1>6, <1>7, HookCalled

\* What the order of hooks rests on.
HooksInv == Shape /\ Known /\ RenderOnTop /\ MountInv /\ OneParent /\ CalmInv

LEMMA HooksInvInit ==
  Init => HooksInv
BY ShapeInit, KnownInit, RenderOnTopInit, MountInvInit, OneParentInit, CalmInit DEF HooksInv

LEMMA HooksInvNext ==
  HooksInv /\ [Next]_vars => HooksInv'
<1> SUFFICES ASSUME HooksInv, [Next]_vars
             PROVE  HooksInv'
  OBVIOUS
<1>1. Shape /\ Known /\ RenderOnTop /\ MountInv /\ OneParent /\ CalmInv
  BY DEF HooksInv
<1>2. Shape' /\ Known' /\ RenderOnTop'
  BY <1>1, ShapeStep, KnownNext, RenderOnTopNext
<1>3. MountInv' /\ OneParent'
  BY <1>1, MountInvNext, OneParentNext
<1>4. CalmInv'
  BY <1>1, <1>2, CalmNext
<1> QED BY <1>2, <1>3, <1>4 DEF HooksInv

\* While no patch is disturbed, OnMounted is called once and after the children
\* are mounted, OnUpdated only of a component that is mounted with children
\* that all are and that are all still there, cleanups once and before those of
\* the children, OnUnmounted after the children are gone (mountComponent,
\* patchRenderedVNode, Mounted.unmount): whatever hooks, renders and flushes
\* come in between, since a component is under one parent only, and neither
\* taken down nor rendered while a patch of it is in progress.
THEOREM HooksInOrderCorrect ==
  Spec => HooksInOrder
<1> DEFINE Step ==
      disturbed' = {} =>
        \A i \in Components :
          /\ CallsHook("mounted", i) =>
               ~mounted[i] /\ ~unmounted[i] /\ \A c \in ToSet(tree[i]) : mounted[c]
          /\ CallsHook("updated", i) =>
               /\ mounted[i] /\ ~unmounted[i]
               /\ \A c \in ToSet(tree'[i]) : mounted[c] /\ ~unmounted[c]
          /\ CallsHook("cleanup", i) =>
               mounted[i] /\ ~unmounted[i] /\ \A c \in ToSet(tree[i]) : ~unmounted[c]
          /\ CallsHook("unmounted", i) =>
               mounted[i] /\ unmounted[i] /\ \A c \in ToSet(tree[i]) : unmounted[c]
<1>1. HooksInv /\ Next => Step
  BY HooksCalm DEF HooksInv
<1>2. HooksInv /\ [Next]_vars => [Step]_vars
  BY <1>1
<1> HIDE DEF Step
<1>3. Spec => [][Step]_vars
  BY <1>2, HooksInvInit, HooksInvNext, PTL DEF Spec
<1> QED BY <1>3 DEF HooksInOrder, Step

-----------------------------------------------------------------------------
(* Init is called by mountComponent.                                       *)

LEMMA InitAboveMountNext ==
  ASSUME Shape, InitAboveMount(stack), [Next]_vars
  PROVE  InitAboveMount(stack')
<1>1. CASE UNCHANGED vars
  BY <1>1 DEF vars
<1>2. CASE Plain \/ Settling
  BY <1>2, PlainMoves, SettlingMoves, MoveKeeps
<1>3. ASSUME NEW i \in Components, NEW s \in Seq(AllFrames), InitAboveMount(s),
             stack' = <<Hook("init", i)>> \o (<<MountFrame(i)>> \o s)
      PROVE  InitAboveMount(stack')
  <2> DEFINE u == <<MountFrame(i)>> \o s
  <2>1. /\ MountFrame(i) \in AllFrames /\ MountFrame(i).kind = "mount"
        /\ Hook("init", i) \in AllFrames /\ Hook("init", i).inst = i
    BY ActivationTypes DEF Points
  <2>2. u \in Seq(AllFrames) /\ u # <<>> /\ Head(u) = MountFrame(i)
    BY <2>1, HeadPushed
  <2>3. InitAboveMount(u)
    BY <1>3, <2>1, InitPushed
  <2>4. stack' = <<Hook("init", i)>> \o u
    BY <1>3
  <2> HIDE DEF u
  <2> QED BY <2>1, <2>2, <2>3, <2>4, InitPushed
<1>4. ASSUME stack # <<>>
      PROVE  Below \in Seq(AllFrames) /\ InitAboveMount(Below)
  <2>1. stack \in Seq(AllFrames)
    BY DEF Shape
  <2> QED BY <1>4, <2>1, TopType, InitPopped DEF Below
<1>5. CASE Mount
  <2>1. /\ stack \in Seq(AllFrames) /\ Root \in Components
        /\ stack' = <<Hook("init", Root)>> \o (<<MountFrame(Root)>> \o stack)
    BY <1>5, MountStep DEF Shape
  <2> QED BY <1>3, <2>1
<1>6. ASSUME NEW c \in Components, MountChild(c)
      PROVE  InitAboveMount(stack')
  <2> DEFINE u == <<Chosen(Top, c)>> \o Below
  <2>1. /\ stack # <<>> /\ Top.kind = "patch" /\ Top.next # <<>>
        /\ stack' = <<Hook("init", c)>> \o (<<MountFrame(c)>> \o u)
    BY <1>6, MountChildStep
  <2>2. Chosen(Top, c) \in AllFrames /\ Chosen(Top, c).kind = "patch"
    BY <2>1, TopFields, ChildChosen DEF RuntimeKinds
  <2>3. u \in Seq(AllFrames) /\ InitAboveMount(u)
    BY <1>4, <2>1, <2>2, InitPushed, HeadPushed
  <2> HIDE DEF u
  <2> QED BY <1>3, <2>1, <2>3
<1>7. CASE MountRender
  <2> DEFINE u == <<Begun(Top)>> \o Below
  <2>1. /\ stack # <<>> /\ Top.kind = "mount"
        /\ stack' = <<R!Frame("run")>> \o u
    BY <1>7, MountRenderStep
  <2>2. Begun(Top) \in AllFrames /\ Begun(Top).kind = "mount"
    BY <2>1, TopFields, RenderBegun DEF RuntimeKinds
  <2>3. u \in Seq(AllFrames) /\ InitAboveMount(u)
    BY <1>4, <2>1, <2>2, InitPushed, HeadPushed
  <2> HIDE DEF u
  <2>4. R!Frame("run") \in AllFrames /\ R!Frame("run").kind = "run"
    BY GraphFrameTypes
  <2> QED BY <2>1, <2>3, <2>4, InitPushed
<1>8. CASE MountDone \/ MountFails
  <2>1. /\ stack # <<>> /\ Top.kind = "mount"
        /\ \/ stack' = Below
           \/ \E name \in Points \ {"init"} : stack' = <<Hook(name, Top.inst)>> \o Below
    BY <1>8, MountDoneStep, MountFailsStep DEF Points
  <2>2. \A name \in Points : /\ Hook(name, Top.inst) \in AllFrames
                             /\ Hook(name, Top.inst).at = name
    BY <2>1, TopFields, ActivationTypes DEF RuntimeKinds
  <2> QED BY <1>4, <2>1, <2>2, InitPushed
<1>9. Next => Plain \/ Settling \/ Mounting
  BY DEF Next, Plain, Settling, Mounting
<1> QED BY <1>1, <1>2, <1>5, <1>6, <1>7, <1>8, <1>9 DEF Mounting

LEMMA InitAboveMountInit ==
  ASSUME Init
  PROVE  InitAboveMount(stack)
<1>1. stack = <<>>
  BY DEF Init, R!Init
<1> QED BY <1>1 DEF InitAboveMount

-----------------------------------------------------------------------------
(* What live watchers have read is current, or they are going to run again. *)

\* A step takes at most the top off the stack.  Only the scheduler takes
\* notifications off it, and only the steps of an unmount its activation.
LEMMA StackKept ==
  ASSUME Shape, Next, ~Schedule
  PROVE  \/ ToSet(stack) \subseteq ToSet(stack')
         \/ /\ stack # <<>> /\ Top.kind # "notify" /\ ToSet(Below) \subseteq ToSet(stack')
            /\ Top.kind = "unmount" => UnmountTree \/ UnmountChild \/ UnmountDone
<1> DEFINE Goal ==
             \/ ToSet(stack) \subseteq ToSet(stack')
             \/ /\ stack # <<>> /\ Top.kind # "notify" /\ ToSet(Below) \subseteq ToSet(stack')
                /\ Top.kind = "unmount" => UnmountTree \/ UnmountChild \/ UnmountDone
<1>1. ASSUME stack # <<>>, Top.kind # "notify", ToSet(Below) \subseteq ToSet(stack'),
             Top.kind = "unmount" => UnmountTree \/ UnmountChild \/ UnmountDone
      PROVE  Goal
  BY <1>1
<1>2. stack \in Seq(AllFrames) /\ (stack # <<>> => Below \in Seq(AllFrames))
  BY TopType DEF Shape
<1>3. ASSUME NEW s \in Seq(AllFrames), NEW f \in AllFrames, stack' = <<f>> \o s
      PROVE  ToSet(s) \subseteq ToSet(stack')
  <2>1. ToSet(stack') = {f} \cup ToSet(s)
    BY <1>3, Pushed
  <2> QED BY <2>1
<1>4. ASSUME NEW s \in Seq(AllFrames), NEW f \in AllFrames, NEW g \in AllFrames,
             stack' = <<f>> \o (<<g>> \o s)
      PROVE  ToSet(s) \subseteq ToSet(stack')
  BY <1>4, PushedOnto
<1>5. \A i \in Components, name \in Points :
        Hook(name, i) \in AllFrames /\ MountFrame(i) \in AllFrames
  BY ActivationTypes
<1>6. \A kind \in {"batch", "run", "flush"} : R!Frame(kind) \in AllFrames
  BY GraphFrameTypes
<1>7. CASE \/ Update \/ WatchInInit \/ \E w \in Watchers : FlushRun(w)
  <2>1. stack' = <<R!Frame("run")>> \o stack
    BY <1>7, UpdateStep, WatchInInitStep, FlushRunStep
  <2> QED BY <1>2, <1>3, <1>6, <2>1
<1>8. CASE HookReturns
  BY <1>1, <1>8, HookReturnsStep
<1>9. CASE Calls
  <2>1. CASE \E s \in States : R!GetState(s)
    BY <2>1, GetStateStep
  <2>2. CASE \E s \in States : R!Set(s)
    <3>1. PICK s \in States : R!Set(s)
      BY <2>2
    <3>2. stack' = <<R!NotifyFrame(s)>> \o stack /\ R!NotifyFrame(s) \in AllFrames
      BY <3>1, SetStep, NotifyTypes
    <3> QED BY <1>2, <1>3, <3>2
  <2>3. CASE R!BatchBegin
    BY <1>2, <1>3, <1>6, <2>3, BatchBeginStep
  <2>4. CASE R!BatchEnd \/ R!EffectReturns
    <3>1. /\ stack # <<>> /\ Top.kind \in {"batch", "run"}
          /\ stack' = Below \/ stack' = <<R!Frame("flush")>> \o Below
      BY <2>4, BatchEndStep, EffectReturnsStep
    <3> QED BY <1>1, <1>2, <1>3, <1>6, <3>1
  <2> QED BY <1>9, <2>1, <2>2, <2>3, <2>4, CallsCases
<1>10. CASE Mount
  <2>1. Root \in Components /\ stack' = <<Hook("init", Root)>> \o (<<MountFrame(Root)>> \o stack)
    BY <1>10, MountStep
  <2>2. Hook("init", Root) \in AllFrames /\ MountFrame(Root) \in AllFrames
    BY <1>5, <2>1 DEF Points
  <2> QED BY <1>2, <1>4, <2>1, <2>2
<1>11. CASE MountRender
  <2>1. /\ stack # <<>> /\ Top.kind = "mount"
        /\ stack' = <<R!Frame("run")>> \o (<<Begun(Top)>> \o Below)
    BY <1>11, MountRenderStep
  <2>2. Begun(Top) \in AllFrames
    BY <2>1, TopFields, RenderBegun DEF RuntimeKinds
  <2> QED BY <1>1, <1>2, <1>4, <1>6, <2>1, <2>2
<1>12. CASE MountDone \/ MountFails \/ PatchFails \/ PatchDone \/ UnmountDone
  <2>1. /\ stack # <<>> /\ Top.kind \in {"mount", "patch", "unmount"}
        /\ Top.kind = "unmount" => UnmountDone
        /\ \/ stack' = Below
           \/ \E name \in Points : stack' = <<Hook(name, Top.inst)>> \o Below
    BY <1>12, MountDoneStep, MountFailsStep, PatchFailsStep, PatchDoneStep, UnmountDoneStep
    DEF Points
  <2>2. Top.inst \in Components
    BY <2>1, TopFields DEF RuntimeKinds
  <2> QED BY <1>1, <1>2, <1>3, <1>5, <2>1, <2>2
<1>13. CASE RenderReturns
  <2>1. /\ stack # <<>> /\ Top.kind = "run" /\ R!currentSubscriber \in Components
        /\ stack' = <<PatchFrame(R!currentSubscriber)>> \o Below
    BY <1>13, RenderReturnsStep
  <2> QED BY <1>1, <1>2, <1>3, <2>1, PatchFrameType
<1>14. CASE ChildDone \/ SkipOld \/ UnmountTree
  <2>1. /\ stack # <<>> /\ Top.kind \in {"patch", "unmount"}
        /\ Top.kind = "unmount" => UnmountTree
        /\ \/ Top.child # 0 /\ stack' = <<Adopted(Top)>> \o Below
           \/ Top.old # <<>> /\ stack' = <<Passed(Top)>> \o Below
           \/ \E q \in Seq(Components) : stack' = <<Taken(Top, q)>> \o Below
    BY <1>14, ChildDoneStep, SkipOldStep, UnmountTreeStep
  <2>2. /\ Top.child # 0 => Adopted(Top) \in AllFrames
        /\ Top.old # <<>> => Passed(Top) \in AllFrames
        /\ \A q \in Seq(Components) : Taken(Top, q) \in AllFrames
    BY <2>1, TopFields, ChildAdded, OldPassed, TreeTaken DEF RuntimeKinds
  <2> QED BY <1>1, <1>2, <1>3, <2>1, <2>2
<1>15. ASSUME NEW c \in Components, UpdateChild(c) \/ MountChild(c)
       PROVE  Goal
  <2> DEFINE u == <<Chosen(Top, c)>> \o Below
  <2>1. /\ stack # <<>> /\ Top.kind = "patch" /\ Top.next # <<>>
        /\ \/ stack' = <<R!Frame("run")>> \o u
           \/ stack' = <<Hook("init", c)>> \o (<<MountFrame(c)>> \o u)
    BY <1>15, UpdateChildStep, MountChildStep
  <2>2. Chosen(Top, c) \in AllFrames
    BY <2>1, TopFields, ChildChosen DEF RuntimeKinds
  <2>3. u \in Seq(AllFrames) /\ ToSet(Below) \subseteq ToSet(u)
    BY <1>2, <2>1, <2>2, Pushed
  <2>4. Hook("init", c) \in AllFrames /\ MountFrame(c) \in AllFrames
    BY <1>5 DEF Points
  <2> HIDE DEF u
  <2>5. ToSet(u) \subseteq ToSet(stack')
    BY <1>3, <1>4, <1>6, <2>1, <2>3, <2>4
  <2> QED BY <1>1, <2>1, <2>3, <2>5
<1>16. CASE RemoveChild \/ UnmountChild
  <2>1. /\ stack # <<>> /\ Top.kind \in {"patch", "unmount"} /\ Top.old # <<>>
        /\ Top.kind = "unmount" => UnmountChild
        /\ Head(Top.old) \in Components /\ <<Passed(Top)>> \o Below \in Seq(AllFrames)
        /\ \/ stack' = <<Passed(Top)>> \o Below
           \/ unmount(Head(Top.old), <<Passed(Top)>> \o Below)
    BY <1>16, RemoveChildStep, UnmountChildStep
  <2>2. Passed(Top) \in AllFrames
    BY <2>1, TopFields, OldPassed DEF RuntimeKinds
  <2> DEFINE u == <<Passed(Top)>> \o Below
  <2>3. ToSet(u) = {Passed(Top)} \cup ToSet(Below)
    BY <1>2, <2>1, <2>2, Pushed
  <2>4. ToSet(u) \subseteq ToSet(stack')
    <3>1. CASE stack' = u
      BY <3>1
    <3>2. CASE unmount(Head(Top.old), u)
      <4> DEFINE i == Head(Top.old)
      <4>1. ToSet(stack') = {Hook("cleanup", i), UnmountFrame(i)} \cup ToSet(u)
        BY <2>1, <3>2, UnmountProperties
      <4> HIDE DEF i, u
      <4> QED BY <4>1
    <3> QED BY <2>1, <3>1, <3>2
  <2> HIDE DEF u
  <2> QED BY <1>1, <2>1, <2>3, <2>4
<1>17. CASE Unmount
  <2>1. Root \in Components /\ stack \in Seq(AllFrames) /\ unmount(Root, stack)
    BY <1>17, UnmountStep
  <2>2. ToSet(stack') = {Hook("cleanup", Root), UnmountFrame(Root)} \cup ToSet(stack)
    BY <2>1, UnmountProperties
  <2> QED BY <2>2
<1> QED
  BY <1>7, <1>8, <1>9, <1>10, <1>11, <1>12, <1>13, <1>14, <1>15, <1>16, <1>17 DEF Next

LEMMA NotifiesKept ==
  ASSUME Shape, Next, ~Schedule
  PROVE  \A f \in ToSet(stack) : f.kind = "notify" => f \in ToSet(stack')
BY StackKept, TopType

LEMMA ToldKept ==
  ASSUME Shape, Next, ~Schedule
  PROVE  \A w : Told(stack, w) => Told(stack', w)
BY NotifiesKept DEF Told

\* A watcher has forgotten everything, or it is as it was.
LEMMA FreshKept ==
  ASSUME Shape, Fresh, UNCHANGED version,
         \A w \in Watchers :
           \/ deps'[w] = {} /\ (phase'[w] # "live" \/ obs'[w] = {})
           \/ /\ deps'[w] = deps[w] /\ obs'[w] = obs[w]
              /\ \A x \in States : w \in subscribers[x] => w \in subscribers'[x]
              /\ phase'[w] = "live" =>
                   /\ phase[w] = "live"
                   /\ queued[w] \/ Told(stack, w) => queued'[w] \/ Told(stack', w)
  PROVE  Fresh'
<1>1. ASSUME NEW w \in Watchers, NEW x \in deps'[w]
      PROVE  w \in subscribers'[x]
  <2>1. deps'[w] = deps[w] /\ x \in States /\ w \in subscribers[x]
    BY <1>1 DEF Fresh, Shape
  <2> QED BY <1>1, <2>1
<1>2. ASSUME NEW w \in Watchers, phase'[w] = "live", NEW r \in obs'[w]
      PROVE  /\ r[1] \in deps'[w]
             /\ r[2] = version'[r[1]] \/ queued'[w] \/ Told(stack', w)
  <2>1. /\ deps'[w] = deps[w] /\ obs'[w] = obs[w] /\ phase[w] = "live"
        /\ queued[w] \/ Told(stack, w) => queued'[w] \/ Told(stack', w)
    BY <1>2
  <2> QED BY <1>2, <2>1 DEF Fresh
<1> QED BY <1>1, <1>2 DEF Fresh

LEMMA FreshStarted ==
  ASSUME Shape, Fresh, UNCHANGED version, NEW w \in Watchers, Started(w),
         \A v \in Watchers : v # w =>
           /\ phase'[v] = phase[v]
           /\ queued[v] \/ Told(stack, v) => queued'[v] \/ Told(stack', v)
  PROVE  Fresh'
<1>1. /\ deps'[w] = {} /\ obs'[w] = {}
      /\ \A v \in Watchers : v # w => deps'[v] = deps[v] /\ obs'[v] = obs[v]
      /\ \A x \in States : subscribers[x] \ {w} \subseteq subscribers'[x]
  BY StartedProperties
<1> QED BY <1>1, FreshKept

LEMMA FreshStopped ==
  ASSUME Shape, Fresh, UNCHANGED <<version, obs>>,
         \A w : Told(stack, w) => Told(stack', w),
         NEW i \in Components, NEW effects \in SUBSET {Effect(i)}, stop(i, effects)
  PROVE  Fresh'
<1> DEFINE stopped == {i} \cup effects
<1>1. /\ \A w \in Watchers :
           /\ w \in stopped => phase'[w] = "stopped" /\ deps'[w] = {}
           /\ w \notin stopped =>
                phase'[w] = phase[w] /\ deps'[w] = deps[w] /\ queued'[w] = queued[w]
      /\ \A x \in States : subscribers'[x] = subscribers[x] \ stopped
  BY StopProperties
<1> HIDE DEF stopped
<1> QED BY <1>1, FreshKept

LEMMA FreshReading ==
  ASSUME Shape, Fresh, UNCHANGED <<version, phase, queued>>,
         \A w : Told(stack, w) => Told(stack', w),
         NEW s \in States, NEW y \in Watchers \cup {None}, Reading(s, y)
  PROVE  Fresh'
<1>1. /\ \A x \in States : subscribers[x] \subseteq subscribers'[x]
      /\ \A v \in Watchers : v # y => deps'[v] = deps[v] /\ obs'[v] = obs[v]
      /\ y # None => /\ deps'[y] = deps[y] \cup {s}
                     /\ s \notin deps[y] => y \in subscribers'[s]
                     /\ obs'[y] = obs[y] \cup {<<s, version[s]>>}
  BY ReadingProperties
<1>2. \A w \in Watchers : deps[w] \subseteq States
  BY DEF Shape
<1>3. y \in Watchers => y # None
  BY CurrentType
<1>4. ASSUME NEW w \in Watchers, NEW x \in deps'[w]
      PROVE  w \in subscribers'[x]
  BY <1>1, <1>2, <1>3, <1>4 DEF Fresh
<1>5. ASSUME NEW w \in Watchers, phase'[w] = "live", NEW r \in obs'[w]
      PROVE  /\ r[1] \in deps'[w]
             /\ r[2] = version'[r[1]] \/ queued'[w] \/ Told(stack', w)
  <2>1. CASE r \in obs[w]
    BY <1>1, <1>3, <1>5, <2>1 DEF Fresh
  <2>2. CASE r \notin obs[w]
    <3>1. w = y /\ r = <<s, version[s]>>
      BY <1>1, <1>3, <1>5, <2>2
    <3> QED BY <1>1, <1>3, <3>1
  <2> QED BY <2>1, <2>2
<1> QED BY <1>4, <1>5 DEF Fresh

LEMMA FreshSet ==
  ASSUME Shape, Fresh, NEW s \in States, R!Set(s)
  PROVE  Fresh'
<1>1. /\ version' = [version EXCEPT ![s] = @ + 1]
      /\ stack' = <<R!NotifyFrame(s)>> \o stack /\ stack \in Seq(AllFrames)
      /\ UNCHANGED <<obs, subscribers, deps, phase, queued>>
  BY SetStep, Unfolded DEF Shape
<1>2. /\ R!NotifyFrame(s) \in AllFrames /\ R!NotifyFrame(s).kind = "notify"
      /\ R!NotifyFrame(s).todo = subscribers[s]
  BY NotifyTypes
<1>3. ToSet(stack') = {R!NotifyFrame(s)} \cup ToSet(stack)
  BY <1>1, <1>2, Pushed
<1>4. \A w : Told(stack, w) \/ w \in subscribers[s] => Told(stack', w)
  BY <1>2, <1>3 DEF Told
<1>5. ASSUME NEW w \in Watchers, phase'[w] = "live", NEW r \in obs'[w]
      PROVE  /\ r[1] \in deps'[w]
             /\ r[2] = version'[r[1]] \/ queued'[w] \/ Told(stack', w)
  <2>1. /\ r \in obs[w] /\ r[1] \in deps[w] /\ r[1] \in States /\ w \in subscribers[r[1]]
        /\ r[2] = version[r[1]] \/ queued[w] \/ Told(stack, w)
    BY <1>1, <1>5 DEF Fresh, Shape
  <2>2. CASE r[1] = s
    BY <1>1, <1>4, <2>1, <2>2
  <2>3. CASE r[1] # s
    <3>1. version'[r[1]] = version[r[1]]
      BY <1>1, <2>1, <2>3 DEF Shape
    <3> QED BY <1>1, <1>4, <2>1, <3>1
  <2> QED BY <2>2, <2>3
<1> QED BY <1>1, <1>5 DEF Fresh

LEMMA FreshSchedule ==
  ASSUME Shape, Fresh, Schedule
  PROVE  Fresh'
<1>1. stack # <<>> /\ UNCHANGED graph
  BY ScheduleStep
<1>2. /\ UNCHANGED <<version, obs, subscribers, deps, phase>>
      /\ Top \in AllFrames /\ Below \in Seq(AllFrames)
      /\ ToSet(stack) = {Top} \cup ToSet(Below)
  BY <1>1, Unfolded, TopType
<1>3. queued \in [Watchers -> BOOLEAN]
  BY DEF Shape
<1>4. ASSUME Top.kind = "notify", NEW w
      PROVE  /\ <<Relieved(Top, w)>> \o Below \in Seq(AllFrames)
             /\ \A v : Told(stack, v) => v = w \/ Told(<<Relieved(Top, w)>> \o Below, v)
  <2>1. /\ Relieved(Top, w) \in AllFrames /\ Relieved(Top, w).kind = "notify"
        /\ Relieved(Top, w).todo = Top.todo \ {w}
    BY <1>2, <1>4, NotifyTypes
  <2>2. /\ <<Relieved(Top, w)>> \o Below \in Seq(AllFrames)
        /\ ToSet(<<Relieved(Top, w)>> \o Below) = {Relieved(Top, w)} \cup ToSet(Below)
    BY <1>2, <2>1, Pushed
  <2> QED BY <1>2, <2>1, <2>2 DEF Told
<1>5. ASSUME Top.kind = "notify", NEW w
      PROVE  \A v : Told(<<Relieved(Top, w)>> \o Below, v) =>
                      Told(<<R!Frame("flush")>> \o (<<Relieved(Top, w)>> \o Below), v)
  <2> DEFINE u == <<Relieved(Top, w)>> \o Below
  <2>1. u \in Seq(AllFrames)
    BY <1>4, <1>5
  <2> HIDE DEF u
  <2>2. ToSet(<<R!Frame("flush")>> \o u) = {R!Frame("flush")} \cup ToSet(u)
    BY <2>1, GraphFrameTypes, Pushed
  <2>3. \A v : Told(u, v) => Told(<<R!Frame("flush")>> \o u, v)
    BY <2>2 DEF Told
  <2> QED BY <2>3 DEF u
<1>6. ASSUME \A w \in Watchers : phase[w] = "live" =>
               (queued[w] \/ Told(stack, w) => queued'[w] \/ Told(stack', w))
      PROVE  Fresh'
  BY <1>2, <1>6, FreshKept
<1>7. CASE Top.kind = "notify" /\ \E w \in Top.todo :
             \/ /\ phase[w] # "stopped" /\ ~queued[w] /\ w \in Watchers
                /\ queued' = [queued EXCEPT ![w] = TRUE]
                /\ \/ stack' = <<Relieved(Top, w)>> \o Below
                   \/ stack' = <<R!Frame("flush")>> \o (<<Relieved(Top, w)>> \o Below)
             \/ /\ phase[w] = "stopped" \/ queued[w]
                /\ stack' = <<Relieved(Top, w)>> \o Below
                /\ UNCHANGED scheduler
  <2>1. PICK w \in Top.todo :
             \/ /\ phase[w] # "stopped" /\ ~queued[w] /\ w \in Watchers
                /\ queued' = [queued EXCEPT ![w] = TRUE]
                /\ \/ stack' = <<Relieved(Top, w)>> \o Below
                   \/ stack' = <<R!Frame("flush")>> \o (<<Relieved(Top, w)>> \o Below)
             \/ /\ phase[w] = "stopped" \/ queued[w]
                /\ stack' = <<Relieved(Top, w)>> \o Below
                /\ UNCHANGED scheduler
    BY <1>7
  <2>2. \A v : Told(stack, v) => v = w \/ Told(stack', v)
    BY <1>4, <1>5, <1>7, <2>1
  <2>3. /\ \A v \in Watchers : queued[v] => queued'[v]
        /\ w \in Watchers /\ phase[w] # "stopped" => queued'[w]
    BY <1>3, <2>1, Unfolded
  <2> QED BY <1>6, <2>2, <2>3
<1>8. CASE Top.kind = "notify" /\ Top.todo = {} /\ stack' = Below /\ UNCHANGED scheduler
  <2>1. \A v : Told(stack, v) => Told(stack', v)
    BY <1>2, <1>8 DEF Told
  <2> QED BY <1>6, <1>8, <2>1, Unfolded
<1>9. CASE Top.kind = "flush"
  <2>1. ToSet(Below) \subseteq ToSet(stack')
    BY <1>2, <1>9, ScheduleStep
  <2>2. \A v : Told(stack, v) => Told(stack', v)
    BY <1>2, <1>9, <2>1 DEF Told
  <2>3. \A v \in Watchers : phase[v] = "live" => (queued[v] => queued'[v])
    <3>1. \/ UNCHANGED queued
          \/ \E w \in Watchers : phase[w] = "stopped" /\ queued' = [queued EXCEPT ![w] = FALSE]
      BY <1>9, ScheduleStep, Unfolded
    <3> QED BY <1>3, <3>1
  <2> QED BY <1>6, <2>2, <2>3
<1>10. \/ Top.kind = "notify" /\ \E w \in Top.todo :
             \/ /\ phase[w] # "stopped" /\ ~queued[w] /\ w \in Watchers
                /\ queued' = [queued EXCEPT ![w] = TRUE]
                /\ \/ stack' = <<Relieved(Top, w)>> \o Below
                   \/ stack' = <<R!Frame("flush")>> \o (<<Relieved(Top, w)>> \o Below)
             \/ /\ phase[w] = "stopped" \/ queued[w]
                /\ stack' = <<Relieved(Top, w)>> \o Below
                /\ UNCHANGED scheduler
       \/ Top.kind = "notify" /\ Top.todo = {} /\ stack' = Below /\ UNCHANGED scheduler
       \/ Top.kind = "flush"
  BY ScheduleStep
<1> QED BY <1>7, <1>8, <1>9, <1>10

LEMMA FreshNext ==
  ASSUME Shape, Fresh, [Next]_vars
  PROVE  Fresh'
<1>1. CASE UNCHANGED vars
  <2>1. UNCHANGED <<version, obs, subscribers, deps, phase, queued, stack>>
    BY <1>1, Unfolded DEF vars
  <2> QED BY <2>1, FreshKept
<1>2. CASE Schedule
  BY <1>2, FreshSchedule
<1>3. CASE Next /\ ~Schedule
  <2>1. \A w : Told(stack, w) => Told(stack', w)
    BY <1>3, ToldKept
  <2>2. CASE UNCHANGED <<graph, scheduler>>
    BY <2>1, <2>2, Unfolded, FreshKept
  <2>3. CASE \/ Mount \/ MountDone \/ ChildDone \/ PatchFails \/ PatchDone \/ SkipOld
             \/ UnmountTree \/ UnmountDone \/ HookReturns
             \/ \E c \in Components : MountChild(c)
    <3>1. OnlyCalls => UNCHANGED <<graph, scheduler>>
      BY DEF OnlyCalls
    <3> QED BY <2>2, <2>3, <3>1, MountStep, MountDoneStep, ChildDoneStep, PatchFailsStep,
               PatchDoneStep, SkipOldStep, UnmountTreeStep, UnmountDoneStep, HookReturnsStep,
               MountChildStep
  <2>4. CASE Calls
    <3>1. ASSUME NEW s \in States, R!GetState(s)
          PROVE  Fresh'
      BY <2>1, <3>1, GetStateStep, Unfolded, FreshReading
    <3>2. ASSUME NEW s \in States, R!Set(s)
          PROVE  Fresh'
      BY <3>2, FreshSet
    <3>3. CASE R!BatchBegin \/ R!BatchEnd
      BY <2>1, <3>3, BatchBeginStep, BatchEndStep, Unfolded, FreshKept
    <3>4. CASE R!EffectReturns
      BY <2>2, <3>4, EffectReturnsStep
    <3> QED BY <2>4, <3>1, <3>2, <3>3, <3>4, CallsCases
  <2>5. CASE RenderReturns
    BY <2>1, <2>5, RenderReturnsStep, Unfolded, FreshReading
  <2>6. CASE Update \/ \E c \in Components : UpdateChild(c)
    BY <2>1, <2>6, UpdateStep, UpdateChildStep, Names, Unfolded, FreshStarted
  <2>7. CASE MountRender
    <3>1. Top.inst \in Components /\ Top.inst \in Watchers
      BY <2>7, MountRenderStep, TopFields, Names DEF RuntimeKinds
    <3>2. /\ phase' = [phase EXCEPT ![Top.inst] = "live"] /\ Started(Top.inst)
          /\ UNCHANGED <<version, queued>>
      BY <2>7, MountRenderStep, Unfolded
    <3>3. \A v \in Watchers : v # Top.inst => phase'[v] = phase[v]
      BY <3>1, <3>2 DEF Shape
    <3> QED BY <2>1, <3>1, <3>2, <3>3, FreshStarted
  <2>8. CASE WatchInInit
    <3>1. /\ Effect(Top.inst) \in Watchers /\ Started(Effect(Top.inst))
          /\ phase' = [phase EXCEPT ![Effect(Top.inst)] = "live"]
          /\ UNCHANGED <<version, queued>>
      BY <2>8, WatchInInitStep, Unfolded
    <3>2. \A v \in Watchers : v # Effect(Top.inst) => phase'[v] = phase[v]
      BY <3>1 DEF Shape
    <3> QED BY <2>1, <3>1, <3>2, FreshStarted
  <2>9. ASSUME NEW w \in Watchers, FlushRun(w)
        PROVE  Fresh'
    <3>1. /\ Started(w) /\ queued' = [queued EXCEPT ![w] = FALSE]
          /\ UNCHANGED <<version, phase>>
      BY <2>9, FlushRunStep
    <3>2. \A v \in Watchers : v # w => queued'[v] = queued[v]
      BY <3>1 DEF Shape
    <3> QED BY <2>1, <3>1, <3>2, FreshStarted
  <2>10. CASE MountFails
    <3>1. Top.inst \in Components
      BY <2>10, MountFailsStep, TopFields DEF RuntimeKinds
    <3> DEFINE stopped == IF Top.inst # Root THEN effectCleanups[Top.inst] ELSE {}
    <3>2. /\ stop(Top.inst, stopped) /\ stopped \in SUBSET {Effect(Top.inst)}
          /\ UNCHANGED <<version, obs>>
      BY <2>10, MountFailsStep
    <3> HIDE DEF stopped
    <3> QED BY <2>1, <3>1, <3>2, FreshStopped
  <2>11. ASSUME NEW i \in Components, NEW below \in Seq(AllFrames), unmount(i, below)
         PROVE  Fresh'
    <3>1. /\ stop(i, effectCleanups[i]) /\ effectCleanups[i] \in SUBSET {Effect(i)}
          /\ UNCHANGED <<version, obs>>
      BY <2>11, UnmountProperties
    <3> QED BY <2>1, <3>1, FreshStopped
  <2>12. CASE RemoveChild \/ UnmountChild \/ Unmount
    <3>1. \/ UNCHANGED <<graph, scheduler>>
          \/ \E i \in Components, below \in Seq(AllFrames) : unmount(i, below)
      <4>1. OnlyCalls => UNCHANGED <<graph, scheduler>>
        BY DEF OnlyCalls
      <4> QED BY <2>12, <4>1, RemoveChildStep, UnmountChildStep, UnmountStep
    <3> QED BY <2>2, <2>11, <3>1
  <2> QED BY <1>3, <2>3, <2>4, <2>5, <2>6, <2>7, <2>8, <2>9, <2>10, <2>12 DEF Next
<1> QED BY <1>1, <1>2, <1>3

LEMMA FreshInit ==
  ASSUME Init
  PROVE  Fresh
<1>1. deps = [w \in Watchers |-> {}] /\ obs = [w \in Watchers |-> {}]
  BY Names DEF Init, R!Init
<1> QED BY <1>1 DEF Fresh

-----------------------------------------------------------------------------
(* The patches that are going on. *)

LEMMA PatchesPushed ==
  ASSUME NEW s \in Seq(AllFrames), NEW f \in AllFrames
  PROVE  /\ <<f>> \o s \in Seq(AllFrames)
         /\ f.kind # "patch" => Patches(<<f>> \o s) = Patches(s)
         /\ f.kind = "patch" => Patches(<<f>> \o s) = Patches(s) \cup {f}
<1>1. <<f>> \o s \in Seq(AllFrames) /\ ToSet(<<f>> \o s) = {f} \cup ToSet(s)
  BY Pushed
<1> QED BY <1>1 DEF Patches

\* Two activations that are no patches.
LEMMA PatchesPushedTwo ==
  ASSUME NEW s \in Seq(AllFrames), NEW f \in AllFrames, NEW g \in AllFrames,
         f.kind # "patch", g.kind # "patch"
  PROVE  Patches(<<f>> \o (<<g>> \o s)) = Patches(s)
<1>1. ToSet(<<f>> \o (<<g>> \o s)) = {f, g} \cup ToSet(s)
  BY PushedOnto
<1> QED BY <1>1 DEF Patches

LEMMA PatchesTop ==
  ASSUME Shape, stack # <<>>
  PROVE  /\ Below \in Seq(AllFrames)
         /\ Top.kind # "patch" => Patches(stack) = Patches(Below)
         /\ Top.kind = "patch" =>
              /\ Patches(stack) = Patches(Below) \cup {Top}
              /\ Top \in Activations
         /\ Patches(stack) \subseteq Activations
<1>1. /\ Below \in Seq(AllFrames) /\ ToSet(stack) = {Top} \cup ToSet(Below)
      /\ ToSet(stack) \subseteq AllFrames
      /\ Top.kind \in RuntimeKinds => Top \in Activations
  BY TopType
<1>2. Patches(stack) \subseteq Activations
  BY <1>1, GraphFrameTypes DEF Patches, RuntimeKinds
<1> QED BY <1>1, <1>2 DEF Patches, RuntimeKinds

LEMMA PatchesOver ==
  ASSUME Shape, stack # <<>>, NEW f \in AllFrames, f.kind = "patch"
  PROVE  /\ <<f>> \o Below \in Seq(AllFrames)
         /\ Patches(<<f>> \o Below) = Patches(Below) \cup {f}
BY TopType, PatchesPushed

\* Steps that leave patches and trees alone.
LEMMA QuietPatches ==
  ASSUME Shape,
         \/ Plain \/ Mount \/ MountRender \/ MountDone \/ MountFails
         \/ UnmountTree \/ UnmountChild \/ Unmount
  PROVE  Patches(stack') = Patches(stack) /\ tree' = tree
<1>1. \A i \in Components, name \in Points :
        /\ Hook(name, i) \in AllFrames /\ Hook(name, i).kind = "hook"
        /\ MountFrame(i) \in AllFrames /\ MountFrame(i).kind = "mount"
        /\ UnmountFrame(i) \in AllFrames /\ UnmountFrame(i).kind = "unmount"
  BY ActivationTypes
<1>2. stack \in Seq(AllFrames)
  BY DEF Shape
<1>3. ASSUME NEW i \in Components, NEW s \in Seq(AllFrames), unmount(i, s)
      PROVE  Patches(stack') = Patches(s) /\ tree' = tree
  <2>1. stack' = <<Hook("cleanup", i)>> \o (<<UnmountFrame(i)>> \o s) /\ tree' = tree
    BY <1>3, UnmountProperties
  <2>2. "cleanup" \in Points
    BY DEF Points
  <2> QED BY <1>1, <2>1, <2>2, PatchesPushedTwo
<1>4. CASE Plain
  <2>1. Move(stack', TreeKinds) /\ tree' = tree /\ "patch" \in TreeKinds
    BY <1>4, PlainMoves, PlainKeeps DEF TreeKinds
  <2>2. /\ stack' \in Seq(AllFrames)
        /\ \A f \in AllFrames : f.kind = "patch" => (f \in ToSet(stack') <=> f \in ToSet(stack))
    BY <2>1, MoveKeeps
  <2>3. ToSet(stack') \subseteq AllFrames /\ ToSet(stack) \subseteq AllFrames
    BY <1>2, <2>2 DEF ToSet
  <2> QED BY <2>1, <2>2, <2>3 DEF Patches
<1>5. CASE Mount
  <2>1. /\ Root \in Components /\ tree' = tree
        /\ stack' = <<Hook("init", Root)>> \o (<<MountFrame(Root)>> \o stack)
    BY <1>5, MountStep, Unfolded
  <2>2. "init" \in Points
    BY DEF Points
  <2> QED BY <1>1, <1>2, <2>1, <2>2, PatchesPushedTwo
<1>6. CASE MountRender
  <2>1. /\ stack # <<>> /\ Top.kind = "mount" /\ tree' = tree
        /\ stack' = <<R!Frame("run")>> \o (<<Begun(Top)>> \o Below)
    BY <1>6, MountRenderStep
  <2>2. Begun(Top) \in AllFrames /\ Begun(Top).kind = "mount"
    BY <2>1, TopFields, RenderBegun DEF RuntimeKinds
  <2>3. R!Frame("run") \in AllFrames /\ R!Frame("run").kind = "run"
    BY GraphFrameTypes
  <2>4. Below \in Seq(AllFrames) /\ Patches(stack) = Patches(Below)
    BY <2>1, PatchesTop
  <2> QED BY <2>1, <2>2, <2>3, <2>4, PatchesPushedTwo
<1>7. CASE MountDone \/ MountFails
  <2>1. /\ stack # <<>> /\ Top.kind = "mount" /\ tree' = tree
        /\ \/ stack' = Below
           \/ \E name \in Points : stack' = <<Hook(name, Top.inst)>> \o Below
    BY <1>7, MountDoneStep, MountFailsStep DEF Points
  <2>2. Top.inst \in Components
    BY <2>1, TopFields DEF RuntimeKinds
  <2>3. Below \in Seq(AllFrames) /\ Patches(stack) = Patches(Below)
    BY <2>1, PatchesTop
  <2>4. ASSUME NEW name \in Points
        PROVE  Patches(<<Hook(name, Top.inst)>> \o Below) = Patches(Below)
    BY <1>1, <2>2, <2>3, PatchesPushed
  <2> QED BY <2>1, <2>3, <2>4
<1>8. CASE UnmountTree
  <2>1. /\ stack # <<>> /\ Top.kind = "unmount" /\ tree' = tree
        /\ tree[Top.inst] \in Seq(Components)
        /\ stack' = <<Taken(Top, tree[Top.inst])>> \o Below
    BY <1>8, UnmountTreeStep, Unfolded
  <2>2. /\ Taken(Top, tree[Top.inst]) \in AllFrames
        /\ Taken(Top, tree[Top.inst]).kind = "unmount"
    BY <2>1, TopFields, TreeTaken DEF RuntimeKinds
  <2>3. Below \in Seq(AllFrames) /\ Patches(stack) = Patches(Below)
    BY <2>1, PatchesTop
  <2> QED BY <2>1, <2>2, <2>3, PatchesPushed
<1>9. CASE UnmountChild
  <2> DEFINE u == <<Passed(Top)>> \o Below
  <2>1. /\ stack # <<>> /\ Top.kind = "unmount" /\ Top.old # <<>>
        /\ Head(Top.old) \in Components /\ u \in Seq(AllFrames)
        /\ \/ stack' = u /\ tree' = tree
           \/ unmount(Head(Top.old), u)
    BY <1>9, UnmountChildStep, Unfolded
  <2>2. Passed(Top) \in AllFrames /\ Passed(Top).kind = "unmount"
    BY <2>1, TopFields, OldPassed DEF RuntimeKinds
  <2>3. Below \in Seq(AllFrames) /\ Patches(stack) = Patches(Below)
    BY <2>1, PatchesTop
  <2>4. Patches(u) = Patches(stack)
    BY <2>2, <2>3, PatchesPushed
  <2> HIDE DEF u
  <2> QED BY <1>3, <2>1, <2>4
<1>10. CASE Unmount
  BY <1>3, <1>10, UnmountStep
<1> QED BY <1>4, <1>5, <1>6, <1>7, <1>8, <1>9, <1>10

\* The patch on top goes on.
LEMMA PatchGoesOn ==
  ASSUME Shape, ChildDone \/ SkipOld \/ RemoveChild
  PROVE  /\ stack # <<>> /\ Top.kind = "patch" /\ Top \in Activations /\ tree' = tree
         /\ ChildDone => Top.child # 0 /\ Patches(stack') = Patches(Below) \cup {Adopted(Top)}
         /\ ~ChildDone => Top.old # <<>> /\ Patches(stack') = Patches(Below) \cup {Passed(Top)}
<1>1. CASE ChildDone
  <2>1. /\ stack # <<>> /\ Top.kind = "patch" /\ Top.child # 0
        /\ stack' = <<Adopted(Top)>> \o Below /\ tree' = tree
    BY <1>1, ChildDoneStep, Unfolded
  <2>2. /\ Top \in Activations /\ Adopted(Top) \in AllFrames
        /\ Adopted(Top).kind = "patch"
    BY <2>1, TopFields, ChildAdded DEF RuntimeKinds
  <2> QED BY <1>1, <2>1, <2>2, PatchesOver
<1>2. CASE ~ChildDone
  <2> DEFINE u == <<Passed(Top)>> \o Below
             i == Head(Top.old)
  <2>1. /\ stack # <<>> /\ Top.kind = "patch" /\ Top.old # <<>>
        /\ \/ stack' = u /\ tree' = tree
           \/ unmount(i, u) /\ i \in Components
    BY <1>2, SkipOldStep, RemoveChildStep, Unfolded
  <2>2. Top \in Activations /\ Passed(Top) \in AllFrames /\ Passed(Top).kind = "patch"
    BY <2>1, TopFields, OldPassed DEF RuntimeKinds
  <2>3. u \in Seq(AllFrames) /\ Patches(u) = Patches(Below) \cup {Passed(Top)}
    BY <2>1, <2>2, PatchesOver
  <2> HIDE DEF u, i
  <2>4. ASSUME unmount(i, u), i \in Components
        PROVE  Patches(stack') = Patches(u) /\ tree' = tree
    <3>1. stack' = <<Hook("cleanup", i)>> \o (<<UnmountFrame(i)>> \o u) /\ tree' = tree
      BY <2>3, <2>4, UnmountProperties
    <3>2. /\ Hook("cleanup", i) \in AllFrames /\ Hook("cleanup", i).kind = "hook"
          /\ UnmountFrame(i) \in AllFrames /\ UnmountFrame(i).kind = "unmount"
      BY <2>4, ActivationTypes DEF Points
    <3> QED BY <2>3, <3>1, <3>2, PatchesPushedTwo
  <2> QED BY <1>2, <2>1, <2>2, <2>3, <2>4
<1> QED BY <1>1, <1>2

LEMMA ChildGoesOn ==
  ASSUME Shape, NEW c \in Components, UpdateChild(c) \/ MountChild(c)
  PROVE  /\ stack # <<>> /\ Top.kind = "patch" /\ Top \in Activations /\ tree' = tree
         /\ Top.child = 0 /\ Top.next # <<>> /\ TypeOf[c] = Head(Top.next)
         /\ Patches(stack') = Patches(Below) \cup {Chosen(Top, c)}
<1> DEFINE u == <<Chosen(Top, c)>> \o Below
<1>1. /\ stack # <<>> /\ Top.kind = "patch" /\ Top.child = 0 /\ Top.next # <<>>
      /\ TypeOf[c] = Head(Top.next) /\ tree' = tree
      /\ \/ stack' = <<R!Frame("run")>> \o u
         \/ stack' = <<Hook("init", c)>> \o (<<MountFrame(c)>> \o u)
  BY UpdateChildStep, MountChildStep, Unfolded
<1>2. Top \in Activations /\ Chosen(Top, c) \in AllFrames /\ Chosen(Top, c).kind = "patch"
  BY <1>1, TopFields, ChildChosen DEF RuntimeKinds
<1>3. u \in Seq(AllFrames) /\ Patches(u) = Patches(Below) \cup {Chosen(Top, c)}
  BY <1>1, <1>2, PatchesOver
<1> HIDE DEF u
<1>4. R!Frame("run") \in AllFrames /\ R!Frame("run").kind = "run"
  BY GraphFrameTypes
<1>5. Patches(<<R!Frame("run")>> \o u) = Patches(u)
  BY <1>3, <1>4, PatchesPushed
<1>6. /\ Hook("init", c) \in AllFrames /\ Hook("init", c).kind = "hook"
      /\ MountFrame(c) \in AllFrames /\ MountFrame(c).kind = "mount"
  BY ActivationTypes DEF Points
<1>7. Patches(<<Hook("init", c)>> \o (<<MountFrame(c)>> \o u)) = Patches(u)
  BY <1>3, <1>6, PatchesPushedTwo
<1> QED BY <1>1, <1>2, <1>3, <1>5, <1>7

\* A patch begins, and a patch or an unmount ends.
LEMMA PatchBegins ==
  ASSUME Shape, RenderReturns
  PROVE  Patches(stack') = Patches(stack) \cup {PatchFrame(R!currentSubscriber)}
<1>1. /\ stack # <<>> /\ Top.kind = "run" /\ R!currentSubscriber \in Components
      /\ stack' = <<PatchFrame(R!currentSubscriber)>> \o Below
  BY RenderReturnsStep
<1>2. /\ PatchFrame(R!currentSubscriber) \in AllFrames
      /\ PatchFrame(R!currentSubscriber).kind = "patch"
  BY <1>1, PatchFrameType
<1> QED BY <1>1, <1>2, PatchesTop, PatchesPushed

LEMMA TreeEnds ==
  ASSUME Shape, PatchDone \/ UnmountDone
  PROVE  /\ stack # <<>> /\ Below \in Seq(AllFrames)
         /\ Patches(stack') = Patches(Below)
<1>1. /\ stack # <<>> /\ Top.kind \in {"patch", "unmount"}
      /\ \/ stack' = Below
         \/ \E name \in Points : stack' = <<Hook(name, Top.inst)>> \o Below
  BY PatchDoneStep, UnmountDoneStep DEF Points
<1>2. \A name \in Points : /\ Hook(name, Top.inst) \in AllFrames
                           /\ Hook(name, Top.inst).kind = "hook"
  BY <1>1, TopFields, ActivationTypes DEF RuntimeKinds
<1>3. Below \in Seq(AllFrames)
  BY <1>1, PatchesTop
<1>4. ASSUME NEW name \in Points
      PROVE  Patches(<<Hook(name, Top.inst)>> \o Below) = Patches(Below)
  BY <1>2, <1>3, PatchesPushed
<1>5. Patches(stack') = Patches(Below)
  <2>1. CASE stack' = Below
    BY <2>1
  <2>2. ASSUME NEW name \in Points, stack' = <<Hook(name, Top.inst)>> \o Below
        PROVE  Patches(stack') = Patches(Below)
    BY <1>4, <2>2
  <2> QED BY <1>1, <2>1, <2>2
<1> QED BY <1>1, <1>3, <1>5

-----------------------------------------------------------------------------
(* No component is lost.                                                   *)

LEMMA PatchingPatches ==
  ASSUME NEW st, NEW i
  PROVE  Patching(st, i) <=> \E f \in Patches(st) : f.inst = i
BY DEF Patching, Patches, IsPatchOf

LEMMA GoneGrows ==
  ASSUME Shape, Next
  PROVE  Gone \subseteq Gone'
<1>1. ASSUME NEW i \in Components, NEW below \in Seq(AllFrames), unmount(i, below)
      PROVE  Gone \subseteq Gone'
  <2>1. unmounted' = [unmounted EXCEPT ![i] = TRUE]
    BY <1>1, UnmountProperties
  <2> QED BY <1>1, <2>1 DEF Gone, Shape
<1>2. CASE Plain
  BY <1>2, PlainKeeps
<1>3. CASE UNCHANGED unmounted
  BY <1>3 DEF Gone
<1>4. CASE Mount \/ MountRender \/ MountDone \/ MountFails \/ \E c \in Components : MountChild(c)
  BY <1>3, <1>4, MountStep, MountRenderStep, MountDoneStep, MountFailsStep, MountChildStep,
     Unfolded
<1>5. CASE \/ RenderReturns \/ ChildDone \/ PatchFails \/ PatchDone
           \/ \E c \in Components : UpdateChild(c)
           \/ SkipOld \/ UnmountTree \/ UnmountDone
  BY <1>3, <1>5, RenderReturnsStep, ChildDoneStep, PatchFailsStep, PatchDoneStep,
     UpdateChildStep, SkipOldStep, UnmountTreeStep, UnmountDoneStep, Unfolded
<1>6. CASE RemoveChild \/ UnmountChild \/ Unmount
  BY <1>1, <1>3, <1>6, RemoveChildStep, UnmountChildStep, UnmountStep, Unfolded
<1> QED BY <1>2, <1>4, <1>5, <1>6 DEF Next, Plain

\* Components are created by two steps only.
LEMMA MadeKept ==
  ASSUME Shape, Known, MountInv, Next
  PROVE  /\ Mount => Made' = Made \cup {Root}
         /\ \A c \in Components : MountChild(c) => Made' = Made \cup {c}
         /\ ~Mount /\ (\A c \in Components : ~MountChild(c)) => Made' \subseteq Made
<1>1. ASSUME Mount
      PROVE  Made' = Made \cup {Root}
  <2>1. /\ stack \in Seq(AllFrames) /\ Root \in Components /\ OnlyCalls
        /\ stack' = <<Hook("init", Root)>> \o (<<MountFrame(Root)>> \o stack)
    BY <1>1, MountStep DEF Shape
  <2>2. /\ MountFrame(Root) \in AllFrames /\ MountFrame(Root).kind = "mount"
        /\ MountFrame(Root).inst = Root
        /\ Hook("init", Root) \in AllFrames /\ Hook("init", Root).kind = "hook"
    BY <2>1, ActivationTypes DEF Points
  <2>3. ToSet(stack') = {Hook("init", Root), MountFrame(Root)} \cup ToSet(stack)
    BY <2>1, <2>2, PushedOnto
  <2>4. Creating(stack') = Creating(stack) \cup {Root}
    BY <2>1, <2>2, <2>3 DEF Creating
  <2>5. Olds' = Olds
    BY <2>1, Unfolded, OldKept
  <2> QED BY <2>4, <2>5 DEF Made
<1>2. ASSUME Plain \/ Settling
      PROVE  Made' \subseteq Made
  <2>1. Olds' \cap Components = Olds \cap Components
    BY <1>2, PlainKeeps, SettlingKeeps
  <2>2. Creating(stack') = Creating(stack)
    <3>1. "mount" \in TreeKinds /\ "mount" \in {"mount"}
      BY DEF TreeKinds
    <3> QED BY <1>2, <3>1, PlainMoves, SettlingMoves, MountsMoved
  <2> QED BY <2>1, <2>2 DEF Made
<1>3. ASSUME MountRender
      PROVE  Made' \subseteq Made
  <2>1. /\ stack # <<>> /\ Top.kind = "mount"
        /\ phase' = [phase EXCEPT ![Top.inst] = "live"]
        /\ stack' = <<R!Frame("run")>> \o (<<Begun(Top)>> \o Below)
    BY <1>3, MountRenderStep
  <2>2. /\ Top.inst \in Components /\ Below \in Seq(AllFrames)
        /\ ToSet(stack) = {Top} \cup ToSet(Below)
        /\ Begun(Top) \in AllFrames /\ Begun(Top).kind = "mount"
        /\ Begun(Top).inst = Top.inst
    BY <2>1, TopFields, RenderBegun DEF RuntimeKinds
  <2>3. ToSet(stack') = {R!Frame("run"), Begun(Top)} \cup ToSet(Below)
    BY <2>1, <2>2, GraphFrameTypes, PushedOnto
  <2>4. Creating(stack') = Creating(stack) /\ Top.inst \in Creating(stack)
    BY <2>1, <2>2, <2>3, GraphFrameTypes DEF Creating
  <2>5. Olds' = Olds \cup {Top.inst}
    BY <2>1, <2>2, Names, OldKept
  <2> QED BY <2>4, <2>5 DEF Made
<1>4. ASSUME MountDone \/ MountFails
      PROVE  Made' \subseteq Made
  <2>1. /\ stack # <<>> /\ Top.kind = "mount" /\ Top.at = "render"
        /\ \/ stack' = Below
           \/ \E name \in Points : stack' = <<Hook(name, Top.inst)>> \o Below
    BY <1>4, MountDoneStep, MountFailsStep DEF Points
  <2>2. /\ Top.inst \in Components /\ Below \in Seq(AllFrames) /\ Top \in ToSet(stack)
        /\ ToSet(stack) = {Top} \cup ToSet(Below)
    BY <2>1, TopFields DEF RuntimeKinds
  <2>3. \A f \in ToSet(stack') : f.kind = "mount" => f \in ToSet(stack)
    <3>1. CASE stack' = Below
      BY <2>2, <3>1
    <3>2. ASSUME NEW name \in Points, stack' = <<Hook(name, Top.inst)>> \o Below
          PROVE  \A f \in ToSet(stack') : f.kind = "mount" => f \in ToSet(stack)
      <4>1. Hook(name, Top.inst) \in AllFrames /\ Hook(name, Top.inst).kind = "hook"
        BY <2>2, ActivationTypes
      <4>2. ToSet(stack') = {Hook(name, Top.inst)} \cup ToSet(Below)
        BY <2>2, <3>2, <4>1, Pushed
      <4> QED BY <2>2, <4>1, <4>2
    <3> QED BY <2>1, <3>1, <3>2
  <2>4. Creating(stack') \subseteq Creating(stack)
    BY <2>3 DEF Creating
  <2>5. Top.inst \in Olds
    BY <2>1, <2>2 DEF Known, StackKnown, FrameKnown
  <2>6. Olds' \cap Components \subseteq Olds
    <3>1. CASE MountDone
      BY <3>1, MountDoneStep, Unfolded, OldKept
    <3>2. CASE MountFails
      <4> DEFINE stopped == IF Top.inst # Root THEN effectCleanups[Top.inst] ELSE {}
      <4>1. stop(Top.inst, stopped) /\ stopped \in SUBSET {Effect(Top.inst)}
        BY <3>2, MountFailsStep
      <4> HIDE DEF stopped
      <4>2. \A w \in Watchers : w \in {Top.inst} \cup stopped \/ phase'[w] = phase[w]
        BY <2>2, <4>1, StopProperties
      <4> QED BY <2>2, <2>5, <4>1, <4>2, Names DEF Olds, Old
    <3> QED BY <1>4, <3>1, <3>2
  <2> QED BY <2>4, <2>6 DEF Made
<1>5. \A c \in Components : MountChild(c) => Made' = Made \cup {c}
  BY MountChildMounts
<1>6. Next => Plain \/ Settling \/ Mounting
  BY DEF Next, Plain, Settling, Mounting
<1> QED BY <1>1, <1>2, <1>3, <1>4, <1>5, <1>6 DEF Mounting

LEMMA HomeKept ==
  ASSUME Patches(stack') = Patches(stack), tree' = tree, NEW c, Home(c)
  PROVE  Home(c)'
<1>1. \A p : Patching(stack', p) <=> Patching(stack, p)
  BY PatchingPatches
<1> QED BY <1>1 DEF Home

\* The patch on top has turned into f, and still holds c.
LEMMA HomeOn ==
  ASSUME Shape, stack # <<>>, Top.kind = "patch", tree' = tree,
         NEW f, f.inst = Top.inst, Patches(stack') = Patches(Below) \cup {f},
         NEW c, HeldBy(Top, c, Top.inst) => HeldBy(f, c, f.inst), Home(c)
  PROVE  Home(c)'
<1>1. Patches(stack) = Patches(Below) \cup {Top}
  BY PatchesTop
<1>2. \A p : Patching(stack', p) <=> Patching(stack, p)
  BY <1>1, PatchingPatches
<1> QED BY <1>1, <1>2 DEF Home

LEMMA AtHomeNext ==
  ASSUME Shape, Known, MountInv, Calm, AtHome, Next, disturbed' = {}
  PROVE  AtHome'
<1> SUFFICES ASSUME NEW c \in Made', c # Root, c \notin Gone'
             PROVE  Home(c)'
  BY DEF AtHome
<1>1. c \notin Gone /\ c \in Components
  BY GoneGrows DEF Made, Creating
<1>2. c \in Made => Home(c)
  BY <1>1 DEF AtHome
<1>3. (\A x \in Components : ~MountChild(x)) => c \in Made
  BY MadeKept
<1>4. CASE \/ Plain \/ Mount \/ MountRender \/ MountDone \/ MountFails
           \/ UnmountTree \/ UnmountChild \/ Unmount
  <2>1. Patches(stack') = Patches(stack) /\ tree' = tree
    BY <1>4, QuietPatches
  <2>2. c \in Made
    <3>1. ASSUME NEW x \in Components, MountChild(x)
          PROVE  FALSE
      <4>1. Patches(stack') = Patches(Below) \cup {Chosen(Top, x)} /\ Top.child = 0
            /\ Patches(stack) = Patches(Below) \cup {Top}
            /\ Top.kind = "patch" /\ stack # <<>> /\ Top \in Activations /\ Top.next # <<>>
        BY <3>1, ChildGoesOn, PatchesTop
      <4>2. Chosen(Top, x) \in Patches(stack) /\ Chosen(Top, x).child = x
            /\ Chosen(Top, x).inst = Top.inst
        BY <2>1, <4>1, ChildChosen
      <4>3. ~Patching(Below, Top.inst)
        BY <4>1, CalmTop DEF Calm
      <4>4. Chosen(Top, x) = Top
        BY <4>1, <4>2, <4>3, PatchingPatches
      <4> QED BY <4>1, <4>2, <4>4, Names
    <3> QED BY <1>3, <3>1
  <2> QED BY <1>2, <2>1, <2>2, HomeKept
<1>5. CASE ChildDone \/ SkipOld \/ RemoveChild
  <2>1. /\ stack # <<>> /\ Top.kind = "patch" /\ Top \in Activations /\ tree' = tree
        /\ ChildDone => Top.child # 0 /\ Patches(stack') = Patches(Below) \cup {Adopted(Top)}
        /\ ~ChildDone => Top.old # <<>> /\ Patches(stack') = Patches(Below) \cup {Passed(Top)}
    BY <1>5, PatchGoesOn
  <2>2. c \in Made
    <3>1. \A x \in Components : ~MountChild(x)
      <4>1. ASSUME NEW x \in Components, MountChild(x)
            PROVE  FALSE
        <5>1. Top.child = 0 /\ Top.next # <<>>
          BY <4>1, MountChildStep
        <5> QED BY <1>5, <5>1, ChildDoneStep, SkipOldStep, RemoveChildStep
      <4> QED BY <4>1
    <3> QED BY <1>3, <3>1
  <2>3. CASE ChildDone
    <3>1. Adopted(Top).inst = Top.inst
      BY <2>1, <2>3, ChildAdded
    <3>2. HeldBy(Top, c, Top.inst) => HeldBy(Adopted(Top), c, Top.inst)
      BY <1>1, <2>1, <2>3, HeldOn
    <3> QED BY <1>2, <2>1, <2>2, <2>3, <3>1, <3>2, HomeOn
  <2>4. CASE ~ChildDone
    <3>1. /\ Passed(Top).kind = Top.kind /\ Passed(Top).inst = Top.inst
          /\ Passed(Top).done = Top.done /\ Passed(Top).child = Top.child
          /\ ToSet(Top.old) = {Head(Top.old)} \cup ToSet(Passed(Top).old)
      BY <2>1, <2>4, OldPassed
    <3>2. c = Head(Top.old) => c \in ToSet(Top.done)
      <4>1. CASE SkipOld
        BY <1>1, <4>1, SkipOldStep DEF Gone
      <4>2. CASE RemoveChild
        <5>1. /\ Head(Top.old) \in Components
              /\ unmounted' = [unmounted EXCEPT ![Head(Top.old)] = TRUE]
          BY <4>2, RemoveChildStep, UnmountProperties
        <5>2. Head(Top.old) \in Gone'
          BY <5>1 DEF Gone, Shape
        <5> QED BY <5>2
      <4> QED BY <1>5, <2>4, <4>1, <4>2
    <3>3. HeldBy(Top, c, Top.inst) => HeldBy(Passed(Top), c, Passed(Top).inst)
      BY <3>1, <3>2 DEF HeldBy
    <3> QED BY <1>2, <2>1, <2>2, <2>4, <3>1, <3>3, HomeOn
  <2> QED BY <2>3, <2>4
<1>6. ASSUME NEW x \in Components, UpdateChild(x) \/ MountChild(x)
      PROVE  Home(c)'
  <2>1. /\ stack # <<>> /\ Top.kind = "patch" /\ Top \in Activations /\ tree' = tree
        /\ Top.child = 0 /\ Top.next # <<>>
        /\ Patches(stack') = Patches(Below) \cup {Chosen(Top, x)}
    BY <1>6, ChildGoesOn
  <2>2. /\ Chosen(Top, x).kind = "patch" /\ Chosen(Top, x).inst = Top.inst
        /\ Chosen(Top, x).child = x
    BY <2>1, ChildChosen
  <2>3. HeldBy(Top, c, Top.inst) => HeldBy(Chosen(Top, x), c, Chosen(Top, x).inst)
    BY <1>1, <2>1, <2>2, HeldOn
  <2>4. CASE c = x
    <3>1. HeldBy(Chosen(Top, x), c, Chosen(Top, x).inst)
      BY <2>2, <2>4 DEF HeldBy
    <3> QED BY <2>1, <3>1 DEF Home
  <2>5. CASE c # x
    <3>1. c \in Made
      <4>1. CASE MountChild(x)
        BY <2>5, <4>1, MadeKept
      <4>2. CASE UpdateChild(x)
        <5>1. \A y \in Components : ~MountChild(y)
          BY <4>2, UpdateChildStep, MountChildStep
        <5> QED BY <1>3, <5>1
      <4> QED BY <1>6, <4>1, <4>2
    <3> QED BY <1>2, <2>1, <2>2, <2>3, <3>1, HomeOn
  <2> QED BY <2>4, <2>5
<1>7. CASE RenderReturns
  <2> DEFINE i == R!currentSubscriber
             f == PatchFrame(i)
  <2>1. /\ stack # <<>> /\ Top.kind = "run" /\ i \in Components /\ tree' = tree
        /\ Patches(stack') = Patches(stack) \cup {f}
    BY <1>7, RenderReturnsStep, PatchBegins, Unfolded
  <2>2. /\ f.kind = "patch" /\ f.inst = i /\ f.old = tree[i]
    BY <2>1, PatchFrameType
  <2>3. c \in Made
    BY <1>3, <2>1, MountChildStep
  <2> HIDE DEF f, i
  <2>4. \A p : Patching(stack', p) <=> Patching(stack, p) \/ p = i
    BY <2>1, <2>2, PatchingPatches
  <2>5. c \in ToSet(tree[i]) => HeldBy(f, c, f.inst)
    BY <2>2 DEF HeldBy
  <2> QED BY <1>2, <2>1, <2>3, <2>4, <2>5 DEF Home
<1>8. CASE PatchDone
  <2>1. /\ stack # <<>> /\ Top.kind = "patch" /\ Top.inst \in Components
        /\ Top.child = 0 /\ Top.old = <<>>
        /\ tree' = [tree EXCEPT ![Top.inst] = Top.done]
        /\ Patches(stack') = Patches(Below)
    BY <1>8, PatchDoneStep, TreeEnds
  <2>2. Patches(stack) = Patches(Below) \cup {Top}
    BY <2>1, PatchesTop
  <2>3. ~Patching(Below, Top.inst)
    BY <2>1, CalmTop DEF Calm
  <2>4. \A p : Patching(stack', p) <=> Patching(stack, p) /\ p # Top.inst
    BY <2>1, <2>2, <2>3, PatchingPatches
  <2>5. c \in Made
    BY <1>3, <1>8, PatchDoneStep, MountChildStep
  <2>6. HeldBy(Top, c, Top.inst) => c \in ToSet(Top.done)
    BY <1>1, <2>1, SetEmpty, Names DEF HeldBy
  <2>7. tree'[Top.inst] = Top.done /\ \A p \in Components : p # Top.inst => tree'[p] = tree[p]
    BY <2>1 DEF Shape
  <2> QED BY <1>2, <2>1, <2>2, <2>4, <2>5, <2>6, <2>7, PatchingPatches DEF Home
<1>9. CASE UnmountDone
  <2>1. /\ stack # <<>> /\ Top.kind = "unmount" /\ Top.at = "children" /\ Top.old = <<>>
        /\ Top.inst \in Components
        /\ tree' = [tree EXCEPT ![Top.inst] = <<>>]
        /\ Patches(stack') = Patches(stack)
    BY <1>9, UnmountDoneStep, TreeEnds, PatchesTop, TopFields DEF RuntimeKinds
  <2>2. UnmountCalm(Top, Mounts, Gone, tree)
    BY <2>1, CalmTop DEF Calm, FrameCalm
  <2>3. c \notin ToSet(tree[Top.inst])
    BY <1>1, <2>1, <2>2, SetEmpty DEF UnmountCalm
  <2>4. \A p : Patching(stack', p) <=> Patching(stack, p)
    BY <2>1, PatchingPatches
  <2>5. c \in Made
    BY <1>3, <2>1, MountChildStep
  <2>6. \A p \in Components : p # Top.inst => tree'[p] = tree[p]
    BY <2>1 DEF Shape
  <2> QED BY <1>2, <2>1, <2>3, <2>4, <2>5, <2>6 DEF Home
<1>10. CASE PatchFails
  BY <1>10, PatchFailsStep
<1> QED BY <1>4, <1>5, <1>6, <1>7, <1>8, <1>9, <1>10 DEF Next, Plain

LEMMA UnmountingKept ==
  ASSUME Shape, Next, NEW p, Unmounting(stack, p), ~(UnmountDone /\ Top.inst = p)
  PROVE  Unmounting(stack', p)
<1>1. CASE ToSet(stack) \subseteq ToSet(stack')
  BY <1>1 DEF Unmounting
<1>2. ASSUME stack # <<>>, ToSet(Below) \subseteq ToSet(stack'), Top.kind # "unmount"
      PROVE  Unmounting(stack', p)
  BY <1>2, TopType DEF Unmounting
<1>3. CASE Schedule
  <2>1. stack # <<>> /\ Top.kind \in {"notify", "flush"}
    BY <1>3, ScheduleStep
  <2>2. Below \in Seq(AllFrames) /\ stack \in Seq(AllFrames) /\ Top \in AllFrames
    BY <2>1, TopType DEF Shape
  <2>3. ASSUME NEW w, Top.kind = "notify"
        PROVE  /\ ToSet(Below) \subseteq ToSet(<<Relieved(Top, w)>> \o Below)
               /\ ToSet(Below) \subseteq
                    ToSet(<<R!Frame("flush")>> \o (<<Relieved(Top, w)>> \o Below))
    <3>1. Relieved(Top, w) \in AllFrames /\ R!Frame("flush") \in AllFrames
      BY <2>2, <2>3, NotifyTypes, GraphFrameTypes
    <3>2. ToSet(<<Relieved(Top, w)>> \o Below) = {Relieved(Top, w)} \cup ToSet(Below)
      BY <2>2, <3>1, Pushed
    <3>3. ToSet(<<R!Frame("flush")>> \o (<<Relieved(Top, w)>> \o Below)) =
            {R!Frame("flush"), Relieved(Top, w)} \cup ToSet(Below)
      BY <2>2, <3>1, PushedOnto
    <3> QED BY <3>2, <3>3
  <2>4. ToSet(stack) \subseteq ToSet(stack') \/ ToSet(Below) \subseteq ToSet(stack')
    BY <1>3, <2>3, ScheduleStep
  <2> QED BY <1>1, <1>2, <2>1, <2>4
<1>4. CASE /\ ~Schedule /\ stack # <<>> /\ Top.kind = "unmount"
           /\ UnmountTree \/ UnmountChild
  <2>1. /\ stack # <<>> /\ Top.kind = "unmount" /\ Top \in Activations
        /\ ToSet(stack) = {Top} \cup ToSet(Below) /\ Below \in Seq(AllFrames)
    BY <1>4, UnmountTreeStep, UnmountChildStep, TopFields DEF RuntimeKinds
  <2>2. ASSUME NEW f \in AllFrames, f.kind = "unmount", f.inst = Top.inst,
               ToSet(<<f>> \o Below) \subseteq ToSet(stack')
        PROVE  Unmounting(stack', p)
    <3>1. ToSet(<<f>> \o Below) = {f} \cup ToSet(Below)
      BY <2>1, <2>2, Pushed
    <3> QED BY <2>1, <2>2, <3>1 DEF Unmounting
  <2>3. CASE UnmountTree
    <3>1. /\ stack' = <<Taken(Top, tree[Top.inst])>> \o Below
          /\ tree[Top.inst] \in Seq(Components)
      BY <2>3, UnmountTreeStep
    <3> QED BY <2>1, <2>2, <3>1, TreeTaken
  <2>4. CASE UnmountChild
    <3> DEFINE u == <<Passed(Top)>> \o Below
               i == Head(Top.old)
    <3>1. Top.old # <<>> /\ (stack' = u \/ (unmount(i, u) /\ i \in Components /\ u \in Seq(AllFrames)))
      BY <2>4, UnmountChildStep
    <3>2. /\ Passed(Top) \in AllFrames /\ Passed(Top).kind = "unmount"
          /\ Passed(Top).inst = Top.inst
      BY <2>1, <3>1, OldPassed
    <3>3. ToSet(u) \subseteq ToSet(stack')
      <4> HIDE DEF u, i
      <4>1. unmount(i, u) /\ i \in Components /\ u \in Seq(AllFrames) =>
              ToSet(stack') = {Hook("cleanup", i), UnmountFrame(i)} \cup ToSet(u)
        BY UnmountProperties
      <4> QED BY <3>1, <4>1
    <3> QED BY <2>2, <3>2, <3>3
  <2> QED BY <1>4, <2>3, <2>4
<1>5. CASE UnmountDone
  <2>1. /\ stack # <<>> /\ Top.kind = "unmount" /\ Top.inst \in Components
        /\ stack' = <<Hook("unmounted", Top.inst)>> \o Below
        /\ ToSet(stack) = {Top} \cup ToSet(Below) /\ Below \in Seq(AllFrames)
    BY <1>5, UnmountDoneStep, TopFields DEF RuntimeKinds
  <2>2. Hook("unmounted", Top.inst) \in AllFrames
    BY <2>1, ActivationTypes DEF Points
  <2>3. ToSet(stack') = {Hook("unmounted", Top.inst)} \cup ToSet(Below)
    BY <2>1, <2>2, Pushed
  <2> QED BY <1>5, <2>1, <2>3 DEF Unmounting
<1> QED BY <1>1, <1>2, <1>3, <1>4, <1>5, StackKept

LEMMA TreesOwnedNext ==
  ASSUME Shape, Known, MountInv, Calm, TreesOwned, Next, disturbed' = {}
  PROVE  TreesOwned'
<1> SUFFICES ASSUME NEW p \in Components, tree'[p] # <<>>
             PROVE  p \in Olds' /\ (p \in Gone' => Unmounting(stack', p))
  BY DEF TreesOwned
<1>1. Olds \subseteq Olds'
  BY MountInvNext
<1>2. ASSUME p \notin Gone, p \in Gone'
      PROVE  Unmounting(stack', p)
  <2>1. ASSUME NEW i \in Components, NEW below \in Seq(AllFrames), unmount(i, below)
        PROVE  Unmounting(stack', p)
    <3>1. /\ unmounted' = [unmounted EXCEPT ![i] = TRUE]
          /\ ToSet(stack') = {Hook("cleanup", i), UnmountFrame(i)} \cup ToSet(below)
      BY <2>1, UnmountProperties
    <3>2. p = i
      BY <1>2, <3>1 DEF Gone, Shape
    <3>3. UnmountFrame(i).kind = "unmount" /\ UnmountFrame(i).inst = i
      BY ActivationTypes
    <3> QED BY <3>1, <3>2, <3>3 DEF Unmounting
  <2>2. CASE RemoveChild \/ UnmountChild \/ Unmount
    BY <1>2, <2>1, <2>2, RemoveChildStep, UnmountChildStep, UnmountStep, Unfolded DEF Gone
  <2>3. CASE Plain
    BY <1>2, <2>3, PlainKeeps
  <2>4. CASE UNCHANGED unmounted
    BY <1>2, <2>4 DEF Gone
  <2>5. CASE \/ Mount \/ MountRender \/ MountDone \/ MountFails
             \/ \E c \in Components : MountChild(c)
    BY <2>4, <2>5, MountStep, MountRenderStep, MountDoneStep, MountFailsStep, MountChildStep,
       Unfolded
  <2>6. CASE \/ RenderReturns \/ ChildDone \/ PatchFails \/ PatchDone
             \/ \E c \in Components : UpdateChild(c)
             \/ SkipOld \/ UnmountTree \/ UnmountDone
    BY <2>4, <2>6, RenderReturnsStep, ChildDoneStep, PatchFailsStep, PatchDoneStep,
       UpdateChildStep, SkipOldStep, UnmountTreeStep, UnmountDoneStep, Unfolded
  <2> QED BY <2>2, <2>3, <2>5, <2>6 DEF Next, Plain
<1>3. CASE PatchDone
  <2>1. /\ stack # <<>> /\ Top.kind = "patch" /\ Top.inst \in Components
        /\ tree' = [tree EXCEPT ![Top.inst] = Top.done]
    BY <1>3, PatchDoneStep
  <2>2. Top.inst \in Olds
    <3>1. FrameKnown(Top, Olds)
      BY <2>1, TopKnown DEF Known, Shape
    <3> QED BY <2>1, <3>1 DEF FrameKnown
  <2>3. Top.inst \notin Gone
    BY <2>1, CalmTop DEF Calm, FrameCalm, PatchCalm
  <2>4. p # Top.inst => tree[p] # <<>>
    BY <2>1 DEF Shape
  <2>5. ~(UnmountDone /\ Top.inst = p)
    BY <2>1, UnmountDoneStep
  <2>6. p \in Olds /\ (p \in Gone => Unmounting(stack, p))
    BY <2>2, <2>3, <2>4 DEF TreesOwned
  <2> QED BY <1>1, <1>2, <2>5, <2>6, UnmountingKept
<1>4. CASE UnmountDone
  <2>1. Top.inst \in Components /\ tree' = [tree EXCEPT ![Top.inst] = <<>>]
    BY <1>4, UnmountDoneStep, TopFields DEF RuntimeKinds
  <2>2. p # Top.inst /\ tree[p] # <<>>
    BY <2>1 DEF Shape
  <2> QED BY <1>1, <1>2, <2>2, UnmountingKept DEF TreesOwned
<1>5. CASE ~PatchDone /\ ~UnmountDone
  <2>1. tree' = tree
    <3>1. PatchFails => disturbed' # {}
      BY PatchFailsStep
    <3>2. Settling => \/ RenderReturns \/ ChildDone \/ PatchDone
                      \/ \E c \in Components : UpdateChild(c)
                      \/ RemoveChild \/ SkipOld
                      \/ UnmountTree \/ UnmountChild \/ UnmountDone \/ Unmount
      BY <3>1 DEF Settling
    <3>3. Next => Plain \/ Settling \/ Mounting
      BY DEF Next, Plain, Settling, Mounting
    <3>4. RenderReturns => tree' = tree
      BY RenderReturnsStep, Unfolded
    <3> QED BY <1>5, <3>2, <3>3, <3>4, QuietPatches, PatchGoesOn, ChildGoesOn DEF Mounting
  <2> QED BY <1>1, <1>2, <1>5, <2>1, UnmountingKept DEF TreesOwned
<1> QED BY <1>3, <1>4, <1>5

LEMMA HomeNext ==
  ASSUME Shape, Known, MountInv, CalmInv, HomeInv, [Next]_vars
  PROVE  HomeInv'
<1>1. CASE UNCHANGED vars
  <2>1. UNCHANGED <<phase, stack, unmounted, tree, disturbed>>
    BY <1>1, Unfolded DEF vars
  <2>2. Made' = Made /\ Gone' = Gone /\ Olds' = Olds
    BY <2>1, OldKept DEF Made, Gone
  <2> QED BY <2>1, <2>2 DEF HomeInv, AtHome, TreesOwned, Home
<1>2. CASE Next /\ disturbed' = {}
  <2>1. disturbed = {}
    BY <1>2, DisturbedGrows
  <2>2. Calm /\ AtHome /\ TreesOwned
    BY <2>1 DEF CalmInv, HomeInv
  <2> QED BY <1>2, <2>2, AtHomeNext, TreesOwnedNext DEF HomeInv
<1> QED BY <1>1, <1>2 DEF HomeInv

LEMMA HomeInit ==
  ASSUME Init
  PROVE  HomeInv
<1>1. /\ stack = <<>> /\ phase = [w \in Watchers |-> "new"]
      /\ tree = [i \in Components |-> <<>>]
  BY Names DEF Init, R!Init
<1>2. Olds = {} /\ Creating(stack) = {}
  BY <1>1, SetEmpty DEF Olds, Old, Creating
<1> QED BY <1>1, <1>2 DEF HomeInv, AtHome, TreesOwned, Made

-----------------------------------------------------------------------------
(* Effects go with their components.                                       *)

LEMMA EffectSteps ==
  ASSUME Shape, Next, ~MountFails, ~WatchInInit
  PROVE  \/ \E i \in Components, below \in Seq(AllFrames) : unmount(i, below)
         \/ /\ UNCHANGED <<unmounted, effectCleanups>>
            /\ \A i \in Components : phase'[Effect(i)] = phase[Effect(i)]
<1>1. CASE UNCHANGED <<phase, unmounted, effectCleanups>>
  BY <1>1
<1>2. CASE Update \/ HookReturns \/ Calls \/ Schedule \/ \E w \in Watchers : FlushRun(w)
  <2>1. ASSUME Calls
        PROVE  UNCHANGED <<phase, unmounted, effectCleanups>>
    BY <2>1, CallsCases, GetStateStep, SetStep, BatchBeginStep, BatchEndStep,
       EffectReturnsStep, Unfolded
  <2>2. Update \/ HookReturns \/ Schedule => UNCHANGED <<phase, unmounted, effectCleanups>>
    BY UpdateStep, HookReturnsStep, ScheduleStep, Unfolded
  <2>3. \A w \in Watchers : FlushRun(w) => UNCHANGED <<phase, unmounted, effectCleanups>>
    BY FlushRunStep
  <2> QED BY <1>1, <1>2, <2>1, <2>2, <2>3
<1>3. CASE Mount \/ MountDone \/ \E c \in Components : MountChild(c)
  BY <1>1, <1>3, MountStep, MountDoneStep, MountChildStep, Unfolded
<1>4. CASE MountRender
  <2>1. /\ Top.inst \in Components
        /\ phase' = [phase EXCEPT ![Top.inst] = "live"]
        /\ UNCHANGED <<unmounted, effectCleanups>>
    BY <1>4, MountRenderStep, TopFields DEF RuntimeKinds
  <2>2. ASSUME NEW i \in Components
        PROVE  phase'[Effect(i)] = phase[Effect(i)]
    BY <2>1, Names DEF Shape
  <2> QED BY <2>1, <2>2
<1>5. CASE \/ RenderReturns \/ ChildDone \/ PatchFails \/ PatchDone
           \/ \E c \in Components : UpdateChild(c)
           \/ SkipOld \/ UnmountTree \/ UnmountDone
  BY <1>1, <1>5, RenderReturnsStep, ChildDoneStep, PatchFailsStep, PatchDoneStep,
     UpdateChildStep, SkipOldStep, UnmountTreeStep, UnmountDoneStep, Unfolded
<1>6. CASE RemoveChild \/ UnmountChild \/ Unmount
  BY <1>1, <1>6, RemoveChildStep, UnmountChildStep, UnmountStep, Unfolded
<1> QED BY <1>2, <1>3, <1>4, <1>5, <1>6 DEF Next

LEMMA EffectsOwnedNext ==
  ASSUME Shape, Known, MountInv, InitAboveMount(stack), Calm, EffectsOwned, Next
  PROVE  EffectsOwned'
<1> SUFFICES ASSUME NEW i \in Components,
                    Effect(i) \in Effects, phase'[Effect(i)] = "live"
             PROVE  Effect(i) \in effectCleanups'[i] /\ i \notin Gone' /\ i \in Made'
  BY DEF EffectsOwned
<1>1. Made \subseteq Made'
  BY MountInvNext
<1>2. Effect(i) \in Watchers /\ effectCleanups \in [Components -> SUBSET Effects]
  BY Names DEF Shape
<1>3. ~MountFails
  <2>1. SUFFICES ASSUME MountFails
                 PROVE  FALSE
    OBVIOUS
  <2>2. Top.inst \in Components /\ renderErr[Top.inst]
    BY <2>1, MountFailsStep, TopFields DEF RuntimeKinds
  <2> QED BY <2>2 DEF Calm, PhaseCalm
<1>4. CASE WatchInInit
  <2>1. /\ stack # <<>> /\ Top.kind = "hook" /\ Top.at = "init"
        /\ Effect(Top.inst) \in Watchers
        /\ phase' = [phase EXCEPT ![Effect(Top.inst)] = "live"]
        /\ effectCleanups' = [effectCleanups EXCEPT ![Top.inst] = @ \cup {Effect(Top.inst)}]
        /\ UNCHANGED unmounted
    BY <1>4, WatchInInitStep
  <2>2. Top.inst \in Components
    BY <2>1, TopFields DEF RuntimeKinds
  <2>3. Gone' = Gone
    BY <2>1 DEF Gone
  <2>4. CASE i = Top.inst
    <3>1. /\ Below # <<>> /\ Head(Below) = MountFrame(i) /\ Below \in Seq(AllFrames)
          /\ ToSet(stack) = {Top} \cup ToSet(Below)
      <4>1. stack \in Seq(AllFrames)
        BY DEF Shape
      <4>2. Tail(stack) # <<>> /\ Head(Tail(stack)) = MountFrame(Head(stack).inst)
        BY <2>1, <4>1, InitPopped DEF Top
      <4> QED BY <2>1, <2>4, <4>2, TopFields DEF Top, Below, RuntimeKinds
    <3>2. MountFrame(i) \in ToSet(stack)
      BY <3>1, SetPopped
    <3>3. MountFrame(i).kind = "mount" /\ MountFrame(i).inst = i
      BY ActivationTypes
    <3>4. i \in Creating(stack)
      BY <3>2, <3>3 DEF Creating
    <3>5. i \notin Mounts
      BY <3>2, <3>3 DEF MountInv, MountsOnce
    <3>6. i \notin Gone
      BY <3>5 DEF Calm, TreeCalm
    <3> QED BY <1>1, <1>2, <2>1, <2>3, <2>4, <3>4, <3>6 DEF Made
  <2>5. CASE i # Top.inst
    <3>1. Effect(i) # Effect(Top.inst)
      BY <2>2, <2>5, Names
    <3>2. phase[Effect(i)] = "live" /\ effectCleanups'[i] = effectCleanups[i]
      BY <1>2, <2>1, <2>5, <3>1 DEF Shape
    <3> QED BY <1>1, <2>3, <3>2 DEF EffectsOwned
  <2> QED BY <2>4, <2>5
<1>5. ASSUME NEW j \in Components, NEW below \in Seq(AllFrames), unmount(j, below)
      PROVE  Effect(i) \in effectCleanups'[i] /\ i \notin Gone' /\ i \in Made'
  <2>1. /\ stop(j, effectCleanups[j]) /\ effectCleanups[j] \in SUBSET {Effect(j)}
        /\ unmounted' = [unmounted EXCEPT ![j] = TRUE]
        /\ effectCleanups' = [effectCleanups EXCEPT ![j] = {}]
    BY <1>5, UnmountProperties
  <2>2. /\ Effect(i) \notin {j} \cup effectCleanups[j]
        /\ phase'[Effect(i)] = phase[Effect(i)]
    BY <1>2, <2>1, StopProperties
  <2>3. Effect(i) \in effectCleanups[i] /\ i \notin Gone /\ i \in Made
    BY <2>2 DEF EffectsOwned
  <2>4. i # j
    BY <2>2, <2>3
  <2>5. effectCleanups'[i] = effectCleanups[i] /\ unmounted'[i] = unmounted[i]
    BY <2>1, <2>4 DEF Shape
  <2> QED BY <1>1, <2>3, <2>5 DEF Gone
<1>6. CASE /\ UNCHANGED <<unmounted, effectCleanups>>
           /\ \A k \in Components : phase'[Effect(k)] = phase[Effect(k)]
  BY <1>1, <1>6 DEF EffectsOwned, Gone
<1> QED BY <1>3, <1>4, <1>5, <1>6, EffectSteps

LEMMA EffectsNext ==
  ASSUME Shape, Known, MountInv, InitAboveMount(stack), CalmInv, EffectsInv, [Next]_vars
  PROVE  EffectsInv'
<1>1. CASE UNCHANGED vars
  <2>1. UNCHANGED <<phase, stack, unmounted, effectCleanups, disturbed>>
    BY <1>1, Unfolded DEF vars
  <2>2. Made' = Made /\ Gone' = Gone
    BY <2>1, OldKept DEF Made, Gone
  <2> QED BY <2>1, <2>2 DEF EffectsInv, EffectsOwned
<1>2. CASE Next /\ disturbed' = {}
  <2>1. disturbed = {}
    BY <1>2, DisturbedGrows
  <2> QED BY <1>2, <2>1, EffectsOwnedNext DEF CalmInv, EffectsInv
<1> QED BY <1>1, <1>2 DEF EffectsInv

LEMMA EffectsInit ==
  ASSUME Init
  PROVE  EffectsInv
<1>1. phase = [w \in Watchers |-> "new"]
  BY Names DEF Init, R!Init
<1> QED BY <1>1, Names DEF EffectsInv, EffectsOwned

-----------------------------------------------------------------------------
(* What is shown is what was rendered.                                     *)

LEMMA NobodyCurrent ==
  ASSUME NEW ss \in Seq(Watchers), NoRender(ss)
  PROVE  (IF ss = <<>> THEN None ELSE Head(ss)) \notin Components
<1>1. None \notin Components
  BY Names, LifecycleConstants
<1>2. ASSUME ss # <<>>
      PROVE  Head(ss) \notin Components
  <2>1. ToSet(ss) = {Head(ss)} \cup ToSet(Tail(ss))
    BY <1>2, SetPopped
  <2> QED BY <2>1 DEF NoRender
<1> QED BY <1>1, <1>2

\* What a component has observed changes only when it is rendered.
LEMMA ObservedKept ==
  ASSUME Shape, Shape', RenderOnTop, Next, ~RenderReturns
  PROVE  /\ R!currentSubscriber \notin Components
         /\ R!currentSubscriber' \in Components => obs'[R!currentSubscriber'] = {}
         /\ \A i \in Components : i # R!currentSubscriber' => obs'[i] = obs[i]
<1>1. /\ NoRender(subscriberStack)
      /\ subscriberStack \in Seq(Watchers) /\ subscriberStack' \in Seq(Watchers)
  BY StepNobodyRenders DEF Shape
<1>2. R!currentSubscriber \notin Components
  BY <1>1, NobodyCurrent DEF R!currentSubscriber
<1> DEFINE Goal == /\ R!currentSubscriber' \in Components => obs'[R!currentSubscriber'] = {}
                   /\ \A i \in Components : i # R!currentSubscriber' => obs'[i] = obs[i]
<1> SUFFICES Goal
  BY <1>2
<1>3. ASSUME NEW w \in Watchers, Started(w)
      PROVE  Goal
  <2>1. /\ R!currentSubscriber' = w /\ obs'[w] = {}
        /\ \A v \in Watchers : v # w => obs'[v] = obs[v]
    BY <1>3, StartedProperties
  <2> QED BY <2>1, Names
<1>4. ASSUME ToSet(subscriberStack') \subseteq ToSet(subscriberStack),
             \A i \in Components : obs'[i] = obs[i]
      PROVE  Goal
  <2>1. NoRender(subscriberStack')
    BY <1>1, <1>4 DEF NoRender
  <2>2. R!currentSubscriber' \notin Components
    BY <1>1, <2>1, NobodyCurrent DEF R!currentSubscriber
  <2> QED BY <1>4, <2>2
<1> HIDE DEF Goal
<1>5. CASE UNCHANGED <<obs, subscriberStack>>
  BY <1>4, <1>5
<1>6. CASE Calls
  <2>1. ASSUME NEW s \in States, R!GetState(s)
        PROVE  Goal
    <3>1. /\ Reading(s, R!currentSubscriber) /\ UNCHANGED subscriberStack
          /\ R!currentSubscriber \in Watchers \cup {None}
      BY <2>1, GetStateStep
    <3>2. \A v \in Watchers : v # R!currentSubscriber => obs'[v] = obs[v]
      BY <3>1, ReadingProperties
    <3> QED BY <1>2, <1>4, <3>1, <3>2, Names
  <2>2. ASSUME R!EffectReturns
        PROVE  Goal
    <3>1. /\ ToSet(subscriberStack) = {Head(subscriberStack)} \cup ToSet(subscriberStack')
          /\ UNCHANGED obs
      BY <2>2, EffectReturnsStep, Unfolded
    <3> QED BY <1>4, <3>1
  <2>3. ASSUME R!BatchBegin \/ R!BatchEnd \/ \E s \in States : R!Set(s)
        PROVE  Goal
    BY <1>5, <2>3, SetStep, BatchBeginStep, BatchEndStep, Unfolded
  <2> QED BY <1>6, <2>1, <2>2, <2>3, CallsCases
<1>7. CASE Update \/ MountRender \/ WatchInInit
  <2>1. Update => Goal
    BY <1>3, UpdateStep, Names
  <2>2. MountRender => Goal
    BY <1>3, MountRenderStep, TopFields, Names DEF RuntimeKinds
  <2>3. WatchInInit => Goal
    BY <1>3, WatchInInitStep
  <2> QED BY <1>7, <2>1, <2>2, <2>3
<1>8. CASE \E c \in Components : UpdateChild(c) \/ MountChild(c)
  <2>1. PICK c \in Components : UpdateChild(c) \/ MountChild(c)
    BY <1>8
  <2>2. UpdateChild(c) => Goal
    BY <1>3, UpdateChildStep, Names
  <2>3. MountChild(c) => Goal
    BY <1>5, MountChildStep, Unfolded
  <2> QED BY <2>1, <2>2, <2>3
<1>9. CASE \E w \in Watchers : FlushRun(w)
  BY <1>3, <1>9, FlushRunStep
<1>10. CASE HookReturns \/ Schedule \/ Mount \/ MountDone
  BY <1>5, <1>10, HookReturnsStep, ScheduleStep, MountStep, MountDoneStep, Unfolded
<1>11. CASE MountFails
  BY <1>5, <1>11, MountFailsStep
<1>12. CASE ChildDone \/ PatchFails \/ PatchDone \/ SkipOld \/ UnmountTree \/ UnmountDone
  BY <1>5, <1>12, ChildDoneStep, PatchFailsStep, PatchDoneStep, SkipOldStep, UnmountTreeStep,
     UnmountDoneStep, Unfolded
<1>13. CASE RemoveChild \/ UnmountChild \/ Unmount
  <2>1. ASSUME NEW i \in Components, NEW below \in Seq(AllFrames), unmount(i, below)
        PROVE  UNCHANGED <<obs, subscriberStack>>
    BY <2>1, UnmountProperties
  <2>2. CASE UNCHANGED <<obs, subscriberStack>>
    BY <1>5, <2>2
  <2> QED BY <1>5, <1>13, <2>1, RemoveChildStep, UnmountChildStep, UnmountStep, Unfolded
<1> QED BY <1>6, <1>7, <1>8, <1>9, <1>10, <1>11, <1>12, <1>13 DEF Next

\* Only a render starts a component.
LEMMA LiveKept ==
  ASSUME Shape, Next, NEW i \in Components, phase'[i] = "live"
  PROVE  phase[i] = "live" \/ i = R!currentSubscriber'
<1>1. CASE UNCHANGED phase
  BY <1>1
<1>2. CASE Plain
  BY <1>2, PlainKeeps
<1>3. CASE Mount \/ MountDone \/ \E c \in Components : MountChild(c)
  BY <1>1, <1>3, MountStep, MountDoneStep, MountChildStep, Unfolded
<1>4. CASE MountRender
  <2>1. /\ Top.inst \in Components /\ Started(Top.inst)
        /\ phase' = [phase EXCEPT ![Top.inst] = "live"]
    BY <1>4, MountRenderStep, TopFields DEF RuntimeKinds
  <2>2. R!currentSubscriber' = Top.inst
    BY <2>1, StartedProperties, Names
  <2> QED BY <2>1, <2>2 DEF Shape
<1>5. ASSUME NEW j \in Components, NEW effects \in SUBSET {Effect(j)}, stop(j, effects)
      PROVE  phase[i] = "live"
  <2>1. i \in {j} \cup effects \/ phase'[i] = phase[i]
    BY <1>5, StopProperties, Names
  <2>2. i \in {j} \cup effects => phase'[i] = "stopped"
    BY <1>5, StopProperties, Names
  <2> QED BY <2>1, <2>2
<1>6. CASE MountFails
  <2> DEFINE stopped == IF Top.inst # Root THEN effectCleanups[Top.inst] ELSE {}
  <2>1. stop(Top.inst, stopped) /\ stopped \in SUBSET {Effect(Top.inst)}
    BY <1>6, MountFailsStep
  <2>2. Top.inst \in Components
    BY <1>6, MountFailsStep, TopFields DEF RuntimeKinds
  <2> HIDE DEF stopped
  <2> QED BY <1>5, <2>1, <2>2
<1>7. CASE \/ RenderReturns \/ ChildDone \/ PatchFails \/ PatchDone
           \/ \E c \in Components : UpdateChild(c)
           \/ SkipOld \/ UnmountTree \/ UnmountDone
  BY <1>1, <1>7, RenderReturnsStep, ChildDoneStep, PatchFailsStep, PatchDoneStep,
     UpdateChildStep, SkipOldStep, UnmountTreeStep, UnmountDoneStep, Unfolded
<1>8. CASE RemoveChild \/ UnmountChild \/ Unmount
  <2>1. ASSUME NEW j \in Components, NEW below \in Seq(AllFrames), unmount(j, below)
        PROVE  phase[i] = "live"
    BY <1>5, <2>1, UnmountProperties
  <2> QED BY <1>1, <1>8, <2>1, RemoveChildStep, UnmountChildStep, UnmountStep, Unfolded
<1> QED BY <1>2, <1>3, <1>4, <1>6, <1>7, <1>8 DEF Next, Plain

\* g is the patch f, further on.
Follows(g, f) ==
  /\ g.inst = f.inst
  /\ \A v \in Versions : RendersSoFar(f, v) => RendersSoFar(g, v)

PatchesGoOn ==
  /\ \A g \in Patches(stack') : \E f \in Patches(stack) : Follows(g, f)
  /\ \A p : Patching(stack, p) => Patching(stack', p)

LEMMA WantType ==
  ASSUME NEW i \in Components, NEW v \in Versions
  PROVE  Want(i, v) \in Seq(Types)
<1>1. TypeOf[i] \in Types
  BY LifecycleConstants
<1> QED BY <1>1, LifecycleConstants DEF Want, Versions

\* The child that is in place becomes the last that is done.
LEMMA AdoptedFollows ==
  ASSUME NEW f \in Activations, f.child # 0
  PROVE  Follows(Adopted(f), f)
<1> DEFINE g == Adopted(f)
           d == f.done
           n == f.next
           c == f.child
<1>1. /\ g.inst = f.inst /\ g.next = Tail(n) /\ g.done = Append(d, c) /\ g.child = 0
      /\ n # <<>> /\ n \in Seq(Types) /\ d \in Seq(Components) /\ c \in Components
  BY ChildAdded, FieldTypes
<1>2. /\ Len(Tail(n)) = Len(n) - 1 /\ Len(n) \in Nat \ {0} /\ Head(n) = n[1]
      /\ \A k \in 1 .. Len(n) - 1 : Tail(n)[k] = n[k + 1]
  BY <1>1, F!PopProperties
<1>3. /\ Len(Append(d, c)) = Len(d) + 1 /\ Len(d) \in Nat
      /\ \A k \in 1 .. Len(d) : Append(d, c)[k] = d[k]
      /\ Append(d, c)[Len(d) + 1] = c
  BY <1>1, AppendProperties
<1> HIDE DEF g, d, n, c
<1>4. ASSUME NEW v \in Versions, RendersSoFar(f, v)
      PROVE  RendersSoFar(g, v)
  <2> DEFINE w == Want(f.inst, v)
  <2>1. /\ Len(d) + Len(n) = Len(w)
        /\ \A k \in 1 .. Len(d) : TypeOf[d[k]] = w[k]
        /\ \A k \in 1 .. Len(n) : n[k] = w[Len(d) + k]
        /\ TypeOf[c] = Head(n)
    BY <1>4 DEF RendersSoFar, d, n, c
  <2> HIDE DEF w
  <2>2. Len(g.done) + Len(g.next) = Len(w)
    BY <1>1, <1>2, <1>3, <2>1
  <2>3. ASSUME NEW k \in 1 .. Len(g.done)
        PROVE  TypeOf[g.done[k]] = w[k]
    <3>1. CASE k = Len(d) + 1
      <4>1. n[1] = w[Len(d) + 1]
        BY <1>2, <2>1
      <4> QED BY <1>1, <1>2, <1>3, <2>1, <3>1, <4>1
    <3>2. CASE k # Len(d) + 1
      <4>1. k \in 1 .. Len(d)
        BY <1>1, <1>3, <3>2
      <4> QED BY <1>1, <1>3, <2>1, <4>1
    <3> QED BY <3>1, <3>2
  <2>4. ASSUME NEW k \in 1 .. Len(g.next)
        PROVE  g.next[k] = w[Len(g.done) + k]
    <3>1. k \in 1 .. Len(n) - 1 /\ k + 1 \in 1 .. Len(n)
      BY <1>1, <1>2
    <3>2. g.next[k] = n[k + 1] /\ n[k + 1] = w[Len(d) + (k + 1)]
      BY <1>1, <1>2, <2>1, <3>1
    <3>3. Len(g.done) + k = Len(d) + (k + 1)
      BY <1>1, <1>3, <3>1
    <3> QED BY <3>2, <3>3
  <2> QED BY <1>1, <2>2, <2>3, <2>4 DEF RendersSoFar, w
<1> QED BY <1>1, <1>4 DEF Follows, g

\* Other steps of a patch.
LEMMA PatchFollows ==
  ASSUME NEW f \in Activations
  PROVE  /\ Follows(f, f)
         /\ f.old # <<>> => Follows(Passed(f), f)
         /\ \A c \in Components :
              f.next # <<>> /\ TypeOf[c] = Head(f.next) => Follows(Chosen(f, c), f)
<1>1. Follows(f, f)
  BY DEF Follows
<1>2. f.old # <<>> => Follows(Passed(f), f)
  BY OldPassed DEF Follows, RendersSoFar
<1>3. ASSUME NEW c \in Components, f.next # <<>>, TypeOf[c] = Head(f.next)
      PROVE  Follows(Chosen(f, c), f)
  <2>1. /\ Chosen(f, c).inst = f.inst /\ Chosen(f, c).next = f.next
        /\ Chosen(f, c).done = f.done /\ Chosen(f, c).child = c
    BY <1>3, ChildChosen
  <2> QED BY <1>3, <2>1 DEF Follows, RendersSoFar
<1> QED BY <1>1, <1>2, <1>3

\* The patch on top follows itself, and those below stay.
LEMMA GoOn ==
  ASSUME Shape, stack # <<>>, Top.kind = "patch", NEW g, Follows(g, Top),
         Patches(stack') = Patches(Below) \cup {g}
  PROVE  PatchesGoOn
<1>1. /\ Patches(stack) = Patches(Below) \cup {Top}
      /\ Patches(stack) \subseteq Activations
  BY PatchesTop
<1>2. \A f \in Patches(Below) : Follows(f, f)
  BY <1>1, PatchFollows
<1>3. \A p : Patching(stack, p) => Patching(stack', p)
  BY <1>1, PatchingPatches DEF Follows
<1> QED BY <1>1, <1>2, <1>3 DEF PatchesGoOn

LEMMA StepGoesOn ==
  ASSUME Shape,
         \/ Plain \/ Mount \/ MountRender \/ MountDone
         \/ UnmountTree \/ UnmountChild \/ Unmount
         \/ ChildDone \/ SkipOld \/ RemoveChild
         \/ \E c \in Components : UpdateChild(c) \/ MountChild(c)
  PROVE  PatchesGoOn /\ tree' = tree
<1>1. CASE \/ Plain \/ Mount \/ MountRender \/ MountDone
           \/ UnmountTree \/ UnmountChild \/ Unmount
  <2>1. Patches(stack') = Patches(stack) /\ tree' = tree
    BY <1>1, QuietPatches
  <2>2. \A f \in Patches(stack) : Follows(f, f)
    BY DEF Follows
  <2>3. \A p : Patching(stack, p) => Patching(stack', p)
    BY <2>1, PatchingPatches
  <2> QED BY <2>1, <2>2, <2>3 DEF PatchesGoOn
<1>2. CASE ChildDone
  <2>1. /\ stack # <<>> /\ Top.kind = "patch" /\ Top \in Activations /\ tree' = tree
        /\ Top.child # 0 /\ Patches(stack') = Patches(Below) \cup {Adopted(Top)}
    BY <1>2, PatchGoesOn
  <2>2. Follows(Adopted(Top), Top)
    BY <2>1, AdoptedFollows
  <2> QED BY <2>1, <2>2, GoOn
<1>3. CASE (SkipOld \/ RemoveChild) /\ ~ChildDone
  <2>1. /\ stack # <<>> /\ Top.kind = "patch" /\ Top \in Activations /\ tree' = tree
        /\ Top.old # <<>> /\ Patches(stack') = Patches(Below) \cup {Passed(Top)}
    BY <1>3, PatchGoesOn
  <2>2. Follows(Passed(Top), Top)
    BY <2>1, PatchFollows
  <2> QED BY <2>1, <2>2, GoOn
<1>4. ASSUME NEW c \in Components, UpdateChild(c) \/ MountChild(c)
      PROVE  PatchesGoOn /\ tree' = tree
  <2>1. /\ stack # <<>> /\ Top.kind = "patch" /\ Top \in Activations /\ tree' = tree
        /\ Top.next # <<>> /\ TypeOf[c] = Head(Top.next)
        /\ Patches(stack') = Patches(Below) \cup {Chosen(Top, c)}
    BY <1>4, ChildGoesOn
  <2>2. Follows(Chosen(Top, c), Top)
    BY <2>1, PatchFollows
  <2> QED BY <2>1, <2>2, GoOn
<1> QED BY <1>1, <1>2, <1>3, <1>4

LEMMA ShownKept ==
  ASSUME Shape, Shape', RenderOnTop, Next, ~RenderReturns, Calm', Shown,
         PatchesGoOn, tree' = tree
  PROVE  Shown'
<1>1. /\ R!currentSubscriber \notin Components
      /\ R!currentSubscriber' \in Components => obs'[R!currentSubscriber'] = {}
      /\ \A i \in Components : i # R!currentSubscriber' => obs'[i] = obs[i]
  BY ObservedKept
<1>2. R!currentSubscriber' \in Components => ~Patching(stack', R!currentSubscriber')
  BY DEF Calm, CurrentCalm
<1>3. ASSUME NEW g \in Patches(stack')
      PROVE  \E v \in Versions : Observed(g.inst, v)' /\ RendersSoFar(g, v)
  <2>1. PICK f \in Patches(stack) : Follows(g, f)
    BY <1>3 DEF PatchesGoOn
  <2>2. PICK v \in Versions : Observed(f.inst, v) /\ RendersSoFar(f, v)
    BY DEF Shown
  <2>3. f.inst \in Components
    <3>1. stack # <<>>
      BY SetEmpty DEF Patches
    <3>2. f \in Activations
      BY <3>1, PatchesTop
    <3> QED BY <3>2, FieldTypes
  <2>4. Patching(stack', g.inst)
    BY <1>3, PatchingPatches
  <2>5. g.inst = f.inst /\ g.inst # R!currentSubscriber' /\ RendersSoFar(g, v)
    BY <1>2, <2>1, <2>2, <2>3, <2>4 DEF Follows
  <2>6. Observed(g.inst, v)'
    BY <1>1, <2>2, <2>3, <2>5 DEF Observed
  <2> QED BY <2>5, <2>6
<1>4. ASSUME NEW i \in Components, phase'[i] = "live", i # R!currentSubscriber',
             ~Patching(stack', i)
      PROVE  \E v \in Versions : Observed(i, v)' /\ Renders(i, tree'[i], v)
  <2>1. phase[i] = "live"
    BY <1>4, LiveKept
  <2>2. ~Patching(stack, i)
    BY <1>4 DEF PatchesGoOn
  <2>3. PICK v \in Versions : Observed(i, v) /\ Renders(i, tree[i], v)
    BY <1>1, <2>1, <2>2 DEF Shown
  <2>4. Observed(i, v)'
    BY <1>1, <1>4, <2>3 DEF Observed
  <2> QED BY <2>3, <2>4
<1> QED BY <1>1, <1>3, <1>4 DEF Shown

\* What a render function returns is shown from now on.
LEMMA ShownRender ==
  ASSUME Shape, Shape', RenderOnTop, Calm, Shown, RenderReturns
  PROVE  Shown'
<1>1. PICK i \in Components : i = R!currentSubscriber
  BY RenderReturnsStep
<1>2. /\ i \in Watchers /\ Input[TypeOf[i]] \in States /\ Reading(Input[TypeOf[i]], i)
      /\ i \in ToSet(subscriberStack) /\ subscriberStack # <<>>
      /\ subscriberStack' = Tail(subscriberStack)
      /\ Tail(subscriberStack) \in Seq(Watchers)
      /\ UNCHANGED <<version, phase, runtime>>
  BY <1>1, RenderReturnsStep
<1>3. PICK v \in Versions : v = version[Input[TypeOf[i]]]
  BY <1>2 DEF Shape, Versions
<1>4. tree' = tree
  BY <1>2, Unfolded
<1> DEFINE f == PatchFrame(i)
           w == Want(i, v)
<1>5. /\ Patches(stack') = Patches(stack) \cup {f}
      /\ \A g \in Patches(stack) : g.inst \in Components
  <2>1. stack # <<>>
    BY RenderReturnsStep
  <2> QED BY <1>1, <2>1, PatchBegins, PatchesTop, FieldTypes
<1>6. f.inst = i /\ f.done = <<>> /\ f.child = 0 /\ f.next = w
  BY <1>1, <1>3, PatchFrameType DEF PatchFrame, Activation, Want
<1>7. obs[i] = {} /\ ~Patching(stack, i)
  BY <1>1 DEF Shown, Calm, CurrentCalm
<1>8. R!currentSubscriber' \notin Components
  <2>1. NoRender(Tail(subscriberStack))
    <3>1. i \in Components \cap ToSet(subscriberStack)
      BY <1>2
    <3> QED BY <3>1 DEF RenderOnTop, NoRender
  <2> QED BY <1>2, <2>1, NobodyCurrent DEF R!currentSubscriber
<1>9. /\ \A y \in Watchers : y # i => obs'[y] = obs[y]
      /\ obs'[i] = obs[i] \cup {<<Input[TypeOf[i]], v>>}
  BY <1>2, <1>3, ReadingProperties, LifecycleConstants
<1>10. w \in Seq(Types)
  BY WantType
<1> HIDE DEF f
<1>11. RendersSoFar(f, v)
  <2>1. Len(w) \in Nat /\ Len(<<>>) = 0
    BY <1>10
  <2>2. \A k \in 1 .. Len(w) : w[k] = w[0 + k]
    BY <2>1
  <2> HIDE DEF w
  <2>3. Len(f.done) + Len(f.next) = Len(w)
    BY <1>6, <2>1
  <2>4. \A k \in 1 .. Len(f.done) : TypeOf[f.done[k]] = w[k]
    BY <1>6, <2>1
  <2>5. \A k \in 1 .. Len(f.next) : f.next[k] = w[Len(f.done) + k]
    BY <1>6, <2>1, <2>2
  <2> QED BY <1>6, <2>3, <2>4, <2>5 DEF RendersSoFar, w
<1>12. Observed(i, v)'
  BY <1>7, <1>9 DEF Observed
<1>13. \A g \in Patches(stack') :
         \E n \in Versions : Observed(g.inst, n)' /\ RendersSoFar(g, n)
  <2>1. ASSUME NEW g \in Patches(stack)
        PROVE  \E n \in Versions : Observed(g.inst, n)' /\ RendersSoFar(g, n)
    <3>1. g.inst # i /\ g.inst \in Watchers
      BY <1>5, <1>7, PatchingPatches, Names
    <3>2. PICK n \in Versions : Observed(g.inst, n) /\ RendersSoFar(g, n)
      BY DEF Shown
    <3>3. Observed(g.inst, n)'
      BY <1>9, <3>1, <3>2 DEF Observed
    <3> QED BY <3>2, <3>3
  <2> QED BY <1>5, <1>6, <1>11, <1>12, <2>1
<1>14. ASSUME NEW j \in Components, phase'[j] = "live", ~Patching(stack', j)
       PROVE  \E n \in Versions : Observed(j, n)' /\ Renders(j, tree'[j], n)
  <2>1. j # i /\ ~Patching(stack, j) /\ phase[j] = "live" /\ j \in Watchers
    BY <1>2, <1>5, <1>6, <1>14, PatchingPatches, Names
  <2>2. PICK n \in Versions : Observed(j, n) /\ Renders(j, tree[j], n)
    BY <1>1, <2>1 DEF Shown
  <2>3. Observed(j, n)'
    BY <1>9, <2>1, <2>2 DEF Observed
  <2> QED BY <1>4, <2>2, <2>3
<1> QED BY <1>8, <1>13, <1>14 DEF Shown

\* A tree is in place, or gone.
LEMMA ShownEnds ==
  ASSUME Shape, Shape', RenderOnTop, Next, Calm, Calm', Shown, PatchDone \/ UnmountDone
  PROVE  Shown'
<1>1. PICK i \in Components : i = Top.inst
  BY PatchDoneStep, UnmountDoneStep, TopFields DEF RuntimeKinds
<1>2. ~RenderReturns
  <2>1. Top.kind \in {"patch", "unmount"}
    BY PatchDoneStep, UnmountDoneStep
  <2> QED BY <2>1, RenderReturnsStep
<1>3. /\ R!currentSubscriber \notin Components
      /\ R!currentSubscriber' \in Components => obs'[R!currentSubscriber'] = {}
  BY <1>2, ObservedKept
<1>4. /\ stack # <<>> /\ Top.kind \in {"patch", "unmount"}
      /\ UNCHANGED <<obs, phase>>
      /\ \A p \in Components : p # i => tree'[p] = tree[p]
  BY <1>1, PatchDoneStep, UnmountDoneStep, Unfolded DEF Shape
<1>5. /\ Patches(stack') = Patches(Below)
      /\ \A f \in Patches(Below) : f \in Patches(stack)
      /\ \A f \in Patches(stack) : f.inst # i => f \in Patches(Below)
  BY <1>1, <1>4, TreeEnds, PatchesTop
<1>6. \A f \in Patches(stack') :
        \E v \in Versions : Observed(f.inst, v)' /\ RendersSoFar(f, v)
  BY <1>4, <1>5 DEF Shown, Observed
<1>7. ASSUME NEW j \in Components, phase'[j] = "live", ~Patching(stack', j)
      PROVE  \E v \in Versions : Observed(j, v)' /\ Renders(j, tree'[j], v)
  <2>1. CASE j # i
    <3>1. ~Patching(stack, j) /\ phase[j] = "live" /\ tree'[j] = tree[j]
      BY <1>4, <1>5, <1>7, <2>1, PatchingPatches
    <3>2. PICK v \in Versions : Observed(j, v) /\ Renders(j, tree[j], v)
      BY <1>3, <3>1 DEF Shown
    <3> QED BY <1>4, <3>1, <3>2 DEF Observed
  <2>2. CASE j = i /\ PatchDone
    <3>1. /\ Top \in Patches(stack) /\ Top.inst = i /\ Top.next = <<>>
          /\ tree' = [tree EXCEPT ![Top.inst] = Top.done]
          /\ Top.done \in Seq(Components)
      BY <1>1, <2>2, PatchDoneStep, PatchesTop, FieldTypes
    <3>2. PICK v \in Versions : Observed(i, v) /\ RendersSoFar(Top, v)
      BY <3>1 DEF Shown
    <3>3. tree'[i] = Top.done
      BY <1>1, <3>1 DEF Shape
    <3>4. Len(Top.next) = 0 /\ Len(Top.done) \in Nat
      BY <3>1
    <3>5. Renders(i, Top.done, v)
      BY <3>1, <3>2, <3>4 DEF RendersSoFar, Renders
    <3> QED BY <1>4, <2>2, <3>2, <3>3, <3>5 DEF Observed
  <2>3. CASE j = i /\ UnmountDone
    <3>1. Top.kind = "unmount" /\ FrameCalm(Top, Mounts, Gone, tree)
      BY <2>3, UnmountDoneStep, CalmTop DEF Calm
    <3>2. i \in Gone
      BY <1>1, <3>1 DEF FrameCalm, UnmountCalm
    <3>3. phase[i] = "stopped"
      BY <3>2 DEF Calm, PhaseCalm
    <3> QED BY <1>4, <1>7, <2>3, <3>3
  <2> QED BY <2>1, <2>2, <2>3
<1> QED BY <1>3, <1>6, <1>7 DEF Shown

LEMMA ShownNext ==
  ASSUME Shape, Known, RenderOnTop, MountInv, OneParent, CalmInv, ShownInv, [Next]_vars
  PROVE  ShownInv'
<1>1. CASE UNCHANGED vars
  <2>1. UNCHANGED <<version, obs, phase, stack, subscriberStack, tree, disturbed>>
    BY <1>1, Unfolded DEF vars
  <2> QED BY <2>1 DEF ShownInv, Shown, Observed, R!currentSubscriber
<1>2. CASE Next /\ disturbed' = {}
  <2>1. disturbed = {}
    BY <1>2, DisturbedGrows
  <2>2. Shape' /\ CalmInv'
    BY <1>2, ShapeStep, CalmNext
  <2>3. Calm /\ Calm' /\ Shown
    BY <1>2, <2>1, <2>2 DEF CalmInv, ShownInv
  <2>4. ~PatchFails
    BY <1>2, PatchFailsStep
  <2>5. ~MountFails
    <3>1. SUFFICES ASSUME MountFails
                   PROVE  FALSE
      OBVIOUS
    <3>2. Top.inst \in Components /\ renderErr[Top.inst]
      BY <3>1, MountFailsStep, TopFields DEF RuntimeKinds
    <3> QED BY <2>3, <3>2 DEF Calm, PhaseCalm
  <2>6. CASE RenderReturns
    BY <2>2, <2>3, <2>6, ShownRender DEF ShownInv
  <2>7. CASE PatchDone \/ UnmountDone
    BY <1>2, <2>2, <2>3, <2>7, ShownEnds DEF ShownInv
  <2>8. CASE /\ ~RenderReturns
             /\ \/ Plain \/ Mount \/ MountRender \/ MountDone
                \/ UnmountTree \/ UnmountChild \/ Unmount
                \/ ChildDone \/ SkipOld \/ RemoveChild
                \/ \E c \in Components : UpdateChild(c) \/ MountChild(c)
    <3>1. PatchesGoOn /\ tree' = tree
      BY <2>8, StepGoesOn
    <3> QED BY <1>2, <2>2, <2>3, <2>8, <3>1, ShownKept DEF ShownInv
  <2> QED BY <1>2, <2>4, <2>5, <2>6, <2>7, <2>8 DEF Next, Plain
<1> QED BY <1>1, <1>2 DEF ShownInv

LEMMA ShownInit ==
  ASSUME Init
  PROVE  ShownInv
<1>1. /\ stack = <<>> /\ subscriberStack = <<>>
      /\ phase = [w \in Watchers |-> "new"]
  BY Names DEF Init, R!Init
<1>2. R!currentSubscriber \notin Components
  BY <1>1, Names, LifecycleConstants DEF R!currentSubscriber
<1>3. Patches(stack) = {}
  BY <1>1, SetEmpty DEF Patches
<1>4. \A i \in Components : phase[i] # "live"
  BY <1>1, Names
<1> QED BY <1>2, <1>3, <1>4 DEF ShownInv, Shown

-----------------------------------------------------------------------------
(* Back in the program.                                                    *)

SettledInv ==
  /\ HooksInv /\ Tells /\ QueueInv
  /\ InitAboveMount(stack) /\ Fresh /\ HomeInv /\ ShownInv /\ EffectsInv

LEMMA SettledInvInit ==
  Init => SettledInv
BY HooksInvInit, TellsInit, QueueInit, InitAboveMountInit, FreshInit, HomeInit, ShownInit,
   EffectsInit DEF SettledInv

LEMMA SettledInvNext ==
  SettledInv /\ [Next]_vars => SettledInv'
<1> SUFFICES ASSUME SettledInv, [Next]_vars
             PROVE  SettledInv'
  OBVIOUS
<1>1. /\ HooksInv /\ Tells /\ QueueInv
      /\ InitAboveMount(stack) /\ Fresh /\ HomeInv /\ ShownInv /\ EffectsInv
  BY DEF SettledInv
<1>2. Shape /\ Known /\ RenderOnTop /\ MountInv /\ OneParent /\ CalmInv
  BY <1>1 DEF HooksInv
<1>3. HooksInv'
  BY <1>1, HooksInvNext
<1>4. Tells' /\ QueueInv'
  BY <1>1, <1>2, TellsNext, QueueNext
<1>5. InitAboveMount(stack') /\ Fresh' /\ HomeInv'
  BY <1>1, <1>2, InitAboveMountNext, FreshNext, HomeNext
<1>6. ShownInv' /\ EffectsInv'
  BY <1>1, <1>2, ShownNext, EffectsNext
<1> QED BY <1>3, <1>4, <1>5, <1>6 DEF SettledInv

\* No activation is left.
LEMMA SettledStack ==
  ASSUME SettledInv, stack = <<>>
  PROVE  /\ pending = <<>> /\ round = <<>> /\ ~flushing /\ batchDepth = 0
         /\ \A w \in Watchers : ~queued[w]
         /\ \A w : ~Told(stack, w)
         /\ Patches(stack) = {} /\ Creating(stack) = {}
         /\ \A i : ~Patching(stack, i) /\ ~Unmounting(stack, i)
         /\ R!currentSubscriber \notin Components
<1>1. ToSet(stack) = {}
  BY SetEmpty
<1>2. /\ \A w : ~Told(stack, w)
      /\ Patches(stack) = {} /\ Creating(stack) = {}
      /\ \A i : ~Patching(stack, i) /\ ~Unmounting(stack, i)
  BY <1>1 DEF Told, Patches, Creating, Patching, Unmounting
<1>3. ~flushing /\ batchDepth = 0
  <2>1. F!FlagTells(stack, flushing) /\ F!DepthTells(stack, batchDepth)
    BY DEF SettledInv, Tells, F!SchedulerTells
  <2>2. ~flushing
    BY <2>1 DEF F!FlagTells
  <2>3. F!BatchLevels(stack) = {}
    BY DEF F!BatchLevels
  <2>4. F!Cardinality({}) = 0
    BY GraphConstants, F!FS_EmptySet
  <2> QED BY <2>1, <2>2, <2>3, <2>4 DEF F!DepthTells
<1>4. pending = <<>> /\ round = <<>>
  BY <1>3 DEF SettledInv, QueueInv
<1>5. \A w \in Watchers : ~queued[w]
  BY <1>4, SetEmpty DEF SettledInv, QueueInv
<1>6. R!currentSubscriber \notin Components
  <2>1. NoRender(subscriberStack)
    BY DEF SettledInv, HooksInv, RenderOnTop, R!Running
  <2>2. subscriberStack \in Seq(Watchers)
    BY DEF SettledInv, HooksInv, Shape
  <2> QED BY <2>1, <2>2, NobodyCurrent DEF R!currentSubscriber
<1> QED BY <1>2, <1>3, <1>4, <1>5, <1>6

\* What a live watcher has read is current.
LEMMA SettledReadings ==
  ASSUME SettledInv, stack = <<>>
  PROVE  \A w \in Watchers : phase[w] = "live" => R!Current(obs[w])
BY SettledStack DEF SettledInv, Fresh, R!Current

\* The live components are those in the tree, each under one parent.
LEMMA SettledParents ==
  ASSUME SettledInv, stack = <<>>, disturbed = {}, NEW i \in Live
  PROVE  /\ i # Root => Cardinality({p \in Live : i \in ToSet(tree[p])}) = 1
         /\ ToSet(tree[i]) \subseteq Live
<1>1. /\ Shape /\ Known /\ OneParent /\ Calm /\ AtHome /\ TreesOwned
      /\ i \in Components /\ phase[i] = "live"
  BY DEF SettledInv, HooksInv, CalmInv, HomeInv, Live
<1>2. /\ Patches(stack) = {}
      /\ \A p : ~Patching(stack, p) /\ ~Unmounting(stack, p)
  BY SettledStack
<1>3. \A p \in Components : p \in Olds /\ p \notin Gone => p \in Live
  BY <1>1 DEF Calm, PhaseCalm, Olds, Old, Shape, Live
<1>4. i \in Made /\ i \notin Gone
  BY <1>1, Names DEF Made, Olds, Old, Calm, PhaseCalm
<1>5. ASSUME i # Root
      PROVE  Cardinality({p \in Live : i \in ToSet(tree[p])}) = 1
  <2>1. PICK p \in Components : i \in ToSet(tree[p])
    BY <1>1, <1>2, <1>4, <1>5 DEF AtHome, Home
  <2>2. tree[p] # <<>>
    BY <2>1, SetEmpty
  <2>3. p \in Live
    BY <1>1, <1>2, <1>3, <2>2 DEF TreesOwned
  <2>4. \A q \in Components : i \in ToSet(tree[q]) => p = q
    BY <1>1, <2>1 DEF OneParent, ParentsIn, Kid
  <2>5. {q \in Live : i \in ToSet(tree[q])} = {p}
    BY <2>1, <2>3, <2>4 DEF Live
  <2> QED BY <2>5, FS_Singleton
<1>6. ToSet(tree[i]) \subseteq Live
  <2>1. ToSet(tree[i]) \subseteq Olds
    BY <1>1 DEF Known, TreeKnown
  <2>2. ToSet(tree[i]) \cap Gone = {}
    BY <1>1, <1>2, <1>4 DEF Calm, TreeCalm
  <2>3. ToSet(tree[i]) \subseteq Components
    <3>1. tree[i] \in Seq(Components)
      BY <1>1 DEF Shape
    <3> QED BY <3>1 DEF ToSet
  <2> QED BY <1>3, <2>1, <2>2, <2>3
<1> QED BY <1>5, <1>6

\* A component shows what its render function makes of the current state.
LEMMA SettledShown ==
  ASSUME SettledInv, stack = <<>>, disturbed = {}, NEW i \in Live
  PROVE  /\ IsInjective(tree[i])
         /\ [k \in DOMAIN tree[i] |-> TypeOf[tree[i][k]]] =
              Shows[TypeOf[i]][version[Input[TypeOf[i]]]]
<1>1. /\ Shape /\ Shown /\ i \in Components /\ i \in Watchers /\ phase[i] = "live"
  BY Names DEF SettledInv, HooksInv, ShownInv, Live
<1>2. ~Patching(stack, i) /\ i # R!currentSubscriber
  BY <1>1, SettledStack
<1>3. PICK v \in Versions : Observed(i, v) /\ Renders(i, tree[i], v)
  BY <1>1, <1>2 DEF Shown
<1>4. v = version[Input[TypeOf[i]]]
  <2>1. <<Input[TypeOf[i]], v>> \in obs[i]
    BY <1>3 DEF Observed
  <2>2. R!Current(obs[i])
    BY <1>1, SettledReadings
  <2> QED BY <2>1, <2>2 DEF R!Current
<1> DEFINE t == tree[i]
           w == Want(i, v)
<1>5. t \in Seq(Components) /\ w \in Seq(Types)
  BY <1>1, WantType DEF Shape
<1>6. Len(t) = Len(w) /\ \A k \in 1 .. Len(t) : TypeOf[t[k]] = w[k]
  BY <1>3 DEF Renders
<1>7. IsInjective(w)
  <2>1. TypeOf[i] \in Types
    BY <1>1, LifecycleConstants
  <2> QED BY <2>1, LifecycleConstants DEF Want, Versions
<1>8. w = Shows[TypeOf[i]][version[Input[TypeOf[i]]]]
  BY <1>4 DEF Want
<1> HIDE DEF t, w
<1>9. DOMAIN t = 1 .. Len(t) /\ DOMAIN w = 1 .. Len(t)
  BY <1>5, <1>6
<1>10. IsInjective(t)
  <2>1. ASSUME NEW a \in DOMAIN t, NEW b \in DOMAIN t, t[a] = t[b]
        PROVE  a = b
    <3>1. w[a] = w[b]
      BY <1>6, <1>9, <2>1
    <3> QED BY <1>7, <1>9, <2>1, <3>1 DEF IsInjective
  <2> QED BY <2>1 DEF IsInjective
<1>11. [k \in DOMAIN t |-> TypeOf[t[k]]] = w
  <2>1. w = [k \in 1 .. Len(w) |-> w[k]]
    BY <1>5
  <2> QED BY <1>6, <1>9, <2>1
<1> QED BY <1>8, <1>10, <1>11 DEF t

LEMMA SettledTreeHolds ==
  SettledInv => SettledTree
<1> SUFFICES ASSUME SettledInv, stack = <<>>, disturbed = {}
             PROVE  /\ R!SettledFresh
                    /\ \A i \in Live :
                         /\ i # Root => Cardinality({p \in Live : i \in ToSet(tree[p])}) = 1
                         /\ ToSet(tree[i]) \subseteq Live /\ IsInjective(tree[i])
                         /\ [k \in DOMAIN tree[i] |-> TypeOf[tree[i][k]]] =
                              Shows[TypeOf[i]][version[Input[TypeOf[i]]]]
                    /\ \A i \in Components :
                         Effect(i) \in Effects => (phase[Effect(i)] = "live" => i \in Live)
  BY DEF SettledTree
<1>1. R!SettledFresh
  BY SettledStack, SettledReadings DEF R!SettledFresh, R!Fresh
<1>2. ASSUME NEW i \in Components, Effect(i) \in Effects, phase[Effect(i)] = "live"
      PROVE  i \in Live
  <2>1. i \notin Gone /\ i \in Made
    BY <1>2 DEF SettledInv, EffectsInv, EffectsOwned
  <2>2. i \in Olds
    BY <2>1, SettledStack DEF Made
  <2>3. phase \in [Watchers -> {"new", "live", "stopped"}] /\ PhaseCalm
    BY DEF SettledInv, HooksInv, Shape, CalmInv, Calm
  <2> QED BY <1>2, <2>1, <2>2, <2>3 DEF PhaseCalm, Olds, Old, Live
<1> QED BY <1>1, <1>2, SettledParents, SettledShown

\* When control is back in the program, the scheduler is idle and no live
\* watcher is stale; and if no patch was disturbed or failed, the live
\* components are those of the tree, each in one place, each shows what it
\* renders from the current state, and the effect of a component has stopped
\* with it (mountComponent, patchRenderedVNode, Mounted.unmount, the scheduler):
\* for any component types, any depth of the tree and any number of Sets by
\* hooks, effects and batches in between.
THEOREM SettledTreeCorrect ==
  Spec => []SettledTree
<1>1. Spec => []SettledInv
  BY SettledInvInit, SettledInvNext, PTL DEF Spec
<1> QED BY <1>1, SettledTreeHolds, PTL
============================
