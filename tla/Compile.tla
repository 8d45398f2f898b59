-------------------------------- MODULE Compile --------------------------------
(***************************************************************************)
(* From parsed files to generated code, as tue build and tue generate do   *)
(* it: the checker goes over all files, then, when it has nothing to       *)
(* report, the generator does.  The templates of a project are chosen in   *)
(* the initial state.                                                      *)
(*                                                                         *)
(* The generated code is run (Run, on a state of the component) and what   *)
(* it renders is compared with what the template says (Meaning), which is  *)
(* defined without regard to how the generator goes about it.              *)
(***************************************************************************)
EXTENDS Checker, Codegen

CONSTANTS
  Projects,      \* sequences of files
  Environments   \* states of a component: the value of every symbol

VARIABLES
  files,        \* [component, package, scoped, nodes] of each file
  stage,        \* "index", "check", "generate", or how the command ended
  at,           \* the file that is next
  diagnostics,
  output        \* the code generated for the files so far

vars == <<files, stage, at, diagnostics, output>>

Init ==
  /\ files \in Projects
  /\ stage = "index"
  /\ at = 1
  /\ diagnostics = {}
  /\ output = <<>>

\* Two files may not declare the same component; the check goes on.
IndexComponents ==
  /\ stage = "index"
  /\ diagnostics' = Unless(\A i, j \in DOMAIN files :
                             i # j => files[i].component # files[j].component,
                           "duplicate component")
  /\ stage' = "check"
  /\ UNCHANGED <<files, at, output>>

CheckFile ==
  /\ stage = "check"
  /\ at <= Len(files)
  /\ diagnostics' = diagnostics \cup CheckNodes(files[at].nodes, componentScope)
  /\ at' = at + 1
  /\ UNCHANGED <<files, stage, output>>

\* The command stops at the diagnostics of the check.
FinishCheck ==
  /\ stage = "check"
  /\ at > Len(files)
  /\ stage' = IF diagnostics = {} THEN "generate" ELSE "rejected"
  /\ at' = 1
  /\ UNCHANGED <<files, diagnostics, output>>

\* The first file sets the package of the generated cache.
GenerateFile ==
  /\ stage = "generate"
  /\ at <= Len(files)
  /\ \E code \in {IF files[at].package # files[1].package THEN Failure("two packages")
                  ELSE RenderNodes(files[at].nodes, FileContext(files[at].scoped))} :
       \E failures \in {Diagnostics(code)} :
         /\ diagnostics' = diagnostics \cup failures
         /\ output' = IF failures = {} THEN Append(output, code) ELSE output
  /\ at' = at + 1
  /\ UNCHANGED <<files, stage>>

\* A result is returned for all files or for none.
FinishGenerate ==
  /\ stage = "generate"
  /\ at > Len(files)
  /\ stage' = IF diagnostics = {} THEN "generated" ELSE "failed"
  /\ output' = IF diagnostics = {} THEN output ELSE <<>>
  /\ UNCHANGED <<files, at, diagnostics>>

Next ==
  \/ IndexComponents
  \/ CheckFile
  \/ FinishCheck
  \/ GenerateFile
  \/ FinishGenerate

Spec == Init /\ [][Next]_vars
-----------------------------------------------------------------------------
(* Running the generated code.  c has the state of the component, env; the *)
(* Go variables of v-for, locals; and the component whose default slot a   *)
(* <slot> shows, owner.  A fragment is the list of its children.           *)

Apply(op, name, args) ==
  CASE op = "!" -> ~args[1]
    [] op = "&&" -> args[1] /\ args[2]
    [] op = "==" -> args[1] = args[2]
    [] op = "+" -> args[1] \o args[2]
    [] op = "field" -> args[1][name]
    [] op = "item" -> args[1][1]
    [] op = "always" -> TRUE
    [] op = "literal" -> name

RECURSIVE Evaluate(_, _)

Evaluate(x, c) ==
  CASE x.from = "local" -> c.locals[x.name]
    [] x.from = "component" -> c.env[x.name]
    [] OTHER -> Apply(x.from, x.name, [i \in DOMAIN x.args |-> Evaluate(x.args[i], c)])

RECURSIVE Run(_, _)

RunAll(terms, c) == FlattenSeq([i \in DOMAIN terms |-> Run(terms[i], c)])

\* The first branch of an if or a switch that passes.
RunBranches(term, c) ==
  LET value == IF term.op = "switch" THEN Evaluate(term.value, c) ELSE TRUE
      passing == {i \in DOMAIN term.tests :
                    term.tests[i].from = "always" \/ Evaluate(term.tests[i], c) = value}
  IN IF passing = {} THEN <<>> ELSE Run(term.nodes[Min(passing)], c)

RunElement(term, c) ==
  [kind |-> "element", tag |-> term.tag, events |-> term.events,
   attrs |-> [i \in DOMAIN term.attrs |->
                [name |-> term.attrs[i].name,
                 values |-> [j \in DOMAIN term.attrs[i].parts |->
                               Evaluate(term.attrs[i].parts[j], c)]]],
   html |-> [i \in DOMAIN term.html |-> Evaluate(term.html[i], c)],
   children |-> RunAll(term.nodes, c)]

\* The content of a component is rendered when the component renders its
\* slot: by then it is the component in scope.
RunComponent(term, c) ==
  [kind |-> "component", tag |-> term.tag, events |-> term.events, scoped |-> term.scoped,
   props |-> [p \in DOMAIN term.props |-> Evaluate(term.props[p], c)],
   content |-> RunAll(term.nodes, [c EXCEPT !.owner = term.tag])]

RunFor(term, c) ==
  LET items == Evaluate(term.source, c)
      inner(i) == [c EXCEPT !.locals = [n \in term.index |-> i - 1]
                                         @@ (term.item :> items[i]) @@ c.locals]
  IN [i \in DOMAIN items |->
        [kind |-> "item", key |-> Evaluate(term.key, inner(i)),
         children |-> RunAll(term.nodes, inner(i))]]

Run(term, c) ==
  CASE term.op = "text" -> <<[kind |-> "text", value |-> Evaluate(term.value, c)]>>
    [] term.op = "element" -> <<RunElement(term, c)>>
    [] term.op = "component" -> <<RunComponent(term, c)>>
    [] term.op = "slot" ->
         <<[kind |-> "slot", owner |-> c.owner, children |-> RunAll(term.nodes, c)]>>
    [] term.op = "fragment" -> RunAll(term.nodes, c)
    [] term.op \in {"chain", "switch"} -> RunBranches(term, c)
    [] term.op = "for" -> RunFor(term, c)

-----------------------------------------------------------------------------
(* What a template says.  locals has the names of the template itself.     *)

RECURSIVE Value(_, _)

Value(e, c) ==
  CASE e.op \in {"name", "call"} ->
         IF e.name \in DOMAIN c.locals THEN c.locals[e.name] ELSE c.env[e.name]
    [] OTHER -> Apply(e.op, e.name, [i \in DOMAIN e.args |-> Value(e.args[i], c)])

Kept(nodes) == SelectSeq(nodes, LAMBDA n : ~IgnorableControlSibling(n))

\* A branch after the first is shown when its condition holds and no branch
\* before it, back to the v-if of the group, does.
Shown(kept, i, c) ==
  LET start == Max({j \in 1 .. i : HasDirective(kept[j], "if")})
      holds(j) == \/ HasDirective(kept[j], "else")
                  \/ \E d \in {"if", "else-if"} :
                       HasDirective(kept[j], d) /\ Value(Directive(kept[j], d).expr, c)
  IN ~Misplaced(kept[i]) \/ (holds(i) /\ \A j \in start .. i - 1 : ~holds(j))

\* The attributes of an element in the order written: a bound class or style
\* is one attribute, where its first part stands; what is only named has no
\* value; v-model replaces what it controls; the key belongs to the list and
\* not to the element.
MeaningOfAttrs(node, scoped, c) ==
  LET attrs == node.attrs
      parts(i, kind) == SelectSeq(attrs, LAMBDA a : a.name = attrs[i].name /\ a.kind = kind)
      all(i) == parts(i, "static") \o parts(i, "bind")
      merged(i) == attrs[i].name \in {"class", "style"} /\ parts(i, "bind") # <<>>
      written == {i \in DOMAIN attrs : /\ attrs[i].kind \in {"static", "bind"}
                                       /\ attrs[i].name # "key"}
      replaced == {i \in written : attrs[i].kind = "static"
                                     /\ attrs[i].name \in ModelControlledAttr(node)}
      shown == {i \in written \ replaced :
                  merged(i) => \A j \in written : j < i => attrs[j].name # attrs[i].name}
      valued(i) == SelectSeq(IF merged(i) THEN all(i) ELSE <<attrs[i]>>,
                             LAMBDA a : a.kind = "static" => a.hasValue)
      value(a) == IF a.kind = "static" THEN a.value ELSE Value(a.expr, c)
      attr(i) == [name |-> attrs[i].name,
                  values |-> [j \in DOMAIN valued(i) |-> value(valued(i)[j])]]
      order == SetToSortSeq(shown, <)
      model == IF ~HasDirective(node, "model") THEN <<>>
               ELSE <<[name |-> IF NativeModel(node) = {"bool"} THEN "checked" ELSE "value",
                       values |-> <<Value(Directive(node, "model").expr, c)>>]>>
  IN [i \in DOMAIN order |-> attr(order[i])] \o model
       \o IF scoped THEN <<[name |-> "scope", values |-> <<>>]>> ELSE <<>>

MeaningOfProp(node, name, c) ==
  LET given == {i \in DOMAIN node.attrs :
                  node.attrs[i].kind \in {"static", "bind"} /\ node.attrs[i].name = name}
      a == node.attrs[Max(given)]
  IN CASE given = {} -> "nil"
       [] given # {} /\ a.kind = "static" -> IF a.hasValue THEN a.value ELSE TRUE
       [] OTHER -> Value(a.expr, c)

MeaningOfHandler(node, name) ==
  LET given == {i \in DOMAIN node.attrs :
                  node.attrs[i].kind = "event" /\ node.attrs[i].name = name}
  IN IF given = {} THEN "nil" ELSE node.attrs[Max(given)].expr.name

RECURSIVE Meaning(_, _, _)

MeaningOfElement(node, scoped, c) ==
  LET html == IF HasDirective(node, "html") THEN <<Value(Directive(node, "html").expr, c)>> ELSE <<>>
      child == Components[node.tag]
  IN CASE IsTemplate(node) -> Meaning(node.children, scoped, c)
       [] node.tag = "slot" ->
            <<[kind |-> "slot", owner |-> c.owner, children |-> Meaning(node.children, scoped, c)]>>
       [] node.comp ->
            <<[kind |-> "component", tag |-> node.tag, scoped |-> scoped,
               events |-> [n \in child.events |-> MeaningOfHandler(node, n)],
               props |-> [p \in DOMAIN child.props |-> MeaningOfProp(node, p, c)],
               content |-> Meaning(node.children, scoped, c)]>>
       [] OTHER ->
            <<[kind |-> "element", tag |-> node.tag, html |-> html, events |-> RenderEvents(node),
               attrs |-> MeaningOfAttrs(node, scoped, c),
               children |-> IF html # <<>> THEN <<>> ELSE Meaning(node.children, scoped, c)]>>

\* A node once, on its own: a v-switch shows the first v-case that is equal,
\* or else the v-default.
MeaningOfNode(node, scoped, c) ==
  LET kept == Kept(node.children)
      equal == {i \in DOMAIN kept :
                  HasDirective(kept[i], "default")
                    \/ Value(Directive(kept[i], "case").expr, c)
                         = Value(Directive(node, "switch").expr, c)}
      bare(n) == [n EXCEPT !.attrs = SelectSeq(@, LAMBDA a : ~IsControl(a) \/ a.name = "for")]
  IN CASE node.kind = "text" -> <<[kind |-> "text", value |-> node.text]>>
       [] node.kind = "interpolation" -> <<[kind |-> "text", value |-> Value(node.expr, c)]>>
       [] HasDirective(node, "switch") ->
            IF equal = {} THEN <<>> ELSE Meaning(<<bare(kept[Min(equal)])>>, scoped, c)
       [] HasDirective(node, "if") ->
            IF Value(Directive(node, "if").expr, c) THEN MeaningOfElement(node, scoped, c) ELSE <<>>
       [] OTHER -> MeaningOfElement(node, scoped, c)

\* v-for repeats the node, with a local for the item and one for the index.
MeaningOfLoop(node, scoped, c) ==
  LET a == Directive(node, "for")
      items == Value(a.expr, c)
      locals(i) == (a.value.index :> i - 1) @@ (a.value.item :> items[i]) @@ c.locals
      inner(i) == [c EXCEPT !.locals = locals(i)]
  IN IF ~HasDirective(node, "for") THEN MeaningOfNode(node, scoped, c)
     ELSE [i \in DOMAIN items |->
             [kind |-> "item", key |-> Value(Attr(node, "bind", "key").expr, inner(i)),
              children |-> MeaningOfNode(node, scoped, inner(i))]]

\* A v-if is decided for each item of its own v-for, the branches after it
\* are decided here.
Meaning(nodes, scoped, c) ==
  LET kept == Kept(nodes)
  IN FlattenSeq([i \in DOMAIN kept |->
       IF Shown(kept, i, c) THEN MeaningOfLoop(kept[i], scoped, c) ELSE <<>>])

-----------------------------------------------------------------------------
(* Where the checker is known to let through what cannot be built.         *)

RECURSIVE Subexpressions(_), Mentions(_)

Subexpressions(e) == {e} \cup UNION {Subexpressions(e.args[i]) : i \in DOMAIN e.args}

\* The expressions of a node, that of its v-for aside.
Expressions(node) ==
  {node.expr} \cup {node.attrs[i].expr :
     i \in {j \in DOMAIN node.attrs : /\ node.attrs[j].kind \in {"bind", "directive"}
                                      /\ node.attrs[j].name # "for"}}

\* The names that a node reads inside its v-for.
NamesIn(e) == {x.name : x \in {y \in Subexpressions(e) : y.op = "name"}}
MentionsBelow(node) ==
  UNION {NamesIn(e) : e \in Expressions(node)}
    \cup IF HasDirective(node, "html") THEN {} ELSE Mentions(node.children)

Mentions(nodes) ==
  UNION {LET node == nodes[i]
             for == Directive(node, "for")
         IN IF HasDirective(node, "for")
            THEN (MentionsBelow(node) \ {for.value.item, for.value.index}) \cup NamesIn(for.expr)
            ELSE MentionsBelow(node)
         : i \in DOMAIN nodes}

\* The gaps of one node, in the scope of its own v-for.
Gap(node, scope, inContent) ==
  LET given(kinds) == {node.attrs[i] : i \in {j \in DOMAIN node.attrs : node.attrs[j].kind \in kinds}}
      declared == LET a == Directive(node, "for") IN {a.value.item, a.value.index} \ {""}
  IN \* An attribute of a <template> that is not part of its control flow.
     \/ IsTemplate(node) /\ \E a \in given({"static", "bind", "event"}) :
          a.kind # "bind" \/ a.name # "key"
     \* Two of v-if, v-else-if and v-else on one element.
     \/ Cardinality({d \in ConditionalDirectives : HasDirective(node, d)}) > 1
     \* The :key of a component or a <template> is not checked.
     \/ /\ node.comp \/ IsTemplate(node)
        /\ \E a \in given({"bind"}) : a.name = "key" /\ CheckExpression(a.expr, scope) # {}
     \* A field or a local that is called like a method; a slice; an item of
     \* what has no items, which Go refuses.
     \/ \E e \in Expressions(node) \cup {a.expr : a \in given({"directive"})} :
          \E x \in Subexpressions(e) :
            \/ x.op = "slice"
            \/ x.op = "call" /\ ~scope[x.name].method
            \/ x.op = "item" /\ ~Iterable(TypeOf(x.args[1], scope))
     \* v-model on an expression of unknown type.
     \/ HasDirective(node, "model") /\ TypeOf(Directive(node, "model").expr, scope) = Unknown
     \* A v-for whose item or index is not used.
     \/ HasDirective(node, "for") /\ ~(declared \subseteq MentionsBelow(node))
     \* A v-switch with a v-default only.
     \/ HasDirective(node, "switch") /\ \A i \in DOMAIN node.children :
          ~HasDirective(node.children[i], "case")
     \* A <slot> in the content given to a component shows that content again.
     \/ node.tag = "slot" /\ inContent

RECURSIVE Gaps(_, _, _)

Gaps(nodes, scope, inContent) ==
  \E i \in DOMAIN nodes :
    LET node == nodes[i]
        inner == IF HasDirective(node, "for") THEN ForScope(Directive(node, "for"), scope) ELSE scope
    IN Gap(node, inner, inContent) \/ Gaps(node.children, inner, inContent \/ node.comp)

KnownGap ==
  \/ \E i, j \in DOMAIN files : files[i].package # files[j].package
  \/ \E i \in DOMAIN files : Gaps(files[i].nodes, componentScope, FALSE)

-----------------------------------------------------------------------------
(* Properties.                                                             *)

\* What the checker accepts can be built, the known gaps aside: the generator
\* has nothing to report (it checks the same rules a second time, and tue
\* build has removed the last build's output before Go reports an error), and
\* the Go code uses every variable it declares and declares every variable it
\* uses, through nested and shadowing loops.
CheckedTemplatesBuild ==
  stage \in {"generated", "failed"} /\ ~KnownGap =>
    /\ stage = "generated"
    /\ Len(output) = Len(files)
    /\ \A i \in DOMAIN output : FreeNames(output[i]) = {} /\ Unused(output[i]) = {}

\* The generated code renders what the template says, in every state of the
\* component: the branch of a conditional or a switch that is due, one keyed
\* node for each item with the right locals in scope, class and style merged
\* in their place, and every slot, prop, handler and model where it belongs.
RendersAsWritten ==
  stage = "generated" /\ ~KnownGap =>
    \A i \in DOMAIN files : \A env \in Environments :
      LET c == [env |-> env, locals |-> <<>>, owner |-> files[i].component]
      IN Run(output[i], c) = Meaning(files[i].nodes, files[i].scoped, c)
=============================================================================
