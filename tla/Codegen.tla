-------------------------------- MODULE Codegen --------------------------------
(***************************************************************************)
(* The code generator of internal/compiler/gogen: RenderNodes(nodes, g) is *)
(* the Go code of a list of template nodes, as a sequence of terms.  A     *)
(* term has an op, the diagnostics that were reported for it, the Go       *)
(* variables that it reads and declares, and the terms it contains, nodes. *)
(*                                                                         *)
(* g is the generator's context: names, the Go variable of each local;     *)
(* types, its type; scoped, whether the file has a scoped style.  A file   *)
(* with a diagnostic generates nothing, so a term with one stands for the  *)
(* failure and its other fields do not matter.                             *)
(***************************************************************************)
EXTENDS Template, SequencesExt

FileContext(scoped) == [names |-> <<>>, types |-> <<>>, scoped |-> scoped]

Reported(holds, message) == IF holds THEN {} ELSE {message}

-----------------------------------------------------------------------------
(* Expressions.                                                            *)

RECURSIVE ExpressionType(_, _), RenderExpression(_, _)

\* The generator types expressions a second time, with rules of its own.
ExpressionType(e, g) ==
  LET symbol == Symbols[e.name]
      typed == \/ e.op = "name" /\ (symbol.method => symbol.getter)
               \/ e.op = "call" /\ symbol.method /\ symbol.results = 1
      arg(i) == ExpressionType(e.args[i], g)
      strings == {i \in DOMAIN e.args : Assignable("string", arg(i))}
  IN CASE e.op \in {"name", "call"} /\ e.name \in DOMAIN g.types ->
            IF e.op = "name" THEN g.types[e.name] ELSE Unknown
       [] e.op \in {"name", "call"} /\ e.name \notin DOMAIN g.types ->
            IF e.name \in DOMAIN Symbols /\ typed THEN symbol.type ELSE Unknown
       [] e.op = "literal" -> "string"
       [] e.op \in {"!", "&&", "=="} -> "bool"
       [] e.op = "+" -> IF "string" \in {arg(1), arg(2)}
                        THEN IF strings = {1, 2} THEN "string" ELSE Unknown
                        ELSE IF Numeric(arg(1)) /\ Numeric(arg(2)) THEN arg(1) ELSE Unknown
       [] e.op = "field" -> IF HasField(arg(1), e.name) THEN Structs[arg(1)][e.name] ELSE Unknown
       [] e.op = "item" -> ItemType(arg(1))
       [] OTHER -> Unknown

ValidSelector(base, name) ==
  \/ base = Unknown \/ HasField(base, name)
  \/ ~Scalar(base) /\ base \notin DOMAIN Structs \cup DOMAIN ListTypes

\* Generated code: what it reads from, the Go variables in it, and whether the
\* expression is supported.
Generated(from, name, args, supported) ==
  [from |-> from, name |-> name, args |-> args,
   reads |-> (IF from \in {"local", "raw"} THEN {name} ELSE {})
               \cup UNION {args[i].reads : i \in DOMAIN args},
   supported |-> supported /\ \A i \in DOMAIN args : args[i].supported]

\* A local is its Go variable, a field or getter is read from the component
\* and any other name is written to the Go code as it is.
RenderName(name, g) ==
  LET method == Symbols[name].method
  IN CASE name \in DOMAIN g.names -> Generated("local", g.names[name], <<>>, TRUE)
       [] name \notin DOMAIN g.names \cup DOMAIN Symbols -> Generated("raw", <<name, 0>>, <<>>, TRUE)
       [] OTHER -> Generated("component", name, <<>>, method => Symbols[name].getter)

RenderCall(name, g) ==
  Generated("component", name, <<>>,
            /\ name \in DOMAIN Symbols \ DOMAIN g.names
            /\ Symbols[name].method
            /\ Symbols[name].results = 1)

RenderExpression(e, g) ==
  CASE e.op = "name" -> RenderName(e.name, g)
    [] e.op = "call" -> RenderCall(e.name, g)
    [] OTHER -> Generated(e.op, e.name, [i \in DOMAIN e.args |-> RenderExpression(e.args[i], g)],
                          CASE e.op = "field" -> ValidSelector(ExpressionType(e.args[1], g), e.name)
                            [] e.op = "slice" -> FALSE
                            [] OTHER -> TRUE)

Literal(value) == Generated("literal", value, <<>>, TRUE)
Always == Generated("always", "", <<>>, TRUE)

\* The Go names that generated expressions read.
Reads(expressions) == UNION {expressions[i].reads : i \in DOMAIN expressions}

ExpressionFailures(es, g) ==
  Reported(\A e \in es : RenderExpression(e, g).supported,
           "expression is not supported")

\* An expression that must be assignable to a type.
TypedFailures(type, e, g) ==
  ExpressionFailures({e}, g)
    \cup Reported(Assignable(type, ExpressionType(e, g)), "wrong type")

-----------------------------------------------------------------------------
(* Attributes and events of a native element.                              *)

Mergeable == {"class", "style"}
Merged(node) == {name \in Mergeable : Has(node, "bind", name)}

\* The static attribute that v-model controls.
ModelControlledAttr(node) ==
  IF ~HasDirective(node, "model") THEN {}
  ELSE {IF t = "bool" THEN "checked" ELSE "value" : t \in NativeModel(node)}

\* Attributes rendered where they stand; the parts of class and style are
\* collected if one of them is bound.
IsPlain(node, a) ==
  \/ a.kind = "static" /\ a.name \notin Merged(node) \cup ModelControlledAttr(node)
  \/ a.kind = "bind" /\ a.name \notin Mergeable \cup {"key"}

\* A static attribute without a value.
IsFlag(a) == a.kind = "static" /\ ~a.hasValue

RenderPart(a, g) ==
  IF a.kind = "static" THEN Literal(a.value) ELSE RenderExpression(a.expr, g)

\* The values of an attribute; one that is only named has none.
RenderParts(attrs, g) ==
  LET parts == SelectSeq(attrs, LAMBDA a : ~IsFlag(a))
  IN [i \in DOMAIN parts |-> RenderPart(parts[i], g)]

PlainAttrs(node, g) ==
  LET plain == SelectSeq(node.attrs, LAMBDA a : IsPlain(node, a))
  IN [i \in DOMAIN plain |-> [name |-> plain[i].name, parts |-> RenderParts(<<plain[i]>>, g)]]

\* A merged attribute: its static parts, then its bound ones; where it goes
\* among the plain attributes, and the place of its first part in the source.
MergedAttr(node, name, g) ==
  LET part(a) == a.name = name /\ a.kind \in {"static", "bind"}
      first == SelectInSeq(node.attrs, part)
      of(kind) == SelectSeq(node.attrs, LAMBDA a : a.name = name /\ a.kind = kind)
  IN [index |-> Len(SelectSeq(SubSeq(node.attrs, 1, first - 1), LAMBDA a : IsPlain(node, a))),
      order |-> first,
      attr |-> [name |-> name, parts |-> RenderParts(of("static") \o of("bind"), g)]]

\* The last one first, so that the index of the others stays right.
LaterFirst(m, n) == m.index > n.index \/ (m.index = n.index /\ m.order > n.order)

InsertAttr(attrs, m) ==
  SubSeq(attrs, 1, m.index) \o <<m.attr>> \o SubSeq(attrs, m.index + 1, Len(attrs))

InsertMergedAttrs(attrs, merged) ==
  FoldLeft(InsertAttr, attrs, SetToSortSeq(merged, LaterFirst))

\* v-model: the attribute that shows the value, and the event that stores it.
ModelAttrs(node, g) ==
  IF ~HasDirective(node, "model") THEN <<>>
  ELSE <<[name |-> (CHOOSE n \in ModelControlledAttr(node) : TRUE),
          parts |-> <<RenderExpression(Directive(node, "model").expr, g)>>]>>

RenderEvents(node) ==
  LET events == SelectSeq(node.attrs, LAMBDA a : a.kind = "event")
  IN (IF HasDirective(node, "model")
      THEN <<[name |-> "model", sets |-> Directive(node, "model").expr.name]>> ELSE <<>>)
     \o [i \in DOMAIN events |-> [name |-> events[i].name, calls |-> events[i].expr.name]]

ScopeAttrs(g) == IF g.scoped THEN <<[name |-> "scope", parts |-> <<>>]>> ELSE <<>>

\* Handlers and v-model targets are looked up among the component's methods
\* and fields only: locals are not consulted.
EventFailures(e) ==
  IF e.op \in {"name", "call"} /\ e.name \in DOMAIN Symbols /\ Symbols[e.name].method
  THEN Reported(Symbols[e.name].results = 0, "handler must be func()")
  ELSE {"handler is not a method"}

ModelFailures(node, e, g) ==
  Reported(NativeModel(node) # {}, "v-model is not supported")
    \cup Reported(e.op = "name" /\ e.name \in DOMAIN Symbols /\ Symbols[e.name].writable,
                  "v-model target is not writable")
    \cup UNION {TypedFailures(t, e, g) : t \in NativeModel(node)}

AttrFailures(node, g) ==
  UNION {LET a == node.attrs[i] IN
           CASE a.kind = "bind" /\ a.name # "key" -> TypedFailures("string", a.expr, g)
             [] a.kind = "event" -> EventFailures(a.expr)
             [] a.kind = "directive" /\ a.name = "model" -> ModelFailures(node, a.expr, g)
             [] a.kind = "directive" /\ a.name = "html" ->
                  ExpressionFailures({a.expr}, g)
                    \cup Reported(TrustedHTML(ExpressionType(a.expr, g)),
                                  "v-html expects TrustedHTML")
             [] OTHER -> {} : i \in DOMAIN node.attrs}
-----------------------------------------------------------------------------
(* Props and events of a component.                                        *)

\* The last attribute that gives a prop or an event wins.
LastAttr(node, kinds, name) ==
  node.attrs[SelectLastInSeq(node.attrs, LAMBDA a : a.kind \in kinds /\ a.name = name)]

RenderComponentField(node, prop, g) ==
  LET a == LastAttr(node, {"bind", "static"}, prop)
  IN CASE ~Has(node, "bind", prop) /\ ~Has(node, "static", prop) -> Literal("nil")
       [] OTHER -> IF IsFlag(a) THEN Literal(TRUE) ELSE RenderPart(a, g)

RenderComponentEvent(node, event) ==
  IF Has(node, "event", event) THEN LastAttr(node, {"event"}, event).expr.name ELSE "nil"

ComponentFailures(node, g) ==
  IF node.tag \notin DOMAIN Components THEN {"component is not registered"}
  ELSE LET child == Components[node.tag] IN
    UNION {LET a == node.attrs[i] IN
             CASE a.kind = "static" ->
                    Reported(a.name \in DOMAIN child.props
                               /\ Assignable(child.props[a.name].type, StaticType(a)), "prop")
               [] a.kind = "bind" /\ a.name # "key" ->
                    Reported(a.name \in DOMAIN child.props, "prop")
                      \cup ExpressionFailures({a.expr}, g)
               [] a.kind = "event" ->
                    Reported(a.name \in child.events, "event") \cup EventFailures(a.expr)
               [] a.kind = "directive" -> Reported(IsControl(a), "directive")
               [] OTHER -> {} : i \in DOMAIN node.attrs}
    \cup Reported(\A p \in DOMAIN child.props : child.props[p].required =>
                    Has(node, "static", p) \/ Has(node, "bind", p), "required prop")

-----------------------------------------------------------------------------
(* v-for and v-if.                                                         *)

\* Mutant: every v-for has the same variables.
MutantSameIdentifier(used, base) == <<base, 1>>

\* The Go variable <<base, n>> is base followed by n, by nothing for 1.
FreshIdentifier(used, base) ==
  <<base, CHOOSE n \in 1 .. Cardinality(used) + 1 :
            <<base, n>> \notin used /\ \A m \in 1 .. n - 1 : <<base, m>> \in used>>

UsedGeneratedNames(g) == {g.names[x] : x \in DOMAIN g.names}

\* The context below a v-for; the item shadows a local of the same name.
PushLocals(a, g) ==
  LET used == UsedGeneratedNames(g)
      source == ExpressionType(a.expr, g)
      indexed == {n \in {a.value.index} : n # ""}
  IN [g EXCEPT !.names = [n \in indexed |-> FreshIdentifier(used, "__tueIndex")]
                           @@ (a.value.item :> FreshIdentifier(used, "__tueItem")) @@ g.names,
               !.types = [n \in indexed |-> KeyType(source)]
                           @@ (a.value.item :> ItemType(source)) @@ g.types]

\* What follows a v-if among the nodes that count: v-else-ifs and one v-else.
ConditionalChain(kept) ==
  LET elseIf(i) == HasDirective(kept[i], "else-if")
      reaches(n) == \A i \in 2 .. n : elseIf(i) \/ (i = n /\ HasDirective(kept[i], "else"))
  IN SubSeq(kept, 1, Max({n \in DOMAIN kept : reaches(n)}))

Misplaced(node) ==
  \E d \in {"case", "default", "else-if", "else"} : HasDirective(node, d)

\* The directive that makes the i-th node of a chain a branch.
BranchDirective(chain, i) ==
  IF i = 1 THEN "if" ELSE IF HasDirective(chain[i], "else-if") THEN "else-if" ELSE "else"

ChainFailures(chain, g) ==
  UNION {Reported(\A d \in {"switch", "case", "default"} : ~HasDirective(chain[i], d),
                  "branch with a switch")
           \cup Reported(Len(chain) > 1 => ~HasDirective(chain[i], "for"), "branch with v-for")
           \cup IF BranchDirective(chain, i) = "else" THEN {}
                ELSE TypedFailures("bool", Directive(chain[i], BranchDirective(chain, i)).expr, g)
         : i \in DOMAIN chain}

-----------------------------------------------------------------------------
(* Nodes.                                                                  *)

Term(op, diags, reads, nodes, rest) ==
  [op |-> op, diags |-> diags, reads |-> reads, nodes |-> nodes] @@ rest

Failure(message) == Term("failure", {message}, {}, <<>>, <<>>)
Unfailing(failures, term) ==
  IF failures # {} THEN Term("failure", failures, {}, <<>>, <<>>) ELSE term

RECURSIVE RenderNodeList(_, _), RenderNode(_, _)

\* One term: a fragment, unless the list renders as exactly one node.
OneNode(rendered) ==
  IF Len(rendered) = 1 THEN rendered[1] ELSE Term("fragment", {}, {}, rendered, <<>>)

RenderNodes(nodes, g) == OneNode(RenderNodeList(nodes, g))

RenderTemplate(node, g) ==
  LET supported(a) == IsControl(a) \/ (a.kind = "bind" /\ a.name = "key")
  IN IF \A i \in DOMAIN node.attrs : supported(node.attrs[i])
     THEN RenderNodes(node.children, g) ELSE Failure("template attribute")

RenderSlot(node, g) ==
  IF \A i \in DOMAIN node.attrs : IsControl(node.attrs[i])
  THEN Term("slot", {}, {}, <<RenderNodes(node.children, g)>>, <<>>)
  ELSE Failure("slot attribute")

RenderComponentFields(node, child, props, g) ==
  Term("component", {}, Reads(props),
       IF \E i \in DOMAIN node.children : ~IgnorableControlSibling(node.children[i])
       THEN <<RenderNodes(node.children, g)>> ELSE <<>>,
       [tag |-> node.tag, props |-> props, scoped |-> g.scoped,
        events |-> [e \in child.events |-> RenderComponentEvent(node, e)]])

RenderComponent(node, g) ==
  LET child == Components[node.tag]
  IN Unfailing(ComponentFailures(node, g),
       RenderComponentFields(node, child,
         [p \in DOMAIN child.props |-> RenderComponentField(node, p, g)], g))

RenderAttrs(node, g) ==
  InsertMergedAttrs(PlainAttrs(node, g), {MergedAttr(node, n, g) : n \in Merged(node)})
    \o ModelAttrs(node, g) \o ScopeAttrs(g)

\* v-html takes the place of the children.
RenderHTML(node, g) ==
  IF HasDirective(node, "html")
  THEN <<RenderExpression(Directive(node, "html").expr, g)>> ELSE <<>>

RenderNative(node, attrs, html, g) ==
  Term("element", {}, Reads(html) \cup UNION {Reads(attrs[i].parts) : i \in DOMAIN attrs},
       IF html # <<>> THEN <<>> ELSE RenderNodeList(node.children, g),
       [tag |-> node.tag, attrs |-> attrs, events |-> RenderEvents(node), html |-> html])

RenderElement(node, g) ==
  CASE IsTemplate(node) -> RenderTemplate(node, g)
    [] node.tag = "slot" -> RenderSlot(node, g)
    [] node.comp -> RenderComponent(node, g)
    [] OTHER -> Unfailing(AttrFailures(node, g),
                          RenderNative(node, RenderAttrs(node, g), RenderHTML(node, g), g))

\* Nothing for a comment and for blank text.
RenderNodeBody(node, g) ==
  CASE IgnorableControlSibling(node) -> <<>>
    [] node.kind = "text" -> <<Term("text", {}, {}, <<>>, [value |-> Literal(node.text)])>>
    [] node.kind = "interpolation" ->
         LET value == RenderExpression(node.expr, g)
         IN <<Term("text", ExpressionFailures({node.expr}, g), Reads(<<value>>), <<>>,
                   [value |-> value])>>
    [] OTHER -> <<RenderElement(node, g)>>

\* The branches of a conditional in their order; none may hold.
RenderTest(chain, i, g) ==
  IF BranchDirective(chain, i) = "else" THEN Always
  ELSE RenderExpression(Directive(chain[i], BranchDirective(chain, i)).expr, g)

RenderBranches(chain, tests, g) ==
  Term("chain", {}, Reads(tests),
       FlattenSeq([i \in DOMAIN chain |-> RenderNodeBody(chain[i], g)]), [tests |-> tests])

RenderConditionalChain(chain, g) ==
  Unfailing(ChainFailures(chain, g),
            RenderBranches(chain, [i \in DOMAIN chain |-> RenderTest(chain, i, g)], g))

SwitchFailures(node, kept, g) ==
  LET e == Directive(node, "switch").expr
      type == ExpressionType(e, g)
      hasCase(i) == HasDirective(kept[i], "case")
      hasDefault(i) == HasDirective(kept[i], "default")
  IN Reported(IsTemplate(node), "v-switch needs a template")
       \cup Reported(~HasConditional(node) /\ ~Has(node, "directive", "case")
                       /\ ~HasDirective(node, "default"), "v-switch is a branch")
       \cup ExpressionFailures({e}, g)
       \cup Reported(Comparable(type), "not comparable")
       \cup Reported(kept # <<>>, "v-switch without branches")
       \cup UNION {Reported(hasCase(i) # hasDefault(i), "v-case or v-default")
                     \cup Reported(\A j \in 1 .. i - 1 : ~hasDefault(j) \/ hasCase(j),
                                   "v-default must come last")
                     \cup Reported(~HasConditional(kept[i]) /\ ~HasDirective(kept[i], "switch"),
                                   "branch with a conditional or a switch")
                     \cup IF ~hasCase(i) THEN {}
                          ELSE LET c == Directive(kept[i], "case").expr
                               IN ExpressionFailures({c}, g)
                                    \cup Reported(SwitchCompatible(type, ExpressionType(c, g)),
                                                  "wrong type")
                   : i \in DOMAIN kept}

RenderCase(branch, g) ==
  IF HasDirective(branch, "default") THEN Always
  ELSE RenderExpression(Directive(branch, "case").expr, g)

RenderCases(kept, value, tests, g) ==
  Term("switch", {}, Reads(<<value>> \o tests),
       FlattenSeq([i \in DOMAIN kept |-> RenderNode(kept[i], g)]),
       [value |-> value, tests |-> tests])

RenderSwitch(node, g) ==
  LET kept == SelectSeq(node.children, LAMBDA n : ~IgnorableControlSibling(n))
  IN Unfailing(SwitchFailures(node, kept, g),
       RenderCases(kept, RenderExpression(Directive(node, "switch").expr, g),
                   [i \in DOMAIN kept |-> RenderCase(kept[i], g)], g))

RenderNodeAfterFor(node, g) ==
  CASE HasDirective(node, "switch") -> <<RenderSwitch(node, g)>>
    [] HasDirective(node, "if") /\ ~HasDirective(node, "switch") ->
         <<RenderConditionalChain(<<node>>, g)>>
    [] OTHER -> RenderNodeBody(node, g)

ForFailures(node, a, g, inner) ==
  Reported(Has(node, "bind", "key"), "v-for requires a :key")
    \cup Reported(Iterable(ExpressionType(a.expr, g)), "not iterable")
    \cup ExpressionFailures({a.expr}, g)
    \cup UNION {ExpressionFailures({node.attrs[i].expr}, inner) :
                  i \in {j \in DOMAIN node.attrs : node.attrs[j].name = "key"}}

\* One keyed node for each item.  The source is rendered outside the loop,
\* the key inside it.
RenderLoop(node, a, source, inner) ==
  Term("for", {}, Reads(<<source>>), RenderNodeAfterFor(node, inner),
       [source |-> source, item |-> inner.names[a.value.item],
        index |-> {inner.names[n] : n \in {a.value.index} \ {""}},
        key |-> RenderExpression(Attr(node, "bind", "key").expr, inner)])

RenderFor(node, a, g, inner) ==
  Unfailing(ForFailures(node, a, g, inner),
            RenderLoop(node, a, RenderExpression(a.expr, g), inner))

RenderNode(node, g) ==
  IF HasDirective(node, "for")
  THEN LET a == Directive(node, "for") IN <<RenderFor(node, a, g, PushLocals(a, g))>>
  ELSE RenderNodeAfterFor(node, g)

\* A v-if takes the branches that follow it; a branch without a v-if fails.
RenderKept(kept, chain, g) ==
  IF Misplaced(kept[1])
  THEN <<Failure("branch without v-if or v-switch")>> \o RenderNodeList(Tail(kept), g)
  ELSE IF HasDirective(kept[1], "if") /\ Len(chain) > 1
  THEN <<RenderConditionalChain(chain, g)>>
         \o RenderNodeList(SubSeq(kept, Len(chain) + 1, Len(kept)), g)
  ELSE RenderNode(kept[1], g) \o RenderNodeList(Tail(kept), g)

RenderNodeList(nodes, g) ==
  LET kept == SelectSeq(nodes, LAMBDA n : ~IgnorableControlSibling(n))
  IN IF kept = <<>> THEN <<>> ELSE RenderKept(kept, ConditionalChain(kept), g)

-----------------------------------------------------------------------------
(* What the generator and the Go compiler say of a term.                   *)

RECURSIVE Diagnostics(_), FreeNames(_), Unused(_)

\* The diagnostics of the generator.
Diagnostics(term) == term.diags \cup UNION {Diagnostics(term.nodes[i]) : i \in DOMAIN term.nodes}

\* The variables of a v-for are declared in its body and its key.
LoopNames(term) == {term.item} \cup term.index
BodyNames(term) ==
  UNION {FreeNames(term.nodes[i]) : i \in DOMAIN term.nodes} \cup Reads(<<term.key>>)

\* The Go names a term reads and does not declare.
FreeNames(term) ==
  term.reads \cup
  IF term.op = "for" THEN BodyNames(term) \ LoopNames(term)
  ELSE UNION {FreeNames(term.nodes[i]) : i \in DOMAIN term.nodes}

\* The Go variables declared and not used, which Go refuses to compile: those
\* of a v-for, and the value of a v-switch without a v-case.
Unused(term) ==
  UNION {Unused(term.nodes[i]) : i \in DOMAIN term.nodes} \cup
  CASE term.op = "for" -> LoopNames(term) \ BodyNames(term)
    [] term.op = "switch" /\ (\A i \in DOMAIN term.tests : term.tests[i].from = "always") -> {<<"__tueSwitch", 1>>}
    [] OTHER -> {}
=============================================================================
