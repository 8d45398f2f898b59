-------------------------------- MODULE Checker --------------------------------
(***************************************************************************)
(* The template checker of internal/compiler/checker: CheckNodes(nodes,    *)
(* scope) is the set of the diagnostics that checkNodes reports, each      *)
(* named by its rule.  A scope maps the names a template may use to        *)
(* symbols; that of an inner element extends and shadows the outer one.    *)
(***************************************************************************)
EXTENDS Template, TLC

\* A diagnostic when a condition does not hold.
Unless(holds, message) == IF holds THEN {} ELSE {message}

-----------------------------------------------------------------------------
(* Expressions.                                                            *)

componentScope == Symbols

\* The symbol of an item or an index of v-for.
LocalSymbol(type) ==
  [type |-> type, method |-> FALSE, getter |-> FALSE, writable |-> FALSE, results |-> 0]

RECURSIVE TypeOf(_, _), CheckExpression(_, _)

\* The type of a +, of strings or of numbers.
SumType(left, right) ==
  CASE "string" \in {left, right} ->
         IF Assignable("string", left) /\ Assignable("string", right) THEN "string" ELSE Unknown
    [] Numeric(left) /\ Numeric(right) -> left
    [] OTHER -> Unknown

\* The type of an expression, Unknown after a diagnostic.
TypeOf(e, scope) ==
  LET known == e.name \in DOMAIN scope
      symbol == scope[e.name]
      typed == \/ e.op = "name" /\ (symbol.method => symbol.getter)
               \/ e.op = "call" /\ symbol.method /\ symbol.results = 1
      arg(i) == TypeOf(e.args[i], scope)
  IN CASE e.op \in {"name", "call"} -> IF known /\ typed THEN symbol.type ELSE Unknown
       [] e.op = "literal" -> "string"
       [] e.op \in {"!", "&&", "=="} -> "bool"
       [] e.op = "+" -> SumType(arg(1), arg(2))
       [] e.op = "field" -> IF HasField(arg(1), e.name) THEN Structs[arg(1)][e.name] ELSE Unknown
       [] e.op = "item" -> ItemType(arg(1))
       [] OTHER -> Unknown

\* Calling what is not a method is let through with an unknown type, and so
\* is a slice and any field of a type that the checker knows nothing about.
CheckOperator(e, scope) ==
  LET symbol == scope[e.name]
      arg(i) == TypeOf(e.args[i], scope)
  IN CASE e.op = "name" -> Unless(symbol.method => symbol.getter, "method must be called")
       [] e.op = "call" -> Unless(symbol.method => symbol.results = 1, "call must be of a func() T")
       [] e.op \in {"!", "&&"} ->
            Unless(\A i \in DOMAIN e.args : Assignable("bool", arg(i)), "operand expects bool")
       [] e.op = "==" -> Unless(SwitchCompatible(arg(1), arg(2)), "cannot compare")
       [] e.op = "+" -> Unless(\/ SumType(arg(1), arg(2)) # Unknown
                               \/ /\ Unknown \in {arg(1), arg(2)}
                                  /\ "string" \notin {arg(1), arg(2)}, "operator + is not defined")
       [] e.op = "field" ->
            Unless(\/ HasField(arg(1), e.name)
                   \/ /\ arg(1) \notin DOMAIN Structs \cup DOMAIN ListTypes
                      /\ ~Scalar(arg(1)), "no such field")
       [] OTHER -> {}

CheckExpression(e, scope) ==
  IF e.op \in {"name", "call"} /\ e.name \notin DOMAIN scope THEN {"unknown identifier"}
  ELSE CheckOperator(e, scope) \cup UNION {CheckExpression(e.args[i], scope) : i \in DOMAIN e.args}

ExpectType(expected, e, scope) ==
  CheckExpression(e, scope)
    \cup Unless(Assignable(expected, TypeOf(e, scope)), "wrong type")

\* A handler is named, or called without arguments: a method func().
CheckHandler(e, scope) ==
  IF e.op \in {"name", "call"} /\ e.name \in DOMAIN scope /\ scope[e.name].method
  THEN Unless(scope[e.name].results = 0, "handler must be func()")
  ELSE {"handler is not a method"}

-----------------------------------------------------------------------------
(* Directives and attributes.                                              *)

CheckHTML(node, e, scope) ==
  CheckExpression(e, scope)
    \cup Unless(TrustedHTML(TypeOf(e, scope)), "v-html expects TrustedHTML")
    \cup Unless(IsNative(node), "v-html needs a native element")

CheckModel(node, e, scope) ==
  CheckExpression(e, scope) \cup
  IF TypeOf(e, scope) = Unknown THEN {}
  ELSE Unless(e.op = "name" /\ scope[e.name].writable, "v-model target is not writable")
         \cup IF NativeModel(node) = {} THEN {"v-model is not supported"}
              ELSE Unless(\A t \in NativeModel(node) : Assignable(t, TypeOf(e, scope)),
                          "wrong type")

CheckCommonAttrs(node, scope, checkEvents) ==
  UNION {LET a == node.attrs[i] IN
           CASE a.kind = "event" /\ checkEvents -> CheckHandler(a.expr, scope)
             [] a.kind = "directive" /\ a.name \in {"if", "else-if"} ->
                  ExpectType("bool", a.expr, scope)
             [] a.kind = "directive" /\ a.name = "html" -> CheckHTML(node, a.expr, scope)
             [] a.kind = "directive" /\ a.name = "model" -> CheckModel(node, a.expr, scope)
             [] OTHER -> {} : i \in DOMAIN node.attrs}

CheckNativeAttrs(node, scope) ==
  UNION {LET a == node.attrs[i] IN
           IF a.kind # "bind" THEN {}
           ELSE IF a.name = "key" THEN CheckExpression(a.expr, scope)
           ELSE ExpectType("string", a.expr, scope) : i \in DOMAIN node.attrs}

CheckSlot(node) ==
  Unless(\A i \in DOMAIN node.attrs : IsControl(node.attrs[i]), "slot attribute")

\* Props and events that the parent passes to a component.
CheckComponent(node, scope) ==
  IF node.tag \notin DOMAIN Components THEN {"component is not registered"}
  ELSE LET child == Components[node.tag]
           CheckProp(a) ==
             IF a.name \notin DOMAIN child.props THEN {"no such prop"}
             ELSE IF a.kind = "bind"
             THEN ExpectType(child.props[a.name].type, a.expr, scope)
             ELSE Unless(Assignable(child.props[a.name].type, StaticType(a)), "wrong type")
           CheckAttr(a) ==
             CASE a.kind = "static" \/ (a.kind = "bind" /\ a.name # "key") -> CheckProp(a)
               [] a.kind = "event" ->
                    IF a.name \in child.events THEN CheckHandler(a.expr, scope)
                    ELSE {"no such event"}
               [] OTHER -> {}
       IN UNION {CheckAttr(node.attrs[i]) : i \in DOMAIN node.attrs}
            \cup Unless(\A p \in DOMAIN child.props : child.props[p].required =>
                          Has(node, "static", p) \/ Has(node, "bind", p),
                        "required prop")

\* v-for: what it declares for the element and all below it.
ForScope(a, scope) ==
  LET source == TypeOf(a.expr, scope)
  IN (IF a.value.index = "" THEN <<>> ELSE a.value.index :> LocalSymbol(KeyType(source)))
       @@ (a.value.item :> LocalSymbol(ItemType(source)))
       @@ scope

CheckFor(node, a, scope) ==
  CheckExpression(a.expr, scope)
    \cup Unless(Iterable(TypeOf(a.expr, scope)), "v-for source must be iterable")
    \cup Unless(Has(node, "bind", "key"), "v-for requires a :key")

-----------------------------------------------------------------------------
(* Nodes.                                                                  *)

\* Mutant: the branches of a conditional stay open after v-else.
MutantOpenAfterElse(nodes) ==
  LET branch[i \in 0 .. Len(nodes)] ==
        IF i = 0 THEN [open |-> FALSE, loop |-> FALSE]
        ELSE IF HasDirective(nodes[i], "if")
        THEN [open |-> TRUE, loop |-> HasDirective(nodes[i], "for")]
        ELSE [open |-> branch[i - 1].open, loop |-> FALSE]
  IN branch

\* What checkNodes remembers of the sibling before: it was a branch that an
\* else may follow, and it had a v-for.
Branches(nodes) ==
  LET branch[i \in 0 .. Len(nodes)] ==
        IF i = 0 THEN [open |-> FALSE, loop |-> FALSE]
        ELSE IF HasDirective(nodes[i], "if")
        THEN [open |-> TRUE, loop |-> HasDirective(nodes[i], "for")]
        ELSE [open |-> HasDirective(nodes[i], "else-if") /\ branch[i - 1].open,
              loop |-> FALSE]
  IN branch

CheckBranch(node, before) ==
  Unless(~HasDirective(node, "case") /\ ~HasDirective(node, "default"),
         "v-case and v-default belong in v-switch")
    \cup IF HasDirective(node, "else-if") \/ HasDirective(node, "else")
         THEN Unless(before.open, "else must follow an if")
                \cup Unless(~before.loop, "else after a v-for branch")
                \cup Unless(~HasDirective(node, "for"), "else with v-for")
         ELSE {}

RECURSIVE CheckElement(_, _)

CheckNode(node, scope) ==
  CASE node.kind = "element" -> CheckElement(node, scope)
    [] node.kind = "interpolation" -> CheckExpression(node.expr, scope)
    [] OTHER -> {}

CheckNodes(nodes, scope) ==
  LET kept == SelectSeq(nodes, LAMBDA n : ~IgnorableControlSibling(n))
      before == Branches(kept)
  IN UNION {CheckBranch(kept[i], before[i - 1]) \cup CheckNode(kept[i], scope)
              : i \in DOMAIN kept}

\* The branches of v-switch: v-case ones, then at most one v-default.
CheckSwitchBranch(kept, i, type, scope) ==
  LET branch == kept[i]
      hasCase == HasDirective(branch, "case")
      hasDefault == HasDirective(branch, "default")
      defaultSeen == \E j \in 1 .. i - 1 :
        HasDirective(kept[j], "default") /\ ~HasDirective(kept[j], "case")
      e == Directive(branch, "case").expr
  IN (CASE hasCase /\ hasDefault -> {"both v-case and v-default"}
        [] hasCase -> CheckExpression(e, scope)
             \cup Unless(~defaultSeen, "v-case after v-default")
             \cup Unless(SwitchCompatible(type, TypeOf(e, scope)), "wrong type")
        [] hasDefault -> Unless(~defaultSeen, "two v-defaults")
        [] OTHER -> {"v-switch child without v-case or v-default"})
     \cup Unless(~HasConditional(branch), "v-case with a conditional")
     \cup IF HasDirective(branch, "switch") THEN {"v-case on a v-switch"}
          ELSE CheckNode(branch, scope)

CheckSwitch(node, scope) ==
  LET e == Directive(node, "switch").expr
      host == IsTemplate(node)
      kept == SelectSeq(node.children, LAMBDA n : ~IgnorableControlSibling(n))
  IN Unless(host, "v-switch needs a template")
       \cup Unless(~HasConditional(node), "v-switch with a conditional")
       \cup Unless(~HasDirective(node, "case") /\ ~HasDirective(node, "default"),
                   "v-case on a v-switch")
       \cup CheckExpression(e, scope)
       \cup Unless(Comparable(TypeOf(e, scope)), "v-switch type is not comparable")
       \cup IF ~host THEN {}
            ELSE Unless(kept # <<>>, "v-switch without branches")
                   \cup UNION {CheckSwitchBranch(kept, i, TypeOf(e, scope), scope)
                                 : i \in DOMAIN kept}

CheckElement(node, scope) ==
  LET loop == HasDirective(node, "for")
      inner == IF loop THEN ForScope(Directive(node, "for"), scope) ELSE scope
  IN (IF loop THEN CheckFor(node, Directive(node, "for"), scope) ELSE {}) \cup
     IF HasDirective(node, "switch") THEN CheckSwitch(node, inner)
     ELSE CheckCommonAttrs(node, inner, ~node.comp /\ ~IsTemplate(node))
            \cup (IF node.comp THEN CheckComponent(node, inner)
                  ELSE IF IsTemplate(node) THEN {}
                  ELSE (IF node.tag = "slot" THEN CheckSlot(node) ELSE {})
                         \cup CheckNativeAttrs(node, inner))
            \cup IF IsNative(node) /\ HasDirective(node, "html") THEN {}
                 ELSE CheckNodes(node.children, inner)
=============================================================================
