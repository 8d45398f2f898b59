------------------------------- MODULE Template -------------------------------
(***************************************************************************)
(* The parsed template that the checker and the code generator both read   *)
(* (template/ast.go), what a component declares for its template           *)
(* (script/component.go), and the type rules they share (typecap).         *)
(*                                                                         *)
(* An expression has an operator, a name and arguments: the name of a      *)
(* symbol, a call of one without arguments, a string literal, !, &&, ==,   *)
(* +, a field, an item ([0]) or a slice ([:]).  Types are names; source    *)
(* spans are left out.  A static attribute may have no value (hasValue).   *)
(***************************************************************************)
EXTENDS Naturals, Sequences

CONSTANTS
  Symbols,     \* what the template may use: name -> field, computed or method
  Components,  \* the components of the project: name -> props and events
  ListTypes,   \* the slice types -> the type of their items
  Structs      \* the struct types -> the types of their fields

Unknown == "unknown"

ASSUME SymbolsType ==
  \A s \in DOMAIN Symbols :
    /\ DOMAIN Symbols[s] = {"type", "method", "getter", "writable", "results"}
    /\ Symbols[s].getter => Symbols[s].method /\ Symbols[s].results = 1
ASSUME ComponentsType ==
  \A c \in DOMAIN Components : DOMAIN Components[c] = {"props", "events"}

-----------------------------------------------------------------------------
(* Attributes and nodes.                                                   *)

NoExpr == [op |-> "literal", name |-> "", args |-> <<>>]

\* The directives that say where and how often a node appears.
ControlDirectives ==
  {"if", "else-if", "else", "for", "switch", "case", "default"}
ConditionalDirectives == {"if", "else-if", "else"}

IsControl(a) == a.kind = "directive" /\ a.name \in ControlDirectives

Has(node, kind, name) ==
  \E i \in DOMAIN node.attrs :
    node.attrs[i].kind = kind /\ node.attrs[i].name = name

Attr(node, kind, name) ==
  SelectSeq(node.attrs, LAMBDA a : a.kind = kind /\ a.name = name)[1]

HasDirective(node, name) == Has(node, "directive", name)
Directive(node, name) == Attr(node, "directive", name)
HasConditional(node) == \E d \in ConditionalDirectives : HasDirective(node, d)

\* The value of a static attribute, "" when there is none.
StaticValue(node, name) ==
  LET given == SelectSeq(node.attrs, LAMBDA a :
                 a.kind = "static" /\ a.name = name /\ a.hasValue)
  IN IF given = <<>> THEN "" ELSE given[1].value

\* A static attribute that is only named is a boolean that is set.
StaticType(a) == IF a.hasValue THEN "string" ELSE "bool"

\* A component is written with an upper-case name; template and slot are the
\* two elements of Tue's own.
IsComponent(node) == node.comp
IsTemplate(node) == node.tag = "template"
IsNative(node) ==
  node.kind = "element" /\ ~node.comp /\ node.tag \notin {"template", "slot"}

\* Comments and blank text do not separate the branches of a conditional.
IgnorableControlSibling(node) ==
  node.kind = "comment" \/ (node.kind = "text" /\ node.text = "")

\* What v-model binds to on an element, {} if it is not supported there.
NativeModel(node) ==
  IF node.comp THEN {}
  ELSE CASE node.tag \in {"select", "textarea"} -> {"string"}
         [] node.tag = "input" /\ StaticValue(node, "type") \in {"", "text"} -> {"string"}
         [] node.tag = "input" /\ StaticValue(node, "type") = "checkbox" -> {"bool"}
         [] OTHER -> {}

-----------------------------------------------------------------------------
(* Types.                                                                  *)

Assignable(expected, actual) == Unknown \in {expected, actual} \/ expected = actual
SwitchCompatible(a, b) == Assignable(a, b) \/ Assignable(b, a)
Comparable(type) == type \notin DOMAIN ListTypes
Numeric(type) == type \in {"int", "rune"}
Scalar(type) == type \in {"string", "bool"} \/ Numeric(type)
TrustedHTML(type) == type = "TrustedHTML"

Iterable(type) == type \in DOMAIN ListTypes \cup {Unknown, "string"}
ItemType(type) ==
  CASE type \in DOMAIN ListTypes -> ListTypes[type]
    [] type = "string" -> "rune"
    [] OTHER -> Unknown
HasField(type, name) == type \in DOMAIN Structs /\ name \in DOMAIN Structs[type]
KeyType(type) == IF type = Unknown THEN Unknown ELSE "int"
=============================================================================
