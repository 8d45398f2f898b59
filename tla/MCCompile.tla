------------------------------- MODULE MCCompile -------------------------------
(* Templates for Compile: every short list of the shapes that can go wrong *)
(* together, over one small component.                                     *)
EXTENDS Compile

Field(type, writable) ==
  [type |-> type, method |-> FALSE, getter |-> FALSE, writable |-> writable, results |-> 0]
Method(type, getter, results) ==
  [type |-> type, method |-> TRUE, getter |-> getter, writable |-> getter, results |-> results]

MCSymbols ==
  [a |-> Field("bool", TRUE), b |-> Field("bool", FALSE), mode |-> Field("string", FALSE),
   title |-> Field("string", TRUE), sub |-> Field("string", FALSE),
   rows |-> Field("[]Row", FALSE), grid |-> Field("[][]Row", FALSE),
   any |-> Field(Unknown, FALSE), obj |-> Field(Unknown, FALSE), html |-> Field("TrustedHTML", FALSE),
   label |-> Method("string", TRUE, 1), count |-> Method("string", FALSE, 1),
   save |-> Method(Unknown, FALSE, 0)]
MCListTypes == ("[]Row" :> "Row") @@ ("[][]Row" :> "[]Row")
MCStructs == [Row |-> [name |-> "string", done |-> "bool"]]
MCComponents ==
  [Card |-> [props |-> [title |-> [type |-> "string", required |-> TRUE],
                        open |-> [type |-> "bool", required |-> FALSE]],
             events |-> {"close"}],
   App |-> [props |-> <<>>, events |-> {}]]

Row(name, done) == [name |-> name, done |-> done]
MCEnvironments ==
  {[a |-> a, b |-> b, mode |-> mode, title |-> "T", sub |-> "S", html |-> "H",
    rows |-> <<Row("T", a), Row("n2", ~a)>>, any |-> <<"n">>, obj |-> [name |-> "O"],
    grid |-> <<<<Row("g1", b), Row("g2", TRUE)>>, <<Row("g3", a)>>>>,
    label |-> "L", count |-> "C"] : a, b \in BOOLEAN, mode \in {"T", "S", "other"}}

-----------------------------------------------------------------------------
Operator(op, name, args) == [op |-> op, name |-> name, args |-> args]
Expr(name) == Operator("name", name, <<>>)
Called(name) == Operator("call", name, <<>>)
FieldOf(e, name) == Operator("field", name, <<e>>)
MCAttr(kind, name, value, expr) ==
  [kind |-> kind, name |-> name, hasValue |-> TRUE, value |-> value, expr |-> expr]
Static(name, value) == MCAttr("static", name, value, NoExpr)
Flag(name) == [Static(name, "") EXCEPT !.hasValue = FALSE]
Bind(name, expr) == MCAttr("bind", name, "", expr)
On(name, expr) == MCAttr("event", name, "", expr)
DirOf(name, expr) == MCAttr("directive", name, "", expr)
Dir(name, symbol) == DirOf(name, Expr(symbol))
For(item, index, source) ==
  MCAttr("directive", "for", [item |-> item, index |-> index], Expr(source))

MCNode(kind, tag, attrs, children, text, expr) ==
  [kind |-> kind, tag |-> tag, comp |-> tag \in {"Card", "Gone"}, attrs |-> attrs,
   children |-> children, text |-> text, expr |-> expr]
El(tag, attrs, children) == MCNode("element", tag, attrs, children, "", NoExpr)
Text(text) == MCNode("text", "", <<>>, <<>>, text, NoExpr)
Show(expr) == MCNode("interpolation", "", <<>>, <<>>, "", expr)
Comment == MCNode("comment", "", <<>>, <<>>, "", NoExpr)

\* The nodes of a list, told apart by their place in it.
Placed(nodes) ==
  [i \in DOMAIN nodes |->
     IF nodes[i].kind = "element"
     THEN [nodes[i] EXCEPT !.children = Append(@, Text(<<"1", "2", "3", "4">>[i]))] ELSE nodes[i]]
Lists(S, n) == {Placed(s) : s \in UNION {[1 .. k -> S] : k \in 1 .. n}}
WithoutRepeats(S, n) ==
  {s \in UNION {[1 .. k -> S] : k \in 0 .. n} : \A i, j \in DOMAIN s : i # j => s[i] # s[j]}

Key(symbol) == Bind("key", Expr(symbol))
Loop == <<For("x", "", "rows"), Key("x")>>

-----------------------------------------------------------------------------
Chains ==
  {El("p", <<Dir("if", "a")>>, <<>>), El("p", <<Dir("else-if", "b")>>, <<>>),
   El("p", <<Dir("else", "")>>, <<>>), El("template", <<Dir("if", "b")>>, <<Text("t"), Comment>>),
   El("template", <<Dir("else-if", "a")>>, <<>>), El("p", <<>>, <<>>), Text("")}
MoreChains == Chains \cup
  {El("p", <<Dir("if", "a")>> \o Loop, <<>>), El("p", Loop, <<>>),
   El("p", <<Dir("else", "")>> \o Loop, <<>>), El("Card", <<Dir("else", ""), Static("title", "c")>>, <<>>),
   El("p", <<Dir("if", "b"), Dir("else", "")>>, <<>>), El("p", <<Dir("case", "a")>>, <<>>),
   El("p", <<Dir("if", "mode")>>, <<>>), Comment, Text("words")}

Body(names) == LET order == SetToSeq(names) IN [i \in DOMAIN order |-> Show(Expr(order[i]))]
\* An outer item, its source and the source of the inner v-for: the items of
\* grid can be iterated, and those of rows are text.
Outer == {<<"x", "grid", "x">>, <<"y", "grid", "x">>, <<"x", "rows", "rows">>, <<"y", "grid", "y">>}
Nested ==
  {<<El("ul", <<For(o[1], i, o[2]), Key(o[1])>>,
        <<El(tag, <<For(inner, j, o[3]), Key(key)>>, Body(names))>>)>>
     : o \in Outer, i \in {"", "i"}, tag \in {"li", "template"},
       inner \in {"x", "title"}, j \in {"", "i", "y"},
       key \in {"x", "i", "gone"}, names \in SUBSET {"x", "y", "i", "title"}}
Deep ==
  {<<El("ul", <<For(x, "i", "rows"), Key(x)>>,
     <<El("ul", <<For(y, j, "rows"), Key(y), Dir("if", "a")>>,
       <<El("li", <<For(z, "", "rows"), Key("i")>>, Body({x, y, z, j}))>>)>>)>>
     : x, y, z \in {"x", "y", "z"}, j \in {"i", "j"}}

Switches ==
  {<<El(tag, attrs, nodes)>>
     : tag \in {"template", "div"},
       attrs \in {<<Dir("switch", "mode")>>, <<DirOf("switch", FieldOf(Expr("x"), "name"))>> \o Loop,
                  <<Dir("switch", "mode"), Dir("if", "a")>>, <<Dir("switch", "rows")>>},
       nodes \in {<<>>} \cup Lists(
         {El("p", <<Dir("case", "title")>>, <<>>), El("p", <<Dir("case", "sub")>>, <<>>),
          El("p", <<Dir("case", "a")>>, <<>>), El("p", <<Dir("default", "")>>, <<>>),
          El("p", <<Dir("case", "title")>> \o Loop, <<>>), El("p", <<>>, <<>>),
          El("p", <<Dir("case", "sub"), Dir("if", "b")>>, <<>>), Comment}, 3)}

Inputs ==
  {<<El("input", attrs, <<>>)>>
     : attrs \in WithoutRepeats(
         {Static("class", "c"), Bind("class", Expr("title")), Static("style", "s"),
          Flag("style"), Flag("disabled"),
          Bind("style", Expr("sub")), Static("value", "v"), Dir("model", "title"),
          On("input", Expr("save")), Bind("id", Expr("label"))}, 4)}
Models ==
  {<<El(tag, attrs \o <<Dir("model", symbol)>>, <<>>)>>
     : tag \in {"input", "select", "div"}, symbol \in DOMAIN MCSymbols,
       attrs \in {<<>>, <<Static("type", "checkbox"), Flag("checked")>>, <<Flag("type"), Static("type", "text")>>,
                  <<Static("type", "file")>>, <<For("title", "", "any"), Key("title")>>}}

Cards ==
  {<<El("Card", attrs, children)>>
     : attrs \in WithoutRepeats(
         {Static("title", "c"), Bind("title", Expr("sub")), Bind("open", Expr("a")),
          Flag("title"), Flag("open"), Static("open", "o"),
          Bind("open", Expr("title")), On("close", Expr("save")), On("close", Expr("count")),
          Static("size", "s"), Dir("model", "title")}, 3),
       children \in {<<Comment>>, <<El("p", <<Dir("if", "a")>>, <<>>), El("slot", <<>>, <<>>)>>,
                     <<El("p", <<Dir("if", "b")>>, <<>>), El("p", <<Dir("else", "")>>, <<>>)>>}}

Others ==
  {<<El(tag, <<a>>, <<Show(Expr("title"))>>)>>
     : tag \in {"p", "template", "slot", "Gone"},
       a \in {Dir("html", "html"), Dir("html", "title"), Static("id", "i"), Key("a"), Key("gone"),
              On("click", Expr("save")), On("click", Called("save")), On("click", Expr("title")),
              Bind("title", Called("count")), Bind("title", Expr("count"))}}

\* Expressions of depth two and three, as text, condition and attribute.
Leaves == {Expr(symbol) : symbol \in DOMAIN MCSymbols \cup {"gone"}}
            \cup {Called(symbol) : symbol \in {"count", "label", "save", "title", "gone"}}
            \cup {Operator("literal", "T", <<>>)}
Plain == {Expr("title"), Expr("a"), Called("count"), Expr("save"), Operator("literal", "S", <<>>)}
Operations(S, T) ==
  {Operator(op, "", <<x, y>>) : op \in {"&&", "==", "+"}, x \in S, y \in T}
    \cup {Operator("!", "", <<x>>) : x \in S}
Parts ==
  {Operator("item", "", <<Expr(symbol)>>) : symbol \in {"a", "rows", "grid", "any"}}
    \cup {FieldOf(Operator("item", "", <<Expr("rows")>>), name) : name \in {"name", "done", "gone"}}
    \cup {FieldOf(Expr(symbol), "name") : symbol \in {"title", "rows", "obj"}}
    \cup {Operator("slice", "", <<Expr("title")>>)}
Texts == {FieldOf(Operator("item", "", <<Expr("rows")>>), "name"), Expr("label")} \cup Plain
\* What the conditions and attributes evaluate has a known type: a value of an
\* unknown type may be anything.
Shown2 ==
  {e \in Leaves \cup Parts \cup Operations(Texts, Texts) \cup Operations(Operations(Plain, Plain), Plain)
     : NamesIn(e) \cap {"any", "obj"} = {}}
Formulas ==
  {<<Show(e)>> : e \in Leaves \cup Parts \cup Operations(Texts, Texts)}
    \cup {<<El("p", <<DirOf("if", e)>>, <<>>), El("p", <<Bind("title", e)>>, <<>>)>> : e \in Shown2}
    \cup {<<El("p", <<Bind("title", e)>>, <<>>)>> : e \in Shown2}

-----------------------------------------------------------------------------
File(component, package, scoped, nodes) ==
  [component |-> component, package |-> package, scoped |-> scoped, nodes |-> nodes]

MCProjects ==
  {<<File("App", "main", FALSE, nodes)>>
     : nodes \in Lists(MoreChains, 3) \cup Lists(Chains, 4) \cup Nested \cup Deep}
  \cup {<<File("App", "main", TRUE, nodes)>>
          : nodes \in Switches \cup Inputs \cup Models \cup Cards \cup Others \cup Formulas}
  \cup {<<File("App", p, FALSE, <<Text("t")>>), File(name, "main", TRUE, <<Show(Expr(symbol))>>)>>
          : name \in {"App", "Card"}, p \in {"main", "lib"}, symbol \in {"title", "count"}}
=============================================================================
