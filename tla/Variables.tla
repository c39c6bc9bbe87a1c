----------------------------- MODULE Variables -----------------------------
(***************************************************************************)
(* The names of values: the full names that the exporter gives a value's   *)
(* children (lib/var_export_xml.c), and the lookup that a name is put       *)
(* through when it comes back (xdebug_get_php_symbol in lib/var.c).         *)
(*                                                                         *)
(* A value is a tree.  Its items are the elements of an array or the       *)
(* properties of an object, in order; a name is a sequence of characters.  *)
(* Values that contain themselves are left out.                            *)
(***************************************************************************)
EXTENDS CommandLine

CONSTANT ClassStatics   \* [class -> the items that are its static properties]

Digits == Octal \cup {"8", "9"}
Undefined == [type |-> "undef", is |-> "", items |-> <<>>]
Scalar(x) == [type |-> "scalar", is |-> x, items |-> <<>>]
Array(items) == [type |-> "array", is |-> "", items |-> items]
Object(class, items) == [type |-> "object", is |-> class, items |-> items]

\* Visibility "debug": private, and only in what the class's get_debug_info returns.
Item(num, name, vis, of, value) ==
  [num |-> num, name |-> name, vis |-> vis, of |-> of, static |-> FALSE, value |-> value]

ValueIn(items) == IF items = {} THEN Undefined ELSE (CHOOSE x \in items : TRUE).value
-----------------------------------------------------------------------------
(* fetch_zval_from_symbol_table: one step of a name, by what it is thought to *)
(* be.  scope holds what the step from a frame can find: its special values   *)
(* ($__RETURN_VALUE, $__EXCEPTION), its variables, $this and its class; and the *)
(* intermediate value of the statement that runs, which no step looks for.    *)
Starred(class, name) == <<"*", class, "*">> \o name

StaticMember(ce, word) ==
  IF ce = "" THEN Undefined
  ELSE ValueIn({x \in ToSet(ClassStatics[ce]) : x.name = word \/ word = Starred(x.of, x.name)})

\* The special values match any beginning of their names.
RootVariable(scope, word) ==
  LET special == {i \in DOMAIN scope.special : IsPrefix(word, scope.special[i].name)}
      Named(w) == {x \in ToSet(scope.locals) : x.name = w}
  IN  IF special # {} THEN scope.special[CHOOSE i \in special : \A j \in special : i <= j].value
      ELSE IF Named(word) # {} THEN ValueIn(Named(word))
      ELSE IF Stripped(word) = <<"this">> THEN scope.this
      ELSE ValueIn(Named(Stripped(word)))

ElementAt(value, word, num) ==
  ValueIn({x \in ToSet(value.items) :
             x.vis = "public" /\ x.num = num /\ x.name = IF num THEN word ELSE Stripped(word)})

\* handle_spl_classes: what some classes show of themselves without having it.
SplStorage ==
  {<<"storage", "ArrayObject">>, <<"storage", "ArrayIterator">>, <<"storage", "SplObjectStorage">>,
   <<"dllist", "SplDoublyLinkedList">>, <<"heap", "SplPriorityQueue">>}
SplValue(value, ce, word) ==
  {x \in ToSet(value.items) : x.vis = "debug" /\ <<x.of>> = <<ce>> /\ x.name = word
                              /\ \E s \in SplStorage : word = <<s[1]>> /\ ce = s[2]}

Property(value, ce, word) ==
  LET AsPublic == {x \in ToSet(value.items) : x.vis = "public" /\ x.name = word}
      AsPrivate == {x \in ToSet(value.items) :
                      x.vis \in {"private", "debug"} /\ word = Starred(x.of, x.name)}
      AsClassSees == {x \in ToSet(value.items) :
                        /\ x.name = word
                        /\ x.vis = "protected" \/ (x.vis = "private" /\ x.of = ce)}
  IN  IF value.type # "object" THEN Undefined
      ELSE ValueIn(CASE AsPublic # {}    -> AsPublic
                     [] AsPrivate # {}   -> AsPrivate
                     [] AsClassSees # {} -> AsClassSees
                     [] OTHER            -> SplValue(value, ce, word))

Fetch(scope, p, word) ==
  CASE p.type = "root"                  -> RootVariable(scope, word)
    [] p.type = "static"                -> StaticMember(p.ce, word)
    [] p.type = "key"                   -> ElementAt(p.value, word, FALSE)
    [] p.type = "number"                -> ElementAt(p.value, word, TRUE)
    [] p.type = "property"              -> Property(p.value, p.ce, word)
    [] p.type = "escaped property"      -> Property(p.value, p.ce, Stripped(word))
-----------------------------------------------------------------------------
(* xdebug_get_php_symbol: the machine of its switch; p.from is where the word *)
(* begins that is still to be looked up, 0 when there is none.                *)
Reached(p, v) == [p EXCEPT !.value = v, !.from = 0, !.ce = IF v.type = "object" THEN v.is ELSE @]

Looked(scope, p, name, i) ==
  IF p.from = 0 THEN p ELSE Reached(p, Fetch(scope, p, Slice(name, p.from, i)))

AfterName(p, q, c) ==
  CASE c = "[" -> [q EXCEPT !.state = "index", !.ce = IF p.from = 0 THEN @ ELSE ""]
    [] c = "-" -> [q EXCEPT !.state = "arrow", !.type = "property"]
    [] c = ":" -> [q EXCEPT !.state = "colons", !.type = "static"]
    [] OTHER   -> p

InName(scope, p, name, i) == AfterName(p, Looked(scope, p, name, i), name[i])

WordAt(p, i, state) == [p EXCEPT !.from = i, !.state = state]

SymbolChar(scope, p, name, i) ==
  LET c == name[i]
  IN  CASE p.state = "start" ->
             IF c = "$" THEN [p EXCEPT !.from = i + 1]
             ELSE IF c = ":" THEN WordAt(p, i, "static")
             ELSE InName(scope, WordAt(p, i, "name"), name, i)
        [] p.state = "name"   -> InName(scope, p, name, i)
        [] p.state = "arrow"  -> IF c = ">" THEN p
                                 ELSE IF c = "{" THEN Became(p, "brace") ELSE WordAt(p, i, "name")
        [] p.state = "colons" -> IF c = ":" THEN p ELSE WordAt(p, i, "name")
        [] p.state = "static" ->
             IF c # ":" THEN p
             ELSE IF scope.class = "" THEN [p EXCEPT !.from = 0, !.state = "name"]
             ELSE [WordAt(p, i + 1, "name") EXCEPT !.ce = scope.class, !.type = "static"]
        [] p.state = "index"  ->
             CASE c \in {"'", Quote} -> [WordAt(p, i + 1, "key") EXCEPT !.quote = c, !.type = "key"]
               [] c \in Digits       -> [WordAt(p, i, "number") EXCEPT !.type = "number"]
               [] c = "-"            -> WordAt(p, i, "minus")
               [] OTHER              -> p
        [] p.state = "minus"  -> IF c \in Digits THEN [p EXCEPT !.state = "number", !.type = "number"]
                                 ELSE p
        [] p.state = "number" -> IF c = "]" THEN Became(Looked(scope, p, name, i), "name") ELSE p
        [] p.state = "brace"  ->
             IF c \in {"'", Quote}
             THEN [WordAt(p, i + 1, "braced") EXCEPT !.quote = c, !.type = "escaped property"] ELSE p
        [] p.state \in {"key", "braced"} ->
             IF c = Backslash THEN Became(p, p.state \o " escape")
             ELSE IF c = p.quote
             THEN Became(Looked(scope, p, name, i), IF p.state = "key" THEN "]" ELSE "}")
             ELSE p
        [] p.state = "key escape"    -> Became(p, "key")
        [] p.state = "braced escape" -> Became(p, "braced")
        [] p.state \in {"]", "}"}    -> IF c = p.state THEN Became(p, "name") ELSE p

SymbolStart == [state |-> "start", type |-> "root", from |-> 0, ce |-> "", quote |-> NUL,
                value |-> Undefined]

GetPhpSymbol(scope, name) ==
  LET at[i \in 0..Len(name)] ==
        IF i = 0 THEN SymbolStart ELSE SymbolChar(scope, at[i - 1], name, i)
  IN  Looked(scope, at[Len(name)], name, Len(name) + 1).value
-----------------------------------------------------------------------------
(* The export of a value: names, and which of its items are shown.            *)
AddSlashes(s) ==
  FlattenSeq([i \in DOMAIN s |->
                CASE s[i] = NUL                             -> <<Backslash, "0">>
                  [] s[i] \in {"'", Quote, Backslash} -> <<Backslash, s[i]>>
                  [] OTHER                                  -> <<s[i]>>])

ElementName(parent, x) ==
  parent \o (IF x.num THEN <<"[">> \o x.name \o <<"]">>
             ELSE <<"[", Quote>> \o AddSlashes(x.name) \o <<Quote, "]">>)

OfAnotherClass(x, class) == x.vis \in {"private", "debug"} /\ x.of # class

NeedsBraces(name) == name = <<>> \/ ToSet(name) \cap {"-", "[", "{"} # {}

\* Faulty: only a name with a minus is put between braces.
PropertyNameBare(parent, class, x) ==
  parent \o (IF x.static THEN <<":", ":">> ELSE <<"-", ">">>)
         \o (CASE OfAnotherClass(x, class)  -> Starred(x.of, x.name)
               [] "-" \in ToSet(x.name) -> <<"{", Quote>> \o AddSlashes(x.name) \o <<Quote, "}">>
               [] OTHER                     -> x.name)

PropertyName(parent, class, x) ==
  parent \o (IF x.static THEN <<":", ":">> ELSE <<"-", ">">>)
         \o (CASE OfAnotherClass(x, class) -> Starred(x.of, x.name)
               [] NeedsBraces(x.name)      -> <<"{", Quote>> \o AddSlashes(x.name) \o <<Quote, "}">>
               [] OTHER                    -> x.name)

ItemsOf(value) ==
  IF value.type = "object" THEN ClassStatics[value.is] \o value.items ELSE value.items

\* The items first..last, of n, that a level shows; only the first level has pages.
Shown(n, options, level) ==
  LET page == IF level = 0 THEN options.page ELSE 0
      last == options.max_children * (page + 1)
  IN  IF level < options.max_depth
      THEN (options.max_children * page + 1)..(IF last < n THEN last ELSE n) ELSE {}

RECURSIVE Exported(_, _, _, _)
Exported(value, fullname, options, level) ==
  LET items == ItemsOf(value)
      ChildName(x) == IF value.type = "object" THEN PropertyName(fullname, value.is, x)
                      ELSE ElementName(fullname, x)
      shown == Shown(Len(items), options, level)
      first == options.max_children * (IF level = 0 THEN options.page ELSE 0)
  IN  [fullname |-> fullname, type |-> value.type, is |-> value.is, numchildren |-> Len(items),
       children |-> [k \in 1..Cardinality(shown) |->
                       Exported(items[first + k].value, ChildName(items[first + k]),
                                options, level + 1)]]

PreparedName(name) ==
  LET n == IF name[1] \in {"$", ":"} THEN name ELSE <<"$">> \o name
  IN  IF SubSeq(n, Len(n) - 1, Len(n)) = <<":", ":">> THEN SubSeq(n, 1, Len(n) - 2) ELSE n

\* get_symbol and property_get, of a name in a scope: one exported value, or none.
ExportedSymbol(v, name, options) ==
  IF v = Undefined THEN <<>> ELSE <<Exported(v, PreparedName(name), options, 0)>>

GetSymbol(scope, name, options) == ExportedSymbol(GetPhpSymbol(scope, name), name, options)

\* xdebug_var_xml_attach_static_vars: what a static method sees of its class.
StaticVars(class) ==
  [i \in DOMAIN ClassStatics[class] |->
     [name |-> PropertyName(<<>>, class, ClassStatics[class][i]), value |-> ClassStatics[class][i].value]]

\* attach_context_vars: the values of a frame, as [name, value] that the client is told.
Virtual(values) ==
  [i \in DOMAIN values |-> [name |-> <<"$">> \o values[i].name, value |-> values[i].value]]

ContextVars(scope) ==
  IF scope.return_shown THEN Virtual(<<scope.special[1]>>)
  ELSE Virtual(scope.intermediate) \o Virtual(scope.special)
       \o [i \in DOMAIN scope.locals |->
             [name |-> scope.locals[i].name, value |-> scope.locals[i].value]]
       \o (IF scope.this = Undefined THEN <<>>
           ELSE <<[name |-> <<"this">>, value |-> scope.this]>>)
       \o (IF scope.class = "" \/ scope.this # Undefined THEN <<>> ELSE StaticVars(scope.class))
-----------------------------------------------------------------------------
\* Names the exporter does not quote although the lookup reads them otherwise: a
\* property name with a colon after its first character or a ">" before it, a
\* key with a digit behind a NUL; and what a class shows of itself that the
\* lookup does not know (var_export_xml.c:346, var.c:705, compat.c:265, var.c:323).
Misread(value, x) ==
  IF value.type # "object"
  THEN \E i \in 1..(Len(x.name) - 1) : x.name[i] = NUL /\ x.name[i + 1] \in Octal
  ELSE \/ /\ x.vis = "public" /\ ~NeedsBraces(x.name)
          /\ x.name[1] = ">" \/ ":" \in ToSet(Tail(x.name))
       \/ x.vis = "public" /\ NeedsBraces(x.name)
          /\ \E i \in 1..(Len(x.name) - 1) : x.name[i] = NUL /\ x.name[i + 1] \in Octal
       \/ x.vis = "debug" /\ ~OfAnotherClass(x, value.is) /\ <<x.name, x.of>> \notin
            {<<<<s[1]>>, s[2]>> : s \in SplStorage}

NumberOfPages(n, size) == (n + size - 1) \div size

PagesOf(scope, fullname, n, options) ==
  FlattenSeq([k \in 1..NumberOfPages(n, options.max_children) |->
                GetSymbol(scope, fullname, [options EXCEPT !.page = k - 1])[1].children])

\* A client that asks for a value by its full name, page by page, and then for
\* each item by the name it got with it, is shown every value below it, each
\* once and in order (handler_dbgp.c:1763, var.c:652, var_export_xml.c:240).
RECURSIVE FoundBelow(_, _, _, _)
FoundBelow(scope, fullname, value, options) ==
  /\ GetPhpSymbol(scope, fullname) = value
  /\ \E pages \in {PagesOf(scope, fullname, Len(ItemsOf(value)), options)}, items \in {ItemsOf(value)} :
       /\ GetSymbol(scope, fullname, [options EXCEPT !.page = 0])[1].numchildren = Len(items)
       /\ Len(pages) = Len(items)
       /\ \A i \in DOMAIN items :
            /\ <<pages[i].type, pages[i].is>> = <<items[i].value.type, items[i].value.is>>
            /\ ~Misread(value, items[i]) =>
                 FoundBelow(scope, pages[i].fullname, items[i].value, options)

\* What a frame's context shows is found by the name it is shown with, and all below
\* it.  Not found are the intermediate value, which the lookup does not know, and a
\* variable whose name begins a special value's while that is there
\* (handler_dbgp.c:2152, var.c:427).
ValuesAreFound(scope, options) ==
  \A i \in DOMAIN ContextVars(scope) :
    LET v == ContextVars(scope)[i]
        IsOf(values) == \E x \in ToSet(values) : v.name = <<"$">> \o x.name
        Shadowed == ~IsOf(scope.special) /\ \E x \in ToSet(scope.special) : IsPrefix(v.name, x.name)
    IN  v.value # Undefined /\ ~IsOf(scope.intermediate) /\ ~Shadowed =>
          FoundBelow(scope, PreparedName(v.name), v.value, options)
=============================================================================
