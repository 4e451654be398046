---------------------------- MODULE MCRedaction ----------------------------
(* Instances of Redaction: two classes that may refer to each other, with  *)
(* a field of either name of every kind of type, a third that is           *)
(* array-like in one instance and not in the other, and their values.      *)
EXTENDS Redaction, TLC

Three == {"A", "B", "C"}
Lists == {"C"}
AllKeys == {"f", "g", "key", "first", "second"}
Depth == 3              \* bound: how deep structs nest in a value

Optional(t) == Union({t, NoneType})
Pair(t, u) == Tuple([first |-> t, second |-> u])

FieldTypes == {
    Plain,
    Secret(Plain),
    Meta(Secret(List(Plain))),
    Optional(Secret(Plain)),
    Union({Plain, Secret(List(Plain))}),
    Optional(Struct("A")),
    List(Struct("B")),
    Dict(Optional(Struct("A"))),
    Pair(Plain, Optional(Struct("B"))),
    Union({Struct("A"), Struct("B"), NoneType}),
    Union({List(Struct("A")), Struct("B"), Plain}),
    Meta(Optional(Struct("B"))),
    Union({Meta(Struct("A")), Struct("B"), NoneType}),
    Union({Meta(Union({Struct("A"), Struct("B")})), Plain}),
    List(Struct("C"))}

SmallTypes == {Plain, Secret(Plain), Optional(Struct("A"))}

AllTables ==
    {[c \in Three |-> CASE c = "A" -> [f |-> x, g |-> y]
                        [] c = "B" -> [g |-> z]
                        [] c = "C" -> [g |-> Secret(Plain)]]
     : x \in FieldTypes, y \in SmallTypes, z \in FieldTypes}

RECURSIVE Inside(_)
Inside(t) == {t} \cup UNION {Inside(u) : u \in Components(t)}

AllTypes == UNION {Inside(t) : t \in FieldTypes} \cup {Struct(c) : c \in Three}

RECURSIVE Height(_)
Height(t) ==
    LET heights == {Height(u) : u \in Components(t)}
    IN  IF heights = {} THEN 0 ELSE 1 + CHOOSE h \in heights : \A g \in heights : g <= h

Heights == [t \in AllTypes |-> Height(t)]

(***************************************************************************)
(* The values of a type, built from the type alone.                        *)
(***************************************************************************)
Node(form, tag, t) == [form |-> form, tag |-> tag, chain |-> <<t>>]
Alone(form, t) == Root :> Node(form, NoTag, t)

\* The value d under key k.
Graft(k, d) == [n \in {<<k>> \o m : m \in DOMAIN d} |-> d[Tail(n)]]

\* A value that has type t too, and one nothing under which is to be seen.
Wrapped(t, d) == [d EXCEPT ![Root].chain = <<t>> \o @]
Tainted(t, d) == [n \in DOMAIN d |-> [d[n] EXCEPT !.chain = IF n = Root THEN <<t>> ELSE <<>>]]

RECURSIVE Values(_, _, _), Instances(_, _, _, _)
\* The instances of a class, restricted to the fields in names.
Instances(tb, c, names, depth) ==
    IF names = {} THEN {Root :> Node(Form(Struct(c)), TagIn(Struct(c)), Struct(c))}
    ELSE LET n == CHOOSE n \in names : TRUE
         IN  {s @@ Graft(n, f) : s \in Instances(tb, c, names \ {n}, depth),
                                 f \in Values(tb, tb[c][n], depth)}
Values(tb, t, depth) ==
    CASE t.node = "plain" -> {Alone("atom", t)}
      [] t.node = "none"  -> {Alone("none", t)}
      [] t.node = "meta"  ->
            {IF t.secret THEN Tainted(t, d) ELSE Wrapped(t, d) : d \in Values(tb, t.type, depth)}
      [] t.node = "struct" ->
            IF depth = 0 THEN {} ELSE Instances(tb, t.cls, DOMAIN tb[t.cls], depth - 1)
      [] t.node = "list" ->
            {Alone("list", t)}
               \cup {Alone("list", t) @@ Graft("first", d) @@ Graft("second", d)
                     : d \in Values(tb, t.item_type, depth)}
      [] t.node = "dict" ->
            {Alone("dict", t) @@ Graft("key", d) : d \in Values(tb, t.value_type, depth)}
      [] t.node = "tuple" ->
            {Alone("list", t) @@ Graft("first", d) @@ Graft("second", e)
             : d \in Values(tb, t.item_types["first"], depth),
               e \in Values(tb, t.item_types["second"], depth)}
      [] t.node = "union" ->
            UNION {{Wrapped(t, d) : d \in Values(tb, u, depth)} : u \in t.types}

AllDocuments(tb, c) == Values(tb, Struct(c), Depth)

=============================================================================
