----------------------------- MODULE Redaction -----------------------------
(***************************************************************************)
(* What the audit trail shows of a request or a result whose class has     *)
(* fields marked SECRET: redaction.py compiles a plan from the class, once *)
(* per method, and applies it to a copy of each value, on the audit        *)
(* thread, when the record is polled.                                      *)
(*                                                                         *)
(* A class has named fields and may be a tagged member of a union; classes *)
(* may refer to one another, and may be array_like, whose values are lists *)
(* of their fields.  A type is a record whose `node' names it.             *)
(* A value is a document: a tree in the form msgspec.to_builtins() gives   *)
(* it, whose nodes are named by the path of keys that leads to them.  What *)
(* an audit handler is shown is the set of nodes where "********" stands.  *)
(***************************************************************************)
EXTENDS Naturals, Sequences, FiniteSets

CONSTANTS
    Classes,            \* msgspec.Struct classes, each tagged with its own name
    ArrayLike,          \* those of them declared array_like
    Types,              \* the types that occur
    Nesting,            \* [Types -> Nat]: how deep a type nests
    Tables,             \* the assignments of fields and types to classes
    Keys,               \* field names, keys of a dict, positions in a list or tuple
    Documents(_, _)     \* the values of a class, under a table

VARIABLES
    table,      \* [Classes -> [field names -> types]]
    cls,        \* the class a method accepts or returns
    doc,        \* the value in the audit queue, then in the audit thread's hand
    at,         \* where the record is: idle, queued, applying, shown
    applied     \* calls of _apply() made for it: a node and a plan

vars == <<table, cls, doc, at, applied>>

(***************************************************************************)
(* Types.                                                                  *)
(***************************************************************************)
Plain     == [node |-> "plain"]
NoneType  == [node |-> "none"]
Meta(t)   == [node |-> "meta", secret |-> FALSE, type |-> t]
Secret(t) == [node |-> "meta", secret |-> TRUE, type |-> t]
Struct(c) == [node |-> "struct", cls |-> c]
List(t)   == [node |-> "list", item_type |-> t]     \* list, set, frozenset, tuple[t, ...]
Dict(t)   == [node |-> "dict", value_type |-> t]
Tuple(ts) == [node |-> "tuple", item_types |-> ts]
Union(ts) == [node |-> "union", types |-> ts]

Components(t) ==
    CASE t.node = "meta"  -> {t.type}
      [] t.node = "list"  -> {t.item_type}
      [] t.node = "dict"  -> {t.value_type}
      [] t.node = "tuple" -> {t.item_types[k] : k \in DOMAIN t.item_types}
      [] t.node = "union" -> t.types
      [] OTHER            -> {}

InDict(t) == t.node = "dict" \/ (t.node = "struct" /\ t.cls \notin ArrayLike)

\* The form of a type's values.
Form(t) ==
    IF InDict(t) THEN "dict"
    ELSE CASE t.node \in {"list", "tuple", "struct"} -> "list"
           [] t.node = "none"                        -> "none"
           [] OTHER                                  -> "atom"

Bare(t) == IF t.node = "meta" THEN t.type ELSE t

IsSecret(t) == t.node = "meta" /\ t.secret

(***************************************************************************)
(* Documents.  A node has a form, the tag of a struct, and the chain of    *)
(* types its value was given, from the declared one through annotations    *)
(* and the members of unions to the one that has no choice left.  What is  *)
(* under a SECRET annotation has none.  The places in the list of an       *)
(* array-like struct are named by its fields.                              *)
(***************************************************************************)
Root == <<>>
NoTag == "none"
Last(s) == s[Len(s)]

\* What a value of the type t has under the name of the tag field.
TagIn(t) == IF t.node = "struct" /\ InDict(t) THEN t.cls ELSE NoTag

\* The types of what lies under key k in a value of type t.
Below(tb, t, k) ==
    CASE t.node = "struct" -> {tb[t.cls][f] : f \in DOMAIN tb[t.cls] \cap {k}}
      [] t.node = "list"   -> {t.item_type}
      [] t.node = "dict"   -> {t.value_type}
      [] t.node = "tuple"  -> {t.item_types[i] : i \in DOMAIN t.item_types \cap {k}}
      [] OTHER             -> {}

Chained(chain, value) ==
    /\ \A i \in 1 .. Len(chain) - 1 :
          /\ chain[i].node \in {"meta", "union"} /\ ~IsSecret(chain[i])
          /\ chain[i + 1] \in Components(chain[i])
    /\ LET t == Last(chain)
           b == Bare(t)
       IN  /\ IsSecret(t) \/ t.node \notin {"meta", "union"}
           /\ b.node \notin {"meta", "union"} =>
                 value.form = Form(b) /\ value.tag = TagIn(b)

Conforms(d, tb, c) ==
    /\ DOMAIN d \subseteq Seq(Keys) /\ Root \in DOMAIN d
    /\ \A n \in DOMAIN d : d[n].chain \in Seq(Types) /\ d[n].tag \in Classes \cup {NoTag}
    /\ d[Root].chain # <<>> /\ d[Root].chain[1] = Struct(c)
    /\ \A n \in DOMAIN d : d[n].chain # <<>> => Chained(d[n].chain, d[n])
    /\ \A n \in DOMAIN d \ {Root} :
          \E m \in DOMAIN d, k \in Keys :
             /\ n = Append(m, k)
             /\ IF d[m].chain = <<>> \/ IsSecret(Last(d[m].chain))
                THEN d[n].chain = <<>>
                ELSE d[n].chain # <<>> /\ d[n].chain[1] \in Below(tb, Last(d[m].chain), k)

ASSUME RedactionAssumption ==
    /\ IsFiniteSet(Classes) /\ ArrayLike \subseteq Classes /\ NoTag \notin Classes
    /\ Nesting \in [Types -> Nat]
    /\ \A c \in Classes : Struct(c) \in Types
    /\ \A t \in Types :
          /\ t.node = "struct" => t.cls \in Classes /\ t = Struct(t.cls)
          /\ \A u \in Components(t) : u \in Types /\ Nesting[u] < Nesting[t]
    /\ \A tb \in Tables, c \in Classes :
          /\ \A n \in DOMAIN tb[c] : tb[c][n] \in Types
          /\ \A d \in Documents(tb, c) : Conforms(d, tb, c)

(***************************************************************************)
(* compile_plan().                                                         *)
(***************************************************************************)
NoPlan == <<"none", {}>>
Mask   == <<"mask", {}>>
Around(kind, plan) == IF plan = NoPlan THEN NoPlan ELSE <<kind, plan>>

\* Deliberately wrong: a class met again further down has nothing to mask.
RecurseForgotten(c) == NoPlan

Recurse(c) == <<"recurse", c>>

\* Deliberately wrong: a member of a union is applied whatever the tag says.
TagIgnored(t) == NoTag

\* getattr(x, "tag", None): a struct has one, the Metadata around it and another union have none.
TagOf(t) == IF t.node = "struct" THEN t.cls ELSE NoTag

Members(plan, t, stack) ==
    {<<TagOf(u), plan[<<u, stack>>]>> : u \in {u \in t.types : plan[<<u, stack>>] # NoPlan}}

\* _compile(t, stack), where plan is what its recursive calls return.
PlanFor(tb, plan, t, stack) ==
    CASE t.node = "meta" -> IF t.secret THEN Mask ELSE plan[<<t.type, stack>>]
      [] t.node = "struct" ->
            IF t.cls \in stack THEN Recurse(t.cls)
            ELSE LET inner(n) == plan[<<tb[t.cls][n], stack \cup {t.cls}>>]
                     sub == {n \in DOMAIN tb[t.cls] : inner(n) # NoPlan}
                 IN  IF sub = {} THEN NoPlan ELSE <<"struct", [n \in sub |-> inner(n)]>>
      [] t.node = "list" -> Around("list", plan[<<t.item_type, stack>>])
      [] t.node = "dict" -> Around("dict", plan[<<t.value_type, stack>>])
      [] t.node = "tuple" ->
            LET parts == [k \in DOMAIN t.item_types |-> plan[<<t.item_types[k], stack>>]]
            IN  IF \E k \in DOMAIN parts : parts[k] # NoPlan THEN <<"tuple", parts>> ELSE NoPlan
      [] t.node = "union" ->
            LET members == Members(plan, t, stack)
            IN  IF members = {} THEN NoPlan ELSE <<"union", members>>
      [] OTHER -> NoPlan

Positions == Types \X SUBSET Classes

Compile(tb) == LET plan[x \in Positions] == PlanFor(tb, plan, x[1], x[2]) IN plan

\* compile_plan(): the plan is a function of the class, the cache only remembers it.
PlanOf(tb, c) == Compile(tb)[<<Struct(c), {}>>]

(***************************************************************************)
(* redact().                                                               *)
(***************************************************************************)
\* The calls _apply() makes of itself, for the value at node n of the document d.  For a union
\* without a tag every member is applied in turn, also to what an earlier one has masked, which
\* no longer shows.
Apply(tb, d, n, plan) ==
    LET kind == plan[1]
        value == d[n]
        under == {k \in Keys : Append(n, k) \in DOMAIN d}
    IN  CASE kind = "mask" \/ value.form = "none" -> {}
          [] kind = "struct" /\ value.form = "dict" ->
                {<<Append(n, k), plan[2][k]>> : k \in under \cap DOMAIN plan[2]}
          [] kind = "list" /\ value.form = "list" -> {<<Append(n, k), plan[2]>> : k \in under}
          [] kind = "dict" /\ value.form = "dict" -> {<<Append(n, k), plan[2]>> : k \in under}
          [] kind = "tuple" /\ value.form = "list" ->
                {<<Append(n, k), plan[2][k]>>
                 : k \in {k \in under \cap DOMAIN plan[2] : plan[2][k] # NoPlan}}
          [] kind = "union" /\ value.form # "none" ->
                LET tagged == value.tag # NoTag /\ \E m \in plan[2] : m[1] # NoTag
                IN  {<<n, m[2]>> : m \in {m \in plan[2] : tagged => m[1] = value.tag}}
          [] kind = "recurse" /\ value.form # "none" ->
                {<<n, sub>> : sub \in {PlanOf(tb, plan[2])} \ {NoPlan}}
          [] OTHER -> {}

ApplyAll(tb, d, calls) == UNION {Apply(tb, d, call[1], call[2]) : call \in calls}

\* Where the copy has "********": None stays None.
MaskedBy(d, calls) == {call[1] : call \in {c \in calls : c[2][1] = "mask" /\ d[c[1]].form # "none"}}

(***************************************************************************)
(* A method is declared; a call of it is queued for audit as it is; the    *)
(* audit thread polls and redacts.  Its recursion goes down one level a    *)
(* step.                                                                   *)
(***************************************************************************)
Nothing == <<>>

Init ==
    /\ table \in Tables
    /\ cls \in Classes
    /\ doc = Nothing /\ at = "idle" /\ applied = {}

Audit ==
    /\ at \in {"idle", "shown"}
    /\ doc' \in Documents(table, cls)
    /\ at' = "queued" /\ applied' = {}
    /\ UNCHANGED <<table, cls>>

PollAudit ==
    /\ at = "queued"
    /\ LET plan == PlanOf(table, cls)
       IN  IF plan = NoPlan
           THEN at' = "shown" /\ UNCHANGED applied
           ELSE at' = "applying" /\ applied' = {<<Root, plan>>}
    /\ UNCHANGED <<table, cls, doc>>

Recursion ==
    /\ at = "applying"
    /\ LET called == ApplyAll(table, doc, applied)
       IN  IF called \subseteq applied
           THEN at' = "shown" /\ UNCHANGED applied
           ELSE applied' = applied \cup called /\ UNCHANGED at
    /\ UNCHANGED <<table, cls, doc>>

Next == Audit \/ PollAudit \/ Recursion

Spec == Init /\ [][Next]_vars

(***************************************************************************)
(* Properties.                                                             *)
(***************************************************************************)
Masked == MaskedBy(doc, applied)

\* The nodes that stand for a SECRET annotation.
Secrets ==
    {n \in DOMAIN doc : \E i \in DOMAIN doc[n].chain : IsSecret(doc[n].chain[i])}

\* The nodes on the way to a node, and itself.
Way(n) == {SubSeq(n, 1, l) : l \in 0 .. Len(n)}

\* A member of a union that hides the tag its values may have from _compile().
TagHidden(u) == u.node # "struct" /\ Bare(u).node \in {"struct", "meta", "union"}

\* A type that redact() sees through.  It does not see through an array-like struct, whose value
\* is no dict, nor, in a union, through an annotation or a union around a struct that stands beside
\* a struct with a tag: values of the former have a tag no member of the plan is listed under.
Visible(t) ==
    /\ t.node = "struct" => InDict(t)
    /\ t.node = "union" =>
          \/ \A u \in t.types : u.node # "struct"
          \/ \A u \in t.types : ~TagHidden(u)

Seen(d, n) == \A m \in Way(n) : \A i \in DOMAIN d[m].chain : Visible(d[m].chain[i])

\* No secret reaches an audit handler, however deep it is and through whatever cycle of classes
\* and containers, unless a type on the way to it is one that redact() does not see through
\* (Visible): beyond those the code shows it.  A plan of None is compiled only for a class
\* without any secret that can be seen.
SecretsMasked ==
    at = "shown" => \A n \in Secrets : doc[n].form # "none" /\ Seen(doc, n) => n \in Masked

\* A type in which a value tells which member of a union it is of: by its form, by the tag of a
\* struct, or because it is None where another is secret.
Telling(t) ==
    t.node = "union" =>
       /\ \A u \in t.types :
             /\ Bare(u).node \notin {"meta", "union"}
             /\ Bare(u).node = "struct" => InDict(Bare(u))
       /\ \A u \in t.types : IsSecret(u) => t.types \subseteq {u, NoneType}
       /\ \A u, w \in t.types :
             \/ u = w
             \/ Form(Bare(u)) # Form(Bare(w))
             \/ u.node = "struct" /\ w.node = "struct"

\* ... and nothing else is hidden: a member of a tagged union is masked by its own fields only,
\* None stays None.  Where a type does not tell the code hides more.
OnlySecretsMasked ==
    at = "shown" /\ (\A n \in DOMAIN doc : \A i \in DOMAIN doc[n].chain : Telling(doc[n].chain[i]))
        => Masked \subseteq Secrets

=============================================================================
