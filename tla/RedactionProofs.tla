-------------------------- MODULE RedactionProofs --------------------------
(***************************************************************************)
(* What Redaction promises, proved for any classes, types and values, where*)
(* redact() sees through the types.                                        *)
(*                                                                         *)
(* First, that the recursion of _compile() has one solution, and what it   *)
(* is for each kind of type.  Then, that each secret has a plan on the way *)
(* to it and that _apply() takes that way; and that whatever else it calls *)
(* comes to nothing.                                                       *)
(***************************************************************************)
EXTENDS Redaction, SequenceTheorems, FiniteSetTheorems, WellFoundedInduction, TLAPS

(***************************************************************************)
(* Induction.  The library's theorem that a well-founded set has minimal   *)
(* elements speaks of sets, and so do the principles that follow from it.  *)
(***************************************************************************)
\* A set of numbers has a smallest one.
LEMMA Smallest ==
    ASSUME NEW S, S \subseteq Nat, S # {}
    PROVE  \E m \in S : \A n \in S : m <= n
<1> DEFINE R == OpToRel(<, Nat)
<1>1. IsWellFoundedOn(R, Nat)
  BY NatLessThanWellFounded
<1>2. PICK m \in S : \A n \in S : ~ (<<n, m>> \in R)
  <2> HIDE DEF R
  <2> QED BY <1>1, WFMin
<1>3. ASSUME NEW n \in S PROVE m <= n
  <2>1. m \in Nat /\ n \in Nat
    BY <1>3
  <2>2. n < m => <<n, m>> \in R
    BY <2>1 DEF OpToRel
  <2> HIDE DEF R
  <2>3. ~ (n < m)
    BY <2>2, <1>2
  <2> QED BY <2>1, <2>3
<1> QED BY <1>2, <1>3

\* What holds of 0 and of the successor of every number it holds of, holds of all.
LEMMA EveryNumber ==
    ASSUME NEW S, 0 \in S, \A n \in Nat : n \in S => n + 1 \in S
    PROVE  Nat \subseteq S
<1> DEFINE T == Nat \ S
<1>1. SUFFICES ASSUME T # {} PROVE FALSE
  OBVIOUS
<1>2. PICK m \in T : \A n \in T : m <= n
  <2> HIDE DEF T
  <2>1. T \subseteq Nat
    BY DEF T
  <2> QED BY <2>1, <1>1, Smallest
<1>3. m \in Nat /\ m # 0
  OBVIOUS
<1>4. m - 1 \in Nat /\ ~ (m <= m - 1) /\ (m - 1) + 1 = m
  BY <1>3
<1>5. m - 1 \in S
  BY <1>2, <1>4
<1> QED BY <1>4, <1>5

(***************************************************************************)
(* _compile() ends: a call it makes of itself is about a longer stack, or  *)
(* about a component of its type and the same stack.                       *)
(***************************************************************************)
Room(x) == Cardinality(Classes \ x[2])

Before(y, x) == Room(y) < Room(x) \/ (Room(y) = Room(x) /\ Nesting[y[1]] < Nesting[x[1]])

LEMMA Measured ==
    ASSUME NEW x \in Positions
    PROVE  /\ x[1] \in Types /\ x[2] \in SUBSET Classes /\ x = <<x[1], x[2]>>
           /\ Room(x) \in Nat /\ Nesting[x[1]] \in Nat
<1>1. x[1] \in Types /\ x[2] \in SUBSET Classes /\ x = <<x[1], x[2]>>
  BY DEF Positions
<1>2. IsFiniteSet(Classes \ x[2])
  BY RedactionAssumption, FS_Subset
<1>3. Room(x) \in Nat
  BY <1>2, FS_CardinalityType DEF Room
<1>4. Nesting[x[1]] \in Nat
  BY <1>1, RedactionAssumption
<1> QED BY <1>1, <1>3, <1>4

LEMMA BeforeOrder ==
    ASSUME NEW x \in Positions, NEW y \in Positions, NEW z \in Positions
    PROVE  /\ ~ Before(x, x)
           /\ Before(z, y) /\ Before(y, x) => Before(z, x)
<1>1. /\ Room(x) \in Nat /\ Room(y) \in Nat /\ Room(z) \in Nat
      /\ Nesting[x[1]] \in Nat /\ Nesting[y[1]] \in Nat /\ Nesting[z[1]] \in Nat
  BY Measured
<1> QED BY <1>1 DEF Before

LEMMA PositionInduction ==
    ASSUME NEW P,
           \A x \in Positions : (\A y \in Positions : Before(y, x) => y \in P) => x \in P
    PROVE  Positions \subseteq P
<1> DEFINE T == Positions \ P
<1>1. SUFFICES ASSUME T # {} PROVE FALSE
  OBVIOUS
<1> DEFINE Rooms == {Room(x) : x \in T}
<1>2. Rooms \subseteq Nat /\ Rooms # {}
  BY <1>1, Measured
<1>3. PICK r \in Rooms : \A s \in Rooms : r <= s
  <2> HIDE DEF Rooms
  <2> QED BY <1>2, Smallest
<1> DEFINE Depths == {Nesting[x[1]] : x \in {x \in T : Room(x) = r}}
<1>4. Depths \subseteq Nat /\ Depths # {}
  BY Measured
<1>5. PICK d \in Depths : \A e \in Depths : d <= e
  <2> HIDE DEF Depths
  <2> QED BY <1>4, Smallest
<1>6. PICK x \in T : Room(x) = r /\ Nesting[x[1]] = d
  OBVIOUS
<1>7. ASSUME NEW y \in Positions, Before(y, x) PROVE y \in P
  <2>1. SUFFICES ASSUME y \in T PROVE FALSE
    OBVIOUS
  <2>2. Room(y) \in Nat /\ Room(x) \in Nat /\ Nesting[y[1]] \in Nat /\ Nesting[x[1]] \in Nat
    BY Measured
  <2>3. Room(x) <= Room(y)
    BY <2>1, <1>3, <1>6
  <2>4. Room(y) = r => Nesting[x[1]] <= Nesting[y[1]]
    BY <2>1, <1>5, <1>6
  <2> HIDE DEF T
  <2> QED BY <2>2, <2>3, <2>4, <1>6, <1>7 DEF Before
<1> QED BY <1>6, <1>7

\* _compile() depends on what it calls only.
LEMMA Congruent ==
    ASSUME NEW tb \in Tables, NEW f, NEW g, NEW x \in Positions,
           \A y \in Positions : Before(y, x) => f[y] = g[y]
    PROVE  PlanFor(tb, f, x[1], x[2]) = PlanFor(tb, g, x[1], x[2])
<1> DEFINE t == x[1]
<1> DEFINE stack == x[2]
<1>1. t \in Types /\ stack \in SUBSET Classes /\ Room(x) \in Nat
  BY Measured
<1>2. ASSUME NEW u \in Components(t) PROVE f[<<u, stack>>] = g[<<u, stack>>]
  <2>1. u \in Types /\ Nesting[u] < Nesting[t]
    BY <1>1, RedactionAssumption
  <2>2. <<u, stack>> \in Positions
    BY <1>1, <2>1 DEF Positions
  <2>3. Before(<<u, stack>>, x)
    BY <2>1 DEF Before, Room
  <2> QED BY <2>2, <2>3
<1>3. ASSUME t.node = "struct", t.cls \notin stack, NEW n \in DOMAIN tb[t.cls]
      PROVE  f[<<tb[t.cls][n], stack \cup {t.cls}>>] = g[<<tb[t.cls][n], stack \cup {t.cls}>>]
  <2>1. t.cls \in Classes
    BY <1>1, <1>3, RedactionAssumption
  <2>2. tb[t.cls][n] \in Types
    BY <2>1, RedactionAssumption
  <2> DEFINE y == <<tb[t.cls][n], stack \cup {t.cls}>>
  <2>3. y \in Positions
    BY <1>1, <2>1, <2>2 DEF Positions
  <2>4. /\ IsFiniteSet(Classes \ stack)
        /\ Classes \ (stack \cup {t.cls}) = (Classes \ stack) \ {t.cls}
        /\ t.cls \in Classes \ stack
    BY <2>1, <1>3, RedactionAssumption, FS_Subset
  <2>5. Cardinality((Classes \ stack) \ {t.cls}) = Cardinality(Classes \ stack) - 1
    BY <2>4, FS_RemoveElement
  <2>6. Room(y) < Room(x)
    <3>1. y[2] = stack \cup {t.cls}
      OBVIOUS
    <3>2. Room(y) = Cardinality((Classes \ stack) \ {t.cls})
      BY <2>4, <3>1 DEF Room
    <3>3. Room(x) = Cardinality(Classes \ stack)
      BY DEF Room
    <3> QED BY <1>1, <2>5, <3>2, <3>3
  <2>7. Before(y, x)
    BY <2>6 DEF Before
  <2> QED BY <2>3, <2>7
<1>4. CASE t.node = "meta"
  BY <1>2, <1>4 DEF PlanFor, Components
<1>5. CASE t.node = "struct"
  BY <1>3, <1>5 DEF PlanFor
<1>6. CASE t.node \in {"list", "dict"}
  BY <1>2, <1>6 DEF PlanFor, Components
<1>7. CASE t.node = "tuple"
  BY <1>2, <1>7 DEF PlanFor, Components
<1>8. CASE t.node = "union"
  <2>1. \A u \in t.types : f[<<u, stack>>] = g[<<u, stack>>]
    BY <1>2, <1>8 DEF Components
  <2>2. \A m : m \in Members(f, t, stack) <=> m \in Members(g, t, stack)
    BY <2>1 DEF Members
  <2>3. Members(f, t, stack) = Members(g, t, stack)
    BY <2>2 DEF Members
  <2> QED BY <2>3, <1>8 DEF PlanFor
<1>9. CASE t.node \notin {"meta", "struct", "list", "dict", "tuple", "union"}
  BY <1>9 DEF PlanFor
<1> QED BY <1>4, <1>5, <1>6, <1>7, <1>8, <1>9

Solves(tb, f, x) ==
    \A y \in Positions : y = x \/ Before(y, x) => f[y] = PlanFor(tb, f, y[1], y[2])

\* Two functions that follow the recursion as far as x agree on x.
LEMMA Unique ==
    ASSUME NEW tb \in Tables
    PROVE  \A x \in Positions : \A f, g : Solves(tb, f, x) /\ Solves(tb, g, x) => f[x] = g[x]
<1> DEFINE P == {x \in Positions : \A f, g : Solves(tb, f, x) /\ Solves(tb, g, x) => f[x] = g[x]}
<1>1. ASSUME NEW x \in Positions, \A y \in Positions : Before(y, x) => y \in P
      PROVE  x \in P
  <2>1. SUFFICES ASSUME NEW f, NEW g, Solves(tb, f, x), Solves(tb, g, x)
                 PROVE  f[x] = g[x]
    OBVIOUS
  <2>2. ASSUME NEW y \in Positions, Before(y, x) PROVE f[y] = g[y]
    <3>1. \A z \in Positions : Before(z, y) => Before(z, x)
      BY <2>2, BeforeOrder
    <3>2. Solves(tb, f, y) /\ Solves(tb, g, y)
      BY <2>1, <2>2, <3>1 DEF Solves
    <3> QED BY <1>1, <2>2, <3>2
  <2>3. PlanFor(tb, f, x[1], x[2]) = PlanFor(tb, g, x[1], x[2])
    BY <2>2, Congruent
  <2>4. f[x] = PlanFor(tb, f, x[1], x[2]) /\ g[x] = PlanFor(tb, g, x[1], x[2])
    BY <2>1 DEF Solves
  <2> QED BY <2>3, <2>4
<1>2. Positions \subseteq P
  <2> HIDE DEF P
  <2> QED BY <1>1, PositionInduction
<1> QED BY <1>2

\* Compile is what _compile() computes, for every type and every stack.
LEMMA CompileEquation ==
    ASSUME NEW tb \in Tables, NEW x \in Positions
    PROVE  Compile(tb)[x] = PlanFor(tb, Compile(tb), x[1], x[2])
<1> DEFINE Sol(y) == CHOOSE f : Solves(tb, f, y)
<1> DEFINE h == [y \in Positions |-> Sol(y)[y]]
<1> DEFINE P == {y \in Positions : \E f : Solves(tb, f, y)}
<1>1. ASSUME NEW y \in Positions, \E f : Solves(tb, f, y)
      PROVE  Solves(tb, Sol(y), y)
  BY <1>1
<1>2. \A y \in Positions : h[y] = Sol(y)[y]
  OBVIOUS
<1> HIDE DEF Sol, h
\* A function that follows the recursion as far as y agrees with h before y.
<1>3. ASSUME NEW y \in Positions, NEW f, Solves(tb, f, y), NEW z \in Positions, Before(z, y)
      PROVE  f[z] = h[z]
  <2>1. \A w \in Positions : Before(w, z) => Before(w, y)
    BY <1>3, BeforeOrder
  <2>2. Solves(tb, f, z)
    BY <1>3, <2>1 DEF Solves
  <2>3. Solves(tb, Sol(z), z)
    BY <1>1, <2>2
  <2> QED BY <2>2, <2>3, <1>2, Unique
<1>4. ASSUME NEW y \in Positions, y \in P
      PROVE  h[y] = PlanFor(tb, h, y[1], y[2])
  <2>1. Solves(tb, Sol(y), y)
    BY <1>1, <1>4
  <2>2. PlanFor(tb, Sol(y), y[1], y[2]) = PlanFor(tb, h, y[1], y[2])
    BY <1>3, <2>1, Congruent
  <2>3. Sol(y)[y] = PlanFor(tb, Sol(y), y[1], y[2])
    BY <2>1 DEF Solves
  <2> QED BY <1>2, <2>2, <2>3
<1>5. ASSUME NEW y \in Positions, \A z \in Positions : Before(z, y) => z \in P
      PROVE  y \in P
  <2> DEFINE f == [z \in Positions |-> IF z = y THEN PlanFor(tb, h, y[1], y[2]) ELSE h[z]]
  <2>1. f[y] = PlanFor(tb, h, y[1], y[2])
    OBVIOUS
  <2>2. \A z \in Positions : z # y => f[z] = h[z]
    OBVIOUS
  <2> HIDE DEF f
  <2>3. ~ Before(y, y)
    BY BeforeOrder
  <2>4. ASSUME NEW z \in Positions, z = y \/ Before(z, y)
        PROVE  PlanFor(tb, f, z[1], z[2]) = PlanFor(tb, h, z[1], z[2])
    <3>1. ASSUME NEW w \in Positions, Before(w, z) PROVE w # y
      BY <2>3, <2>4, <3>1, BeforeOrder
    <3> QED BY <2>2, <3>1, Congruent
  <2>5. ASSUME NEW z \in Positions, z = y \/ Before(z, y)
        PROVE  f[z] = PlanFor(tb, f, z[1], z[2])
    <3>1. CASE z = y
      BY <2>1, <2>4, <3>1
    <3>2. CASE z # y
      <4>1. h[z] = PlanFor(tb, h, z[1], z[2])
        BY <1>4, <1>5, <2>5, <3>2
      <4> QED BY <2>2, <2>4, <2>5, <3>2, <4>1
    <3> QED BY <3>1, <3>2
  <2>6. Solves(tb, f, y)
    BY <2>5 DEF Solves
  <2> QED BY <2>6
<1>6. Positions \subseteq P
  <2> HIDE DEF P
  <2> QED BY <1>5, PositionInduction
<1>7. h = [y \in Positions |-> PlanFor(tb, h, y[1], y[2])]
  <2>1. \A y \in Positions : h[y] = PlanFor(tb, h, y[1], y[2])
    BY <1>4, <1>6
  <2>2. h = [y \in Positions |-> h[y]]
    BY DEF h
  <2> QED BY <2>1, <2>2
<1>8. Compile(tb) = [y \in Positions |-> PlanFor(tb, Compile(tb), y[1], y[2])]
  BY <1>7 DEF Compile
<1> QED BY <1>8

(***************************************************************************)
(* What _compile() returns, one kind of type at a time.                    *)
(***************************************************************************)
LEMMA CompileAt ==
    ASSUME NEW tb \in Tables, NEW t \in Types, NEW stack \in SUBSET Classes
    PROVE  Compile(tb)[<<t, stack>>] = PlanFor(tb, Compile(tb), t, stack)
<1> DEFINE x == <<t, stack>>
<1>1. x \in Positions /\ x[1] = t /\ x[2] = stack
  BY DEF Positions
<1> HIDE DEF x
<1>2. Compile(tb)[x] = PlanFor(tb, Compile(tb), x[1], x[2])
  BY <1>1, CompileEquation
<1> QED BY <1>1, <1>2 DEF x

LEMMA PlanParts ==
    ASSUME NEW kind, NEW of
    PROVE  /\ <<kind, of>>[1] = kind /\ <<kind, of>>[2] = of
           /\ kind # "none" => <<kind, of>> # NoPlan
           /\ NoPlan[1] = "none" /\ Mask[1] = "mask" /\ Mask # NoPlan
<1>1. /\ <<kind, of>>[1] = kind /\ <<kind, of>>[2] = of
  OBVIOUS
<1>2. NoPlan[1] = "none" /\ Mask[1] = "mask"
  BY DEF NoPlan, Mask
<1> QED BY <1>1, <1>2

LEMMA CompileMeta ==
    ASSUME NEW tb \in Tables, NEW t \in Types, NEW stack \in SUBSET Classes, t.node = "meta"
    PROVE  /\ IsSecret(t) => Compile(tb)[<<t, stack>>] = Mask
           /\ ~ IsSecret(t) => Compile(tb)[<<t, stack>>] = Compile(tb)[<<t.type, stack>>]
BY CompileAt DEF PlanFor, IsSecret

\* The fields of a class that have a plan, with their plans; the plans of a tuple's positions.
Sub(tb, t, stack) ==
    {n \in DOMAIN tb[t.cls] : Compile(tb)[<<tb[t.cls][n], stack \cup {t.cls}>>] # NoPlan}

SubPlans(tb, t, stack) ==
    [n \in Sub(tb, t, stack) |-> Compile(tb)[<<tb[t.cls][n], stack \cup {t.cls}>>]]

Parts(tb, t, stack) == [k \in DOMAIN t.item_types |-> Compile(tb)[<<t.item_types[k], stack>>]]

LEMMA CompileStruct ==
    ASSUME NEW tb \in Tables, NEW t \in Types, NEW stack \in SUBSET Classes, t.node = "struct"
    PROVE  /\ t.cls \in stack => Compile(tb)[<<t, stack>>] = <<"recurse", t.cls>>
           /\ t.cls \notin stack /\ Sub(tb, t, stack) = {} => Compile(tb)[<<t, stack>>] = NoPlan
           /\ t.cls \notin stack /\ Sub(tb, t, stack) # {} =>
                 Compile(tb)[<<t, stack>>] = <<"struct", SubPlans(tb, t, stack)>>
<1>1. Compile(tb)[<<t, stack>>] = PlanFor(tb, Compile(tb), t, stack)
  BY CompileAt
<1>2. CASE t.cls \in stack
  BY <1>1, <1>2 DEF PlanFor, Recurse
<1>3. CASE t.cls \notin stack
  <2>1. PlanFor(tb, Compile(tb), t, stack) =
           IF Sub(tb, t, stack) = {} THEN NoPlan ELSE <<"struct", SubPlans(tb, t, stack)>>
    BY <1>3 DEF PlanFor, Sub, SubPlans
  <2> QED BY <1>1, <1>3, <2>1
<1> QED BY <1>2, <1>3

LEMMA CompileItems ==
    ASSUME NEW tb \in Tables, NEW t \in Types, NEW stack \in SUBSET Classes,
           t.node \in {"list", "dict"}, NEW u \in Components(t)
    PROVE  /\ Components(t) = {u}
           /\ Compile(tb)[<<u, stack>>] = NoPlan => Compile(tb)[<<t, stack>>] = NoPlan
           /\ Compile(tb)[<<u, stack>>] # NoPlan =>
                 Compile(tb)[<<t, stack>>] = <<t.node, Compile(tb)[<<u, stack>>]>>
<1>1. Compile(tb)[<<t, stack>>] = PlanFor(tb, Compile(tb), t, stack)
  BY CompileAt
<1>2. Components(t) = {u}
  BY DEF Components
<1>3. PlanFor(tb, Compile(tb), t, stack) = Around(t.node, Compile(tb)[<<u, stack>>])
  BY DEF PlanFor, Components
<1> QED BY <1>1, <1>2, <1>3 DEF Around

LEMMA CompileTuple ==
    ASSUME NEW tb \in Tables, NEW t \in Types, NEW stack \in SUBSET Classes, t.node = "tuple"
    PROVE  /\ (\A k \in DOMAIN t.item_types : Compile(tb)[<<t.item_types[k], stack>>] = NoPlan)
                 => Compile(tb)[<<t, stack>>] = NoPlan
           /\ (\E k \in DOMAIN t.item_types : Compile(tb)[<<t.item_types[k], stack>>] # NoPlan)
                 => Compile(tb)[<<t, stack>>] = <<"tuple", Parts(tb, t, stack)>>
<1>1. Compile(tb)[<<t, stack>>] = PlanFor(tb, Compile(tb), t, stack)
  BY CompileAt
<1>2. PlanFor(tb, Compile(tb), t, stack) =
         IF \E k \in DOMAIN Parts(tb, t, stack) : Parts(tb, t, stack)[k] # NoPlan
         THEN <<"tuple", Parts(tb, t, stack)>> ELSE NoPlan
  BY DEF PlanFor, Parts
<1>3. /\ DOMAIN Parts(tb, t, stack) = DOMAIN t.item_types
      /\ \A k \in DOMAIN t.item_types :
            Parts(tb, t, stack)[k] = Compile(tb)[<<t.item_types[k], stack>>]
  BY DEF Parts
<1> QED BY <1>1, <1>2, <1>3

LEMMA CompileUnion ==
    ASSUME NEW tb \in Tables, NEW t \in Types, NEW stack \in SUBSET Classes, t.node = "union"
    PROVE  LET members == Members(Compile(tb), t, stack)
           IN  Compile(tb)[<<t, stack>>] = IF members = {} THEN NoPlan ELSE <<"union", members>>
BY CompileAt DEF PlanFor

LEMMA CompileOther ==
    ASSUME NEW tb \in Tables, NEW t \in Types, NEW stack \in SUBSET Classes,
           t.node \notin {"meta", "struct", "list", "dict", "tuple", "union"}
    PROVE  Compile(tb)[<<t, stack>>] = NoPlan
BY CompileAt DEF PlanFor

(***************************************************************************)
(* No plan is lost on the way up: what has a plan on every stack gives one *)
(* to each type it is a component or a field of.                           *)
(***************************************************************************)
Always(tb, t) == \A stack \in SUBSET Classes : Compile(tb)[<<t, stack>>] # NoPlan

LEMMA SecretAlways ==
    ASSUME NEW tb \in Tables, NEW t \in Types, IsSecret(t)
    PROVE  Always(tb, t)
BY CompileMeta, PlanParts DEF Always, IsSecret

LEMMA ComponentAlways ==
    ASSUME NEW tb \in Tables, NEW t \in Types, NEW u \in Components(t), Always(tb, u)
    PROVE  Always(tb, t)
<1> SUFFICES ASSUME NEW stack \in SUBSET Classes
             PROVE  Compile(tb)[<<t, stack>>] # NoPlan
  BY DEF Always
<1>1. Compile(tb)[<<u, stack>>] # NoPlan
  BY DEF Always
<1>2. CASE t.node = "meta"
  <2>1. u = t.type
    BY <1>2 DEF Components
  <2> QED BY <1>1, <1>2, <2>1, CompileMeta, PlanParts
<1>3. CASE t.node \in {"list", "dict"}
  <2>1. Compile(tb)[<<t, stack>>] = <<t.node, Compile(tb)[<<u, stack>>]>>
    BY <1>1, <1>3, CompileItems
  <2>2. t.node # "none"
    BY <1>3
  <2> QED BY <2>1, <2>2, PlanParts
<1>4. CASE t.node = "tuple"
  <2>1. \E k \in DOMAIN t.item_types : u = t.item_types[k]
    BY <1>4 DEF Components
  <2>2. Compile(tb)[<<t, stack>>] = <<"tuple", Parts(tb, t, stack)>>
    BY <1>1, <1>4, <2>1, CompileTuple
  <2> QED BY <2>2, PlanParts
<1>5. CASE t.node = "union"
  <2>1. <<TagOf(u), Compile(tb)[<<u, stack>>]>> \in Members(Compile(tb), t, stack)
    BY <1>1, <1>5 DEF Members, Components
  <2>2. Compile(tb)[<<t, stack>>] = <<"union", Members(Compile(tb), t, stack)>>
    BY <2>1, <1>5, CompileUnion
  <2> QED BY <2>2, PlanParts
<1> QED BY <1>2, <1>3, <1>4, <1>5 DEF Components

LEMMA FieldAlways ==
    ASSUME NEW tb \in Tables, NEW t \in Types, t.node = "struct",
           NEW n \in DOMAIN tb[t.cls], Always(tb, tb[t.cls][n])
    PROVE  Always(tb, t)
<1> SUFFICES ASSUME NEW stack \in SUBSET Classes
             PROVE  Compile(tb)[<<t, stack>>] # NoPlan
  BY DEF Always
<1>1. CASE t.cls \in stack
  <2>1. Compile(tb)[<<t, stack>>] = <<"recurse", t.cls>>
    BY <1>1, CompileStruct
  <2> QED BY <2>1, PlanParts
<1>2. CASE t.cls \notin stack
  <2>1. stack \cup {t.cls} \in SUBSET Classes
    BY RedactionAssumption
  <2>2. Compile(tb)[<<tb[t.cls][n], stack \cup {t.cls}>>] # NoPlan
    BY <2>1 DEF Always
  <2>3. Sub(tb, t, stack) # {}
    BY <2>2 DEF Sub
  <2>4. Compile(tb)[<<t, stack>>] = <<"struct", SubPlans(tb, t, stack)>>
    BY <2>3, <1>2, CompileStruct
  <2> QED BY <2>4, PlanParts
<1> QED BY <1>1, <1>2

(***************************************************************************)
(* Documents.                                                              *)
(***************************************************************************)
LEMMA Conforming ==
    ASSUME NEW tb \in Tables, NEW c \in Classes, NEW d \in Documents(tb, c)
    PROVE  /\ DOMAIN d \subseteq Seq(Keys) /\ Root \in DOMAIN d
           /\ d[Root].chain # <<>> /\ d[Root].chain[1] = Struct(c)
           /\ \A n \in DOMAIN d : d[n].tag \in Classes \cup {NoTag}
BY RedactionAssumption DEF Conforms

\* The types a value was given: annotations and unions, up to the one that has no choice left.
LEMMA ChainTypes ==
    ASSUME NEW tb \in Tables, NEW c \in Classes, NEW d \in Documents(tb, c),
           NEW n \in DOMAIN d, d[n].chain # <<>>
    PROVE  /\ Len(d[n].chain) \in Nat /\ 1 <= Len(d[n].chain)
           /\ DOMAIN d[n].chain = 1 .. Len(d[n].chain)
           /\ \A i \in 1 .. Len(d[n].chain) : d[n].chain[i] \in Types
<1>1. Conforms(d, tb, c)
  BY RedactionAssumption
<1>2. d[n].chain \in Seq(Types)
  BY <1>1 DEF Conforms
<1>3. Len(d[n].chain) # 0
  BY <1>2, EmptySeq
<1> QED BY <1>2, <1>3, ElementOfSeq, LenProperties

LEMMA ChainSteps ==
    ASSUME NEW tb \in Tables, NEW c \in Classes, NEW d \in Documents(tb, c),
           NEW n \in DOMAIN d, d[n].chain # <<>>
    PROVE  /\ \A i \in 1 .. Len(d[n].chain) - 1 :
                 /\ d[n].chain[i].node \in {"meta", "union"} /\ ~ IsSecret(d[n].chain[i])
                 /\ d[n].chain[i + 1] \in Components(d[n].chain[i])
           /\ Last(d[n].chain) = d[n].chain[Len(d[n].chain)]
           /\ IsSecret(Last(d[n].chain)) \/ Last(d[n].chain).node \notin {"meta", "union"}
           /\ LET b == Bare(Last(d[n].chain))
              IN  b.node \notin {"meta", "union"} =>
                     /\ d[n].form = Form(b)
                     /\ d[n].tag = TagIn(b)
<1>1. Conforms(d, tb, c)
  BY RedactionAssumption
<1>2. Chained(d[n].chain, d[n])
  BY <1>1 DEF Conforms
<1> QED BY <1>2 DEF Chained, Last

\* A node is under another, and has one of the types that one's last type gives its keys.
LEMMA ParentOf ==
    ASSUME NEW tb \in Tables, NEW c \in Classes, NEW d \in Documents(tb, c),
           NEW n \in DOMAIN d, n # Root
    PROVE  \E m \in DOMAIN d, k \in Keys :
              /\ n = Append(m, k) /\ Len(m) \in Nat /\ Len(n) = Len(m) + 1
              /\ IF d[m].chain = <<>> \/ IsSecret(Last(d[m].chain))
                 THEN d[n].chain = <<>>
                 ELSE /\ d[n].chain # <<>>
                      /\ d[n].chain[1] \in Below(tb, Last(d[m].chain), k)
<1>1. Conforms(d, tb, c)
  BY RedactionAssumption
<1>2. PICK m \in DOMAIN d, k \in Keys :
         /\ n = Append(m, k)
         /\ IF d[m].chain = <<>> \/ IsSecret(Last(d[m].chain))
            THEN d[n].chain = <<>>
            ELSE d[n].chain # <<>> /\ d[n].chain[1] \in Below(tb, Last(d[m].chain), k)
  BY <1>1 DEF Conforms
<1>3. m \in Seq(Keys)
  BY Conforming
<1>4. Len(m) \in Nat /\ Len(n) = Len(m) + 1
  BY <1>2, <1>3, AppendProperties, LenProperties
<1> QED BY <1>2, <1>4

LEMMA ChildOf ==
    ASSUME NEW tb \in Tables, NEW c \in Classes, NEW d \in Documents(tb, c),
           NEW m \in DOMAIN d, NEW k \in Keys, Append(m, k) \in DOMAIN d,
           d[m].chain # <<>>, ~ IsSecret(Last(d[m].chain))
    PROVE  /\ d[Append(m, k)].chain # <<>>
           /\ d[Append(m, k)].chain[1] \in Below(tb, Last(d[m].chain), k)
<1> DEFINE n == Append(m, k)
<1>1. m \in Seq(Keys)
  BY Conforming
<1>2. n # Root
  BY <1>1, AppendProperties DEF Root
<1>3. PICK m1 \in DOMAIN d, k1 \in Keys :
         /\ n = Append(m1, k1)
         /\ IF d[m1].chain = <<>> \/ IsSecret(Last(d[m1].chain))
            THEN d[n].chain = <<>>
            ELSE /\ d[n].chain # <<>>
                 /\ d[n].chain[1] \in Below(tb, Last(d[m1].chain), k1)
  <2> HIDE DEF n
  <2>1. n \in DOMAIN d
    BY DEF n
  <2> QED BY <1>2, <2>1, ParentOf
<1>4. m1 \in Seq(Keys)
  BY Conforming
<1>5. m1 = m /\ k1 = k
  BY <1>1, <1>3, <1>4, AppendInjective
<1> QED BY <1>3, <1>5

\* Which member of a union a value is of shows in its form and its tag.
LEMMA MemberFits ==
    ASSUME NEW tb \in Tables, NEW c \in Classes, NEW d \in Documents(tb, c),
           NEW n \in DOMAIN d, d[n].chain # <<>>,
           NEW i \in 1 .. Len(d[n].chain) - 1, d[n].chain[i].node = "union",
           Bare(d[n].chain[i + 1]).node \notin {"meta", "union"}
    PROVE  LET b == Bare(d[n].chain[i + 1])
           IN  /\ d[n].form = Form(b)
               /\ d[n].tag = TagIn(b)
<1> DEFINE chain == d[n].chain
<1> DEFINE u == chain[i + 1]
<1> DEFINE b == Bare(u)
<1>1. /\ Len(chain) \in Nat /\ i \in Nat
      /\ chain[i] \in Types /\ u \in chain[i].types /\ u \in Types
  <2>1. Len(chain) \in Nat
    BY ChainTypes
  <2>2. i \in 1 .. Len(chain) /\ i + 1 \in 1 .. Len(chain) /\ i \in Nat
    BY <2>1
  <2>3. u \in Components(chain[i])
    BY ChainSteps
  <2> QED BY <2>1, <2>2, <2>3, ChainTypes DEF Components
<1>2. b.node \notin {"meta", "union"}
  OBVIOUS
<1>3. b = Bare(Last(chain))
  <2>1. CASE i + 1 = Len(chain)
    BY <2>1, ChainSteps
  <2>2. CASE i + 1 # Len(chain)
    <3>1. i + 1 \in 1 .. Len(chain) - 1
      BY <1>1, <2>2
    <3>2. u.node \in {"meta", "union"} /\ chain[i + 1 + 1] \in Components(u)
      BY <3>1, ChainSteps
    <3>3. u.node = "meta"
      BY <1>2, <3>2 DEF Bare
    <3>4. chain[i + 1 + 1] = b
      BY <3>2, <3>3 DEF Components, Bare
    <3>5. i + 1 + 1 = Len(chain)
      <4>1. SUFFICES ASSUME i + 1 + 1 # Len(chain) PROVE FALSE
        OBVIOUS
      <4>2. i + 1 + 1 \in 1 .. Len(chain) - 1
        BY <1>1, <3>1, <4>1
      <4>3. chain[i + 1 + 1].node \in {"meta", "union"}
        BY <4>2, ChainSteps
      <4> QED BY <4>3, <3>4, <1>2
    <3>6. Last(chain) = b
      BY <3>4, <3>5, ChainSteps
    <3> QED BY <3>6, <1>2 DEF Bare
  <2> QED BY <2>1, <2>2
<1> HIDE DEF b
<1> QED BY <1>2, <1>3, ChainSteps DEF b

(***************************************************************************)
(* Every secret has a plan that leads to it.                               *)
(***************************************************************************)
LEMMA ChainAlways ==
    ASSUME NEW tb \in Tables, NEW c \in Classes, NEW d \in Documents(tb, c),
           NEW n \in DOMAIN d, d[n].chain # <<>>,
           NEW j \in 1 .. Len(d[n].chain), Always(tb, d[n].chain[j])
    PROVE  \A i \in 1 .. j : Always(tb, d[n].chain[i])
<1> DEFINE S == {k \in Nat : k < j => Always(tb, d[n].chain[j - k])}
<1>1. Len(d[n].chain) \in Nat /\ j \in Nat /\ j <= Len(d[n].chain)
  BY ChainTypes
<1>2. 0 \in S
  <2>1. j - 0 = j
    BY <1>1
  <2> QED BY <2>1
<1>3. ASSUME NEW k \in Nat, k \in S PROVE k + 1 \in S
  <2>1. SUFFICES ASSUME k + 1 < j PROVE Always(tb, d[n].chain[j - (k + 1)])
    OBVIOUS
  <2> DEFINE i == j - (k + 1)
  <2>2. i \in 1 .. Len(d[n].chain) - 1 /\ i + 1 = j - k /\ i \in 1 .. Len(d[n].chain)
    BY <1>1, <2>1
  <2>3. Always(tb, d[n].chain[i + 1])
    BY <1>1, <1>3, <2>1, <2>2
  <2> HIDE DEF i
  <2>4. d[n].chain[i] \in Types /\ d[n].chain[i + 1] \in Components(d[n].chain[i])
    BY <2>2, ChainTypes, ChainSteps
  <2>5. Always(tb, d[n].chain[i])
    BY <2>3, <2>4, ComponentAlways
  <2> QED BY <2>5 DEF i
<1>4. Nat \subseteq S
  <2> HIDE DEF S
  <2> QED BY <1>2, <1>3, EveryNumber
<1>5. ASSUME NEW i \in 1 .. j PROVE Always(tb, d[n].chain[i])
  <2>1. j - i \in Nat /\ j - i < j /\ j - (j - i) = i
    BY <1>1
  <2> QED BY <2>1, <1>4
<1> QED BY <1>5

\* A node whose declared type has a plan, on every stack.
Led(tb, d, n) == d[n].chain # <<>> /\ Always(tb, d[n].chain[1])

LEMMA BelowAlways ==
    ASSUME NEW tb \in Tables, NEW t \in Types, NEW k, NEW s \in Below(tb, t, k), Always(tb, s)
    PROVE  Always(tb, t)
<1>1. CASE t.node = "struct"
  <2>1. k \in DOMAIN tb[t.cls] /\ s = tb[t.cls][k]
    BY <1>1 DEF Below
  <2> QED BY <1>1, <2>1, FieldAlways
<1>2. CASE t.node # "struct"
  <2>1. s \in Components(t)
    BY <1>2 DEF Below, Components
  <2> QED BY <2>1, ComponentAlways
<1> QED BY <1>1, <1>2

LEMMA ParentLed ==
    ASSUME NEW tb \in Tables, NEW c \in Classes, NEW d \in Documents(tb, c),
           NEW n \in DOMAIN d, n # Root, Led(tb, d, n)
    PROVE  \E m \in DOMAIN d, k \in Keys :
              /\ n = Append(m, k) /\ Len(m) \in Nat /\ Len(n) = Len(m) + 1
              /\ ~ IsSecret(Last(d[m].chain))
              /\ d[n].chain[1] \in Below(tb, Last(d[m].chain), k)
              /\ d[m].chain # <<>>
              /\ \A i \in 1 .. Len(d[m].chain) : Always(tb, d[m].chain[i])
<1>1. PICK m \in DOMAIN d, k \in Keys :
         /\ n = Append(m, k) /\ Len(m) \in Nat /\ Len(n) = Len(m) + 1
         /\ d[m].chain # <<>> /\ ~ IsSecret(Last(d[m].chain))
         /\ d[n].chain[1] \in Below(tb, Last(d[m].chain), k)
  BY ParentOf DEF Led
<1> DEFINE t == Last(d[m].chain)
<1>2. /\ Len(d[m].chain) \in 1 .. Len(d[m].chain)
      /\ t = d[m].chain[Len(d[m].chain)] /\ t \in Types
  BY <1>1, ChainTypes, ChainSteps
<1>3. Always(tb, t)
  BY <1>1, <1>2, BelowAlways DEF Led
<1>4. \A i \in 1 .. Len(d[m].chain) : Always(tb, d[m].chain[i])
  BY <1>1, <1>2, <1>3, ChainAlways
<1> QED BY <1>1, <1>4

\* Then the class at the root has a plan too.
LEMMA RootLed ==
    ASSUME NEW tb \in Tables, NEW c \in Classes, NEW d \in Documents(tb, c)
    PROVE  \A n \in DOMAIN d : Led(tb, d, n) => Always(tb, Struct(c))
<1> DEFINE S == {l \in Nat : \A n \in DOMAIN d :
                                Len(n) = l /\ Led(tb, d, n) => Always(tb, Struct(c))}
<1>1. ASSUME NEW n \in DOMAIN d, Led(tb, d, n), n = Root PROVE Always(tb, Struct(c))
  BY <1>1, Conforming DEF Led
<1>2. \A n \in DOMAIN d : Len(n) \in Nat /\ (Len(n) = 0 => n = Root)
  BY Conforming, LenProperties, EmptySeq DEF Root
<1>3. 0 \in S
  BY <1>1, <1>2
<1>4. ASSUME NEW l \in Nat, l \in S PROVE l + 1 \in S
  <2>1. SUFFICES ASSUME NEW n \in DOMAIN d, Len(n) = l + 1, Led(tb, d, n)
                 PROVE  Always(tb, Struct(c))
    OBVIOUS
  <2>2. CASE n = Root
    BY <1>1, <2>1, <2>2
  <2>3. CASE n # Root
    <3>1. PICK m \in DOMAIN d :
             /\ Len(m) \in Nat /\ Len(n) = Len(m) + 1 /\ d[m].chain # <<>>
             /\ \A i \in 1 .. Len(d[m].chain) : Always(tb, d[m].chain[i])
      BY <2>1, <2>3, ParentLed
    <3>2. 1 \in 1 .. Len(d[m].chain)
      BY <3>1, ChainTypes
    <3>3. Led(tb, d, m) /\ Len(m) = l
      BY <2>1, <3>1, <3>2 DEF Led
    <3> QED BY <1>4, <3>3
  <2> QED BY <2>2, <2>3
<1>5. Nat \subseteq S
  <2> HIDE DEF S
  <2> QED BY <1>3, <1>4, EveryNumber
<1> QED BY <1>2, <1>5

(***************************************************************************)
(* ... and _apply() follows it.                                            *)
(***************************************************************************)
Has(tb, calls, n, t) == \E stack \in SUBSET Classes : <<n, Compile(tb)[<<t, stack>>]>> \in calls

LEMMA Made ==
    ASSUME NEW tb \in Tables, NEW d, NEW calls, ApplyAll(tb, d, calls) \subseteq calls,
           NEW n, NEW plan, <<n, plan>> \in calls
    PROVE  Apply(tb, d, n, plan) \subseteq calls
<1>1. <<n, plan>>[1] = n /\ <<n, plan>>[2] = plan
  OBVIOUS
<1> QED BY <1>1 DEF ApplyAll

\* Through an annotation, and into the member of a union that the value is of.
LEMMA Narrowed ==
    ASSUME NEW tb \in Tables, NEW c \in Classes, NEW d \in Documents(tb, c),
           NEW calls, ApplyAll(tb, d, calls) \subseteq calls,
           NEW n \in DOMAIN d, d[n].chain # <<>>, d[n].form # "none",
           NEW i \in 1 .. Len(d[n].chain) - 1,
           Visible(d[n].chain[i]),
           Has(tb, calls, n, d[n].chain[i]), Always(tb, d[n].chain[i + 1])
    PROVE  Has(tb, calls, n, d[n].chain[i + 1])
<1> DEFINE t == d[n].chain[i]
<1> DEFINE u == d[n].chain[i + 1]
<1>1. /\ t \in Types /\ u \in Types /\ ~ IsSecret(t) /\ u \in Components(t)
      /\ t.node \in {"meta", "union"}
  <2>1. Len(d[n].chain) \in Nat
    BY ChainTypes
  <2>2. i \in 1 .. Len(d[n].chain) /\ i + 1 \in 1 .. Len(d[n].chain)
    BY <2>1
  <2> QED BY <2>2, ChainTypes, ChainSteps
<1>2. PICK stack \in SUBSET Classes : <<n, Compile(tb)[<<t, stack>>]>> \in calls
  BY DEF Has
<1>3. CASE t.node = "meta"
  <2>1. u = t.type
    BY <1>1, <1>3 DEF Components
  <2>2. Compile(tb)[<<t, stack>>] = Compile(tb)[<<u, stack>>]
    BY <1>1, <1>3, <2>1, CompileMeta
  <2> QED BY <1>2, <2>2 DEF Has
<1>4. CASE t.node = "union"
  <2> DEFINE members == Members(Compile(tb), t, stack)
  <2> DEFINE tagged == d[n].tag # NoTag /\ \E m \in members : m[1] # NoTag
  <2> DEFINE member == <<TagOf(u), Compile(tb)[<<u, stack>>]>>
  <2>1. u \in t.types /\ Compile(tb)[<<u, stack>>] # NoPlan
    BY <1>1, <1>4 DEF Components, Always
  <2>2. member \in members
    BY <2>1 DEF Members
  <2>3. Compile(tb)[<<t, stack>>] = <<"union", members>>
    BY <1>1, <1>4, <2>2, CompileUnion
  <2>4. tagged => TagOf(u) = d[n].tag
    <3>1. SUFFICES ASSUME tagged PROVE TagOf(u) = d[n].tag
      OBVIOUS
    <3>2. PICK w \in t.types : w.node = "struct"
      <4>1. PICK m \in members : m[1] # NoTag
        BY <3>1
      <4>2. PICK w \in t.types : m = <<TagOf(w), Compile(tb)[<<w, stack>>]>>
        BY <4>1 DEF Members
      <4> QED BY <4>1, <4>2 DEF TagOf
    <3>3. ~ TagHidden(u)
      BY <1>4, <2>1, <3>2 DEF Visible
    <3>4. u.node = "struct" \/ Bare(u).node \notin {"struct", "meta", "union"}
      BY <3>3 DEF TagHidden
    <3>5. Bare(u).node \notin {"meta", "union"}
      BY <3>4 DEF Bare
    <3>6. d[n].tag = TagIn(Bare(u))
      BY <1>4, <3>5, MemberFits
    <3>7. Bare(u).node = "struct" /\ d[n].tag = Bare(u).cls
      BY <3>1, <3>6 DEF TagIn
    <3> QED BY <3>4, <3>7 DEF Bare, TagOf
  <2>5. <<n, member[2]>> \in Apply(tb, d, n, <<"union", members>>)
    <3> HIDE DEF member, members
    <3>1. member[1] = TagOf(u)
      BY DEF member
    <3>2. Apply(tb, d, n, <<"union", members>>) =
             {<<n, m[2]>> : m \in {m \in members : tagged => m[1] = d[n].tag}}
      BY DEF Apply
    <3> QED BY <2>2, <2>4, <3>1, <3>2
  <2>6. <<n, Compile(tb)[<<u, stack>>]>> \in calls
    BY <1>2, <2>3, <2>5, Made
  <2> QED BY <2>6 DEF Has
<1> QED BY <1>1, <1>3, <1>4

LEMMA FieldsApplied ==
    ASSUME NEW tb \in Tables, NEW d, NEW calls, ApplyAll(tb, d, calls) \subseteq calls,
           NEW m, NEW k \in Keys, Append(m, k) \in DOMAIN d, d[m].form = "dict",
           NEW t \in Types, t.node = "struct", NEW stack \in SUBSET Classes, t.cls \notin stack,
           NEW s \in Below(tb, t, k), Always(tb, s),
           <<m, Compile(tb)[<<t, stack>>]>> \in calls
    PROVE  Has(tb, calls, Append(m, k), s)
<1>1. t.cls \in Classes /\ stack \cup {t.cls} \in SUBSET Classes
  BY RedactionAssumption
<1>2. k \in DOMAIN tb[t.cls] /\ s = tb[t.cls][k]
  BY DEF Below
<1>3. Compile(tb)[<<s, stack \cup {t.cls}>>] # NoPlan
  BY <1>1 DEF Always
<1> DEFINE plans == SubPlans(tb, t, stack)
<1>4. k \in Sub(tb, t, stack)
  BY <1>2, <1>3 DEF Sub
<1>5. k \in DOMAIN plans /\ plans[k] = Compile(tb)[<<s, stack \cup {t.cls}>>]
  BY <1>2, <1>4 DEF SubPlans
<1>6. Compile(tb)[<<t, stack>>] = <<"struct", plans>>
  BY <1>4, CompileStruct
<1> HIDE DEF plans
<1>7. <<Append(m, k), plans[k]>> \in Apply(tb, d, m, <<"struct", plans>>)
  BY <1>5 DEF Apply
<1>8. <<Append(m, k), Compile(tb)[<<s, stack \cup {t.cls}>>]>> \in calls
  BY <1>5, <1>6, <1>7, Made
<1> QED BY <1>1, <1>8 DEF Has

\* From a value to what is under it, also where its class was met before.
LEMMA Descended ==
    ASSUME NEW tb \in Tables, NEW c \in Classes, NEW d \in Documents(tb, c),
           NEW calls, ApplyAll(tb, d, calls) \subseteq calls,
           NEW m \in DOMAIN d, d[m].chain # <<>>, ~ IsSecret(Last(d[m].chain)),
           NEW k \in Keys, Append(m, k) \in DOMAIN d,
           NEW s \in Below(tb, Last(d[m].chain), k), Always(tb, s),
           Visible(Last(d[m].chain)), Has(tb, calls, m, Last(d[m].chain))
    PROVE  Has(tb, calls, Append(m, k), s)
<1> DEFINE t == Last(d[m].chain)
<1>1. t \in Types /\ t.node \notin {"meta", "union"} /\ d[m].form = Form(t)
  <2>1. t \in Types /\ t.node \notin {"meta", "union"}
    BY ChainTypes, ChainSteps
  <2>2. Bare(t) = t
    BY <2>1 DEF Bare
  <2> QED BY <2>1, <2>2, ChainSteps
<1>2. PICK stack \in SUBSET Classes : <<m, Compile(tb)[<<t, stack>>]>> \in calls
  BY DEF Has
<1>3. Always(tb, t)
  BY <1>1, BelowAlways
<1>4. CASE t.node = "struct"
  <2>1. d[m].form = "dict"
    BY <1>1, <1>4 DEF Visible, Form, InDict
  <2>2. CASE t.cls \notin stack
    BY <1>1, <1>2, <1>4, <2>1, <2>2, FieldsApplied
  <2>3. CASE t.cls \in stack
    <3>1. t.cls \in Classes /\ t = Struct(t.cls)
      BY <1>1, <1>4, RedactionAssumption
    <3> DEFINE sub == PlanOf(tb, t.cls)
    <3>2. sub = Compile(tb)[<<t, {}>>] /\ sub # NoPlan
      BY <1>3, <3>1 DEF PlanOf, Always
    <3>3. Compile(tb)[<<t, stack>>] = <<"recurse", t.cls>>
      BY <1>1, <1>4, <2>3, CompileStruct
    <3> HIDE DEF sub
    <3>4. <<m, sub>> \in Apply(tb, d, m, <<"recurse", t.cls>>)
      BY <2>1, <3>2 DEF Apply, sub
    <3>5. <<m, Compile(tb)[<<t, {}>>]>> \in calls
      BY <1>2, <3>2, <3>3, <3>4, Made
    <3> QED BY <1>1, <1>4, <2>1, <3>5, FieldsApplied
  <2> QED BY <2>2, <2>3
<1>5. CASE t.node \in {"list", "dict"}
  <2>1. s \in Components(t) /\ d[m].form = t.node
    BY <1>1, <1>5 DEF Below, Components, Form, InDict
  <2> DEFINE plan == Compile(tb)[<<s, stack>>]
  <2>2. plan # NoPlan
    BY DEF Always
  <2>3. Compile(tb)[<<t, stack>>] = <<t.node, plan>>
    BY <1>1, <1>5, <2>1, <2>2, CompileItems
  <2> HIDE DEF plan
  <2>4. <<Append(m, k), plan>> \in Apply(tb, d, m, <<t.node, plan>>)
    <3>1. CASE t.node = "list"
      <4>1. d[m].form = "list" /\ <<t.node, plan>>[1] = "list" /\ <<t.node, plan>>[2] = plan
        BY <2>1, <3>1
      <4> QED BY <4>1 DEF Apply
    <3>2. CASE t.node = "dict"
      <4>1. d[m].form = "dict" /\ <<t.node, plan>>[1] = "dict" /\ <<t.node, plan>>[2] = plan
        BY <2>1, <3>2
      <4> QED BY <4>1 DEF Apply
    <3> QED BY <1>5, <3>1, <3>2
  <2>5. <<Append(m, k), plan>> \in calls
    BY <1>2, <2>3, <2>4, Made
  <2> QED BY <2>5 DEF Has, plan
<1>6. CASE t.node = "tuple"
  <2>1. k \in DOMAIN t.item_types /\ s = t.item_types[k] /\ d[m].form = "list"
    BY <1>1, <1>6 DEF Below, Form, InDict
  <2> DEFINE parts == Parts(tb, t, stack)
  <2>2. Compile(tb)[<<s, stack>>] # NoPlan
    BY DEF Always
  <2>3. k \in DOMAIN parts /\ parts[k] = Compile(tb)[<<s, stack>>]
    BY <2>1 DEF Parts
  <2>4. Compile(tb)[<<t, stack>>] = <<"tuple", parts>>
    BY <1>1, <1>6, <2>1, <2>2, CompileTuple
  <2> HIDE DEF parts
  <2>5. <<Append(m, k), parts[k]>> \in Apply(tb, d, m, <<"tuple", parts>>)
    BY <2>1, <2>2, <2>3 DEF Apply
  <2>6. <<Append(m, k), Compile(tb)[<<s, stack>>]>> \in calls
    BY <1>2, <2>3, <2>4, <2>5, Made
  <2> QED BY <2>6 DEF Has
<1> QED BY <1>4, <1>5, <1>6 DEF Below

\* A value whose type has a plan is called for with one, and down the types it was given.
LEMMA Reached ==
    ASSUME NEW tb \in Tables, NEW c \in Classes, NEW d \in Documents(tb, c),
           NEW calls, ApplyAll(tb, d, calls) \subseteq calls,
           NEW n \in DOMAIN d, d[n].chain # <<>>, d[n].form # "none",
           \A i \in DOMAIN d[n].chain : Visible(d[n].chain[i]),
           Has(tb, calls, n, d[n].chain[1]),
           NEW j \in 1 .. Len(d[n].chain), Always(tb, d[n].chain[j])
    PROVE  Has(tb, calls, n, d[n].chain[j])
<1> DEFINE S == {k \in Nat : k + 1 <= j => Has(tb, calls, n, d[n].chain[k + 1])}
<1>1. Len(d[n].chain) \in Nat /\ j \in Nat /\ j <= Len(d[n].chain) /\ 1 <= j
  BY ChainTypes
<1>2. 0 \in S
  <2>1. 0 + 1 = 1
    OBVIOUS
  <2> QED BY <2>1
<1>3. ASSUME NEW k \in Nat, k \in S PROVE k + 1 \in S
  <2>1. SUFFICES ASSUME k + 1 + 1 <= j PROVE Has(tb, calls, n, d[n].chain[k + 1 + 1])
    OBVIOUS
  <2> DEFINE i == k + 1
  <2>2. i \in 1 .. Len(d[n].chain) - 1 /\ i + 1 \in 1 .. j /\ i + 1 = k + 1 + 1 /\ k + 1 <= j
    BY <1>1, <2>1
  <2>3. Has(tb, calls, n, d[n].chain[i])
    BY <1>3, <2>2
  <2>4. Always(tb, d[n].chain[i + 1])
    BY <2>2, ChainAlways
  <2> HIDE DEF i
  <2>5. Visible(d[n].chain[i])
    BY <1>1, <2>2, ChainTypes
  <2>6. Has(tb, calls, n, d[n].chain[i + 1])
    BY <2>2, <2>3, <2>4, <2>5, Narrowed
  <2> QED BY <2>2, <2>6
<1>4. Nat \subseteq S
  <2> HIDE DEF S
  <2> QED BY <1>2, <1>3, EveryNumber
<1>5. j - 1 \in Nat /\ (j - 1) + 1 = j
  BY <1>1
<1>6. j - 1 \in S
  BY <1>4, <1>5
<1> QED BY <1>1, <1>5, <1>6

\* The way to a node goes on from the one above it.
LEMMA WayOn ==
    ASSUME NEW m \in Seq(Keys), NEW k \in Keys
    PROVE  Way(m) \subseteq Way(Append(m, k))
<1>1. /\ Len(m) \in Nat /\ Append(m, k) \in Seq(Keys) /\ Len(Append(m, k)) = Len(m) + 1
      /\ \A i \in 1 .. Len(m) : Append(m, k)[i] = m[i]
  BY AppendProperties, LenProperties
<1>2. ASSUME NEW l \in 0 .. Len(m) PROVE SubSeq(Append(m, k), 1, l) = SubSeq(m, 1, l)
  <2> DEFINE a == Append(m, k)
  <2>1. /\ \A i \in 1 .. l : m[i] \in Keys /\ a[i] = m[i]
        /\ l \in Int /\ 1 \in Int /\ \A i \in 1 .. l : 1 + i - 1 = i
    BY <1>1, ElementOfSeq
  <2> HIDE DEF a
  <2>2. /\ SubSeq(m, 1, l) \in Seq(Keys) /\ SubSeq(a, 1, l) \in Seq(Keys)
        /\ Len(SubSeq(a, 1, l)) = Len(SubSeq(m, 1, l))
        /\ Len(SubSeq(a, 1, l)) = IF 1 <= l THEN l - 1 + 1 ELSE 0
        /\ \A i \in 1 .. l - 1 + 1 : SubSeq(m, 1, l)[i] = m[1 + i - 1]
        /\ \A i \in 1 .. l - 1 + 1 : SubSeq(a, 1, l)[i] = a[1 + i - 1]
    BY <2>1, SubSeqProperties
  <2>3. \A i \in 1 .. Len(SubSeq(a, 1, l)) : SubSeq(a, 1, l)[i] = SubSeq(m, 1, l)[i]
    BY <1>1, <2>1, <2>2
  <2>4. SubSeq(a, 1, l) = SubSeq(m, 1, l)
    BY <2>2, <2>3, SeqEqual
  <2> QED BY <2>4 DEF a
<1>3. 0 .. Len(m) \subseteq 0 .. Len(Append(m, k))
  BY <1>1
<1> QED BY <1>2, <1>3 DEF Way

LEMMA SeenAbove ==
    ASSUME NEW d, NEW m \in Seq(Keys), NEW k \in Keys, Seen(d, Append(m, k))
    PROVE  Seen(d, m)
BY WayOn DEF Seen

LEMMA SeenHere ==
    ASSUME NEW d, NEW n \in Seq(Keys), Seen(d, n)
    PROVE  \A i \in DOMAIN d[n].chain : Visible(d[n].chain[i])
<1>1. SubSeq(n, 1, Len(n)) = n /\ Len(n) \in 0 .. Len(n)
  BY SubSeqFull, LenProperties
<1>2. n \in Way(n)
  BY <1>1 DEF Way
<1> QED BY <1>2 DEF Seen

LEMMA EveryLedReached ==
    ASSUME NEW tb \in Tables, NEW c \in Classes, NEW d \in Documents(tb, c),
           NEW calls, ApplyAll(tb, d, calls) \subseteq calls, <<Root, PlanOf(tb, c)>> \in calls
    PROVE  \A n \in DOMAIN d : Led(tb, d, n) /\ Seen(d, n) => Has(tb, calls, n, d[n].chain[1])
<1> DEFINE S == {l \in Nat : \A n \in DOMAIN d :
                                Len(n) = l /\ Led(tb, d, n) /\ Seen(d, n)
                                   => Has(tb, calls, n, d[n].chain[1])}
<1>1. ASSUME NEW n \in DOMAIN d, n = Root PROVE Has(tb, calls, n, d[n].chain[1])
  BY <1>1, Conforming DEF Has, PlanOf
<1>2. \A n \in DOMAIN d : Len(n) \in Nat /\ (Len(n) = 0 => n = Root)
  BY Conforming, LenProperties, EmptySeq DEF Root
<1>3. 0 \in S
  BY <1>1, <1>2
<1>4. ASSUME NEW l \in Nat, l \in S PROVE l + 1 \in S
  <2>1. SUFFICES ASSUME NEW n \in DOMAIN d, Len(n) = l + 1, Led(tb, d, n), Seen(d, n)
                 PROVE  Has(tb, calls, n, d[n].chain[1])
    OBVIOUS
  <2>2. CASE n = Root
    BY <1>1, <2>2
  <2>3. CASE n # Root
    <3>1. PICK m \in DOMAIN d, k \in Keys :
             /\ n = Append(m, k) /\ Len(m) \in Nat /\ Len(n) = Len(m) + 1
             /\ ~ IsSecret(Last(d[m].chain))
             /\ d[n].chain[1] \in Below(tb, Last(d[m].chain), k)
             /\ d[m].chain # <<>>
             /\ \A i \in 1 .. Len(d[m].chain) : Always(tb, d[m].chain[i])
      BY <2>1, <2>3, ParentLed
    <3> DEFINE t == Last(d[m].chain)
    <3>2. /\ 1 \in 1 .. Len(d[m].chain) /\ Len(d[m].chain) \in 1 .. Len(d[m].chain)
          /\ t = d[m].chain[Len(d[m].chain)] /\ t.node \notin {"meta", "union"}
      BY <3>1, ChainTypes, ChainSteps
    <3>3. Seen(d, m) /\ \A i \in DOMAIN d[m].chain : Visible(d[m].chain[i])
      <4>1. m \in Seq(Keys)
        BY Conforming
      <4> QED BY <2>1, <3>1, <4>1, SeenAbove, SeenHere
    <3>4. Visible(t)
      BY <3>1, <3>2, <3>3, ChainTypes
    <3>5. Has(tb, calls, m, d[m].chain[1])
      <4>1. Led(tb, d, m) /\ Len(m) = l
        BY <2>1, <3>1, <3>2 DEF Led
      <4> QED BY <1>4, <3>3, <4>1
    <3>6. d[m].form # "none"
      <4>1. Bare(t) = t
        BY <3>2 DEF Bare
      <4>2. d[m].form = Form(t)
        BY <3>1, <3>2, <4>1, ChainSteps
      <4>3. t.node \in {"struct", "list", "dict", "tuple"}
        BY <3>1 DEF Below
      <4> QED BY <4>2, <4>3 DEF Form, InDict
    <3>7. Has(tb, calls, m, t)
      BY <3>1, <3>2, <3>5, <3>6, <3>3, Reached
    <3>8. Always(tb, d[n].chain[1])
      BY <2>1 DEF Led
    <3> QED BY <3>1, <3>7, <3>8, <3>4, Descended
  <2> QED BY <2>2, <2>3
<1>5. Nat \subseteq S
  <2> HIDE DEF S
  <2> QED BY <1>3, <1>4, EveryNumber
<1> QED BY <1>2, <1>5

SecretAt(d, n) == \E i \in DOMAIN d[n].chain : IsSecret(d[n].chain[i])

LEMMA SecretLed ==
    ASSUME NEW tb \in Tables, NEW c \in Classes, NEW d \in Documents(tb, c),
           NEW n \in DOMAIN d, SecretAt(d, n)
    PROVE  /\ Led(tb, d, n)
           /\ \E i \in 1 .. Len(d[n].chain) :
                 IsSecret(d[n].chain[i]) /\ Always(tb, d[n].chain[i])
<1>1. PICK i \in DOMAIN d[n].chain : IsSecret(d[n].chain[i])
  BY DEF SecretAt
<1>2. d[n].chain # <<>>
  BY <1>1
<1>3. i \in 1 .. Len(d[n].chain) /\ 1 \in 1 .. i /\ d[n].chain[i] \in Types
  BY <1>1, <1>2, ChainTypes
<1>4. Always(tb, d[n].chain[i])
  BY <1>1, <1>3, SecretAlways
<1>5. Always(tb, d[n].chain[1])
  BY <1>2, <1>3, <1>4, ChainAlways
<1> QED BY <1>1, <1>2, <1>3, <1>4, <1>5 DEF Led

\* A finished redaction has masked every secret it sees the way to, whatever the class.
LEMMA FinishedMasks ==
    ASSUME NEW tb \in Tables, NEW c \in Classes, NEW d \in Documents(tb, c),
           NEW calls, ApplyAll(tb, d, calls) \subseteq calls, <<Root, PlanOf(tb, c)>> \in calls,
           NEW n \in DOMAIN d, SecretAt(d, n), d[n].form # "none", Seen(d, n)
    PROVE  n \in MaskedBy(d, calls)
<1>1. Led(tb, d, n)
  BY SecretLed
<1>2. PICK i \in 1 .. Len(d[n].chain) : IsSecret(d[n].chain[i]) /\ Always(tb, d[n].chain[i])
  BY SecretLed
<1>3. d[n].chain # <<>> /\ Has(tb, calls, n, d[n].chain[1])
  BY <1>1, EveryLedReached DEF Led
<1>4. \A j \in DOMAIN d[n].chain : Visible(d[n].chain[j])
  BY Conforming, SeenHere
<1>5. Has(tb, calls, n, d[n].chain[i])
  BY <1>2, <1>3, <1>4, Reached
<1>6. PICK stack \in SUBSET Classes : <<n, Compile(tb)[<<d[n].chain[i], stack>>]>> \in calls
  BY <1>5 DEF Has
<1>7. Compile(tb)[<<d[n].chain[i], stack>>] = Mask
  BY <1>2, <1>3, ChainTypes, CompileMeta DEF IsSecret
<1>8. <<n, Mask>> \in calls /\ <<n, Mask>>[1] = n /\ <<n, Mask>>[2][1] = "mask"
  BY <1>6, <1>7 DEF Mask
<1> QED BY <1>8 DEF MaskedBy

\* No plan is compiled only for a class whose values have no secret.
LEMMA NoPlanNoSecret ==
    ASSUME NEW tb \in Tables, NEW c \in Classes, NEW d \in Documents(tb, c),
           PlanOf(tb, c) = NoPlan, NEW n \in DOMAIN d
    PROVE  ~ SecretAt(d, n)
<1>1. SUFFICES ASSUME SecretAt(d, n) PROVE FALSE
  OBVIOUS
<1>2. Always(tb, Struct(c))
  BY <1>1, SecretLed, RootLed
<1> QED BY <1>2 DEF Always, PlanOf

(***************************************************************************)
(* What _apply() does with the plan of a member that a value is not of.    *)
(***************************************************************************)
Kind(t) == t.node \notin {"meta", "union"}

LEMMA Kinds ==
    ASSUME NEW tb \in Tables, NEW t \in Types, NEW stack \in SUBSET Classes, Kind(t)
    PROVE  LET plan == Compile(tb)[<<t, stack>>]
           IN  \/ plan = NoPlan
               \/ /\ t.node = "struct" /\ t.cls \in stack
                  /\ plan = <<"recurse", t.cls>>
               \/ /\ t.node = "struct" /\ t.cls \notin stack
                  /\ plan = <<"struct", SubPlans(tb, t, stack)>>
               \/ /\ t.node \in {"list", "dict"}
                  /\ \E u \in Components(t) : plan = <<t.node, Compile(tb)[<<u, stack>>]>>
               \/ /\ t.node = "tuple"
                  /\ plan = <<"tuple", Parts(tb, t, stack)>>
<1>1. CASE t.node = "struct"
  BY <1>1, CompileStruct
<1>2. CASE t.node \in {"list", "dict"}
  <2>1. PICK u : u \in Components(t)
    BY <1>2 DEF Components
  <2> QED BY <1>2, <2>1, CompileItems
<1>3. CASE t.node = "tuple"
  BY <1>3, CompileTuple
<1>4. CASE t.node \notin {"struct", "list", "dict", "tuple"}
  BY <1>4, CompileOther DEF Kind
<1> QED BY <1>1, <1>2, <1>3, <1>4

Shaped(plan) ==
    \E kind \in {"recurse", "struct", "list", "dict", "tuple"} : \E of : plan = <<kind, of>>

\* A plan for values of another form.
Harmless(tb, d, n, plan) ==
    \E t \in Types, stack \in SUBSET Classes :
       /\ plan = Compile(tb)[<<t, stack>>] /\ Kind(t) /\ Form(t) # d[n].form
       /\ t.node = "struct" => InDict(t)

LEMMA HarmlessMasksNothing ==
    ASSUME NEW tb \in Tables, NEW d, NEW n, NEW plan, Harmless(tb, d, n, plan)
    PROVE  plan[1] # "mask"
<1>1. PICK t \in Types, stack \in SUBSET Classes : plan = Compile(tb)[<<t, stack>>] /\ Kind(t)
  BY DEF Harmless
<1>2. CASE plan = NoPlan
  BY <1>2, PlanParts
<1>3. CASE Shaped(plan)
  <2>1. PICK kind \in {"recurse", "struct", "list", "dict", "tuple"} : \E of : plan = <<kind, of>>
    BY <1>3 DEF Shaped
  <2>2. plan[1] = kind
    BY <2>1
  <2> QED BY <2>2
<1>4. \/ plan = NoPlan
      \/ Shaped(plan)
  BY <1>1, Kinds DEF Shaped
<1> QED BY <1>2, <1>3, <1>4

LEMMA ApplyNone ==
    ASSUME NEW tb, NEW d, NEW n
    PROVE  Apply(tb, d, n, NoPlan) = {}
BY PlanParts DEF Apply

LEMMA ApplyRecurse ==
    ASSUME NEW tb \in Tables, NEW d, NEW n, NEW t \in Types, t.node = "struct",
           NEW call \in Apply(tb, d, n, <<"recurse", t.cls>>)
    PROVE  t.cls \in Classes /\ call = <<n, Compile(tb)[<<t, {}>>]>>
<1>1. t.cls \in Classes /\ t = Struct(t.cls)
  BY RedactionAssumption
<1>2. call = <<n, PlanOf(tb, t.cls)>>
  BY DEF Apply
<1> QED BY <1>1, <1>2 DEF PlanOf

LEMMA HarmlessApplied ==
    ASSUME NEW tb \in Tables, NEW d, NEW n, NEW plan, Harmless(tb, d, n, plan),
           NEW call \in Apply(tb, d, n, plan)
    PROVE  \E sub : call = <<n, sub>> /\ Harmless(tb, d, n, sub)
<1>1. PICK t \in Types, stack \in SUBSET Classes :
         /\ plan = Compile(tb)[<<t, stack>>] /\ Kind(t) /\ Form(t) # d[n].form
         /\ t.node = "struct" => InDict(t)
  BY DEF Harmless
<1>2. CASE plan = NoPlan
  BY <1>2, ApplyNone
<1>3. CASE t.node = "struct" /\ plan = <<"recurse", t.cls>>
  <2>1. call = <<n, Compile(tb)[<<t, {}>>]>>
    BY <1>3, ApplyRecurse
  <2> QED BY <1>1, <2>1 DEF Harmless
<1>4. ASSUME NEW of, t.node = "struct", plan = <<"struct", of>> PROVE FALSE
  <2>1. d[n].form # "dict" /\ plan[1] = "struct"
    BY <1>1, <1>4 DEF Form, InDict
  <2> QED BY <2>1 DEF Apply
<1>5. ASSUME NEW of, t.node = "list", plan = <<"list", of>> PROVE FALSE
  <2>1. d[n].form # "list" /\ plan[1] = "list"
    BY <1>1, <1>5 DEF Form, InDict
  <2> QED BY <2>1 DEF Apply
<1>6. ASSUME NEW of, t.node = "dict", plan = <<"dict", of>> PROVE FALSE
  <2>1. d[n].form # "dict" /\ plan[1] = "dict"
    BY <1>1, <1>6 DEF Form, InDict
  <2> QED BY <2>1 DEF Apply
<1>7. ASSUME NEW of, t.node = "tuple", plan = <<"tuple", of>> PROVE FALSE
  <2>1. d[n].form # "list" /\ plan[1] = "tuple"
    BY <1>1, <1>7 DEF Form, InDict
  <2> QED BY <2>1 DEF Apply
<1> QED BY <1>1, <1>2, <1>3, <1>4, <1>5, <1>6, <1>7, Kinds

(***************************************************************************)
(* ... and with the plan of a type that the value was given.               *)
(***************************************************************************)
Right(tb, d, n, plan) ==
    /\ d[n].chain # <<>>
    /\ \E i \in 1 .. Len(d[n].chain), stack \in SUBSET Classes :
          plan = Compile(tb)[<<d[n].chain[i], stack>>]

Settles(tb, d, n, plan, i, stack) ==
    /\ plan = Compile(tb)[<<d[n].chain[i], stack>>]
    /\ d[n].chain[i].node = "meta" => IsSecret(d[n].chain[i])

\* An annotation has the plan of what it annotates.
LEMMA Settled ==
    ASSUME NEW tb \in Tables, NEW c \in Classes, NEW d \in Documents(tb, c),
           NEW n \in DOMAIN d, NEW plan, Right(tb, d, n, plan)
    PROVE  \E i \in 1 .. Len(d[n].chain), stack \in SUBSET Classes :
              Settles(tb, d, n, plan, i, stack)
<1> DEFINE chain == d[n].chain
<1> DEFINE Fit(i) == \E stack \in SUBSET Classes : plan = Compile(tb)[<<chain[i], stack>>]
<1> DEFINE S == {Len(chain) - i : i \in {i \in 1 .. Len(chain) : Fit(i)}}
<1>1. chain # <<>> /\ Len(chain) \in Nat
  BY ChainTypes DEF Right
<1>2. S # {} /\ S \subseteq Nat
  <2>1. PICK i \in 1 .. Len(chain) : Fit(i)
    BY DEF Right
  <2> HIDE DEF Fit
  <2>2. Len(chain) - i \in S
    BY <2>1
  <2>3. \A j \in 1 .. Len(chain) : Len(chain) - j \in Nat
    BY <1>1
  <2> HIDE DEF chain
  <2> QED BY <2>2, <2>3
<1>3. PICK l \in S : \A k \in S : l <= k
  <2> HIDE DEF S
  <2> QED BY <1>2, Smallest
<1>4. PICK i \in 1 .. Len(chain) : Fit(i) /\ l = Len(chain) - i
  OBVIOUS
<1>5. ASSUME chain[i].node = "meta", ~ IsSecret(chain[i]) PROVE FALSE
  <2>1. i # Len(chain)
    BY <1>1, <1>5, ChainSteps
  <2>2. i \in 1 .. Len(chain) - 1 /\ i + 1 \in 1 .. Len(chain)
    BY <1>1, <2>1
  <2>3. chain[i + 1] = chain[i].type
    BY <1>1, <2>2, <1>5, ChainSteps DEF Components
  <2>4. chain[i] \in Types
    BY <1>1, ChainTypes
  <2>5. Fit(i + 1)
    BY <1>4, <1>5, <2>3, <2>4, CompileMeta
  <2>6. Len(chain) - (i + 1) \in S
    BY <2>2, <2>5
  <2>7. ~ (l <= Len(chain) - (i + 1))
    BY <1>1, <1>4, <2>2
  <2> QED BY <1>3, <2>6, <2>7
<1> QED BY <1>4, <1>5 DEF Settles

LEMMA RightMasksSecrets ==
    ASSUME NEW tb \in Tables, NEW c \in Classes, NEW d \in Documents(tb, c),
           NEW n \in DOMAIN d, NEW plan, Right(tb, d, n, plan), plan[1] = "mask"
    PROVE  SecretAt(d, n)
<1>1. PICK i \in 1 .. Len(d[n].chain), stack \in SUBSET Classes :
         Settles(tb, d, n, plan, i, stack)
  BY Settled
<1> DEFINE t == d[n].chain[i]
<1>2. t \in Types /\ i \in DOMAIN d[n].chain
  BY <1>1, ChainTypes DEF Right
<1>3. CASE t.node = "meta"
  BY <1>1, <1>2, <1>3 DEF SecretAt, Settles
<1>4. CASE t.node = "union"
  <2>1. plan = NoPlan \/ plan = <<"union", Members(Compile(tb), t, stack)>>
    BY <1>1, <1>2, <1>4, CompileUnion DEF Settles
  <2> QED BY <2>1, PlanParts
<1>5. CASE Kind(t)
  <2>1. \/ plan = NoPlan
        \/ Shaped(plan)
    BY <1>1, <1>2, <1>5, Kinds DEF Settles, Shaped
  <2>2. CASE plan = NoPlan
    BY <2>2, PlanParts
  <2>3. CASE Shaped(plan)
    <3>1. PICK kind \in {"recurse", "struct", "list", "dict", "tuple"} : \E of : plan = <<kind, of>>
      BY <2>3 DEF Shaped
    <3>2. plan[1] = kind
      BY <3>1
    <3> QED BY <3>2
  <2> QED BY <2>1, <2>2, <2>3
<1> QED BY <1>3, <1>4, <1>5 DEF Kind

\* In every type it was given a value tells its member, by its form or by its tag.
Tells(d) == \A n \in DOMAIN d : \A i \in DOMAIN d[n].chain : Telling(d[n].chain[i])

Sound(tb, d, n, plan) == n \in DOMAIN d /\ (Right(tb, d, n, plan) \/ Harmless(tb, d, n, plan))

\* The member of a union that a value is not of has another form, if it is applied at all.
LEMMA OtherMember ==
    ASSUME NEW tb \in Tables, NEW c \in Classes, NEW d \in Documents(tb, c), Tells(d),
           NEW n \in DOMAIN d, d[n].chain # <<>>, d[n].form # "none",
           NEW i \in 1 .. Len(d[n].chain) - 1, d[n].chain[i].node = "union",
           NEW w \in d[n].chain[i].types, w # d[n].chain[i + 1],
           d[n].tag # NoTag /\ TagOf(w) # NoTag => TagOf(w) = d[n].tag,
           NEW stack \in SUBSET Classes
    PROVE  Harmless(tb, d, n, Compile(tb)[<<w, stack>>])
<1> DEFINE t == d[n].chain[i]
<1> DEFINE u == d[n].chain[i + 1]
<1>1. /\ t \in Types /\ u \in t.types /\ u \in Types /\ w \in Types /\ Bare(w) \in Types
      /\ Telling(t)
  <2>1. Len(d[n].chain) \in Nat
    BY ChainTypes
  <2>2. i \in 1 .. Len(d[n].chain) /\ i + 1 \in 1 .. Len(d[n].chain)
    BY <2>1
  <2>3. t \in Types /\ u \in Types /\ i \in DOMAIN d[n].chain
    BY <2>2, ChainTypes
  <2>4. u \in t.types
    BY ChainSteps DEF Components
  <2>5. w \in Types
    BY <2>3, RedactionAssumption DEF Components
  <2>6. Bare(w) \in Types
    <3>1. CASE w.node = "meta"
      <4>1. w.type \in Components(w)
        BY <3>1 DEF Components
      <4> QED BY <4>1, <2>5, <3>1, RedactionAssumption DEF Bare
    <3> QED BY <2>5, <3>1 DEF Bare
  <2>7. Telling(t)
    BY <2>3 DEF Tells
  <2> QED BY <2>3, <2>4, <2>5, <2>6, <2>7
<1>2. /\ Bare(u).node \notin {"meta", "union"} /\ Bare(w).node \notin {"meta", "union"}
      /\ Bare(w).node = "struct" => InDict(Bare(w))
      /\ Bare(u).node = "struct" => InDict(Bare(u))
  BY <1>1 DEF Telling
<1>3. d[n].form = Form(Bare(u)) /\ d[n].tag = TagIn(Bare(u))
  BY <1>2, MemberFits
<1>4. Form(Bare(w)) # d[n].form
  <2>1. SUFFICES ASSUME Form(Bare(w)) = Form(Bare(u)) PROVE FALSE
    BY <1>3
  <2>2. w.node = "struct" /\ u.node = "struct"
    BY <1>1, <2>1 DEF Telling
  <2>3. w.cls \in Classes /\ u.cls \in Classes /\ w = Struct(w.cls) /\ u = Struct(u.cls)
    BY <1>1, <2>2, RedactionAssumption
  <2>4. d[n].tag = u.cls /\ TagOf(w) = w.cls
    BY <1>3, <1>2, <2>2 DEF Bare, TagOf, TagIn
  <2>5. w.cls = u.cls
    BY <2>3, <2>4, RedactionAssumption
  <2> QED BY <2>3, <2>5
<1>5. Kind(Bare(w))
  BY <1>2 DEF Kind
<1>6. ~ IsSecret(w)
  <2>1. SUFFICES ASSUME IsSecret(w) PROVE FALSE
    OBVIOUS
  <2>2. u = NoneType
    BY <1>1, <2>1 DEF Telling
  <2> QED BY <1>3, <2>2 DEF NoneType, Bare, Form, InDict
<1>7. Compile(tb)[<<w, stack>>] = Compile(tb)[<<Bare(w), stack>>]
  <2>1. CASE w.node = "meta"
    BY <1>1, <1>6, <2>1, CompileMeta DEF Bare
  <2>2. CASE w.node # "meta"
    BY <2>2 DEF Bare
  <2> QED BY <2>1, <2>2
<1> QED BY <1>1, <1>4, <1>5, <1>7, <1>2 DEF Harmless

LEMMA UnionApplied ==
    ASSUME NEW tb \in Tables, NEW c \in Classes, NEW d \in Documents(tb, c), Tells(d),
           NEW n \in DOMAIN d, d[n].chain # <<>>,
           NEW i \in 1 .. Len(d[n].chain), d[n].chain[i].node = "union",
           NEW stack \in SUBSET Classes,
           NEW call \in Apply(tb, d, n, Compile(tb)[<<d[n].chain[i], stack>>])
    PROVE  \E sub : call = <<n, sub>> /\ Sound(tb, d, n, sub)
<1> DEFINE t == d[n].chain[i]
<1> DEFINE members == Members(Compile(tb), t, stack)
<1> DEFINE tagged == d[n].tag # NoTag /\ \E m \in members : m[1] # NoTag
<1>1. t \in Types
  BY ChainTypes
<1>2. i \in 1 .. Len(d[n].chain) - 1 /\ i + 1 \in 1 .. Len(d[n].chain)
  <2>1. i # Len(d[n].chain)
    BY ChainSteps DEF IsSecret
  <2> QED BY <2>1, ChainTypes
<1>3. Compile(tb)[<<t, stack>>] = <<"union", members>>
  <2>1. Compile(tb)[<<t, stack>>] = IF members = {} THEN NoPlan ELSE <<"union", members>>
    BY <1>1, CompileUnion
  <2>2. Compile(tb)[<<t, stack>>] # NoPlan
    BY ApplyNone
  <2> QED BY <2>1, <2>2
<1>4. /\ d[n].form # "none"
      /\ \E m \in members : (tagged => m[1] = d[n].tag) /\ call = <<n, m[2]>>
  <2> HIDE DEF members
  <2>1. call \in Apply(tb, d, n, <<"union", members>>)
    BY <1>3
  <2>2. <<"union", members>>[1] = "union" /\ <<"union", members>>[2] = members
    OBVIOUS
  <2>3. d[n].form # "none"
    BY <2>1, <2>2 DEF Apply
  <2>4. Apply(tb, d, n, <<"union", members>>) =
           {<<n, m[2]>> : m \in {m \in members : tagged => m[1] = d[n].tag}}
    BY <2>3 DEF Apply
  <2> QED BY <2>1, <2>3, <2>4
<1>5. PICK m \in members : (tagged => m[1] = d[n].tag) /\ call = <<n, m[2]>>
  BY <1>4
<1>6. PICK w \in t.types : m = <<TagOf(w), Compile(tb)[<<w, stack>>]>>
  BY <1>5 DEF Members
<1>7. call = <<n, Compile(tb)[<<w, stack>>]>>
  BY <1>5, <1>6
<1>8. CASE w = d[n].chain[i + 1]
  <2>1. Right(tb, d, n, Compile(tb)[<<w, stack>>])
    BY <1>2, <1>8 DEF Right
  <2> QED BY <1>7, <2>1 DEF Sound
<1>9. CASE w # d[n].chain[i + 1]
  <2>1. m[1] = TagOf(w)
    BY <1>6
  <2>2. d[n].tag # NoTag /\ TagOf(w) # NoTag => TagOf(w) = d[n].tag
    BY <1>5, <2>1
  <2>3. Harmless(tb, d, n, Compile(tb)[<<w, stack>>])
    BY <1>2, <1>4, <1>9, <2>2, OtherMember
  <2> QED BY <1>7, <2>3 DEF Sound
<1> QED BY <1>8, <1>9

LEMMA ChildRight ==
    ASSUME NEW tb \in Tables, NEW c \in Classes, NEW d \in Documents(tb, c),
           NEW m \in DOMAIN d, d[m].chain # <<>>, ~ IsSecret(Last(d[m].chain)),
           NEW k \in Keys, Append(m, k) \in DOMAIN d,
           NEW s, Below(tb, Last(d[m].chain), k) \subseteq {s}, NEW stack \in SUBSET Classes
    PROVE  Sound(tb, d, Append(m, k), Compile(tb)[<<s, stack>>])
<1> DEFINE n == Append(m, k)
<1>1. d[n].chain # <<>> /\ d[n].chain[1] = s
  BY ChildOf
<1> HIDE DEF n
<1>2. n \in DOMAIN d
  BY DEF n
<1>3. 1 \in 1 .. Len(d[n].chain)
  BY <1>1, <1>2, ChainTypes
<1>4. Right(tb, d, n, Compile(tb)[<<s, stack>>])
  BY <1>1, <1>3 DEF Right
<1>5. Sound(tb, d, n, Compile(tb)[<<s, stack>>])
  BY <1>2, <1>4 DEF Sound
<1> QED BY <1>5 DEF n

SoundCall(tb, d, call) ==
    \E n, plan : call = <<n, plan>> /\ Sound(tb, d, n, plan)

LEMMA KindApplied ==
    ASSUME NEW tb \in Tables, NEW c \in Classes, NEW d \in Documents(tb, c),
           NEW n \in DOMAIN d, d[n].chain # <<>>,
           NEW i \in 1 .. Len(d[n].chain), Kind(d[n].chain[i]), NEW stack \in SUBSET Classes,
           NEW call \in Apply(tb, d, n, Compile(tb)[<<d[n].chain[i], stack>>])
    PROVE  SoundCall(tb, d, call)
<1> DEFINE t == d[n].chain[i]
<1> DEFINE plan == Compile(tb)[<<t, stack>>]
<1>1. t \in Types
  BY ChainTypes
<1>2. t = Last(d[n].chain) /\ ~ IsSecret(t)
  <2>1. i = Len(d[n].chain)
    BY ChainSteps, ChainTypes DEF Kind
  <2> QED BY <2>1, ChainSteps DEF Kind, IsSecret
<1>3. CASE plan = NoPlan
  BY <1>3, ApplyNone
<1>4. CASE t.node = "struct" /\ plan = <<"recurse", t.cls>>
  <2>1. call = <<n, Compile(tb)[<<t, {}>>]>>
    BY <1>1, <1>4, ApplyRecurse
  <2>2. Right(tb, d, n, Compile(tb)[<<t, {}>>])
    BY DEF Right
  <2> QED BY <2>1, <2>2 DEF Sound, SoundCall
<1>5. CASE t.node = "struct" /\ t.cls \notin stack /\ plan = <<"struct", SubPlans(tb, t, stack)>>
  <2> DEFINE plans == SubPlans(tb, t, stack)
  <2>1. PICK k \in Keys : /\ Append(n, k) \in DOMAIN d /\ k \in DOMAIN plans
                          /\ call = <<Append(n, k), plans[k]>>
    <3> HIDE DEF plans
    <3>1. call \in Apply(tb, d, n, <<"struct", plans>>)
      BY <1>5 DEF plans
    <3>2. <<"struct", plans>>[1] = "struct" /\ <<"struct", plans>>[2] = plans
      OBVIOUS
    <3> QED BY <3>1, <3>2 DEF Apply
  <2>2. k \in DOMAIN tb[t.cls] /\ plans[k] = Compile(tb)[<<tb[t.cls][k], stack \cup {t.cls}>>]
    BY <2>1 DEF SubPlans, Sub
  <2>3. stack \cup {t.cls} \in SUBSET Classes
    BY <1>1, <1>5, RedactionAssumption
  <2>4. Below(tb, t, k) \subseteq {tb[t.cls][k]}
    BY <1>5 DEF Below
  <2>5. \A bigger \in SUBSET Classes :
           Sound(tb, d, Append(n, k), Compile(tb)[<<tb[t.cls][k], bigger>>])
    BY <1>2, <2>1, <2>4, ChildRight
  <2> HIDE DEF plans
  <2>6. Sound(tb, d, Append(n, k), plans[k])
    BY <2>2, <2>3, <2>5
  <2> QED BY <2>1, <2>6 DEF SoundCall
<1>6. CASE /\ t.node \in {"list", "dict"}
           /\ \E u \in Components(t) : plan = <<t.node, Compile(tb)[<<u, stack>>]>>
  <2>1. PICK u \in Components(t) : plan = <<t.node, Compile(tb)[<<u, stack>>]>>
    BY <1>6
  <2> DEFINE of == Compile(tb)[<<u, stack>>]
  <2>2. PICK k \in Keys : Append(n, k) \in DOMAIN d /\ call = <<Append(n, k), of>>
    <3> HIDE DEF of
    <3>1. call \in Apply(tb, d, n, <<t.node, of>>)
      BY <2>1 DEF of
    <3>2. <<t.node, of>>[1] = t.node /\ <<t.node, of>>[2] = of
      OBVIOUS
    <3>3. CASE t.node = "list"
      BY <3>1, <3>2, <3>3 DEF Apply
    <3>4. CASE t.node = "dict"
      BY <3>1, <3>2, <3>4 DEF Apply
    <3> QED BY <1>6, <3>3, <3>4
  <2>3. Below(tb, t, k) \subseteq {u}
    <3>1. CASE t.node = "list"
      BY <3>1 DEF Below, Components
    <3>2. CASE t.node = "dict"
      BY <3>2 DEF Below, Components
    <3> QED BY <1>6, <3>1, <3>2
  <2>4. Sound(tb, d, Append(n, k), of)
    BY <1>2, <2>2, <2>3, ChildRight
  <2> QED BY <2>2, <2>4 DEF SoundCall
<1>7. CASE t.node = "tuple" /\ plan = <<"tuple", Parts(tb, t, stack)>>
  <2> DEFINE parts == Parts(tb, t, stack)
  <2>1. PICK k \in Keys : /\ Append(n, k) \in DOMAIN d /\ k \in DOMAIN parts
                          /\ call = <<Append(n, k), parts[k]>>
    <3> HIDE DEF parts
    <3>1. call \in Apply(tb, d, n, <<"tuple", parts>>)
      BY <1>7 DEF parts
    <3>2. <<"tuple", parts>>[1] = "tuple" /\ <<"tuple", parts>>[2] = parts
      OBVIOUS
    <3> QED BY <3>1, <3>2 DEF Apply
  <2>2. k \in DOMAIN t.item_types /\ parts[k] = Compile(tb)[<<t.item_types[k], stack>>]
    BY <2>1 DEF Parts
  <2>3. Below(tb, t, k) \subseteq {t.item_types[k]}
    BY <1>7 DEF Below
  <2>4. Sound(tb, d, Append(n, k), parts[k])
    BY <1>2, <2>1, <2>2, <2>3, ChildRight
  <2> QED BY <2>1, <2>4 DEF SoundCall
<1>8. \/ plan = NoPlan
      \/ t.node = "struct" /\ plan = <<"recurse", t.cls>>
      \/ t.node = "struct" /\ t.cls \notin stack /\ plan = <<"struct", SubPlans(tb, t, stack)>>
      \/ /\ t.node \in {"list", "dict"}
         /\ \E u \in Components(t) : plan = <<t.node, Compile(tb)[<<u, stack>>]>>
      \/ t.node = "tuple" /\ plan = <<"tuple", Parts(tb, t, stack)>>
  BY <1>1, Kinds
<1> QED BY <1>3, <1>4, <1>5, <1>6, <1>7, <1>8

\* A call for a right plan, or a harmless one, makes only calls of that kind.
LEMMA SoundApplied ==
    ASSUME NEW tb \in Tables, NEW c \in Classes, NEW d \in Documents(tb, c), Tells(d),
           NEW n, NEW plan, Sound(tb, d, n, plan), NEW call \in Apply(tb, d, n, plan)
    PROVE  SoundCall(tb, d, call)
<1>1. CASE Harmless(tb, d, n, plan)
  BY <1>1, HarmlessApplied DEF Sound, SoundCall
<1>2. CASE Right(tb, d, n, plan)
  <2>1. n \in DOMAIN d /\ d[n].chain # <<>>
    BY <1>2 DEF Sound, Right
  <2>2. PICK i \in 1 .. Len(d[n].chain), stack \in SUBSET Classes :
           Settles(tb, d, n, plan, i, stack)
    BY <1>2, <2>1, Settled
  <2> DEFINE t == d[n].chain[i]
  <2>3. plan = Compile(tb)[<<t, stack>>] /\ t \in Types
    BY <2>1, <2>2, ChainTypes DEF Settles
  <2>4. CASE t.node = "meta"
    <3>1. plan = Mask
      BY <2>2, <2>3, <2>4, CompileMeta DEF Settles
    <3> QED BY <3>1, PlanParts DEF Apply
  <2>5. CASE t.node = "union"
    BY <2>1, <2>3, <2>5, UnionApplied DEF SoundCall
  <2>6. CASE Kind(t)
    BY <2>1, <2>3, <2>6, KindApplied
  <2> QED BY <2>4, <2>5, <2>6 DEF Kind
<1> QED BY <1>1, <1>2 DEF Sound

LEMMA SoundMasksSecrets ==
    ASSUME NEW tb \in Tables, NEW c \in Classes, NEW d \in Documents(tb, c),
           NEW n, NEW plan, Sound(tb, d, n, plan), plan[1] = "mask"
    PROVE  n \in DOMAIN d /\ SecretAt(d, n)
BY HarmlessMasksNothing, RightMasksSecrets DEF Sound

(***************************************************************************)
(* The states: what has been called so far is sound, and what is shown is  *)
(* complete.                                                               *)
(***************************************************************************)
Began ==
    \/ PlanOf(table, cls) = NoPlan /\ applied = {}
    \/ <<Root, PlanOf(table, cls)>> \in applied

RedactionInv ==
    /\ table \in Tables /\ cls \in Classes
    /\ at \in {"idle", "queued", "applying", "shown"}
    /\ at \in {"idle", "queued"} => applied = {}
    /\ at # "idle" => doc \in Documents(table, cls)
    /\ at \in {"applying", "shown"} => Began
    /\ at = "shown" => ApplyAll(table, doc, applied) \subseteq applied
    /\ at \in {"applying", "shown"} /\ Tells(doc) =>
          \A call \in applied : SoundCall(table, doc, call)

LEMMA RootSound ==
    ASSUME NEW tb \in Tables, NEW c \in Classes, NEW d \in Documents(tb, c)
    PROVE  SoundCall(tb, d, <<Root, PlanOf(tb, c)>>)
<1>1. Root \in DOMAIN d /\ d[Root].chain # <<>> /\ d[Root].chain[1] = Struct(c)
  BY Conforming
<1>2. 1 \in 1 .. Len(d[Root].chain)
  BY <1>1, ChainTypes
<1>3. Right(tb, d, Root, PlanOf(tb, c))
  BY <1>1, <1>2 DEF Right, PlanOf
<1> QED BY <1>1, <1>3 DEF Sound, SoundCall

LEMMA InitInv == Init => RedactionInv
BY DEF Init, RedactionInv

LEMMA AuditInv ==
    ASSUME RedactionInv, Audit
    PROVE  RedactionInv'
BY DEF RedactionInv, Audit

LEMMA PollAuditInv ==
    ASSUME RedactionInv, PollAudit
    PROVE  RedactionInv'
<1>1. /\ table \in Tables /\ cls \in Classes /\ doc \in Documents(table, cls)
      /\ applied = {} /\ UNCHANGED <<table, cls, doc>>
  BY DEF RedactionInv, PollAudit
<1>2. CASE PlanOf(table, cls) = NoPlan
  <2>1. at' = "shown" /\ applied' = applied
    BY <1>2 DEF PollAudit
  <2>2. Began'
    BY <1>1, <1>2, <2>1 DEF Began
  <2>3. ApplyAll(table, doc, applied) = {}
    BY <1>1 DEF ApplyAll
  <2> QED BY <1>1, <2>1, <2>2, <2>3 DEF RedactionInv
<1>3. CASE PlanOf(table, cls) # NoPlan
  <2>1. at' = "applying" /\ applied' = {<<Root, PlanOf(table, cls)>>}
    BY <1>3 DEF PollAudit
  <2>2. Began'
    BY <1>1, <2>1 DEF Began
  <2>3. \A call \in applied' : SoundCall(table, doc, call)
    BY <1>1, <2>1, RootSound
  <2> QED BY <1>1, <2>1, <2>2, <2>3 DEF RedactionInv
<1> QED BY <1>2, <1>3

LEMMA RecursionInv ==
    ASSUME RedactionInv, Recursion
    PROVE  RedactionInv'
<1> DEFINE called == ApplyAll(table, doc, applied)
<1>1. /\ table \in Tables /\ cls \in Classes /\ doc \in Documents(table, cls)
      /\ Began /\ UNCHANGED <<table, cls, doc>>
      /\ Tells(doc) => \A call \in applied : SoundCall(table, doc, call)
  BY DEF RedactionInv, Recursion
<1>2. CASE called \subseteq applied
  <2>1. at' = "shown" /\ applied' = applied
    BY <1>2 DEF Recursion
  <2>2. Began'
    BY <1>1, <2>1 DEF Began
  <2> QED BY <1>1, <1>2, <2>1, <2>2 DEF RedactionInv
<1>3. CASE ~ (called \subseteq applied)
  <2>1. at' = "applying" /\ applied' = applied \cup called
    BY <1>3 DEF Recursion
  <2>2. Began'
    <3>1. applied # {}
      BY <1>3 DEF ApplyAll
    <3> QED BY <1>1, <2>1, <3>1 DEF Began
  <2>3. ASSUME Tells(doc), NEW call \in called PROVE SoundCall(table, doc, call)
    <3>1. PICK by \in applied : call \in Apply(table, doc, by[1], by[2])
      BY <2>3 DEF ApplyAll
    <3>2. PICK n, plan : by = <<n, plan>> /\ Sound(table, doc, n, plan)
      BY <1>1, <2>3, <3>1 DEF SoundCall
    <3>3. call \in Apply(table, doc, n, plan)
      BY <3>1, <3>2
    <3> QED BY <1>1, <2>3, <3>2, <3>3, SoundApplied
  <2>4. Tells(doc) => \A call \in applied' : SoundCall(table, doc, call)
    BY <1>1, <2>1, <2>3
  <2>5. (Tells(doc) => \A call \in applied : SoundCall(table, doc, call))'
    BY <1>1, <2>4
  <2> QED BY <1>1, <2>1, <2>2, <2>5 DEF RedactionInv
<1> QED BY <1>2, <1>3

LEMMA NextInv == RedactionInv /\ [Next]_vars => RedactionInv'
<1> SUFFICES ASSUME RedactionInv, [Next]_vars PROVE RedactionInv'
  OBVIOUS
<1>1. CASE Audit
  BY <1>1, AuditInv
<1>2. CASE PollAudit
  BY <1>2, PollAuditInv
<1>3. CASE Recursion
  BY <1>3, RecursionInv
<1>4. CASE UNCHANGED vars
  <2>1. Began' <=> Began
    BY <1>4 DEF vars, Began
  <2> QED BY <1>4, <2>1 DEF vars, RedactionInv
<1> QED BY <1>1, <1>2, <1>3, <1>4 DEF Next

\* In every reachable state the calls made so far are for plans of a type that the value has, or
\* for plans that fit no such value, and what is shown is what the recursion ended with.
THEOREM RedactionInvariant == Spec => []RedactionInv
BY InitInv, NextInv, PTL DEF Spec

LEMMA MasksSecrets == RedactionInv => SecretsMasked
<1> SUFFICES ASSUME RedactionInv, at = "shown", NEW n \in Secrets,
                    doc[n].form # "none", Seen(doc, n)
             PROVE  n \in Masked
  BY DEF SecretsMasked
<1>1. /\ table \in Tables /\ cls \in Classes /\ doc \in Documents(table, cls)
      /\ Began /\ ApplyAll(table, doc, applied) \subseteq applied
  BY DEF RedactionInv
<1>2. n \in DOMAIN doc /\ SecretAt(doc, n)
  BY DEF Secrets, SecretAt
<1>3. PlanOf(table, cls) # NoPlan
  BY <1>1, <1>2, NoPlanNoSecret
<1> QED BY <1>1, <1>2, <1>3, FinishedMasks DEF Began, Masked

\* No SECRET value is shown to an audit handler, whatever classes there are and however they
\* refer to one another, at any depth, if redact() sees through the types on the way to it: no
\* array-like struct, and no union of a struct and an annotation or union around another.
THEOREM SecretsAreMasked == Spec => []SecretsMasked
BY RedactionInvariant, MasksSecrets, PTL

LEMMA MasksOnlySecrets == RedactionInv => OnlySecretsMasked
<1> SUFFICES ASSUME RedactionInv, at = "shown", Tells(doc), NEW n \in Masked
             PROVE  n \in Secrets
  BY DEF OnlySecretsMasked, Tells
<1>1. /\ table \in Tables /\ cls \in Classes /\ doc \in Documents(table, cls)
      /\ \A call \in applied : SoundCall(table, doc, call)
  BY DEF RedactionInv
<1>2. PICK call \in applied : call[2][1] = "mask" /\ n = call[1]
  BY DEF Masked, MaskedBy
<1>3. PICK m, plan : call = <<m, plan>> /\ Sound(table, doc, m, plan)
  BY <1>1, <1>2 DEF SoundCall
<1>4. m = n /\ plan[1] = "mask"
  BY <1>2, <1>3
<1>5. n \in DOMAIN doc /\ SecretAt(doc, n)
  BY <1>1, <1>3, <1>4, SoundMasksSecrets
<1> QED BY <1>5 DEF Secrets, SecretAt

\* ... and nothing else is masked where a value tells which member of a union it is of.
THEOREM OnlySecretsAreMasked == Spec => []OnlySecretsMasked
BY RedactionInvariant, MasksOnlySecrets, PTL

=============================================================================
