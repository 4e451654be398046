---------------------------- MODULE QueueLemmas -----------------------------
(***************************************************************************)
(* Sequences that take at one end and give at the other: what they hold,   *)
(* what order their members stand in, and what stands behind what.         *)
(***************************************************************************)
EXTENDS Naturals, Sequences, SequencesExt, TLAPS

\* R holds between every member of q and every later one.
Ordered(q, R) == \A i, j \in 1 .. Len(q) : i < j => <<q[i], q[j]>> \in R

\* x is in q, with nothing of marks behind it.
Behind(q, marks, x) ==
    \E j \in 1 .. Len(q) : q[j] = x /\ \A i \in j + 1 .. Len(q) : q[i] \notin marks

\* x is in q, behind m.
Trails(q, m, x) == \E i, j \in 1 .. Len(q) : i < j /\ q[i] = m /\ q[j] = x

-----------------------------------------------------------------------------
(* What they hold.                                                         *)

LEMMA AppendRange ==
    ASSUME NEW S, NEW q \in Seq(S), NEW x \in S
    PROVE  Append(q, x) \in Seq(S) /\ Range(Append(q, x)) = Range(q) \cup {x}
  <1>1. /\ Append(q, x) \in Seq(S) /\ Len(q) \in Nat /\ Len(Append(q, x)) = Len(q) + 1
        /\ DOMAIN Append(q, x) = 1 .. Len(q) + 1 /\ DOMAIN q = 1 .. Len(q)
        /\ Append(q, x)[Len(q) + 1] = x
        /\ \A i \in 1 .. Len(q) : Append(q, x)[i] = q[i]
    OBVIOUS
  <1>2. ASSUME NEW y \in Range(Append(q, x)) PROVE y \in Range(q) \cup {x}
    BY <1>1, <1>2 DEF Range
  <1>3. ASSUME NEW y \in Range(q) \cup {x} PROVE y \in Range(Append(q, x))
    BY <1>1, <1>3 DEF Range
  <1>4. QED
    BY <1>1, <1>2, <1>3

LEMMA HeadRange ==
    ASSUME NEW S, NEW q \in Seq(S), q # <<>>
    PROVE  /\ Head(q) \in S /\ Tail(q) \in Seq(S)
           /\ Range(q) = Range(Tail(q)) \cup {Head(q)}
  <1>1. /\ Head(q) = q[1] /\ Head(q) \in S /\ Tail(q) \in Seq(S)
        /\ Len(q) \in Nat \ {0} /\ Len(Tail(q)) = Len(q) - 1
        /\ DOMAIN q = 1 .. Len(q) /\ DOMAIN Tail(q) = 1 .. Len(q) - 1
        /\ \A i \in 1 .. Len(q) - 1 : Tail(q)[i] = q[i + 1]
    OBVIOUS
  <1>2. ASSUME NEW y \in Range(q) PROVE y \in Range(Tail(q)) \cup {Head(q)}
    <2>1. PICK i \in 1 .. Len(q) : q[i] = y
      BY <1>1 DEF Range
    <2>2. CASE i = 1
      BY <1>1, <2>1, <2>2
    <2>3. CASE i # 1
      <3>1. i - 1 \in 1 .. Len(q) - 1 /\ Tail(q)[i - 1] = y
        BY <1>1, <2>1, <2>3
      <3>2. QED
        BY <1>1, <3>1 DEF Range
    <2>4. QED
      BY <2>2, <2>3
  <1>3. ASSUME NEW y \in Range(Tail(q)) \cup {Head(q)} PROVE y \in Range(q)
    BY <1>1 DEF Range
  <1>4. QED
    BY <1>1, <1>2, <1>3

LEMMA ConcatRange ==
    ASSUME NEW S, NEW q \in Seq(S), NEW r \in Seq(S)
    PROVE  q \o r \in Seq(S) /\ Range(q \o r) = Range(q) \cup Range(r)
  <1>1. /\ q \o r \in Seq(S) /\ Len(q) \in Nat /\ Len(r) \in Nat
        /\ Len(q \o r) = Len(q) + Len(r)
        /\ DOMAIN (q \o r) = 1 .. Len(q) + Len(r)
        /\ DOMAIN q = 1 .. Len(q) /\ DOMAIN r = 1 .. Len(r)
        /\ \A i \in 1 .. Len(q) : (q \o r)[i] = q[i]
        /\ \A i \in 1 .. Len(r) : (q \o r)[Len(q) + i] = r[i]
    OBVIOUS
  <1>2. ASSUME NEW y \in Range(q \o r) PROVE y \in Range(q) \cup Range(r)
    <2>1. PICK i \in 1 .. Len(q) + Len(r) : (q \o r)[i] = y
      BY <1>1 DEF Range
    <2>2. CASE i <= Len(q)
      BY <1>1, <2>1, <2>2 DEF Range
    <2>3. CASE i > Len(q)
      <3>1. i - Len(q) \in 1 .. Len(r) /\ r[i - Len(q)] = y
        BY <1>1, <2>1, <2>3
      <3>2. QED
        BY <1>1, <3>1 DEF Range
    <2>4. QED
      BY <1>1, <2>2, <2>3
  <1>3. ASSUME NEW y \in Range(q) PROVE y \in Range(q \o r)
    BY <1>1, <1>3 DEF Range
  <1>4. ASSUME NEW y \in Range(r) PROVE y \in Range(q \o r)
    BY <1>1, <1>4 DEF Range
  <1>5. QED
    BY <1>1, <1>2, <1>3, <1>4

LEMMA RemoveRange ==
    ASSUME NEW S, NEW q \in Seq(S), NEW i \in 1 .. Len(q)
    PROVE  RemoveAt(q, i) \in Seq(S) /\ Range(RemoveAt(q, i)) \subseteq Range(q)
  <1> DEFINE before == SubSeq(q, 1, i - 1)
             after == SubSeq(q, i + 1, Len(q))
  <1>1. Len(q) \in Nat /\ q \in [1 .. Len(q) -> S]
    OBVIOUS
  <1>2. /\ before \in Seq(S) /\ DOMAIN before = 1 .. i - 1
        /\ \A j \in 1 .. i - 1 : before[j] = q[j]
    BY <1>1
  <1>3. /\ after \in Seq(S) /\ DOMAIN after = 1 .. Len(q) - i
        /\ \A j \in 1 .. Len(q) - i : after[j] = q[i + j]
    BY <1>1
  <1>4. Range(before) \subseteq Range(q) /\ Range(after) \subseteq Range(q)
    BY <1>1, <1>2, <1>3 DEF Range
  <1>5. before \o after \in Seq(S) /\ Range(before \o after) = Range(before) \cup Range(after)
    <2> HIDE DEF before, after
    <2>1. QED
      BY <1>2, <1>3, ConcatRange
  <1>6. QED
    BY <1>4, <1>5 DEF RemoveAt

\* What is removed is one member; the others stay.
LEMMA RemoveOther ==
    ASSUME NEW S, NEW q \in Seq(S), NEW i \in 1 .. Len(q), NEW y \in Range(q), q[i] # y
    PROVE  y \in Range(RemoveAt(q, i))
  <1> DEFINE before == SubSeq(q, 1, i - 1)
             after == SubSeq(q, i + 1, Len(q))
  <1>1. Len(q) \in Nat /\ DOMAIN q = 1 .. Len(q) /\ q \in [1 .. Len(q) -> S]
    OBVIOUS
  <1>2. /\ before \in Seq(S) /\ DOMAIN before = 1 .. i - 1
        /\ \A j \in 1 .. i - 1 : before[j] = q[j]
    BY <1>1
  <1>3. /\ after \in Seq(S) /\ DOMAIN after = 1 .. Len(q) - i
        /\ \A j \in 1 .. Len(q) - i : after[j] = q[i + j]
    BY <1>1
  <1>4. Range(before \o after) = Range(before) \cup Range(after)
    <2> HIDE DEF before, after
    <2>1. QED
      BY <1>2, <1>3, ConcatRange
  <1>5. PICK j \in 1 .. Len(q) : q[j] = y
    BY <1>1 DEF Range
  <1>6. CASE j < i
    <2> HIDE DEF before, after
    <2>1. j \in 1 .. i - 1 /\ before[j] = y
      BY <1>1, <1>2, <1>5, <1>6
    <2>2. y \in Range(before)
      BY <1>2, <2>1 DEF Range
    <2>3. QED
      BY <1>4, <2>2 DEF RemoveAt, before, after
  <1>7. CASE j > i
    <2> HIDE DEF before, after
    <2>1. j - i \in 1 .. Len(q) - i /\ after[j - i] = y
      BY <1>1, <1>3, <1>5, <1>7
    <2>2. y \in Range(after)
      BY <1>3, <2>1 DEF Range
    <2>3. QED
      BY <1>4, <2>2 DEF RemoveAt, before, after
  <1>8. QED
    BY <1>1, <1>5, <1>6, <1>7

LEMMA SeqGrows ==
    ASSUME NEW S, NEW T, S \subseteq T, NEW q \in Seq(S)
    PROVE  q \in Seq(T)
  OBVIOUS

-----------------------------------------------------------------------------
(* In what order.                                                          *)

LEMMA OrderedAppend ==
    ASSUME NEW S, NEW q \in Seq(S), NEW x \in S, NEW R, Ordered(q, R),
           \A y \in Range(q) : <<y, x>> \in R
    PROVE  Ordered(Append(q, x), R)
  <1>1. /\ Len(q) \in Nat /\ Len(Append(q, x)) = Len(q) + 1 /\ DOMAIN q = 1 .. Len(q)
        /\ Append(q, x)[Len(q) + 1] = x
        /\ \A i \in 1 .. Len(q) : Append(q, x)[i] = q[i]
    OBVIOUS
  <1>2. \A i \in 1 .. Len(q) : <<q[i], x>> \in R
    BY <1>1 DEF Range
  <1>3. SUFFICES ASSUME NEW i \in 1 .. Len(q) + 1, NEW j \in 1 .. Len(q) + 1, i < j
                 PROVE  <<Append(q, x)[i], Append(q, x)[j]>> \in R
    BY <1>1 DEF Ordered
  <1>4. CASE j = Len(q) + 1
    BY <1>1, <1>2, <1>3, <1>4
  <1>5. CASE j # Len(q) + 1
    BY <1>1, <1>3, <1>5 DEF Ordered
  <1>6. QED
    BY <1>4, <1>5

LEMMA TailFacts ==
    ASSUME NEW S, NEW q \in Seq(S), q # <<>>
    PROVE  /\ Head(q) = q[1] /\ Len(q) \in Nat \ {0} /\ Len(Tail(q)) = Len(q) - 1
           /\ \A i \in 1 .. Len(q) - 1 : Tail(q)[i] = q[i + 1]
           /\ DOMAIN q = 1 .. Len(q) /\ DOMAIN Tail(q) = 1 .. Len(q) - 1
  OBVIOUS

LEMMA OrderedTail ==
    ASSUME NEW S, NEW q \in Seq(S), q # <<>>, NEW R, Ordered(q, R)
    PROVE  Ordered(Tail(q), R) /\ \A y \in Range(Tail(q)) : <<Head(q), y>> \in R
  <1>1. /\ Head(q) = q[1] /\ Len(q) \in Nat \ {0} /\ Len(Tail(q)) = Len(q) - 1
        /\ \A i \in 1 .. Len(q) - 1 : Tail(q)[i] = q[i + 1]
        /\ DOMAIN Tail(q) = 1 .. Len(q) - 1
    BY TailFacts
  <1>2. \A i \in 1 .. Len(q) - 1 : i + 1 \in 1 .. Len(q)
    BY <1>1
  <1>3. Ordered(Tail(q), R)
    <2>1. SUFFICES ASSUME NEW i \in 1 .. Len(q) - 1, NEW j \in 1 .. Len(q) - 1, i < j
                   PROVE  <<Tail(q)[i], Tail(q)[j]>> \in R
      BY <1>1 DEF Ordered
    <2>2. i + 1 \in 1 .. Len(q) /\ j + 1 \in 1 .. Len(q) /\ i + 1 < j + 1
      BY <1>1, <2>1
    <2>3. <<q[i + 1], q[j + 1]>> \in R
      BY <2>2 DEF Ordered
    <2>4. QED
      BY <1>1, <2>3
  <1>4. ASSUME NEW y \in Range(Tail(q)) PROVE <<Head(q), y>> \in R
    <2>1. PICK i \in 1 .. Len(q) - 1 : Tail(q)[i] = y
      BY <1>1, <1>4 DEF Range
    <2>2. i + 1 \in 1 .. Len(q) /\ 1 \in 1 .. Len(q) /\ 1 < i + 1
      BY <1>1
    <2>3. <<q[1], q[i + 1]>> \in R
      BY <2>2 DEF Ordered
    <2>4. QED
      BY <1>1, <2>1, <2>3
  <1>5. QED
    BY <1>3, <1>4

LEMMA OrderedConcat ==
    ASSUME NEW S, NEW q \in Seq(S), NEW r \in Seq(S), NEW R, Ordered(q, R),
           \A x \in S, y \in Range(r) : <<x, y>> \in R
    PROVE  Ordered(q \o r, R)
  <1>1. /\ Len(q) \in Nat /\ Len(r) \in Nat /\ Len(q \o r) = Len(q) + Len(r)
        /\ DOMAIN q = 1 .. Len(q) /\ DOMAIN r = 1 .. Len(r)
        /\ \A i \in 1 .. Len(q) : (q \o r)[i] = q[i] /\ q[i] \in S
        /\ \A i \in 1 .. Len(r) : (q \o r)[Len(q) + i] = r[i] /\ r[i] \in S
    OBVIOUS
  <1>2. SUFFICES ASSUME NEW i \in 1 .. Len(q) + Len(r), NEW j \in 1 .. Len(q) + Len(r), i < j
                 PROVE  <<(q \o r)[i], (q \o r)[j]>> \in R
    BY <1>1 DEF Ordered
  <1>3. CASE j <= Len(q)
    BY <1>1, <1>2, <1>3 DEF Ordered
  <1>4. CASE j > Len(q)
    <2>1. j - Len(q) \in 1 .. Len(r) /\ (q \o r)[j] = r[j - Len(q)]
      BY <1>1, <1>4
    <2>2. (q \o r)[j] \in Range(r)
      BY <1>1, <2>1 DEF Range
    <2>3. (q \o r)[i] \in S
      <3>1. CASE i <= Len(q)
        BY <1>1, <3>1
      <3>2. CASE i > Len(q)
        <4>1. i - Len(q) \in 1 .. Len(r) /\ (q \o r)[i] = r[i - Len(q)]
          BY <1>1, <3>2
        <4>2. QED
          BY <1>1, <4>1
      <3>3. QED
        BY <1>1, <3>1, <3>2
    <2>4. QED
      BY <2>2, <2>3
  <1>5. j \in Nat /\ Len(q) \in Nat
    BY <1>1
  <1>6. QED
    BY <1>3, <1>4, <1>5

LEMMA BehindTail ==
    ASSUME NEW S, NEW q \in Seq(S), q # <<>>, NEW marks, NEW x, Behind(Tail(q), marks, x)
    PROVE  Behind(q, marks, x)
  <1>1. /\ Len(q) \in Nat \ {0} /\ Len(Tail(q)) = Len(q) - 1
        /\ \A i \in 1 .. Len(q) - 1 : Tail(q)[i] = q[i + 1]
    BY TailFacts
  <1>2. PICK j \in 1 .. Len(q) - 1 :
            Tail(q)[j] = x /\ \A i \in j + 1 .. Len(q) - 1 : Tail(q)[i] \notin marks
    BY <1>1 DEF Behind
  <1>3. j + 1 \in 1 .. Len(q) /\ q[j + 1] = x
    BY <1>1, <1>2
  <1>4. ASSUME NEW i \in j + 2 .. Len(q) PROVE q[i] \notin marks
    <2>1. i - 1 \in j + 1 .. Len(q) - 1 /\ i - 1 \in 1 .. Len(q) - 1 /\ Tail(q)[i - 1] = q[i]
      BY <1>1
    <2>2. QED
      BY <1>2, <2>1
  <1>5. QED
    BY <1>1, <1>3, <1>4 DEF Behind

LEMMA BehindAppend ==
    ASSUME NEW S, NEW q \in Seq(S), NEW y \in S, NEW marks, NEW x, x # y,
           Behind(Append(q, y), marks, x)
    PROVE  Behind(q, marks, x) /\ y \notin marks
  <1>1. /\ Len(q) \in Nat /\ Len(Append(q, y)) = Len(q) + 1
        /\ Append(q, y)[Len(q) + 1] = y
        /\ \A i \in 1 .. Len(q) : Append(q, y)[i] = q[i]
    OBVIOUS
  <1>2. PICK j \in 1 .. Len(q) + 1 :
            /\ Append(q, y)[j] = x
            /\ \A i \in j + 1 .. Len(q) + 1 : Append(q, y)[i] \notin marks
    BY <1>1 DEF Behind
  <1>3. j \in 1 .. Len(q) /\ Len(q) + 1 \in j + 1 .. Len(q) + 1
    BY <1>1, <1>2
  <1>4. QED
    BY <1>1, <1>2, <1>3 DEF Behind

LEMMA BehindConcat ==
    ASSUME NEW S, NEW q \in Seq(S), NEW r \in Seq(S), NEW marks, NEW x, x \notin Range(r),
           Behind(q \o r, marks, x)
    PROVE  Behind(q, marks, x)
  <1>1. /\ Len(q) \in Nat /\ Len(r) \in Nat /\ Len(q \o r) = Len(q) + Len(r)
        /\ DOMAIN r = 1 .. Len(r)
        /\ \A i \in 1 .. Len(q) : (q \o r)[i] = q[i]
        /\ \A i \in 1 .. Len(r) : (q \o r)[Len(q) + i] = r[i]
    OBVIOUS
  <1>2. PICK j \in 1 .. Len(q) + Len(r) :
            /\ (q \o r)[j] = x
            /\ \A i \in j + 1 .. Len(q) + Len(r) : (q \o r)[i] \notin marks
    BY <1>1 DEF Behind
  <1>3. j \in 1 .. Len(q)
    <2>1. CASE j > Len(q)
      <3>1. j - Len(q) \in 1 .. Len(r) /\ (q \o r)[j] = r[j - Len(q)]
        BY <1>1, <2>1
      <3>2. QED
        BY <1>1, <1>2, <3>1 DEF Range
    <2>2. QED
      BY <1>1, <2>1
  <1>4. QED
    BY <1>1, <1>2, <1>3 DEF Behind

\* Where there is no marker, everything is behind them.
LEMMA BehindNone ==
    ASSUME NEW S, NEW q \in Seq(S), NEW marks, NEW x \in Range(q),
           \A y \in marks : y \notin Range(q)
    PROVE  Behind(q, marks, x)
  BY DEF Behind, Range

LEMMA TrailsTail ==
    ASSUME NEW S, NEW q \in Seq(S), q # <<>>, NEW m, NEW x, Trails(Tail(q), m, x)
    PROVE  Trails(q, m, x)
  <1>1. /\ Len(q) \in Nat \ {0} /\ Len(Tail(q)) = Len(q) - 1
        /\ \A i \in 1 .. Len(q) - 1 : Tail(q)[i] = q[i + 1]
    BY TailFacts
  <1>2. PICK i \in 1 .. Len(q) - 1, j \in 1 .. Len(q) - 1 :
            i < j /\ Tail(q)[i] = m /\ Tail(q)[j] = x
    BY <1>1 DEF Trails
  <1>3. i + 1 \in 1 .. Len(q) /\ j + 1 \in 1 .. Len(q) /\ i + 1 < j + 1
        /\ q[i + 1] = m /\ q[j + 1] = x
    BY <1>1, <1>2
  <1>4. QED
    BY <1>3 DEF Trails

LEMMA TrailsHead ==
    ASSUME NEW S, NEW q \in Seq(S), q # <<>>, NEW x \in Range(Tail(q))
    PROVE  Trails(q, Head(q), x)
  <1>1. /\ Head(q) = q[1] /\ Len(q) \in Nat \ {0} /\ Len(Tail(q)) = Len(q) - 1
        /\ \A i \in 1 .. Len(q) - 1 : Tail(q)[i] = q[i + 1]
        /\ DOMAIN Tail(q) = 1 .. Len(q) - 1
    BY TailFacts
  <1>2. PICK j \in 1 .. Len(q) - 1 : Tail(q)[j] = x
    BY <1>1 DEF Range
  <1>3. 1 \in 1 .. Len(q) /\ j + 1 \in 1 .. Len(q) /\ 1 < j + 1 /\ q[j + 1] = x
    BY <1>1, <1>2
  <1>4. QED
    BY <1>1, <1>3 DEF Trails

LEMMA TrailsAppend ==
    ASSUME NEW S, NEW q \in Seq(S), NEW y \in S, NEW m, NEW x, Trails(Append(q, y), m, x)
    PROVE  Trails(q, m, x) \/ (x = y /\ m \in Range(q))
  <1>1. /\ Len(q) \in Nat /\ Len(Append(q, y)) = Len(q) + 1 /\ DOMAIN q = 1 .. Len(q)
        /\ Append(q, y)[Len(q) + 1] = y
        /\ \A i \in 1 .. Len(q) : Append(q, y)[i] = q[i]
    OBVIOUS
  <1>2. PICK i \in 1 .. Len(q) + 1, j \in 1 .. Len(q) + 1 :
            i < j /\ Append(q, y)[i] = m /\ Append(q, y)[j] = x
    BY <1>1 DEF Trails
  <1>3. i \in 1 .. Len(q) /\ q[i] = m
    BY <1>1, <1>2
  <1>4. CASE j = Len(q) + 1
    BY <1>1, <1>2, <1>3, <1>4 DEF Range
  <1>5. CASE j # Len(q) + 1
    BY <1>1, <1>2, <1>3, <1>5 DEF Trails
  <1>6. QED
    BY <1>4, <1>5

=============================================================================
