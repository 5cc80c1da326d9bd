----------------------------- MODULE QueueLemmas -----------------------------
(* Lemmas about sequences used as queues: an element that moves from the    *)
(* head of one queue to the end of the queue before it changes nothing in   *)
(* their concatenation.                                                     *)
EXTENDS Sequences, Integers, SequenceTheorems, TLAPS

LEMMA AppendToConcat ==
  ASSUME NEW S, NEW s \in Seq(S), NEW t \in Seq(S), NEW e \in S
  PROVE  s \o Append(t, e) = Append(s \o t, e)
<1>1. <<e>> \in Seq(S)
  OBVIOUS
<1>2. s \o t \in Seq(S)
  BY ConcatProperties
<1>3. Append(t, e) = t \o <<e>> /\ Append(s \o t, e) = (s \o t) \o <<e>>
  BY <1>2, AppendIsConcat
<1> QED BY <1>1, <1>3, ConcatAssociative

LEMMA HeadThenTail ==
  ASSUME NEW S, NEW t \in Seq(S), t # <<>>
  PROVE  t = <<Head(t)>> \o Tail(t)
<1> DEFINE u == <<Head(t)>> \o Tail(t)
<1>1. Head(t) \in S /\ Tail(t) \in Seq(S) /\ Len(t) \in Nat \ {0}
      /\ Len(Tail(t)) = Len(t) - 1 /\ \A k \in 1 .. Len(Tail(t)) : Tail(t)[k] = t[k + 1]
  BY HeadTailProperties, EmptySeq
<1>2. <<Head(t)>> \in Seq(S) /\ Len(<<Head(t)>>) = 1 /\ <<Head(t)>>[1] = t[1]
  BY <1>1
<1>3. /\ u \in Seq(S) /\ Len(u) = Len(t)
      /\ \A k \in 1 .. 1 + Len(Tail(t)) :
           u[k] = IF k <= 1 THEN <<Head(t)>>[k] ELSE Tail(t)[k - 1]
  BY <1>1, <1>2, ConcatProperties
<1>4. \A k \in 1 .. Len(t) : u[k] = t[k]
  <2> SUFFICES ASSUME NEW k \in 1 .. Len(t) PROVE u[k] = t[k]
    OBVIOUS
  <2> HIDE DEF u
  <2>1. CASE k = 1
    BY <1>1, <1>2, <1>3, <2>1
  <2>2. CASE k # 1
    BY <1>1, <1>3, <2>2
  <2> QED BY <2>1, <2>2
<1> HIDE DEF u
<1>5. u = t
  BY <1>3, <1>4, SeqEqual
<1> QED BY <1>5 DEF u

\* The head of t moves to the end of s.
LEMMA MoveHead ==
  ASSUME NEW S, NEW s \in Seq(S), NEW t \in Seq(S), t # <<>>
  PROVE  Append(s, Head(t)) \o Tail(t) = s \o t
<1>1. Head(t) \in S /\ Tail(t) \in Seq(S) /\ <<Head(t)>> \in Seq(S)
  BY HeadTailProperties
<1>2. Append(s, Head(t)) = s \o <<Head(t)>>
  BY <1>1, AppendIsConcat
<1>3. (s \o <<Head(t)>>) \o Tail(t) = s \o (<<Head(t)>> \o Tail(t))
  BY <1>1, ConcatAssociative
<1> QED BY <1>2, <1>3, HeadThenTail

\* Reading from a concatenation reads from its first part.
LEMMA TailOfConcat ==
  ASSUME NEW S, NEW s \in Seq(S), NEW t \in Seq(S), s # <<>>
  PROVE  /\ s \o t # <<>>
         /\ Head(s \o t) = Head(s)
         /\ Tail(s \o t) = Tail(s) \o t
<1> DEFINE u == s \o t
           v == Tail(s) \o t
<1>1. Tail(s) \in Seq(S) /\ Len(s) \in Nat \ {0} /\ Len(Tail(s)) = Len(s) - 1
      /\ \A k \in 1 .. Len(Tail(s)) : Tail(s)[k] = s[k + 1]
  BY HeadTailProperties, EmptySeq
<1>2. /\ u \in Seq(S) /\ Len(u) = Len(s) + Len(t) /\ Len(t) \in Nat
      /\ \A k \in 1 .. Len(s) + Len(t) : u[k] = IF k <= Len(s) THEN s[k] ELSE t[k - Len(s)]
  BY ConcatProperties, LenProperties
<1>3. /\ v \in Seq(S) /\ Len(v) = Len(Tail(s)) + Len(t)
      /\ \A k \in 1 .. Len(Tail(s)) + Len(t) :
           v[k] = IF k <= Len(Tail(s)) THEN Tail(s)[k] ELSE t[k - Len(Tail(s))]
  BY <1>1, ConcatProperties
<1> HIDE DEF u, v
<1>4. u # <<>> /\ u[1] = s[1]
  BY <1>1, <1>2
<1>5. Head(u) = Head(s)
  BY <1>1, <1>2, <1>4
<1>6. Tail(u) \in Seq(S) /\ Len(Tail(u)) = Len(u) - 1
      /\ \A k \in 1 .. Len(Tail(u)) : Tail(u)[k] = u[k + 1]
  BY <1>2, <1>4, HeadTailProperties
<1>7. \A k \in 1 .. Len(Tail(u)) : Tail(u)[k] = v[k]
  <2> SUFFICES ASSUME NEW k \in 1 .. Len(Tail(u)) PROVE Tail(u)[k] = v[k]
    OBVIOUS
  <2>1. /\ k + 1 \in 1 .. Len(s) + Len(t) /\ k \in 1 .. Len(Tail(s)) + Len(t)
        /\ Tail(u)[k] = u[k + 1]
    BY <1>1, <1>2, <1>6
  <2>2. CASE k <= Len(Tail(s))
    <3>1. k \in 1 .. Len(Tail(s)) /\ k + 1 <= Len(s)
      BY <1>1, <2>2
    <3> QED BY <1>1, <1>2, <1>3, <2>1, <2>2, <3>1
  <2>3. CASE ~(k <= Len(Tail(s)))
    <3>1. ~(k + 1 <= Len(s)) /\ k + 1 - Len(s) = k - Len(Tail(s))
      BY <1>1, <2>3
    <3> QED BY <1>2, <1>3, <2>1, <2>3, <3>1
  <2> QED BY <2>2, <2>3
<1>8. Tail(u) = v
  BY <1>1, <1>2, <1>3, <1>6, <1>7, SeqEqual
<1> QED BY <1>4, <1>5, <1>8 DEF u, v

\* What holds of the elements of a concatenation holds of those of its parts.
LEMMA PartsOfConcat ==
  ASSUME NEW S, NEW T, NEW s \in Seq(S), NEW t \in Seq(S), s \o t \in Seq(T)
  PROVE  s \in Seq(T) /\ t \in Seq(T)
<1> DEFINE u == s \o t
<1>1. /\ Len(s) \in Nat /\ Len(t) \in Nat /\ Len(u) = Len(s) + Len(t)
      /\ \A k \in 1 .. Len(s) + Len(t) : u[k] = IF k <= Len(s) THEN s[k] ELSE t[k - Len(s)]
      /\ s \in [1 .. Len(s) -> S] /\ t \in [1 .. Len(t) -> S]
  BY ConcatProperties, LenProperties
<1>2. \A k \in 1 .. Len(s) + Len(t) : u[k] \in T
  BY <1>1, ElementOfSeq
<1> HIDE DEF u
<1>3. \A k \in 1 .. Len(s) : s[k] \in T
  BY <1>1, <1>2
<1>4. \A k \in 1 .. Len(t) : t[k] \in T
  <2> SUFFICES ASSUME NEW k \in 1 .. Len(t) PROVE t[k] \in T
    OBVIOUS
  <2>1. Len(s) + k \in 1 .. Len(s) + Len(t) /\ ~(Len(s) + k <= Len(s)) /\ Len(s) + k - Len(s) = k
    BY <1>1
  <2> QED BY <1>1, <1>2, <2>1
<1>5. s \in [1 .. Len(s) -> T] /\ t \in [1 .. Len(t) -> T]
  BY <1>1, <1>3, <1>4
<1> QED BY <1>1, <1>5

LEMMA ConcatFour ==
  ASSUME NEW S, NEW w \in Seq(S), NEW o \in Seq(S), NEW m \in Seq(S), NEW b \in Seq(S)
  PROVE  /\ w \o o \in Seq(S) /\ w \o o \o m \in Seq(S) /\ w \o o \o m \o b \in Seq(S)
         /\ Len(w \o o \o m \o b) = Len(w) + Len(o) + Len(m) + Len(b)
<1> DEFINE x == w \o o
           y == x \o m
<1>1. x \in Seq(S) /\ Len(x) = Len(w) + Len(o)
  BY ConcatProperties
<1> HIDE DEF x
<1>2. y \in Seq(S) /\ Len(y) = Len(x) + Len(m)
  BY <1>1, ConcatProperties
<1> HIDE DEF y
<1>3. y \o b \in Seq(S) /\ Len(y \o b) = Len(y) + Len(b)
  BY <1>2, ConcatProperties
<1>4. Len(y \o b) = Len(w) + Len(o) + Len(m) + Len(b)
  BY <1>1, <1>2, <1>3
<1> QED BY <1>1, <1>2, <1>3, <1>4 DEF x, y

LEMMA PartsOfFour ==
  ASSUME NEW S, NEW T, NEW w \in Seq(S), NEW o \in Seq(S), NEW m \in Seq(S),
         NEW b \in Seq(S), w \o o \o m \o b \in Seq(T)
  PROVE  w \in Seq(T) /\ o \in Seq(T) /\ m \in Seq(T) /\ b \in Seq(T)
<1>1. w \o o \in Seq(S) /\ w \o o \o m \in Seq(S)
  BY ConcatFour
<1>2. w \o o \o m \in Seq(T) /\ b \in Seq(T)
  BY <1>1, PartsOfConcat
<1>3. w \o o \in Seq(T) /\ m \in Seq(T)
  BY <1>1, <1>2, PartsOfConcat
<1>4. w \in Seq(T) /\ o \in Seq(T)
  BY <1>3, PartsOfConcat
<1> QED BY <1>2, <1>3, <1>4

\* The head of b goes in ahead of m: the whole has the same length and elements.
LEMMA Overtake ==
  ASSUME NEW S, NEW T, NEW w \in Seq(S), NEW o \in Seq(S), NEW m \in Seq(S),
         NEW b \in Seq(S), b # <<>>
  PROVE  /\ Len(w \o Append(o, Head(b)) \o m \o Tail(b)) = Len(w \o o \o m \o b)
         /\ w \o o \o m \o b \in Seq(T)
              => w \o Append(o, Head(b)) \o m \o Tail(b) \in Seq(T)
<1> DEFINE s == w \o o \o m \o b
           h == Head(b)
           t == Tail(b)
           p == Append(o, h)
           u == w \o p \o m \o t
<1>1. h \in S /\ t \in Seq(S) /\ Len(t) = Len(b) - 1
  BY HeadTailProperties
<1>2. p \in Seq(S) /\ Len(p) = Len(o) + 1
  BY <1>1, AppendProperties
<1>3. Len(s) = Len(w) + Len(o) + Len(m) + Len(b)
  BY ConcatFour
<1> HIDE DEF p, t
<1>4. Len(u) = Len(w) + Len(p) + Len(m) + Len(t)
  <2>1. \A q, r \in Seq(S) : Len(w \o q \o m \o r) = Len(w) + Len(q) + Len(m) + Len(r)
    BY ConcatFour
  <2> QED BY <1>1, <1>2, <2>1
<1>5. Len(w) \in Nat /\ Len(o) \in Nat /\ Len(m) \in Nat /\ Len(b) \in Nat
  BY LenProperties
<1>6. ASSUME s \in Seq(T) PROVE u \in Seq(T)
  <2>1. w \in Seq(T) /\ o \in Seq(T) /\ m \in Seq(T) /\ b \in Seq(T)
    BY <1>6, PartsOfFour
  <2>2. h \in T /\ t \in Seq(T)
    BY <2>1, HeadTailProperties DEF t
  <2>3. p \in Seq(T)
    BY <2>1, <2>2, AppendProperties DEF p
  <2> QED BY <2>1, <2>2, <2>3, ConcatFour
<1> HIDE DEF s, u
<1>7. Len(u) = Len(s)
  BY <1>1, <1>2, <1>3, <1>4, <1>5
<1>8. Len(u) = Len(s) /\ (s \in Seq(T) => u \in Seq(T))
  BY <1>6, <1>7
<1> QED BY <1>8, Zenon DEF s, u, p, t, h
=============================================================================
