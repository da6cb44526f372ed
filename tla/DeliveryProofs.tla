----------------------------- MODULE DeliveryProofs -----------------------------
(***************************************************************************)
(* Theorems about the delivery of outputs, for any histories of a prompt.  *)
(* First what the functions on sequences compute: they are defined by      *)
(* their last turn, so by induction over the turns, which is drawn from    *)
(* the least number that a set has.  Then what the parser lists, where     *)
(* paths and URLs lead, and the invariant of the delivery.                 *)
(***************************************************************************)
EXTENDS RequestMachines, Integers, SequenceTheorems, WellFoundedInduction, TLAPS

(* The order of numbers as a relation. *)
Less == {pair \in Nat \X Nat : pair[1] < pair[2]}

(* A set of numbers has a least one. *)
LEMMA LeastExists ==
  ASSUME NEW S, S \subseteq Nat, S # {}
  PROVE  \E m \in S : \A k \in S : m <= k
<1>1. OpToRel(<, Nat) = Less
  BY DEF OpToRel, Less
<1>2. PICK m \in S : \A k \in S : <<k, m>> \notin Less
  BY <1>1, NatLessThanWellFounded, WFMin
<1>3. ASSUME NEW k \in S
      PROVE  m <= k
  <2>1. k \in Nat /\ m \in Nat /\ <<k, m>> \in Nat \X Nat
    OBVIOUS
  <2>2. ~(k < m)
    BY <1>2, <2>1 DEF Less
  <2> QED
    BY <2>1, <2>2
<1> QED
  BY <1>3

(* Induction over numbers. *)
LEMMA NumberInduction ==
  ASSUME NEW S, 0 \in S, \A n \in Nat : n \in S => n + 1 \in S
  PROVE  Nat \subseteq S
<1> DEFINE Rest == {n \in Nat : n \notin S}
<1>1. SUFFICES ASSUME Rest # {}
               PROVE  FALSE
  OBVIOUS
<1>2. PICK m \in Rest : \A k \in Rest : m <= k
  <2>1. Rest \subseteq Nat
    OBVIOUS
  <2> HIDE DEF Rest
  <2> QED
    BY <1>1, <2>1, LeastExists
<1>3. m # 0 /\ m - 1 \in Nat /\ m - 1 \notin Rest
  BY <1>2
<1> QED
  BY <1>2, <1>3

(* Induction over sequences. *)
LEMMA SequenceInduction ==
  ASSUME NEW A, NEW T, <<>> \in T,
         \A s \in Seq(A) : \A e \in A : s \in T => Append(s, e) \in T
  PROVE  Seq(A) \subseteq T
<1> DEFINE S == {n \in Nat : \A s \in Seq(A) : Len(s) = n => s \in T}
<1>1. 0 \in S
  BY EmptySeq
<1>2. ASSUME NEW n \in Nat, n \in S
      PROVE  n + 1 \in S
  <2>1. ASSUME NEW s \in Seq(A), Len(s) = n + 1
        PROVE  s \in T
    <3> DEFINE f == SubSeq(s, 1, n)
    <3>1. f \in Seq(A) /\ Len(f) = n /\ s[n + 1] \in A
      BY <2>1
    <3>2. s = Append(f, s[n + 1])
      BY <2>1
    <3> QED
      BY <1>2, <3>1, <3>2
  <2> QED
    BY <2>1
<1>3. Nat \subseteq S
  <2> HIDE DEF S
  <2> QED
    BY <1>1, <1>2, NumberInduction
<1> QED
  BY <1>3
-----------------------------------------------------------------------------
(* The turns of the loop of Without. *)
Keeps(s, X, f) ==
  f = [k \in 0..Len(s) |->
         IF k = 0 THEN <<>> ELSE IF s[k] \in X THEN f[k - 1] ELSE Append(f[k - 1], s[k])]

(* What a turn of the loop makes of the one before. *)
LEMMA KeepsAt ==
  ASSUME NEW s, NEW X, NEW f, Keeps(s, X, f), NEW k \in 0..Len(s)
  PROVE  f[k] = IF k = 0 THEN <<>>
                ELSE IF s[k] \in X THEN f[k - 1] ELSE Append(f[k - 1], s[k])
<1> DEFINE Body(h) == [j \in 0..Len(s) |->
              IF j = 0 THEN <<>> ELSE IF s[j] \in X THEN h[j - 1] ELSE Append(h[j - 1], s[j])]
<1>1. f = Body(f)
  BY DEF Keeps
<1>2. f[k] = Body(f)[k]
  BY <1>1, Zenon
<1>3. Body(f)[k] = IF k = 0 THEN <<>> ELSE IF s[k] \in X THEN f[k - 1] ELSE Append(f[k - 1], s[k])
  BY Zenon
<1> QED
  BY <1>2, <1>3, Zenon

(* The loop has a result for every sequence: by induction over its length. *)
LEMMA KeepsExist ==
  ASSUME NEW A, NEW X
  PROVE  \A s \in Seq(A) : \E f : Keeps(s, X, f)
<1> DEFINE T == {s \in Seq(A) : \E f : Keeps(s, X, f)}
<1>1. <<>> \in T
  <2>1. Keeps(<<>>, X, [k \in 0..0 |-> <<>>])
    BY DEF Keeps
  <2> QED
    BY <2>1
<1>2. ASSUME NEW s \in Seq(A), NEW e \in A, s \in T
      PROVE  Append(s, e) \in T
  <2>1. PICK f : Keeps(s, X, f)
    BY <1>2
  <2> DEFINE n == Len(s)
             t == Append(s, e)
             g == [k \in 0..n + 1 |-> IF k <= n THEN f[k]
                                     ELSE IF e \in X THEN f[n] ELSE Append(f[n], e)]
  <2>2. n \in Nat /\ Len(t) = n + 1 /\ t[n + 1] = e /\ \A k \in 1..n : t[k] = s[k]
    OBVIOUS
  <2>3. ASSUME NEW k \in 0..n + 1
        PROVE  g[k] = IF k = 0 THEN <<>>
                      ELSE IF t[k] \in X THEN g[k - 1] ELSE Append(g[k - 1], t[k])
    <3> HIDE DEF t
    <3>1. CASE k = 0
      BY <2>1, <2>2, <3>1, KeepsAt
    <3>2. CASE k \in 1..n
      <4>1. f[k] = IF s[k] \in X THEN f[k - 1] ELSE Append(f[k - 1], s[k])
        BY <2>1, <2>2, <3>2, KeepsAt
      <4>2. g[k] = f[k] /\ g[k - 1] = f[k - 1] /\ k # 0 /\ t[k] = s[k]
        BY <2>2, <3>2
      <4> HIDE DEF g
      <4> QED
        BY <4>1, <4>2
    <3>3. CASE k = n + 1
      BY <2>2, <3>3
    <3> QED
      BY <2>2, <3>1, <3>2, <3>3
  <2>4. Keeps(t, X, g)
    BY <2>2, <2>3 DEF Keeps
  <2> QED
    BY <2>4
<1>3. Seq(A) \subseteq T
  <2> HIDE DEF T
  <2> QED
    BY <1>1, <1>2, SequenceInduction
<1> QED
  BY <1>3

(* Two loops agree as far as their sequences do. *)
LEMMA KeepsAgree ==
  ASSUME NEW X, NEW s, NEW t, Len(s) \in Nat, Len(t) \in Nat,
         NEW n \in Nat, n <= Len(s), n <= Len(t),
         \A k \in 1..n : s[k] = t[k],
         NEW f, Keeps(s, X, f), NEW g, Keeps(t, X, g)
  PROVE  f[n] = g[n]
<1> DEFINE S == {k \in Nat : k <= n => f[k] = g[k]}
<1>1. 0 \in S
  BY KeepsAt
<1>2. ASSUME NEW k \in Nat, k \in S
      PROVE  k + 1 \in S
  <2>1. CASE k + 1 <= n
    <3>1. /\ k + 1 \in 0..Len(s) /\ k + 1 \in 0..Len(t) /\ k + 1 # 0 /\ k + 1 - 1 = k
          /\ s[k + 1] = t[k + 1]
      BY <2>1
    <3>2. f[k + 1] = IF s[k + 1] \in X THEN f[k] ELSE Append(f[k], s[k + 1])
      BY <3>1, KeepsAt
    <3>3. g[k + 1] = IF t[k + 1] \in X THEN g[k] ELSE Append(g[k], t[k + 1])
      BY <3>1, KeepsAt
    <3> QED
      BY <1>2, <2>1, <3>1, <3>2, <3>3
  <2> QED
    BY <2>1
<1>3. Nat \subseteq S
  <2> HIDE DEF S
  <2> QED
    BY <1>1, <1>2, NumberInduction
<1> QED
  BY <1>3

(* Without is what the last turn of its loop leaves. *)
LEMMA WithoutKeeps ==
  ASSUME NEW A, NEW X, NEW s \in Seq(A)
  PROVE  \E f : Keeps(s, X, f) /\ Delivery!Without(s, X) = f[Len(s)]
<1> DEFINE F == CHOOSE f : Keeps(s, X, f)
<1>1. Keeps(s, X, F)
  <2>1. \E f : Keeps(s, X, f)
    BY KeepsExist
  <2> QED
    BY <2>1, Zenon
<1>2. Delivery!Without(s, X) = F[Len(s)]
  BY Zenon DEF Delivery!Without, Keeps
<1> QED
  BY <1>1, <1>2, Zenon

(* Without on the empty sequence. *)
LEMMA WithoutEmpty == \A X : Delivery!Without(<<>>, X) = <<>>
<1> TAKE X
<1>1. PICK f : Keeps(<<>>, X, f) /\ Delivery!Without(<<>>, X) = f[Len(<<>>)]
  BY WithoutKeeps, EmptySeq
<1> QED
  BY <1>1, KeepsAt

(* Without on a sequence with one more element: the equation it is used by. *)
LEMMA WithoutAppend ==
  ASSUME NEW A, NEW X, NEW s \in Seq(A), NEW e \in A
  PROVE  Delivery!Without(Append(s, e), X)
           = IF e \in X THEN Delivery!Without(s, X) ELSE Append(Delivery!Without(s, X), e)
<1> DEFINE t == Append(s, e)
           n == Len(s)
<1>1. t \in Seq(A) /\ n \in Nat /\ Len(t) = n + 1 /\ t[n + 1] = e /\ \A k \in 1..n : t[k] = s[k]
  OBVIOUS
<1>a. n <= Len(s) /\ n <= Len(t) /\ Len(s) \in Nat /\ Len(t) \in Nat
  BY <1>1
<1> HIDE DEF t
<1>2. PICK f : Keeps(s, X, f) /\ Delivery!Without(s, X) = f[n]
  BY WithoutKeeps
<1>3. PICK g : Keeps(t, X, g) /\ Delivery!Without(t, X) = g[n + 1]
  BY <1>1, WithoutKeeps
<1>4. f[n] = g[n]
  <2> HIDE DEF n
  <2> QED
    BY <1>1, <1>a, <1>2, <1>3, KeepsAgree
<1>5. g[n + 1] = IF e \in X THEN g[n] ELSE Append(g[n], e)
  BY <1>1, <1>3, KeepsAt
<1> QED
  BY <1>2, <1>3, <1>4, <1>5 DEF t

(* Without leaves no member of X. *)
LEMMA WithoutType ==
  ASSUME NEW A, NEW X
  PROVE  \A s \in Seq(A) : Delivery!Without(s, X) \in Seq(A \ X)
<1> DEFINE T == {s \in Seq(A) : Delivery!Without(s, X) \in Seq(A \ X)}
<1>1. <<>> \in T
  BY WithoutEmpty, EmptySeq
<1>2. ASSUME NEW s \in Seq(A), NEW e \in A, s \in T
      PROVE  Append(s, e) \in T
  <2>1. Append(s, e) \in Seq(A)
    OBVIOUS
  <2>2. CASE e \in X
    BY <1>2, <2>1, <2>2, WithoutAppend
  <2>3. CASE e \notin X
    <3>1. e \in A \ X /\ Delivery!Without(s, X) \in Seq(A \ X)
      BY <1>2, <2>3
    <3>2. Append(Delivery!Without(s, X), e) \in Seq(A \ X)
      BY <3>1
    <3> QED
      BY <2>1, <2>3, <3>2, WithoutAppend
  <2> QED
    BY <2>2, <2>3
<1>3. Seq(A) \subseteq T
  <2> HIDE DEF T
  <2> QED
    BY <1>1, <1>2, SequenceInduction
<1> QED
  BY <1>3

(* Without takes nothing from a sequence that has no member of X. *)
LEMMA WithoutSame ==
  ASSUME NEW A, NEW X, A \cap X = {}
  PROVE  \A s \in Seq(A) : Delivery!Without(s, X) = s
<1> DEFINE T == {s \in Seq(A) : Delivery!Without(s, X) = s}
<1>1. <<>> \in T
  BY WithoutEmpty, EmptySeq
<1>2. ASSUME NEW s \in Seq(A), NEW e \in A, s \in T
      PROVE  Append(s, e) \in T
  <2>1. Append(s, e) \in Seq(A) /\ e \notin X
    OBVIOUS
  <2> QED
    BY <1>2, <2>1, WithoutAppend
<1>3. Seq(A) \subseteq T
  <2> HIDE DEF T
  <2> QED
    BY <1>1, <1>2, SequenceInduction
<1> QED
  BY <1>3

(* Without leaves nothing of a sequence of members of X. *)
LEMMA WithoutAll ==
  ASSUME NEW X
  PROVE  \A s \in Seq(X) : Delivery!Without(s, X) = <<>>
<1> DEFINE T == {s \in Seq(X) : Delivery!Without(s, X) = <<>>}
<1>1. <<>> \in T
  BY WithoutEmpty, EmptySeq
<1>2. ASSUME NEW s \in Seq(X), NEW e \in X, s \in T
      PROVE  Append(s, e) \in T
  <2>1. Append(s, e) \in Seq(X)
    OBVIOUS
  <2> QED
    BY <1>2, <2>1, WithoutAppend
<1>3. Seq(X) \subseteq T
  <2> HIDE DEF T
  <2> QED
    BY <1>1, <1>2, SequenceInduction
<1> QED
  BY <1>3

(* An element appended to the second part is appended to the whole. *)
LEMMA AppendConcat ==
  ASSUME NEW A, NEW s \in Seq(A), NEW t \in Seq(A), NEW e \in A
  PROVE  Append(s \o t, e) = s \o Append(t, e)
  OBVIOUS

(* Without goes through the parts of a sequence one by one. *)
LEMMA WithoutConcat ==
  ASSUME NEW A, NEW X, NEW s \in Seq(A)
  PROVE  \A t \in Seq(A) :
           Delivery!Without(s \o t, X) = Delivery!Without(s, X) \o Delivery!Without(t, X)
<1> DEFINE W(t) == Delivery!Without(t, X)
           T == {t \in Seq(A) : W(s \o t) = W(s) \o W(t)}
<1>1. <<>> \in T
  <2>1. s \o <<>> = s /\ W(<<>>) = <<>> /\ W(s) \in Seq(A \ X)
    BY WithoutEmpty, WithoutType
  <2>2. W(s) \o <<>> = W(s)
    BY <2>1, ConcatEmptySeq
  <2> QED
    BY <2>1, <2>2, EmptySeq
<1>2. ASSUME NEW t \in Seq(A), NEW e \in A, t \in T
      PROVE  Append(t, e) \in T
  <2>1. Append(t, e) \in Seq(A) /\ s \o t \in Seq(A) /\ s \o Append(t, e) = Append(s \o t, e)
    OBVIOUS
  <2>2. W(s) \in Seq(A \ X) /\ W(t) \in Seq(A \ X) /\ W(s \o t) = W(s) \o W(t)
    BY <1>2, WithoutType
  <2>3. W(Append(t, e)) = IF e \in X THEN W(t) ELSE Append(W(t), e)
    BY WithoutAppend
  <2>a. \A u \in Seq(A) : W(Append(u, e)) = IF e \in X THEN W(u) ELSE Append(W(u), e)
    BY WithoutAppend
  <2>4. W(Append(s \o t, e)) = IF e \in X THEN W(s \o t) ELSE Append(W(s \o t), e)
    BY <2>1, <2>a
  <2> HIDE DEF W
  <2>5. CASE e \in X
    BY <2>1, <2>2, <2>3, <2>4, <2>5
  <2>6. CASE e \notin X
    <3>1. Append(W(s) \o W(t), e) = W(s) \o Append(W(t), e)
      <4>1. e \in A \ X
        BY <2>6
      <4>2. \A u \in Seq(A \ X) : \A v \in Seq(A \ X) : \A d \in A \ X :
              Append(u \o v, d) = u \o Append(v, d)
        BY AppendConcat
      <4> QED
        BY <2>2, <4>1, <4>2
    <3> QED
      BY <2>1, <2>2, <2>3, <2>4, <2>6, <3>1
  <2> QED
    BY <2>5, <2>6
<1>3. Seq(A) \subseteq T
  <2> HIDE DEF T
  <2> QED
    BY <1>1, <1>2, SequenceInduction
<1> QED
  BY <1>3

(* Taking out X and then Y takes out both. *)
LEMMA WithoutTwice ==
  ASSUME NEW A, NEW X, NEW Y
  PROVE  \A s \in Seq(A) :
           Delivery!Without(Delivery!Without(s, X), Y) = Delivery!Without(s, X \cup Y)
<1> DEFINE W(t, Z) == Delivery!Without(t, Z)
           T == {s \in Seq(A) : W(W(s, X), Y) = W(s, X \cup Y)}
<1>1. <<>> \in T
  BY WithoutEmpty, EmptySeq
<1>2. ASSUME NEW s \in Seq(A), NEW e \in A, s \in T
      PROVE  Append(s, e) \in T
  <2>1. Append(s, e) \in Seq(A) /\ W(s, X) \in Seq(A \ X) /\ W(W(s, X), Y) = W(s, X \cup Y)
    BY <1>2, WithoutType
  <2>2. W(Append(s, e), X) = IF e \in X THEN W(s, X) ELSE Append(W(s, X), e)
    BY WithoutAppend
  <2>3. W(Append(s, e), X \cup Y)
          = IF e \in X \cup Y THEN W(s, X \cup Y) ELSE Append(W(s, X \cup Y), e)
    BY WithoutAppend
  <2>4. e \notin X => W(Append(W(s, X), e), Y)
                        = IF e \in Y THEN W(W(s, X), Y) ELSE Append(W(W(s, X), Y), e)
    <3>1. e \notin X => e \in A \ X
      OBVIOUS
    <3>2. \A u \in Seq(A \ X) : \A d \in A \ X :
            W(Append(u, d), Y) = IF d \in Y THEN W(u, Y) ELSE Append(W(u, Y), d)
      BY WithoutAppend
    <3> HIDE DEF W
    <3> QED
      BY <2>1, <3>1, <3>2
  <2> HIDE DEF W
  <2>5. CASE e \in X
    BY <2>1, <2>2, <2>3, <2>5
  <2>6. CASE e \notin X
    BY <2>1, <2>2, <2>3, <2>4, <2>6
  <2> QED
    BY <2>5, <2>6
<1>3. Seq(A) \subseteq T
  <2> HIDE DEF T
  <2> QED
    BY <1>1, <1>2, SequenceInduction
<1> QED
  BY <1>3

(* A path without ".." leads where its named parts say. *)
LEMMA FollowPlain ==
  ASSUME NEW A, NEW path \in Seq(A), ~Delivery!Ascends(path)
  PROVE  Delivery!Follow(path) = Delivery!Without(path, Delivery!Unnamed)
<1> DEFINE U == Delivery!Unnamed
           Body(f) == [k \in 0..Len(path) |->
                         IF k = 0 THEN <<>>
                         ELSE IF path[k] \in U THEN f[k - 1]
                         ELSE IF path[k] # ".." THEN Append(f[k - 1], path[k])
                         ELSE IF f[k - 1] = <<>> THEN <<>> ELSE Delivery!Front(f[k - 1])]
           F == CHOOSE f : f = Body(f)
<1>1. Delivery!Follow(path) = F[Len(path)]
  BY Zenon DEF Delivery!Follow
<1>2. \A k \in 1..Len(path) : path[k] # ".."
  BY DEF Delivery!Ascends
<1>3. \A f : f = Body(f) <=> Keeps(path, U, f)
  <2> TAKE f
  <2>1. Body(f) = [k \in 0..Len(path) |->
                     IF k = 0 THEN <<>>
                     ELSE IF path[k] \in U THEN f[k - 1] ELSE Append(f[k - 1], path[k])]
    <3>1. Len(path) \in Nat
      OBVIOUS
    <3>2. \A k \in 0..Len(path) : k # 0 => path[k] # ".."
      BY <1>2, <3>1
    <3> HIDE DEF U
    <3> QED
      BY <3>2
  <2> HIDE DEF Body
  <2> QED
    BY <2>1, Zenon DEF Keeps
<1>4. F = Body(F)
  <2>1. \E f : f = Body(f)
    BY <1>3, KeepsExist, Zenon
  <2> HIDE DEF Body
  <2> QED
    BY <2>1, Zenon
<1>5. Keeps(path, U, F)
  <2> HIDE DEF F
  <2> QED
    BY <1>3, <1>4, Zenon
<1>6. PICK f : Keeps(path, U, f) /\ Delivery!Without(path, U) = f[Len(path)]
  BY WithoutKeeps
<1>7. F[Len(path)] = f[Len(path)]
  <2>1. Len(path) \in Nat /\ Len(path) <= Len(path)
    OBVIOUS
  <2> HIDE DEF F, U
  <2> QED
    BY <1>5, <1>6, <2>1, KeepsAgree
<1> QED
  BY <1>1, <1>6, <1>7

-----------------------------------------------------------------------------
(* The turns of FlattenSeq. *)
Joins(q, f) ==
  f = [k \in 1..Len(q) |-> IF k = 1 THEN q[k] ELSE f[k - 1] \o q[k]]

(* What a turn of FlattenSeq makes of the one before. *)
LEMMA JoinsAt ==
  ASSUME NEW q, NEW f, Joins(q, f), NEW k \in 1..Len(q)
  PROVE  f[k] = IF k = 1 THEN q[k] ELSE f[k - 1] \o q[k]
<1> DEFINE Body(h) == [j \in 1..Len(q) |-> IF j = 1 THEN q[j] ELSE h[j - 1] \o q[j]]
<1>1. f = Body(f)
  BY DEF Joins
<1>2. f[k] = Body(f)[k]
  BY <1>1, Zenon
<1>3. Body(f)[k] = IF k = 1 THEN q[k] ELSE f[k - 1] \o q[k]
  BY Zenon
<1> QED
  BY <1>2, <1>3, Zenon

(* FlattenSeq has a result for every sequence of sequences. *)
LEMMA JoinsExist ==
  ASSUME NEW A
  PROVE  \A q \in Seq(A) : \E f : Joins(q, f)
<1> DEFINE T == {q \in Seq(A) : \E f : Joins(q, f)}
<1>1. <<>> \in T
  <2>1. Joins(<<>>, [k \in 1..0 |-> <<>>])
    BY DEF Joins
  <2> QED
    BY <2>1
<1>2. ASSUME NEW q \in Seq(A), NEW e \in A, q \in T
      PROVE  Append(q, e) \in T
  <2>1. PICK f : Joins(q, f)
    BY <1>2
  <2> DEFINE n == Len(q)
             t == Append(q, e)
             g == [k \in 1..n + 1 |-> IF k <= n THEN f[k] ELSE IF n = 0 THEN e ELSE f[n] \o e]
  <2>2. n \in Nat /\ Len(t) = n + 1 /\ t[n + 1] = e /\ \A k \in 1..n : t[k] = q[k]
    OBVIOUS
  <2>3. ASSUME NEW k \in 1..n + 1
        PROVE  g[k] = IF k = 1 THEN t[k] ELSE g[k - 1] \o t[k]
    <3> HIDE DEF t
    <3>1. CASE k \in 1..n
      <4>1. f[k] = IF k = 1 THEN q[k] ELSE f[k - 1] \o q[k]
        BY <2>1, <2>2, <3>1, JoinsAt
      <4>2. g[k] = f[k] /\ (k # 1 => g[k - 1] = f[k - 1]) /\ t[k] = q[k]
        BY <2>2, <3>1
      <4> HIDE DEF g
      <4> QED
        BY <4>1, <4>2
    <3>2. CASE k = n + 1
      BY <2>2, <3>2
    <3> QED
      BY <2>2, <3>1, <3>2
  <2>4. Joins(t, g)
    BY <2>2, <2>3 DEF Joins
  <2> QED
    BY <2>4
<1>3. Seq(A) \subseteq T
  <2> HIDE DEF T
  <2> QED
    BY <1>1, <1>2, SequenceInduction
<1> QED
  BY <1>3

(* t is q with e at its end. *)
Grows(q, t, e) ==
  /\ Len(q) \in Nat /\ Len(t) = Len(q) + 1
  /\ t[Len(t)] = e /\ \A k \in 1..Len(q) : t[k] = q[k]

LastJoins(q, e, f, last) == last = IF Len(q) = 0 THEN e ELSE f[Len(q)] \o e

(* One more sequence is joined at the end. *)
LEMMA JoinsGrow ==
  ASSUME NEW q, NEW t, NEW e, Grows(q, t, e), NEW f, Joins(q, f), NEW g, Joins(t, g)
  PROVE  LastJoins(q, e, f, g[Len(t)])
<1> DEFINE n == Len(q)
           S == {k \in Nat : k # 0 /\ k <= n => f[k] = g[k]}
<1>1. n \in Nat /\ Len(t) = n + 1 /\ t[n + 1] = e /\ \A k \in 1..n : t[k] = q[k]
  BY DEF Grows
<1>2. 0 \in S
  OBVIOUS
<1>3. ASSUME NEW k \in Nat, k \in S
      PROVE  k + 1 \in S
  <2>1. CASE k + 1 <= n
    <3>1. k + 1 \in 1..Len(q) /\ k + 1 \in 1..Len(t) /\ k + 1 - 1 = k /\ t[k + 1] = q[k + 1]
      BY <1>1, <2>1
    <3>2. f[k + 1] = IF k + 1 = 1 THEN q[k + 1] ELSE f[k] \o q[k + 1]
      BY <3>1, JoinsAt
    <3>3. g[k + 1] = IF k + 1 = 1 THEN t[k + 1] ELSE g[k] \o t[k + 1]
      BY <3>1, JoinsAt
    <3> QED
      BY <1>3, <2>1, <3>1, <3>2, <3>3
  <2> QED
    BY <2>1
<1>4. Nat \subseteq S
  <2> HIDE DEF S
  <2> QED
    BY <1>2, <1>3, NumberInduction
<1>5. n # 0 => f[n] = g[n]
  BY <1>1, <1>4
<1>6. g[n + 1] = IF n + 1 = 1 THEN t[n + 1] ELSE g[n] \o t[n + 1]
  BY <1>1, JoinsAt
<1> QED
  BY <1>1, <1>5, <1>6 DEF LastJoins

(* FlattenSeq is what its last turn leaves. *)
LEMMA FlattenJoins ==
  ASSUME NEW A, NEW q \in Seq(A), Len(q) # 0
  PROVE  \E f : Joins(q, f) /\ Delivery!FlattenSeq(q) = f[Len(q)]
<1> DEFINE F == CHOOSE f : Joins(q, f)
<1>1. Joins(q, F)
  <2>1. \E f : Joins(q, f)
    BY JoinsExist
  <2> QED
    BY <2>1, Zenon
<1>2. Delivery!FlattenSeq(q) = F[Len(q)]
  BY Zenon DEF Delivery!FlattenSeq, Joins
<1> QED
  BY <1>1, <1>2, Zenon

(* FlattenSeq on the empty sequence. *)
LEMMA FlattenEmpty == Delivery!FlattenSeq(<<>>) = <<>>
  BY DEF Delivery!FlattenSeq

(* FlattenSeq on a sequence with one more: the equation it is used by. *)
LEMMA FlattenAppend ==
  ASSUME NEW A, NEW q \in Seq(Seq(A)), NEW e \in Seq(A)
  PROVE  Delivery!FlattenSeq(Append(q, e)) = Delivery!FlattenSeq(q) \o e
<1> DEFINE t == Append(q, e)
<1>1. Grows(q, t, e) /\ t \in Seq(Seq(A)) /\ Len(t) # 0
  BY DEF Grows
<1> HIDE DEF t
<1>2. PICK g : Joins(t, g) /\ Delivery!FlattenSeq(t) = g[Len(t)]
  BY <1>1, FlattenJoins
<1>3. CASE Len(q) = 0
  <2>1. q = <<>> /\ Delivery!FlattenSeq(q) = <<>>
    BY <1>3, FlattenEmpty
  <2>2. PICK f : Joins(q, f)
    BY JoinsExist
  <2>3. g[Len(t)] = e
    BY <1>1, <1>2, <1>3, <2>2, JoinsGrow DEF LastJoins
  <2>4. <<>> \o e = e
    BY ConcatEmptySeq
  <2> QED
    BY <1>2, <2>1, <2>3, <2>4 DEF t
<1>4. CASE Len(q) # 0
  <2>1. PICK f : Joins(q, f) /\ Delivery!FlattenSeq(q) = f[Len(q)]
    BY <1>4, FlattenJoins
  <2>2. LastJoins(q, e, f, g[Len(t)])
    BY <1>1, <1>2, <2>1, JoinsGrow
  <2>3. g[Len(t)] = f[Len(q)] \o e
    BY <1>4, <2>2 DEF LastJoins
  <2> QED
    BY <1>2, <2>1, <2>3 DEF t
<1> QED
  BY <1>3, <1>4

-----------------------------------------------------------------------------
(* q may come somewhere after p in the job's outputs. *)
InOrder(p, q) ==
  /\ p # q /\ p.node <= q.node
  /\ p.node = q.node => Delivery!Rank(p) <= Delivery!Rank(q)
  /\ p.node = q.node /\ p.key = q.key => p.k < q.k

Members(s) == {s[k] : k \in DOMAIN s}
Ordered(s) == \A j, k \in DOMAIN s : j < k => InOrder(s[j], s[k])

(* Two ordered lists, one wholly before the other, are in order together. *)
LEMMA OrderedConcat ==
  ASSUME NEW A, NEW s \in Seq(A), NEW t \in Seq(A), Ordered(s), Ordered(t),
         \A p \in Members(s), q \in Members(t) : InOrder(p, q)
  PROVE  Ordered(s \o t)
<1> DEFINE m == Len(s)
           n == Len(t)
           u == s \o t
<1>1. /\ m \in Nat /\ n \in Nat /\ u \in Seq(A) /\ Len(u) = m + n
      /\ \A k \in 1..m + n : u[k] = IF k <= m THEN s[k] ELSE t[k - m]
      /\ DOMAIN s = 1..m /\ DOMAIN t = 1..n /\ DOMAIN u = 1..m + n
  OBVIOUS
<1> HIDE DEF m, n, u
<1>2. ASSUME NEW j \in 1..m + n, NEW k \in 1..m + n, j < k
      PROVE  InOrder(u[j], u[k])
  <2>1. CASE k <= m
    <3>1. j \in 1..m /\ k \in 1..m
      BY <1>1, <1>2, <2>1
    <3>2. u[j] = s[j] /\ u[k] = s[k] /\ j \in DOMAIN s /\ k \in DOMAIN s
      BY <1>1, <3>1
    <3>3. InOrder(s[j], s[k])
      BY <1>2, <3>2 DEF Ordered
    <3> QED
      BY <3>2, <3>3
  <2>2. CASE j <= m /\ ~(k <= m)
    <3>1. j \in 1..m /\ k - m \in 1..n
      BY <1>1, <1>2, <2>2
    <3>2. u[j] = s[j] /\ u[k] = t[k - m]
      BY <1>1, <2>2
    <3>3. s[j] \in Members(s) /\ t[k - m] \in Members(t)
      BY <1>1, <3>1 DEF Members
    <3> QED
      BY <3>2, <3>3
  <2>3. CASE ~(j <= m)
    <3>1. j - m \in 1..n /\ k - m \in 1..n /\ j - m < k - m
      BY <1>1, <1>2, <2>3
    <3>2. u[j] = t[j - m] /\ u[k] = t[k - m]
      BY <1>1, <1>2, <2>3
    <3> QED
      BY <1>1, <3>1, <3>2 DEF Ordered
  <2> QED
    BY <2>1, <2>2, <2>3
<1> QED
  BY <1>1, <1>2 DEF Ordered, u

(* A list of two parts has the members of both. *)
LEMMA MembersConcat ==
  ASSUME NEW A, NEW s \in Seq(A), NEW t \in Seq(A)
  PROVE  Members(s \o t) = Members(s) \cup Members(t)
<1> DEFINE m == Len(s)
           n == Len(t)
           u == s \o t
<1>1. /\ m \in Nat /\ n \in Nat
      /\ \A k \in 1..m + n : u[k] = IF k <= m THEN s[k] ELSE t[k - m]
      /\ DOMAIN s = 1..m /\ DOMAIN t = 1..n /\ DOMAIN u = 1..m + n
  OBVIOUS
<1> HIDE DEF m, n, u
<1>2. ASSUME NEW k \in 1..m + n
      PROVE  u[k] \in Members(s) \cup Members(t)
  <2>1. CASE k <= m
    <3>1. k \in 1..m
      BY <1>1, <2>1
    <3> QED
      BY <1>1, <2>1, <3>1 DEF Members
  <2>2. CASE ~(k <= m)
    <3>1. k - m \in 1..n
      BY <1>1, <2>2
    <3> QED
      BY <1>1, <2>2, <3>1 DEF Members
  <2> QED
    BY <2>1, <2>2
<1>3. ASSUME NEW k \in 1..m
      PROVE  s[k] \in Members(u)
  <2>1. k \in 1..m + n /\ u[k] = s[k]
    BY <1>1
  <2> QED
    BY <1>1, <2>1 DEF Members
<1>4. ASSUME NEW k \in 1..n
      PROVE  t[k] \in Members(u)
  <2>1. k + m \in 1..m + n /\ ~(k + m <= m) /\ k + m - m = k
    BY <1>1
  <2>2. u[k + m] = t[k]
    BY <1>1, <2>1
  <2> QED
    BY <1>1, <2>1, <2>2 DEF Members
<1>5. Members(u) \subseteq Members(s) \cup Members(t)
  BY <1>1, <1>2 DEF Members
<1>6. Members(s) \cup Members(t) \subseteq Members(u)
  BY <1>1, <1>3, <1>4 DEF Members
<1> QED
  BY <1>5, <1>6 DEF u

(* Leaving members out keeps the order of the others. *)
LEMMA WithoutMembers ==
  ASSUME NEW A, NEW X
  PROVE  \A s \in Seq(A) :
           /\ Members(Delivery!Without(s, X)) = Members(s) \ X
           /\ Ordered(s) => Ordered(Delivery!Without(s, X))
<1> DEFINE W(s) == Delivery!Without(s, X)
           T == {s \in Seq(A) : Members(W(s)) = Members(s) \ X /\ (Ordered(s) => Ordered(W(s)))}
<1>1. <<>> \in T
  <2>1. Members(<<>>) = {} /\ Ordered(<<>>)
    BY DEF Members, Ordered
  <2> QED
    BY <2>1, WithoutEmpty, EmptySeq
<1>2. ASSUME NEW s \in Seq(A), NEW e \in A, s \in T
      PROVE  Append(s, e) \in T
  <2>1. /\ Append(s, e) \in Seq(A) /\ <<e>> \in Seq(A) /\ Append(s, e) = s \o <<e>>
        /\ Members(<<e>>) = {e} /\ Ordered(<<e>>)
    BY DEF Members, Ordered
  <2>a. \A u \in Seq(A) : Members(u \o <<e>>) = Members(u) \cup Members(<<e>>)
    BY <2>1, MembersConcat
  <2>2. Members(Append(s, e)) = Members(s) \cup {e}
    BY <2>1, <2>a
  <2>3. W(Append(s, e)) = IF e \in X THEN W(s) ELSE Append(W(s), e)
    BY WithoutAppend
  <2>4. Ordered(Append(s, e)) => Ordered(s) /\ \A p \in Members(s) : InOrder(p, e)
    <3> DEFINE t == Append(s, e)
               n == Len(s)
    <3>1. /\ n \in Nat /\ DOMAIN s = 1..n /\ DOMAIN t = 1..n + 1
          /\ t[n + 1] = e /\ \A k \in 1..n : t[k] = s[k]
      OBVIOUS
    <3> HIDE DEF t, n
    <3>2. \A k \in 1..n : k \in 1..n + 1 /\ n + 1 \in 1..n + 1 /\ k < n + 1
      BY <3>1
    <3>3. Ordered(t) => Ordered(s)
      BY <3>1, <3>2 DEF Ordered
    <3>4. ASSUME Ordered(t), NEW p \in Members(s)
          PROVE  InOrder(p, e)
      <4>1. PICK k \in 1..n : p = s[k]
        BY <3>1 DEF Members
      <4> QED
        BY <3>1, <3>2, <3>4, <4>1 DEF Ordered
    <3> QED
      BY <3>3, <3>4 DEF t
  <2>5. W(s) \in Seq(A) /\ W(s) \o <<e>> = Append(W(s), e)
    <3>1. W(s) \in Seq(A \ X)
      BY WithoutType
    <3>2. W(s) \in Seq(A)
      BY <3>1
    <3> HIDE DEF W
    <3> QED
      BY <3>2
  <2>6. Members(W(s) \o <<e>>) = Members(W(s)) \cup {e}
    BY <2>1, <2>5, <2>a
  <2>7. Ordered(W(s)) /\ (\A p \in Members(W(s)) : InOrder(p, e)) => Ordered(W(s) \o <<e>>)
    <3>1. \A u \in Seq(A) : \A v \in Seq(A) :
            Ordered(u) /\ Ordered(v) /\ (\A p \in Members(u), q \in Members(v) : InOrder(p, q))
              => Ordered(u \o v)
      BY OrderedConcat
    <3> QED
      BY <2>1, <2>5, <3>1
  <2>8. Members(W(s)) = Members(s) \ X /\ (Ordered(s) => Ordered(W(s)))
    BY <1>2
  <2> HIDE DEF W
  <2>9. CASE e \in X
    BY <2>1, <2>2, <2>3, <2>4, <2>8, <2>9
  <2>10. CASE e \notin X
    BY <2>1, <2>2, <2>3, <2>4, <2>5, <2>6, <2>7, <2>8, <2>10
  <2> QED
    BY <2>9, <2>10
<1>3. Seq(A) \subseteq T
  <2> HIDE DEF T
  <2> QED
    BY <1>1, <1>2, SequenceInduction
<1> QED
  BY <1>3

-----------------------------------------------------------------------------
(* The lists of a node, and places in them. *)
Lists == {"images", "videos", "gifs"}
PlaceRecords == [node : Nat, key : Lists, k : Nat]

(* The well-formed items of a list, of a node and of the history. *)
Listed(n, key) == {p \in Delivery!Places : p.node = n /\ p.key = key /\ Delivery!Item(p).ok}
Parsed == {p \in Delivery!Places : Delivery!Item(p).ok}

(* A place is a node, a list of it and a position in that list. *)
LEMMA PlaceIs ==
  ASSUME NEW n \in DOMAIN history, NEW key \in Lists, NEW k \in DOMAIN history[n][key]
  PROVE  [node |-> n, key |-> key, k |-> k] \in Delivery!Places
<1> DEFINE Of(m, l) == {[node |-> m, key |-> l, k |-> j] : j \in DOMAIN history[m][l]}
<1>1. [node |-> n, key |-> key, k |-> k] \in Of(n, key)
  OBVIOUS
<1>2. Delivery!Places = UNION {Of(m, l) : m \in DOMAIN history, l \in Lists}
  BY DEF Delivery!Places, Lists
<1> HIDE DEF Of
<1> QED
  BY <1>1, <1>2

(* And every place is one of these. *)
LEMMA PlacesAre ==
  ASSUME NEW p \in Delivery!Places
  PROVE  /\ p.node \in DOMAIN history /\ p.key \in Lists
         /\ p.k \in DOMAIN history[p.node][p.key]
         /\ p = [node |-> p.node, key |-> p.key, k |-> p.k]
<1>1. PICK n \in DOMAIN history, key \in Lists :
        p \in {[node |-> n, key |-> key, k |-> k] : k \in DOMAIN history[n][key]}
  BY DEF Delivery!Places, Lists
<1>2. PICK k \in DOMAIN history[n][key] : p = [node |-> n, key |-> key, k |-> k]
  BY <1>1
<1> QED
  BY <1>2

(* _parse_media_group lists the well-formed items of its list, in order. *)
LEMMA GroupIs ==
  ASSUME history \in Seq(Delivery!Media), NEW n \in DOMAIN history, NEW key \in Lists
  PROVE  /\ Delivery!MediaGroup(n, key) \in Seq(PlaceRecords)
         /\ Ordered(Delivery!MediaGroup(n, key))
         /\ Members(Delivery!MediaGroup(n, key)) = Listed(n, key)
<1> DEFINE list == history[n][key]
           at(k) == [node |-> n, key |-> key, k |-> k]
           items == [k \in DOMAIN list |-> at(k)]
           bad == {p \in Delivery!Places : ~Delivery!Item(p).ok}
<1>1. list \in Seq(Delivery!Items) /\ n \in Nat
  <2>1. history[n] \in Delivery!Media
    OBVIOUS
  <2> QED
    BY <2>1 DEF Delivery!Media, Lists
<1>2. Delivery!MediaGroup(n, key) = Delivery!Without(items, bad)
  BY Zenon DEF Delivery!MediaGroup
<1> DEFINE m == Len(list)
<1>3. m \in Nat /\ DOMAIN list = 1..m
  BY <1>1
<1> HIDE DEF list
<1>4. \A k \in 1..m : /\ at(k) \in PlaceRecords
                     /\ at(k).k = k /\ at(k).node = n /\ at(k).key = key
  BY <1>1, <1>3 DEF PlaceRecords
<1>5. items \in Seq(PlaceRecords) /\ DOMAIN items = 1..m /\ \A k \in 1..m : items[k] = at(k)
  BY <1>3, <1>4, SeqDef
<1> HIDE DEF at, items
<1>6. Ordered(items)
  <2>1. ASSUME NEW j \in 1..m, NEW k \in 1..m, j < k
        PROVE  InOrder(at(j), at(k))
    BY <1>1, <1>4, <2>1 DEF InOrder, Delivery!Rank
  <2> QED
    BY <1>5, <2>1 DEF Ordered
<1>7. Members(items) = {p \in Delivery!Places : p.node = n /\ p.key = key}
  <2>1. ASSUME NEW k \in 1..m
        PROVE  items[k] \in Delivery!Places /\ items[k].node = n /\ items[k].key = key
    <3>1. k \in DOMAIN list
      BY <1>3
    <3>2. at(k) \in Delivery!Places
      BY <3>1, PlaceIs DEF at, list
    <3> QED
      BY <1>4, <1>5, <3>2
  <2>2. ASSUME NEW p \in Delivery!Places, p.node = n, p.key = key
        PROVE  p \in Members(items)
    <3>1. p.k \in 1..m /\ p = at(p.k)
      BY <1>3, <2>2, PlacesAre DEF at, list
    <3> QED
      BY <1>5, <3>1 DEF Members
  <2>3. Members(items) = {items[k] : k \in 1..m}
    BY <1>5 DEF Members
  <2> QED
    BY <2>1, <2>2, <2>3
<1>8. /\ Members(Delivery!Without(items, bad)) = Members(items) \ bad
      /\ Ordered(Delivery!Without(items, bad))
  BY <1>5, <1>6, WithoutMembers
<1>9. Delivery!Without(items, bad) \in Seq(PlaceRecords)
  <2>1. Delivery!Without(items, bad) \in Seq(PlaceRecords \ bad)
    BY <1>5, WithoutType
  <2> HIDE DEF bad
  <2> QED
    BY <2>1
<1> QED
  BY <1>2, <1>7, <1>8, <1>9 DEF Listed

NodeOutputs(n, video_keys) ==
  Delivery!MediaGroup(n, "images") \o Delivery!MediaGroup(n, video_keys[1])
                                   \o Delivery!MediaGroup(n, video_keys[2])

(* The lists of a node, images first, are its well-formed items in order. *)
LEMMA NodeIs ==
  ASSUME history \in Seq(Delivery!Media), NEW n \in DOMAIN history,
         NEW video_keys \in {<<"videos", "gifs">>, <<"gifs", "videos">>}
  PROVE  /\ NodeOutputs(n, video_keys) \in Seq(PlaceRecords)
         /\ Ordered(NodeOutputs(n, video_keys))
         /\ Members(NodeOutputs(n, video_keys)) = {p \in Parsed : p.node = n}
<1> DEFINE G(key) == Delivery!MediaGroup(n, key)
           v == video_keys[1]
           w == video_keys[2]
<1>1. v \in Lists /\ w \in Lists /\ v # w /\ "images" \in Lists /\ v # "images" /\ w # "images"
      /\ Lists = {"images", v, w}
  BY DEF Lists
<1> HIDE DEF v, w
<1>2. \A key \in Lists :
        G(key) \in Seq(PlaceRecords) /\ Ordered(G(key)) /\ Members(G(key)) = Listed(n, key)
  BY GroupIs
<1>3. \A key, l \in Lists : key # l /\ l # "images" =>
        \A p \in Listed(n, key), q \in Listed(n, l) : InOrder(p, q)
  <2>1. ASSUME NEW key \in Lists, NEW l \in Lists, key # l, l # "images",
               NEW p \in Listed(n, key), NEW q \in Listed(n, l)
        PROVE  InOrder(p, q)
    <3>1. p.node = n /\ q.node = n /\ p.key = key /\ q.key = l /\ n \in Nat
      BY DEF Listed
    <3>2. Delivery!Rank(p) \in {0, 1} /\ Delivery!Rank(q) = 1
      BY <2>1, <3>1 DEF Delivery!Rank
    <3>3. Delivery!Rank(p) <= Delivery!Rank(q)
      BY <3>2
    <3> QED
      BY <2>1, <3>1, <3>3 DEF InOrder
  <2> QED
    BY <2>1
<1> HIDE DEF G
<1> DEFINE two == G("images") \o G(v)
<1>4. /\ two \in Seq(PlaceRecords) /\ Ordered(two)
      /\ Members(two) = Listed(n, "images") \cup Listed(n, v)
  <2>1. \A p \in Members(G("images")), q \in Members(G(v)) : InOrder(p, q)
    BY <1>1, <1>2, <1>3
  <2>2. two \in Seq(PlaceRecords)
    BY <1>1, <1>2
  <2>3. Ordered(two)
    BY <1>1, <1>2, <2>1, OrderedConcat
  <2>4. Members(two) = Members(G("images")) \cup Members(G(v))
    BY <1>1, <1>2, MembersConcat
  <2> QED
    BY <1>1, <1>2, <2>2, <2>3, <2>4
<1> HIDE DEF two
<1> DEFINE three == two \o G(w)
<1>5. /\ three \in Seq(PlaceRecords) /\ Ordered(three)
      /\ Members(three) = Members(two) \cup Listed(n, w)
  <2>1. \A p \in Members(two), q \in Members(G(w)) : InOrder(p, q)
    <3>1. \A p \in Members(two), q \in Listed(n, w) : InOrder(p, q)
      BY <1>1, <1>3, <1>4
    <3> QED
      BY <1>1, <1>2, <3>1
  <2>2. three \in Seq(PlaceRecords)
    BY <1>1, <1>2, <1>4
  <2>3. Ordered(three)
    BY <1>1, <1>2, <1>4, <2>1, OrderedConcat
  <2>4. Members(three) = Members(two) \cup Members(G(w))
    BY <1>1, <1>2, <1>4, MembersConcat
  <2> QED
    BY <1>1, <1>2, <2>2, <2>3, <2>4
<1>6. NodeOutputs(n, video_keys) = three
  BY Zenon DEF NodeOutputs, G, v, w, two
<1>7. {p \in Parsed : p.node = n} = Listed(n, "images") \cup Listed(n, v) \cup Listed(n, w)
  <2>1. \A p \in Delivery!Places : p.key \in {"images", v, w}
    BY <1>1, PlacesAre
  <2> QED
    BY <2>1 DEF Parsed, Listed
<1> QED
  BY <1>4, <1>5, <1>6, <1>7

ParsedTo(m) == {p \in Parsed : p.node <= m}
Arranged(s, places) == s \in Seq(PlaceRecords) /\ Ordered(s) /\ Members(s) = places

(* The outputs of one more node come after those of the nodes before it. *)
LEMMA ParsedNext ==
  ASSUME history \in Seq(Delivery!Media), NEW m \in Nat, NEW s, NEW t, Arranged(s, ParsedTo(m)),
         Arranged(t, {p \in Parsed : p.node = m + 1})
  PROVE  Arranged(s \o t, ParsedTo(m + 1))
<1>1. \A p \in Parsed : p.node \in Nat
  BY PlacesAre DEF Parsed
<1>2. \A p \in Members(s), r \in Members(t) : InOrder(p, r)
  <2>1. ASSUME NEW p \in ParsedTo(m), NEW r \in {d \in Parsed : d.node = m + 1}
        PROVE  InOrder(p, r)
    <3>1. p.node \in Nat /\ r.node = m + 1 /\ p.node <= m
      BY <1>1 DEF ParsedTo
    <3>2. p.node < r.node /\ p.node # r.node /\ p.node <= r.node
      BY <3>1
    <3> QED
      BY <3>2 DEF InOrder
  <2> QED
    BY <2>1 DEF Arranged
<1>3. ParsedTo(m + 1) = ParsedTo(m) \cup {p \in Parsed : p.node = m + 1}
  BY <1>1 DEF ParsedTo
<1>4. s \in Seq(PlaceRecords) /\ t \in Seq(PlaceRecords) /\ s \o t \in Seq(PlaceRecords)
  BY DEF Arranged
<1>5. Ordered(s \o t) /\ Members(s \o t) = Members(s) \cup Members(t)
  BY <1>2, <1>4, OrderedConcat, MembersConcat DEF Arranged
<1> QED
  BY <1>3, <1>4, <1>5 DEF Arranged

(* So the outputs of the nodes, joined, are those of the history. *)
LEMMA ParsedUpTo ==
  ASSUME history \in Seq(Delivery!Media),
         NEW M \in Seq(Seq(PlaceRecords)), Len(M) = Len(history),
         \A n \in DOMAIN history : Arranged(M[n], {p \in Parsed : p.node = n})
  PROVE  Arranged(Delivery!FlattenSeq(M), Parsed)
<1> DEFINE F(m) == Delivery!FlattenSeq(SubSeq(M, 1, m))
           S == {m \in Nat : m <= Len(M) => Arranged(F(m), ParsedTo(m))}
<1>1. \A p \in Parsed : p.node \in Nat /\ 1 <= p.node /\ p.node <= Len(M)
  BY PlacesAre DEF Parsed
<1>2. 0 \in S
  <2>1. SubSeq(M, 1, 0) = <<>>
    BY EmptySeq
  <2>2. F(0) = <<>>
    BY <2>1, FlattenEmpty
  <2>3. ParsedTo(0) = {}
    BY <1>1 DEF ParsedTo
  <2>4. Members(<<>>) = {} /\ Ordered(<<>>) /\ <<>> \in Seq(PlaceRecords)
    BY DEF Members, Ordered
  <2> HIDE DEF F
  <2> QED
    BY <2>2, <2>3, <2>4 DEF Arranged
<1>3. ASSUME NEW m \in Nat, m \in S
      PROVE  m + 1 \in S
  <2>1. CASE m + 1 <= Len(M)
    <3>1. /\ SubSeq(M, 1, m) \in Seq(Seq(PlaceRecords)) /\ M[m + 1] \in Seq(PlaceRecords)
          /\ SubSeq(M, 1, m + 1) = Append(SubSeq(M, 1, m), M[m + 1]) /\ m + 1 \in DOMAIN history
      BY <2>1
    <3>2. F(m + 1) = F(m) \o M[m + 1]
      <4>1. \A u \in Seq(Seq(PlaceRecords)) : \A v \in Seq(PlaceRecords) :
              Delivery!FlattenSeq(Append(u, v)) = Delivery!FlattenSeq(u) \o v
        BY FlattenAppend
      <4> QED
        BY <3>1, <4>1, Zenon
    <3>3. Arranged(F(m), ParsedTo(m))
      BY <1>3, <2>1
    <3>4. Arranged(M[m + 1], {p \in Parsed : p.node = m + 1})
      BY <3>1
    <3>5. \A u, v : Arranged(u, ParsedTo(m)) /\ Arranged(v, {p \in Parsed : p.node = m + 1})
                    => Arranged(u \o v, ParsedTo(m + 1))
      BY ParsedNext
    <3>6. Arranged(F(m + 1), ParsedTo(m + 1))
      <4> HIDE DEF F
      <4> QED
        BY <3>2, <3>3, <3>4, <3>5, Zenon
    <3> QED
      BY <3>6
  <2> QED
    BY <2>1
<1>4. Nat \subseteq S
  <2> HIDE DEF S
  <2> QED
    BY <1>2, <1>3, NumberInduction
<1>5. Arranged(F(Len(M)), ParsedTo(Len(M)))
  BY <1>4
<1>6. SubSeq(M, 1, Len(M)) = M
  OBVIOUS
<1>7. ParsedTo(Len(M)) = Parsed
  BY <1>1 DEF ParsedTo
<1> QED
  BY <1>5, <1>6, <1>7, Zenon

(* What the parser returns, in either order of the video keys. *)
LEMMA ParseIs ==
  ASSUME history \in Seq(Delivery!Media),
         NEW video_keys \in {<<"videos", "gifs">>, <<"gifs", "videos">>}
  PROVE  Arranged(Delivery!FlattenSeq([n \in DOMAIN history |-> NodeOutputs(n, video_keys)]),
                  Parsed)
<1> DEFINE M == [n \in DOMAIN history |-> NodeOutputs(n, video_keys)]
<1>1. \A n \in DOMAIN history :
        /\ NodeOutputs(n, video_keys) \in Seq(PlaceRecords)
        /\ Arranged(NodeOutputs(n, video_keys), {p \in Parsed : p.node = n})
  BY NodeIs DEF Arranged
<1>2. Len(history) \in Nat /\ DOMAIN history = 1..Len(history)
  OBVIOUS
<1>3. M \in Seq(Seq(PlaceRecords)) /\ Len(M) = Len(history)
  <2> DEFINE l == Len(history)
             O == Seq(PlaceRecords)
  <2>1. DOMAIN M = 1..l /\ l \in Nat
    BY <1>2
  <2>2. \A k \in 1..l : M[k] \in O
    BY <1>1, <1>2
  <2> HIDE DEF O, l
  <2>3. M = [k \in 1..l |-> M[k]]
    BY <2>1
  <2> HIDE DEF M
  <2>4. M \in Seq(O) /\ Len(M) = l
    BY <2>1, <2>2, <2>3, IsASeq
  <2> QED
    BY <2>4 DEF O, l
<1>4. \A n \in DOMAIN history : Arranged(M[n], {p \in Parsed : p.node = n})
  BY <1>1
<1> HIDE DEF M
<1>5. Arranged(Delivery!FlattenSeq(M), Parsed)
  BY <1>3, <1>4, ParsedUpTo
<1> QED
  BY <1>5 DEF M

-----------------------------------------------------------------------------
(* Paths.  Parts are strings, of which five play a role.                    *)
Parts == STRING \cup {"", ".", "..", "outputs", "/"}
Named == Parts \ {"", ".", ".."}

Kept(path) == Delivery!Without(path, Delivery!Unnamed)

Plain == Parts \ {".."}

(* A sequence over a set is one over a larger set. *)
LEMMA Wider ==
  ASSUME NEW A, NEW B, A \subseteq B
  PROVE  \A s \in Seq(A) : s \in Seq(B)
OBVIOUS

(* A sequence whose elements are in another set. *)
LEMMA Elsewhere ==
  ASSUME NEW A, NEW B, NEW s \in Seq(A), \A k \in 1..Len(s) : s[k] \in B
  PROVE  s \in Seq(B)
<1>1. Len(s) \in Nat /\ s = [k \in 1..Len(s) |-> s[k]]
  OBVIOUS
<1> QED
  BY <1>1, IsASeq

(* The parts of a path that does not ascend. *)
LEMMA PlainIs == \A path \in Seq(Parts) : ~Delivery!Ascends(path) <=> path \in Seq(Plain)
<1>1. ASSUME NEW path \in Seq(Parts), ~Delivery!Ascends(path)
      PROVE  path \in Seq(Plain)
  <2>1. Len(path) \in Nat /\ \A k \in 1..Len(path) : path[k] \in Plain
    BY <1>1 DEF Delivery!Ascends, Plain
  <2>2. path = [k \in 1..Len(path) |-> path[k]]
    OBVIOUS
  <2> QED
    BY <2>1, <2>2, IsASeq
<1>2. ASSUME NEW path \in Seq(Plain)
      PROVE  ~Delivery!Ascends(path)
  <2>1. \A k \in DOMAIN path : path[k] \in Plain
    OBVIOUS
  <2>2. ".." \notin Plain
    BY DEF Plain
  <2> QED
    BY <2>1, <2>2 DEF Delivery!Ascends
<1> QED
  BY <1>1, <1>2

(* Parts with a name lead somewhere and do not ascend. *)
LEMMA Wide == Named \subseteq Plain /\ Plain \subseteq Parts /\ Named \subseteq Parts
BY DEF Named, Plain

(* A path that does not ascend leads where its named parts say. *)
LEMMA FollowKept ==
  ASSUME NEW path \in Seq(Plain)
  PROVE  Delivery!Follow(path) = Kept(path) /\ Kept(path) \in Seq(Named)
<1>1. path \in Seq(Parts) /\ ~Delivery!Ascends(path)
  <2>1. path \in Seq(Parts)
    BY Wide, Wider
  <2> QED
    BY <2>1, PlainIs
<1>2. Plain \ Delivery!Unnamed = Named
  BY DEF Plain, Named, Delivery!Unnamed
<1>3. Kept(path) \in Seq(Plain \ Delivery!Unnamed)
  BY WithoutType DEF Kept
<1> QED
  BY <1>1, <1>2, <1>3, FollowPlain DEF Kept

(* The named parts of a path, part by part. *)
LEMMA KeptConcat ==
  ASSUME NEW s \in Seq(Plain), NEW t \in Seq(Plain)
  PROVE  Kept(s \o t) = Kept(s) \o Kept(t)
BY WithoutConcat DEF Kept

(* A path of named parts keeps all of them. *)
LEMMA NamedStays ==
  ASSUME NEW path \in Seq(Named)
  PROVE  path \in Seq(Plain) /\ Kept(path) = path
<1>1. Named \cap Delivery!Unnamed = {}
  BY DEF Named, Delivery!Unnamed
<1> QED
  BY <1>1, Wide, Wider, WithoutSame DEF Kept

(* The end of a path that is a name is kept. *)
LEMMA KeptEnd ==
  ASSUME NEW sub \in Seq(Plain), NEW last \in Named
  PROVE  /\ Append(sub, last) \in Seq(Plain)
         /\ Kept(Append(sub, last)) = Append(Kept(sub), last)
         /\ Append(Kept(sub), last) \in Seq(Named)
<1>1. last \in Plain /\ last \notin Delivery!Unnamed
  BY DEF Named, Plain, Delivery!Unnamed
<1>2. Kept(sub) \in Seq(Named)
  BY FollowKept
<1> QED
  BY <1>1, <1>2, WithoutAppend DEF Kept

-----------------------------------------------------------------------------
(* Quoting.  A part that unquoting gives back after quoting.                *)
Spelt == {x \in Plain : x \in DOMAIN Escapes \/ x \notin Delivery!Escaped}

(* Quoting keeps what a part means to a path, and can be undone. *)
LEMMA QuoteIs ==
  ASSUME Delivery!DeliveryInputs
  PROVE  /\ \A x \in Plain : /\ Delivery!quote(x) \in Plain
                             /\ Delivery!quote(x) \in Delivery!Unnamed <=> x \in Delivery!Unnamed
         /\ \A x \in Spelt : Delivery!unquote(Delivery!quote(x)) = x
         /\ Delivery!quote("outputs") = "outputs"
<1>1. /\ Delivery!Escaped \subseteq STRING
      /\ \A x \in DOMAIN Escapes \cup Delivery!Escaped : x \notin {"", ".", "..", "outputs"}
      /\ \A a, b \in DOMAIN Escapes : Escapes[a] = Escapes[b] => a = b
  BY DEF Delivery!DeliveryInputs, Delivery!Special
<1>2. \A x \in DOMAIN Escapes : Escapes[x] \in Delivery!Escaped
  BY DEF Delivery!Escaped
<1>3. ASSUME NEW x \in Plain
      PROVE  /\ Delivery!quote(x) \in Plain
             /\ Delivery!quote(x) \in Delivery!Unnamed <=> x \in Delivery!Unnamed
  <2>1. CASE x \in DOMAIN Escapes
    <3>1. /\ Delivery!quote(x) = Escapes[x] /\ Escapes[x] \in STRING
          /\ Escapes[x] \notin {"", ".", "..", "outputs"} /\ x \notin {"", ".", "..", "outputs"}
      BY <1>1, <1>2, <2>1 DEF Delivery!quote
    <3> QED
      BY <3>1 DEF Plain, Parts, Delivery!Unnamed
  <2>2. CASE x \notin DOMAIN Escapes
    BY <1>3, <2>2 DEF Delivery!quote
  <2> QED
    BY <2>1, <2>2
<1>4. ASSUME NEW x \in Spelt
      PROVE  Delivery!unquote(Delivery!quote(x)) = x
  <2>1. CASE x \in DOMAIN Escapes
    <3>1. Delivery!quote(x) = Escapes[x] /\ Escapes[x] \in Delivery!Escaped
      BY <1>2, <2>1 DEF Delivery!quote
    <3>2. (CHOOSE a \in DOMAIN Escapes : Escapes[a] = Escapes[x]) = x
      BY <1>1, <2>1
    <3> QED
      BY <3>1, <3>2 DEF Delivery!unquote
  <2>2. CASE x \notin DOMAIN Escapes
    BY <1>4, <2>2 DEF Delivery!quote, Delivery!unquote, Spelt
  <2> QED
    BY <2>1, <2>2
<1>5. Delivery!quote("outputs") = "outputs"
  BY <1>1 DEF Delivery!quote
<1> QED
  BY <1>3, <1>4, <1>5

(* A path is quoted part by part. *)
LEMMA QuotedParts ==
  ASSUME Delivery!DeliveryInputs
  PROVE  /\ Delivery!quoted(<<>>) = <<>>
         /\ \A s \in Seq(Plain) : Delivery!quoted(s) \in Seq(Plain)
         /\ \A s \in Seq(Plain), e \in Plain :
              Delivery!quoted(Append(s, e)) = Append(Delivery!quoted(s), Delivery!quote(e))
         /\ \A s \in Seq(Plain) :
              Delivery!quoted(<<"outputs">> \o s) = <<"outputs">> \o Delivery!quoted(s)
<1>1. Delivery!quoted(<<>>) = <<>>
  BY DEF Delivery!quoted
<1>2. ASSUME NEW s \in Seq(Plain)
      PROVE  /\ Delivery!quoted(s) \in Seq(Plain)
             /\ Delivery!quoted(s) = [k \in 1..Len(s) |-> Delivery!quote(s[k])]
             /\ Len(Delivery!quoted(s)) = Len(s)
  <2>1. Len(s) \in Nat /\ DOMAIN s = 1..Len(s) /\ \A k \in 1..Len(s) : s[k] \in Plain
    OBVIOUS
  <2>2. Delivery!quoted(s) = [k \in 1..Len(s) |-> Delivery!quote(s[k])]
    BY <2>1 DEF Delivery!quoted
  <2>3. \A k \in 1..Len(s) : Delivery!quote(s[k]) \in Plain
    BY <2>1, QuoteIs
  <2>4. Delivery!quoted(s) \in Seq(Plain)
    BY <2>1, <2>2, <2>3, IsASeq
  <2> QED
    BY <2>1, <2>2, <2>4
<1>3. ASSUME NEW s \in Seq(Plain), NEW e \in Plain
      PROVE  Delivery!quoted(Append(s, e)) = Append(Delivery!quoted(s), Delivery!quote(e))
  <2> DEFINE t == Append(s, e)
             n == Len(s)
             u == Append(Delivery!quoted(s), Delivery!quote(e))
  <2>1. t \in Seq(Plain) /\ n \in Nat /\ Len(t) = n + 1 /\ t[n + 1] = e
        /\ \A k \in 1..n : t[k] = s[k]
    OBVIOUS
  <2>2. Delivery!quoted(t) = [k \in 1..n + 1 |-> Delivery!quote(t[k])]
        /\ Delivery!quoted(t) \in Seq(Plain) /\ Len(Delivery!quoted(t)) = n + 1
    <3> HIDE DEF t
    <3> QED
      BY <1>2, <2>1
  <2>3. /\ Delivery!quoted(s) \in Seq(Plain) /\ Len(Delivery!quoted(s)) = n
        /\ \A k \in 1..n : Delivery!quoted(s)[k] = Delivery!quote(s[k])
        /\ Delivery!quote(e) \in Plain
    BY <1>2, QuoteIs
  <2>4. u \in Seq(Plain) /\ Len(u) = n + 1 /\ u[n + 1] = Delivery!quote(e)
        /\ \A k \in 1..n : u[k] = Delivery!quote(s[k])
    BY <2>1, <2>3
  <2>5. \A k \in 1..n + 1 : Delivery!quoted(t)[k] = u[k]
    <3>1. \A k \in 1..n + 1 : k \in 1..n \/ k = n + 1
      BY <2>1
    <3> HIDE DEF t, u
    <3> QED
      BY <2>1, <2>2, <2>4, <3>1
  <2>6. Delivery!quoted(t) = u
    <3> HIDE DEF t, u
    <3> QED
      BY <2>1, <2>2, <2>4, <2>5
  <2> QED
    BY <2>6
<1>4. ASSUME NEW s \in Seq(Plain)
      PROVE  Delivery!quoted(<<"outputs">> \o s) = <<"outputs">> \o Delivery!quoted(s)
  <2> DEFINE t == <<"outputs">> \o s
             n == Len(s)
             u == <<"outputs">> \o Delivery!quoted(s)
  <2>a. "outputs" \in Plain
    BY DEF Plain, Parts
  <2>1. t \in Seq(Plain) /\ n \in Nat /\ Len(t) = n + 1 /\ t[1] = "outputs"
        /\ \A k \in 1..n : t[k + 1] = s[k]
    BY <2>a
  <2>2. Delivery!quoted(t) = [k \in 1..n + 1 |-> Delivery!quote(t[k])]
        /\ Delivery!quoted(t) \in Seq(Plain) /\ Len(Delivery!quoted(t)) = n + 1
    <3> HIDE DEF t
    <3> QED
      BY <1>2, <2>1
  <2>3. /\ Delivery!quoted(s) \in Seq(Plain) /\ Len(Delivery!quoted(s)) = n
        /\ \A k \in 1..n : Delivery!quoted(s)[k] = Delivery!quote(s[k])
        /\ Delivery!quote("outputs") = "outputs"
    BY <1>2, QuoteIs
  <2>4. u \in Seq(Plain) /\ Len(u) = n + 1 /\ u[1] = "outputs"
        /\ \A k \in 1..n : u[k + 1] = Delivery!quote(s[k])
    BY <2>a, <2>1, <2>3
  <2>5. \A k \in 1..n + 1 : Delivery!quoted(t)[k] = u[k]
    <3>1. ASSUME NEW k \in 1..n + 1
          PROVE  Delivery!quoted(t)[k] = u[k]
      <4>1. CASE k = 1
        <5> HIDE DEF t, u
        <5> QED
          BY <2>1, <2>2, <2>3, <2>4, <4>1
      <4>2. CASE k # 1
        <5>1. k - 1 \in 1..n /\ (k - 1) + 1 = k
          BY <2>1, <4>2
        <5> HIDE DEF t, u
        <5>2. t[k] = s[k - 1] /\ u[k] = Delivery!quote(s[k - 1])
          BY <2>1, <2>4, <5>1
        <5> QED
          BY <2>2, <5>2
      <4> QED
        BY <4>1, <4>2
    <3> QED
      BY <3>1
  <2>6. Delivery!quoted(t) = u
    <3> HIDE DEF t, u
    <3> QED
      BY <2>1, <2>2, <2>4, <2>5
  <2> QED
    BY <2>6
<1> QED
  BY <1>1, <1>2, <1>3, <1>4

(* The named parts of a quoted path are those of the path, quoted. *)
LEMMA QuotedKept ==
  ASSUME Delivery!DeliveryInputs
  PROVE  \A s \in Seq(Plain) : Kept(Delivery!quoted(s)) = Delivery!quoted(Kept(s))
<1> DEFINE Q(s) == Delivery!quoted(s)
           T == {s \in Seq(Plain) : Kept(Q(s)) = Q(Kept(s))}
<1>1. <<>> \in T
  BY WithoutEmpty, EmptySeq, QuotedParts DEF Kept
<1>2. ASSUME NEW s \in Seq(Plain), NEW e \in Plain, s \in T
      PROVE  Append(s, e) \in T
  <2>1. /\ Append(s, e) \in Seq(Plain) /\ Q(Append(s, e)) = Append(Q(s), Delivery!quote(e))
        /\ Q(s) \in Seq(Plain) /\ Kept(Q(s)) = Q(Kept(s))
    BY <1>2, QuotedParts
  <2>2. /\ Delivery!quote(e) \in Plain
        /\ Delivery!quote(e) \in Delivery!Unnamed <=> e \in Delivery!Unnamed
    BY QuoteIs
  <2>3. \A u \in Seq(Plain), d \in Plain :
          Kept(Append(u, d)) = IF d \in Delivery!Unnamed THEN Kept(u) ELSE Append(Kept(u), d)
    BY WithoutAppend DEF Kept
  <2>4. Kept(s) \in Seq(Plain)
    BY FollowKept, Wide, Wider
  <2>5. Q(Append(Kept(s), e)) = Append(Q(Kept(s)), Delivery!quote(e))
    BY <2>4, QuotedParts
  <2> HIDE DEF Q
  <2>6. Kept(Append(Q(s), Delivery!quote(e))) = Q(Kept(Append(s, e)))
    BY <2>1, <2>2, <2>3, <2>5
  <2> QED
    BY <2>1, <2>6
<1>3. Seq(Plain) \subseteq T
  <2> HIDE DEF T
  <2> QED
    BY <1>1, <1>2, SequenceInduction
<1> QED
  BY <1>3

(* What is served is what was quoted. *)
LEMMA UnquotedIs ==
  ASSUME Delivery!DeliveryInputs, NEW s \in Seq(Spelt)
  PROVE  Delivery!unquoted(Delivery!quoted(s)) = s
<1>1. Len(s) \in Nat /\ DOMAIN s = 1..Len(s) /\ \A k \in 1..Len(s) : s[k] \in Spelt
  OBVIOUS
<1>2. s = [k \in 1..Len(s) |-> s[k]]
  OBVIOUS
<1>3. Delivery!quoted(s) = [k \in 1..Len(s) |-> Delivery!quote(s[k])]
  BY <1>1 DEF Delivery!quoted
<1>4. Delivery!unquoted(Delivery!quoted(s))
        = [k \in 1..Len(s) |-> Delivery!unquote(Delivery!quote(s[k]))]
  BY <1>3 DEF Delivery!unquoted
<1>5. \A k \in 1..Len(s) : Delivery!unquote(Delivery!quote(s[k])) = s[k]
  BY <1>1, QuoteIs
<1> QED
  BY <1>2, <1>4, <1>5

(* Where nothing has to be escaped, quoting changes nothing. *)
LEMMA UnescapedIs ==
  ASSUME NEW s \in Seq(Plain \ DOMAIN Escapes)
  PROVE  Delivery!quoted(s) = s
<1>1. DOMAIN s = 1..Len(s) /\ \A k \in 1..Len(s) : s[k] \notin DOMAIN Escapes
  OBVIOUS
<1>2. s = [k \in 1..Len(s) |-> s[k]]
  OBVIOUS
<1>3. Delivery!quoted(s) = [k \in 1..Len(s) |-> Delivery!quote(s[k])]
  BY <1>1 DEF Delivery!quoted
<1>4. \A k \in 1..Len(s) : Delivery!quote(s[k]) = s[k]
  BY <1>1 DEF Delivery!quote
<1> QED
  BY <1>2, <1>3, <1>4

-----------------------------------------------------------------------------
(* The parts of an output's URL, before they are quoted. *)
Url(sub, last) == <<"outputs">> \o Delivery!Without(sub, {""}) \o <<last>>

(* The URL of an output, and where it leads. *)
LEMMA UrlIs ==
  ASSUME NEW sub \in Seq(Plain), NEW last \in Named
  PROVE  /\ Url(sub, last) = <<"outputs">> \o Append(Delivery!Without(sub, {""}), last)
         /\ Delivery!Follow(Url(sub, last)) = <<"outputs">> \o Append(Kept(sub), last)
         /\ Delivery!Without(sub, {""}) \in Seq(Plain)
         /\ Kept(Delivery!Without(sub, {""})) = Kept(sub)
<1> DEFINE bare == Delivery!Without(sub, {""})
<1>1. bare \in Seq(Plain)
  <2>1. Plain \ {""} \subseteq Plain /\ bare \in Seq(Plain \ {""})
    BY WithoutType
  <2> HIDE DEF bare
  <2> QED
    BY <2>1, Wider
<1>3. Kept(bare) = Kept(sub)
  <2>1. {""} \cup Delivery!Unnamed = Delivery!Unnamed
    BY DEF Delivery!Unnamed
  <2>2. \A X, Y : \A s \in Seq(Plain) :
          Delivery!Without(Delivery!Without(s, X), Y) = Delivery!Without(s, X \cup Y)
    BY WithoutTwice
  <2>3. Delivery!Without(bare, Delivery!Unnamed)
          = Delivery!Without(sub, {""} \cup Delivery!Unnamed)
    BY <2>2, Zenon
  <2> QED
    BY <2>1, <2>3, Zenon DEF Kept
<1> HIDE DEF bare
<1> DEFINE end == Append(bare, last)
<1>4. "outputs" \in Named /\ last \in Plain
  BY Wide DEF Named, Parts
<1>5. end \in Seq(Plain) /\ Kept(end) = Append(Kept(sub), last)
  BY <1>1, <1>3, KeptEnd
<1>6. Url(sub, last) = <<"outputs">> \o end
  <2>1. Url(sub, last) = <<"outputs">> \o bare \o <<last>>
    BY Zenon DEF Url, bare
  <2>2. "outputs" \in Plain
    BY <1>4, Wide
  <2>3. <<"outputs">> \o bare \o <<last>> = <<"outputs">> \o Append(bare, last)
    BY <1>1, <1>4, <2>2
  <2> QED
    BY <2>1, <2>3
<1> HIDE DEF end
<1>7. <<"outputs">> \in Seq(Plain) /\ Kept(<<"outputs">>) = <<"outputs">>
  <2>1. <<"outputs">> \in Seq(Named)
    BY <1>4
  <2> QED
    BY <2>1, NamedStays
<1>8. <<"outputs">> \o end \in Seq(Plain)
  BY <1>5, <1>7
<1>9. Delivery!Follow(<<"outputs">> \o end) = <<"outputs">> \o Kept(end)
  <2>1. Delivery!Follow(<<"outputs">> \o end) = Kept(<<"outputs">> \o end)
    BY <1>8, FollowKept
  <2>2. Kept(<<"outputs">> \o end) = Kept(<<"outputs">>) \o Kept(end)
    BY <1>5, <1>7, KeptConcat
  <2> QED
    BY <1>7, <2>1, <2>2
<1> QED
  BY <1>1, <1>3, <1>5, <1>6, <1>9 DEF bare, end

(* The URL as built and with its dots resolved, quoted both. *)
LEMMA UrlQuoted ==
  ASSUME Delivery!DeliveryInputs, NEW sub \in Seq(Plain), NEW last \in Named
  PROVE  /\ Delivery!quoted(Url(sub, last))
              = <<"outputs">> \o Delivery!quoted(Append(Delivery!Without(sub, {""}), last))
         /\ Delivery!Follow(Delivery!quoted(Url(sub, last)))
              = <<"outputs">> \o Delivery!quoted(Append(Kept(sub), last))
<1> DEFINE bare == Delivery!Without(sub, {""})
           e == Append(bare, last)
<1>1. Url(sub, last) = <<"outputs">> \o e /\ bare \in Seq(Plain) /\ Kept(bare) = Kept(sub)
  BY UrlIs
<1> HIDE DEF bare
<1>2. e \in Seq(Plain) /\ Kept(e) = Append(Kept(sub), last)
  BY <1>1, KeptEnd
<1> HIDE DEF e
<1>3. /\ Delivery!quoted(Url(sub, last)) = <<"outputs">> \o Delivery!quoted(e)
      /\ Delivery!quoted(e) \in Seq(Plain)
  BY <1>1, <1>2, QuotedParts
<1>4. Kept(Delivery!quoted(e)) = Delivery!quoted(Append(Kept(sub), last))
  BY <1>2, QuotedKept
<1>5. <<"outputs">> \in Seq(Plain) /\ Kept(<<"outputs">>) = <<"outputs">>
  <2>1. "outputs" \in Named
    BY DEF Named, Parts
  <2> QED
    BY <2>1, NamedStays
<1>6. Delivery!Follow(<<"outputs">> \o Delivery!quoted(e))
        = <<"outputs">> \o Kept(Delivery!quoted(e))
  <2>1. \A u \in Seq(Plain) : <<"outputs">> \o u \in Seq(Plain)
    BY <1>5
  <2>2. Delivery!Follow(<<"outputs">> \o Delivery!quoted(e))
          = Kept(<<"outputs">> \o Delivery!quoted(e))
    BY <1>3, <2>1, FollowKept
  <2>3. Kept(<<"outputs">> \o Delivery!quoted(e)) = Kept(<<"outputs">>) \o Kept(Delivery!quoted(e))
    BY <1>3, <1>5, KeptConcat
  <2> QED
    BY <1>5, <2>2, <2>3
<1> QED
  BY <1>3, <1>4, <1>6 DEF e, bare

(* What the proxy and nginx read of either of them. *)
LEMMA UrlLeads ==
  ASSUME Delivery!DeliveryInputs, NEW sub \in Seq(Spelt), NEW last \in Named, last \in Spelt,
         NEW url \in {Delivery!quoted(Url(sub, last)),
                      Delivery!Follow(Delivery!quoted(Url(sub, last)))}
  PROVE  /\ url[1] = "outputs" /\ Len(url) > 1
         /\ Delivery!unquoted(Tail(url)) \in Seq(Plain)
         /\ Kept(Delivery!unquoted(Tail(url))) = Append(Kept(sub), last)
<1> DEFINE bare == Delivery!Without(sub, {""})
           d == IF url = Delivery!quoted(Url(sub, last)) THEN Append(bare, last)
                ELSE Append(Kept(sub), last)
<1>1. sub \in Seq(Plain) /\ Spelt \subseteq Plain
  <2>1. Spelt \subseteq Plain
    BY DEF Spelt
  <2> QED
    BY <2>1, Wider
<1>2. bare \in Seq(Plain) /\ Kept(bare) = Kept(sub)
  BY <1>1, UrlIs
<1>3. bare \in Seq(Spelt) /\ Kept(sub) \in Seq(Spelt)
  <2>1. \A X : Spelt \ X \subseteq Spelt /\ Delivery!Without(sub, X) \in Seq(Spelt \ X)
    BY WithoutType
  <2>2. \A X : Delivery!Without(sub, X) \in Seq(Spelt)
    BY <2>1, Wider
  <2> QED
    BY <2>2 DEF Kept
<1>4. /\ Append(bare, last) \in Seq(Plain)
      /\ Kept(Append(bare, last)) = Append(Kept(sub), last)
  <2> HIDE DEF bare
  <2> QED
    BY <1>2, KeptEnd
<1>5. /\ Append(Kept(sub), last) \in Seq(Plain)
      /\ Kept(Append(Kept(sub), last)) = Append(Kept(sub), last)
  BY <1>1, KeptEnd, NamedStays
<1>6. /\ d \in Seq(Plain) /\ d \in Seq(Spelt) /\ Kept(d) = Append(Kept(sub), last)
      /\ url = <<"outputs">> \o Delivery!quoted(d)
  <2>1. /\ Delivery!quoted(Url(sub, last)) = <<"outputs">> \o Delivery!quoted(Append(bare, last))
        /\ Delivery!Follow(Delivery!quoted(Url(sub, last)))
             = <<"outputs">> \o Delivery!quoted(Append(Kept(sub), last))
    BY <1>1, UrlQuoted
  <2>2. Append(bare, last) \in Seq(Spelt) /\ Append(Kept(sub), last) \in Seq(Spelt)
    <3> HIDE DEF bare
    <3> QED
      BY <1>3
  <2> HIDE DEF bare
  <2> QED
    BY <1>4, <1>5, <2>1, <2>2
<1>7. Len(d) > 0
  <2>1. Append(bare, last) # <<>> /\ Append(Kept(sub), last) # <<>>
    <3>1. \A u \in Seq(Spelt) : Append(u, last) # <<>>
      OBVIOUS
    <3> QED
      BY <1>3, <3>1
  <2>2. d # <<>>
    BY <2>1
  <2> HIDE DEF d
  <2> QED
    BY <1>6, <2>2
<1> HIDE DEF d
<1>8. Delivery!quoted(d) \in Seq(Plain) /\ Len(Delivery!quoted(d)) > 0
  <2>1. Delivery!quoted(d) \in Seq(Plain) /\ DOMAIN Delivery!quoted(d) = DOMAIN d
    BY <1>6, QuotedParts DEF Delivery!quoted
  <2>2. Len(Delivery!quoted(d)) = Len(d)
    BY <1>6, <2>1
  <2> QED
    BY <1>7, <2>1, <2>2
<1>9. "outputs" \in Plain
  BY DEF Plain, Parts
<1>10. \A e \in Seq(Plain) : Len(e) > 0 =>
         /\ (<<"outputs">> \o e)[1] = "outputs" /\ Len(<<"outputs">> \o e) > 1
         /\ Tail(<<"outputs">> \o e) = e
  BY <1>9
<1>11. url[1] = "outputs" /\ Len(url) > 1 /\ Tail(url) = Delivery!quoted(d)
  BY <1>6, <1>8, <1>10
<1>12. Delivery!unquoted(Tail(url)) = d
  BY <1>6, <1>11, UnquotedIs
<1> QED
  BY <1>6, <1>11, <1>12

(* A bounded set of numbers has a greatest one. *)
LEMMA GreatestExists ==
  ASSUME NEW n \in Nat, NEW S, S \subseteq 0..n, S # {}
  PROVE  \E m \in S : \A k \in S : m >= k
<1> DEFINE R == {n - k : k \in S}
<1>1. R \subseteq Nat /\ R # {}
  <2>1. \A k \in S : n - k \in Nat
    OBVIOUS
  <2> QED
    BY <2>1
<1>2. PICK r \in R : \A k \in R : r <= k
  <2> HIDE DEF R
  <2> QED
    BY <1>1, LeastExists
<1>3. PICK m \in S : r = n - m
  OBVIOUS
<1>4. ASSUME NEW k \in S
      PROVE  m >= k
  <2>1. n - k \in R
    OBVIOUS
  <2>2. n - m <= n - k
    BY <1>2, <1>3, <2>1
  <2>3. m \in Nat /\ k \in Nat
    OBVIOUS
  <2> QED
    BY <2>2, <2>3
<1> QED
  BY <1>4

(* Slashes at the ends of a subfolder lead nowhere. *)
LEMMA Stripped ==
  ASSUME NEW sub \in Seq(Plain), NEW a \in 1..Len(sub), NEW b \in 1..Len(sub), a <= b,
         \A k \in DOMAIN sub : k < a \/ k > b => sub[k] \in Delivery!Unnamed
  PROVE  SubSeq(sub, a, b) \in Seq(Plain) /\ Kept(SubSeq(sub, a, b)) = Kept(sub)
<1> DEFINE n == Len(sub)
           left == SubSeq(sub, 1, a - 1)
           middle == SubSeq(sub, a, b)
           right == SubSeq(sub, b + 1, n)
<1>1. /\ n \in Nat /\ a \in Nat /\ b \in Nat /\ 1 <= a /\ b <= n
      /\ a - 1 \in Nat /\ n - b \in Nat /\ DOMAIN sub = 1..n
  OBVIOUS
<1>2. sub = (left \o middle) \o right
  <2>0. /\ 1 \in 1..n + 1 /\ a - 1 \in 1 - 1..n /\ b \in a - 1..n /\ a - 1 + 1 = a
        /\ b \in 1 - 1..n /\ n \in b..n
    BY <1>1
  <2>1. left \o middle = SubSeq(sub, 1, b)
    BY <2>0, ConcatAdjacentSubSeq
  <2>2. SubSeq(sub, 1, b) \o right = SubSeq(sub, 1, n)
    BY <2>0, ConcatAdjacentSubSeq
  <2>3. SubSeq(sub, 1, n) = sub
    BY SubSeqFull
  <2> QED
    BY <2>1, <2>2, <2>3, Zenon
<1>3. left \in Seq(Plain) /\ middle \in Seq(Plain) /\ right \in Seq(Plain)
  BY <1>1
<1>4. left \in Seq(Delivery!Unnamed) /\ right \in Seq(Delivery!Unnamed)
  <2>a. Len(left) = a - 1 /\ \A k \in 1..a - 1 : left[k] = sub[k]
    BY <1>1
  <2>b. Len(right) = n - b /\ \A k \in 1..n - b : right[k] = sub[b + k]
    <3>1. b + 1 \in 1..n + 1 /\ n \in b + 1 - 1..n /\ n - (b + 1) + 1 = n - b
      BY <1>1
    <3> HIDE DEF n
    <3>2. \A k \in 1..n - b : b + 1 + k - 1 = b + k
      BY <1>1
    <3> QED
      BY <1>1, <3>1, <3>2, SubSeqProperties
  <2> HIDE DEF left, right, n
  <2>2. \A k \in 1..a - 1 : sub[k] \in Delivery!Unnamed
    BY <1>1
  <2>3. \A k \in 1..n - b : sub[b + k] \in Delivery!Unnamed
    BY <1>1
  <2>4. /\ \A k \in 1..a - 1 : left[k] \in Delivery!Unnamed
        /\ \A k \in 1..n - b : right[k] \in Delivery!Unnamed
    BY <2>a, <2>b, <2>2, <2>3
  <2> QED
    BY <1>3, <2>a, <2>b, <2>4, Elsewhere
<1> HIDE DEF left, middle, right, n
<1>5. Kept(left) = <<>> /\ Kept(right) = <<>>
  BY <1>4, WithoutAll DEF Kept
<1>6. left \o middle \in Seq(Plain)
  BY <1>3, ConcatProperties
<1>7. Kept(sub) = (Kept(left) \o Kept(middle)) \o Kept(right)
  BY <1>2, <1>3, <1>6, KeptConcat, Zenon
<1>8. Kept(middle) \in Seq(Named)
  BY <1>3, FollowKept
<1>9. (<<>> \o Kept(middle)) \o <<>> = Kept(middle)
  BY <1>8, ConcatEmptySeq
<1> QED
  BY <1>3, <1>5, <1>7, <1>9 DEF middle

(* The relative path of an output that is registered leads to its file. *)
Nothing == ""   \* a part between two slashes

(* What the worker registers of an output leads to its file. *)
LEMMA RelativeIs ==
  ASSUME NEW p, Delivery!Item(p).sub \in Seq(Plain), Delivery!Item(p).file \in Named,
         Delivery!Resolvable(Delivery!RelativePath(p))
  PROVE  /\ Delivery!RelativePath(p) \in Seq(Plain)
         /\ Kept(Delivery!RelativePath(p))
              = Append(Kept(Delivery!Item(p).sub), Delivery!Item(p).file)
<1> DEFINE sub == Delivery!Item(p).sub
           last == Delivery!Item(p).file
           named == {k \in DOMAIN sub : sub[k] # Nothing}
           from == CHOOSE k \in named : \A j \in named : k <= j
           to == CHOOSE k \in named : \A j \in named : k >= j
           path == Delivery!RelativePath(p)
<1>1. path = IF sub = <<>> THEN <<last>>
             ELSE IF named = {} THEN <<Nothing, last>>
             ELSE Append(SubSeq(sub, from, to), last)
  BY Zenon DEF Delivery!RelativePath, Nothing
<1> HIDE DEF path, from, to
<1>2. sub \in Seq(Plain) /\ last \in Named
  OBVIOUS
<1> HIDE DEF sub, last
<1>3. CASE sub = <<>>
  <2>1. path = Append(<<>>, last) /\ <<>> \in Seq(Plain)
    BY <1>1, <1>3
  <2> QED
    BY <1>2, <1>3, <2>1, KeptEnd DEF path, sub, last
<1>4. CASE sub # <<>> /\ named = {}
  <2>1. path[1] = Nothing
    BY <1>1, <1>4
  <2> QED
    BY <2>1, Zenon DEF Delivery!Resolvable, path, Nothing
<1>5. CASE named # {}
  <2> DEFINE n == Len(sub)
  <2>0. n \in Nat /\ DOMAIN sub = 1..n
    BY <1>2
  <2> HIDE DEF n
  <2>1. named \subseteq 0..n /\ named \subseteq Nat
    BY <2>0
  <2>2. from \in named /\ \A j \in named : from <= j
    <3>1. \E k \in named : \A j \in named : k <= j
      <4> HIDE DEF named
      <4> QED
        BY <1>5, <2>1, LeastExists
    <3> HIDE DEF named
    <3> QED
      BY <3>1, Zenon DEF from
  <2>3. to \in named /\ \A j \in named : to >= j
    <3>1. \E k \in named : \A j \in named : k >= j
      <4> HIDE DEF named
      <4> QED
        BY <1>5, <2>0, <2>1, GreatestExists
    <3> HIDE DEF named
    <3> QED
      BY <3>1, Zenon DEF to
  <2>4. from \in 1..n /\ to \in 1..n /\ from <= to
    BY <2>0, <2>2, <2>3
  <2>5. \A k \in DOMAIN sub : k < from \/ k > to => sub[k] \in Delivery!Unnamed
    <3>1. \A k \in 1..n : k < from \/ k > to => k \notin named
      <4> HIDE DEF named
      <4> QED
        BY <2>0, <2>2, <2>3, <2>4
    <3>2. Nothing \in Delivery!Unnamed
      BY DEF Nothing, Delivery!Unnamed
    <3> QED
      BY <2>0, <3>1, <3>2
  <2>6. SubSeq(sub, from, to) \in Seq(Plain) /\ Kept(SubSeq(sub, from, to)) = Kept(sub)
    BY <1>2, <2>4, <2>5, Stripped DEF n
  <2>7. sub # <<>>
    BY <2>4 DEF n
  <2>8. path = Append(SubSeq(sub, from, to), last)
    BY <1>1, <1>5, <2>7
  <2>9. /\ Append(SubSeq(sub, from, to), last) \in Seq(Plain)
        /\ Kept(Append(SubSeq(sub, from, to), last)) = Append(Kept(SubSeq(sub, from, to)), last)
    BY <1>2, <2>6, KeptEnd
  <2> QED
    BY <2>6, <2>8, <2>9 DEF path, sub, last
<1> QED
  BY <1>3, <1>4, <1>5

(* An output saved for good: its subfolder, its name and its file. *)
LEMMA PermanentIs ==
  ASSUME Delivery!DeliveryInputs, history \in Histories,
         NEW p \in Parsed, Delivery!Permanent(p)
  PROVE  /\ Delivery!Item(p).sub \in Seq(Plain) /\ Delivery!Item(p).file \in Named
         /\ Delivery!File(p)
              = [type |-> "output",
                 path |-> Append(Kept(Delivery!Item(p).sub), Delivery!Item(p).file)]
         /\ Append(Kept(Delivery!Item(p).sub), Delivery!Item(p).file) \in Seq(Named)
         /\ Append(Kept(Delivery!Item(p).sub), Delivery!Item(p).file) # <<>>
         /\ Delivery!build_output_url(p)
              = Delivery!quoted(Url(Delivery!Item(p).sub, Delivery!Item(p).file))
         /\ Delivery!Item(p).sub \in Seq(Spelt) /\ Delivery!Item(p).file \in Spelt
<1> DEFINE item == Delivery!Item(p)
           sub == item.sub
           last == item.file
<1>1. /\ p.node \in DOMAIN history /\ p.key \in Lists /\ p.k \in DOMAIN history[p.node][p.key]
      /\ item.ok
  BY PlacesAre DEF Parsed
<1>2. item = history[p.node][p.key][p.k]
  BY DEF Delivery!Item
<1>3. item \in Delivery!Items
  <2>1. history[p.node] \in Delivery!Media
    <3>1. history \in Seq(Delivery!Media)
      BY Zenon DEF Delivery!DeliveryInputs
    <3> QED
      BY <1>1, <3>1
  <2>2. history[p.node][p.key] \in Seq(Delivery!Items)
    BY <1>1, <2>1 DEF Delivery!Media, Lists
  <2> QED
    BY <1>1, <1>2, <2>2
<1>4. last \notin {"", ".", ".."}
  <2>1. \A h \in Histories : \A n \in DOMAIN h, key \in Lists :
          \A k \in DOMAIN h[n][key] : h[n][key][k].ok => h[n][key][k].file \notin {"", ".", ".."}
    BY DEF Delivery!DeliveryInputs, Lists
  <2> HIDE DEF item
  <2> QED
    BY <1>1, <1>2, <2>1
<1>5. sub \in Seq(STRING) /\ last \in STRING
  BY <1>3 DEF Delivery!Items
<1>6. ~Delivery!Ascends(sub) /\ item.type = "output"
  BY DEF Delivery!Permanent, Delivery!Saved
<1> HIDE DEF item
<1>7. sub \in Seq(Plain) /\ last \in Named
  <2>1. STRING \subseteq Parts
    BY DEF Parts
  <2>2. sub \in Seq(Parts)
    BY <1>5, <2>1, Wider
  <2> QED
    BY <1>4, <1>5, <1>6, <2>1, <2>2, PlainIs DEF Named
<1> HIDE DEF sub, last
<1>8. /\ Append(sub, last) \in Seq(Plain)
      /\ Delivery!Follow(Append(sub, last)) = Append(Kept(sub), last)
      /\ Append(Kept(sub), last) \in Seq(Named)
  BY <1>7, KeptEnd, FollowKept
<1>9. Append(Kept(sub), last) # <<>>
  <2>1. Kept(sub) \in Seq(Named)
    BY <1>7, FollowKept
  <2> QED
    BY <1>7, <2>1
<1>10. Delivery!File(p) = [type |-> "output", path |-> Append(Kept(sub), last)]
  BY <1>6, <1>8 DEF Delivery!File, item, sub, last
<1>11. Delivery!build_output_url(p) = Delivery!quoted(Url(sub, last))
  BY Zenon DEF Delivery!build_output_url, Url, item, sub, last
<1>12. sub \in Seq(Spelt) /\ last \in Spelt
  <2>1. ({item.file} \cup {item.sub[j] : j \in DOMAIN item.sub}) \cap Delivery!Escaped
          \subseteq DOMAIN Escapes
    <3> DEFINE Fine(x) ==
          x.ok => /\ x.file \notin {"", ".", ".."}
                  /\ ({x.file} \cup {x.sub[j] : j \in DOMAIN x.sub}) \cap Delivery!Escaped
                       \subseteq DOMAIN Escapes
    <3>1. \A h \in Histories : \A n \in DOMAIN h, key \in Lists :
            \A k \in DOMAIN h[n][key] : Fine(h[n][key][k])
      BY Zenon DEF Delivery!DeliveryInputs, Lists
    <3>2. Fine(history[p.node][p.key][p.k])
      <4> HIDE DEF Fine
      <4> QED
        BY <1>1, <3>1, Zenon
    <3> QED
      BY <1>1, <1>2, <3>2, Zenon
  <2>2. ({last} \cup {sub[j] : j \in DOMAIN sub}) \cap Delivery!Escaped \subseteq DOMAIN Escapes
    BY <2>1 DEF sub, last
  <2>3. last \in Plain /\ \A j \in 1..Len(sub) : sub[j] \in Plain
    BY <1>7, Wide
  <2>4. last \in Spelt
    BY <2>2, <2>3 DEF Spelt
  <2>5. \A j \in 1..Len(sub) : sub[j] \in Spelt
    <3>1. DOMAIN sub = 1..Len(sub)
      BY <1>7
    <3> QED
      BY <2>2, <2>3, <3>1 DEF Spelt
  <2> QED
    BY <1>7, <2>4, <2>5, Elsewhere
<1> QED
  BY <1>7, <1>8, <1>9, <1>10, <1>11, <1>12 DEF item, sub, last

-----------------------------------------------------------------------------
(* The outputs of a history, for one that does not change. *)
ItemOf(h, p) == h[p.node][p.key][p.k]
FileOf(h, p) ==
  [type |-> ItemOf(h, p).type,
   path |-> Delivery!Follow(Append(ItemOf(h, p).sub, ItemOf(h, p).file))]
PermanentOf(h, p) ==
  ItemOf(h, p).ok /\ ~Delivery!Ascends(ItemOf(h, p).sub) /\ ItemOf(h, p).type = "output"
UrlOf(h, p) == Delivery!quoted(Url(ItemOf(h, p).sub, ItemOf(h, p).file))
PlacesOf(h) ==
  UNION {{[node |-> n, key |-> key, k |-> k] : k \in DOMAIN h[n][key]} :
           n \in DOMAIN h, key \in {"images", "videos", "gifs"}}
ParsedOf(h) == {p \in PlacesOf(h) : ItemOf(h, p).ok}

(* They are the module's own for the history of the run. *)
LEMMA OfHistory ==
  /\ Parsed = ParsedOf(history)
  /\ \A p : /\ Delivery!Item(p) = ItemOf(history, p)
            /\ Delivery!File(p) = FileOf(history, p)
            /\ Delivery!Permanent(p) <=> PermanentOf(history, p)
            /\ Delivery!build_output_url(p) = UrlOf(history, p)
<1>1. \A p : Delivery!Item(p) = ItemOf(history, p)
  BY Zenon DEF Delivery!Item, ItemOf
<1>2. \A p : Delivery!File(p) = FileOf(history, p)
  BY <1>1, Zenon DEF Delivery!File, FileOf
<1>3. \A p : Delivery!Permanent(p) <=> PermanentOf(history, p)
  BY <1>1 DEF Delivery!Permanent, Delivery!Saved, PermanentOf
<1>4. \A p : Delivery!build_output_url(p) = UrlOf(history, p)
  BY <1>1, Zenon DEF Delivery!build_output_url, UrlOf, Url
<1>5. Delivery!Places = PlacesOf(history)
  BY DEF Delivery!Places, PlacesOf
<1>6. Parsed = ParsedOf(history)
  BY <1>1, <1>5 DEF Parsed, ParsedOf
<1> QED
  BY <1>1, <1>2, <1>3, <1>4, <1>6

(* The job's outputs are what the parser makes of the history. *)
ParsedInv ==
  /\ history \in Histories /\ shared \in BOOLEAN
  /\ register \in {"waiting", "running", "ended", "failed"}
  /\ outputs \in Seq(PlaceRecords) /\ Members(outputs) \subseteq ParsedOf(history)
  /\ register = "waiting" => turn = 1 /\ outputs = <<>>
  /\ register # "waiting" => Arranged(outputs, ParsedOf(history))

(* The path of an output's asset: it leads to the output's file, and where  *)
(* nothing has to be escaped, the URL that url_for gives it is the output's. *)
Registers(path, h, p) ==
  /\ Delivery!Follow(path) = FileOf(h, p).path
  /\ (\A j \in DOMAIN path : path[j] \notin DOMAIN Escapes)
       => Delivery!url_for(path) = Delivery!Follow(UrlOf(h, p))

(* What the worker has registered of them. *)
RegisterInv ==
  /\ turn \in 1..Len(outputs) + 1
  /\ register = "ended" => turn = Len(outputs) + 1
  /\ skipped \subseteq ParsedOf(history)
  /\ \A path \in assets : Delivery!Resolvable(path)
  /\ \A k \in 1..Len(outputs) : k < turn /\ PermanentOf(history, outputs[k]) =>
       \/ outputs[k] \in skipped
       \/ \E path \in assets : Registers(path, history, outputs[k])
  /\ shared => \A p \in skipped : PermanentOf(history, p) => FileOf(history, p) \notin stored

(* What the request of a client has come to. *)
ClientInv ==
  /\ client = [stage |-> client.stage, door |-> client.door, output |-> client.output,
               path |-> client.path, file |-> client.file, lost |-> client.lost]
  /\ client.stage \in {"idle", "local", "comfyui", "200", "400", "404"}
  /\ client.door \in {"backend", "nginx"}
  /\ client.lost \in BOOLEAN
  /\ client.stage # "idle" => client.output \in ParsedOf(history)
  /\ client.output # NoOutput /\ PermanentOf(history, client.output) =>
       /\ client.stage \in {"local", "comfyui"} =>
            /\ client.path \in Seq(Plain)
            /\ Delivery!PathParts(client.path) = FileOf(history, client.output).path
            /\ FileOf(history, client.output) \notin stored => client.lost
       /\ client.stage = "200" => client.file = FileOf(history, client.output)
       /\ client.stage \in {"400", "404"} =>
            client.lost \/ (client.door = "nginx" /\ ~shared)

DeliveryInv == ParsedInv /\ RegisterInv /\ ClientInv

(* The invariant holds before the parser runs. *)
LEMMA DeliveryInit ==
  ASSUME Delivery!Init
  PROVE  DeliveryInv
<1>1. <<>> \in Seq(PlaceRecords) /\ Members(<<>>) = {} /\ Len(<<>>) = 0
  BY DEF Members
<1>2. ParsedInv
  BY <1>1 DEF Delivery!Init, ParsedInv
<1>3. RegisterInv
  BY <1>1 DEF Delivery!Init, RegisterInv
<1>4. ClientInv
  BY DEF Delivery!Init, Delivery!Idle, ClientInv
<1> QED
  BY <1>2, <1>3, <1>4 DEF DeliveryInv

(* The parser lists every output there is. *)
LEMMA ParseKeeps ==
  ASSUME Delivery!DeliveryInputs, DeliveryInv, Delivery!Parse
  PROVE  DeliveryInv'
<1> USE DEF DeliveryInv
<1>1. PICK video_keys \in {<<"videos", "gifs">>, <<"gifs", "videos">>} :
        outputs' = Delivery!FlattenSeq([n \in DOMAIN history |-> NodeOutputs(n, video_keys)])
  BY Zenon DEF Delivery!Parse, NodeOutputs
<1>2. history \in Seq(Delivery!Media)
  BY Zenon DEF Delivery!DeliveryInputs, ParsedInv
<1>3. Arranged(outputs', ParsedOf(history))
  BY <1>1, <1>2, ParseIs, OfHistory, Zenon
<1>4. /\ register = "waiting" /\ register' = "running" /\ turn = 1 /\ turn' = turn
      /\ UNCHANGED <<history, shared, stored, assets, skipped, client>>
  BY DEF Delivery!Parse, ParsedInv
<1>5. ParsedInv'
  BY <1>3, <1>4 DEF ParsedInv, Arranged
<1>6. RegisterInv'
  <2>1. Len(outputs') \in Nat
    BY <1>3 DEF Arranged
  <2> QED
    BY <1>4, <2>1 DEF RegisterInv
<1>7. ClientInv'
  BY <1>4 DEF ClientInv
<1> QED
  BY <1>5, <1>6, <1>7

(* A turn of _register_output_assets registers the output's file or skips it. *)
LEMMA RegisterKeeps ==
  ASSUME Delivery!DeliveryInputs, DeliveryInv, Delivery!RegisterNext
  PROVE  DeliveryInv'
<1> USE DEF DeliveryInv
<1> DEFINE p == outputs[turn]
           path == Delivery!RelativePath(p)
<1>1. /\ register = "running" /\ turn \in 1..Len(outputs) /\ Len(outputs) \in Nat /\ p \in Parsed
      /\ UNCHANGED <<history, shared, stored, outputs, client>>
  <2>1. turn \in DOMAIN outputs /\ outputs \in Seq(PlaceRecords)
    BY DEF Delivery!RegisterNext, ParsedInv
  <2>2. p \in Parsed
    BY <2>1, OfHistory DEF ParsedInv, Members
  <2> QED
    BY <2>1, <2>2 DEF Delivery!RegisterNext
<1>2. \/ /\ register' = "failed" /\ UNCHANGED <<turn, assets, skipped>>
      \/ /\ Delivery!Resolvable(path) /\ turn' = turn + 1 /\ register' = register
         /\ \/ Delivery!IsFile(path) /\ assets' = assets \cup {path} /\ skipped' = skipped
            \/ ~Delivery!IsFile(path) /\ skipped' = skipped \cup {p} /\ assets' = assets
  BY Zenon DEF Delivery!RegisterNext
<1>3. ASSUME Delivery!Resolvable(path), PermanentOf(history, p)
      PROVE  /\ Registers(path, history, p)
             /\ FileOf(history, p) = [type |-> "output", path |-> Delivery!Follow(path)]
  <2> DEFINE sub == Delivery!Item(p).sub
             last == Delivery!Item(p).file
  <2>1. /\ sub \in Seq(Plain) /\ last \in Named
        /\ Delivery!File(p) = [type |-> "output", path |-> Append(Kept(sub), last)]
        /\ Delivery!build_output_url(p) = Delivery!quoted(Url(sub, last))
    <3>1. history \in Histories /\ Delivery!Permanent(p)
      BY <1>3, OfHistory DEF ParsedInv
    <3> HIDE DEF p
    <3> QED
      BY <1>1, <3>1, PermanentIs
  <2>2. path \in Seq(Plain) /\ Kept(path) = Append(Kept(sub), last)
    BY <1>3, <2>1, RelativeIs
  <2> HIDE DEF sub, last, path
  <2>3. Delivery!Follow(path) = Append(Kept(sub), last)
    BY <2>2, FollowKept
  <2>4. Delivery!Follow(Delivery!quoted(Url(sub, last)))
          = <<"outputs">> \o Delivery!quoted(Append(Kept(sub), last))
    BY <2>1, UrlQuoted
  <2>5. Delivery!url_for(path) = <<"outputs">> \o Append(Kept(sub), last)
    BY <2>2, Zenon DEF Delivery!url_for, Kept
  <2>6. Delivery!File(p) = FileOf(history, p) /\ Delivery!build_output_url(p) = UrlOf(history, p)
    BY OfHistory
  <2>7. ASSUME \A k \in DOMAIN path : path[k] \notin DOMAIN Escapes
        PROVE  Delivery!quoted(Append(Kept(sub), last)) = Append(Kept(sub), last)
    <3> DEFINE Free == Plain \ DOMAIN Escapes
    <3>1. \A k \in 1..Len(path) : path[k] \in Free
      BY <2>2, <2>7
    <3>2. path \in Seq(Free)
      <4> HIDE DEF Free
      <4> QED
        BY <2>2, <3>1, Elsewhere
    <3>3. Kept(path) \in Seq(Free \ Delivery!Unnamed) /\ Free \ Delivery!Unnamed \subseteq Free
      <4> HIDE DEF Free
      <4> QED
        BY <3>2, WithoutType DEF Kept
    <3>4. Kept(path) \in Seq(Free)
      BY <3>3, Wider
    <3> QED
      BY <2>2, <3>4, UnescapedIs
  <2>8. /\ FileOf(history, p) = [type |-> "output", path |-> Delivery!Follow(path)]
        /\ FileOf(history, p).path = Delivery!Follow(path)
    <3>1. FileOf(history, p) = [type |-> "output", path |-> Delivery!Follow(path)]
      BY <2>1, <2>3, <2>6
    <3> QED
      BY <3>1
  <2>9. UrlOf(history, p) = Delivery!quoted(Url(sub, last))
    BY <2>1, <2>6
  <2>10. (\A k \in DOMAIN path : path[k] \notin DOMAIN Escapes)
          => Delivery!url_for(path) = Delivery!Follow(UrlOf(history, p))
    BY <2>4, <2>5, <2>7, <2>9
  <2> QED
    BY <2>8, <2>10, Zenon DEF Registers
<1>4. ParsedInv' /\ ClientInv'
  BY <1>1, <1>2 DEF ParsedInv, ClientInv
<1>5. RegisterInv'
  <2> USE DEF RegisterInv
  <2> HIDE DEF path, p
  <2>1. CASE register' = "failed" /\ UNCHANGED <<turn, assets, skipped>>
    BY <1>1, <2>1
  <2>2. CASE /\ Delivery!Resolvable(path) /\ turn' = turn + 1 /\ register' = register
             /\ Delivery!IsFile(path) /\ assets' = assets \cup {path} /\ skipped' = skipped
    <3>1. \A k \in 1..Len(outputs) : k < turn + 1 /\ PermanentOf(history, outputs[k]) =>
            \/ outputs[k] \in skipped
            \/ \E a \in assets' : Registers(a, history, outputs[k])
      <4>1. ASSUME NEW k \in 1..Len(outputs), k < turn + 1, PermanentOf(history, outputs[k]),
                   outputs[k] \notin skipped
            PROVE  \E a \in assets' : Registers(a, history, outputs[k])
        <5>1. CASE k < turn
          BY <2>2, <4>1, <5>1
        <5>2. CASE k = turn
          BY <1>3, <2>2, <4>1, <5>2 DEF p
        <5> QED
          BY <1>1, <4>1, <5>1, <5>2
      <4> QED
        BY <4>1
    <3>2. \A a \in assets' : Delivery!Resolvable(a)
      BY <2>2
    <3>3. turn' \in 1..Len(outputs) + 1
      BY <1>1, <2>2
    <3> QED
      BY <1>1, <2>2, <3>1, <3>2, <3>3
  <2>3. CASE /\ Delivery!Resolvable(path) /\ turn' = turn + 1 /\ register' = register
             /\ ~Delivery!IsFile(path) /\ skipped' = skipped \cup {p} /\ assets' = assets
    <3>1. \A k \in 1..Len(outputs) : k < turn + 1 /\ PermanentOf(history, outputs[k]) =>
            \/ outputs[k] \in skipped'
            \/ \E a \in assets : Registers(a, history, outputs[k])
      <4>1. ASSUME NEW k \in 1..Len(outputs), k < turn + 1, PermanentOf(history, outputs[k]),
                   outputs[k] \notin skipped'
            PROVE  \E a \in assets : Registers(a, history, outputs[k])
        <5>1. k # turn /\ outputs[k] \notin skipped
          BY <2>3, <4>1 DEF p
        <5>2. k < turn
          BY <1>1, <4>1, <5>1
        <5> QED
          BY <4>1, <5>1, <5>2
      <4> QED
        BY <4>1
    <3>2. shared /\ PermanentOf(history, p) => FileOf(history, p) \notin stored
      BY <1>3, <2>3 DEF Delivery!IsFile
    <3>3. turn' \in 1..Len(outputs) + 1
      BY <1>1, <2>3
    <3>4. skipped' \subseteq ParsedOf(history)
      BY <1>1, <2>3, OfHistory
    <3> QED
      BY <1>1, <2>3, <3>1, <3>2, <3>3, <3>4
  <2> QED
    BY <1>2, <2>1, <2>2, <2>3
<1> QED
  BY <1>4, <1>5

(* A URL is followed to the file of its output. *)
LEMMA FollowKeeps ==
  ASSUME Delivery!DeliveryInputs, DeliveryInv, Delivery!FollowUrl
  PROVE  DeliveryInv'
<1> USE DEF DeliveryInv
<1>1. PICK k \in DOMAIN outputs, door \in {"backend", "nginx"} :
        \E url \in {Delivery!build_output_url(outputs[k]),
                    Delivery!Follow(Delivery!build_output_url(outputs[k]))} :
          client' = [client EXCEPT
            !.door = door,
            !.output = outputs[k],
            !.stage = IF url[1] = "outputs" /\ Len(url) > 1 THEN "local" ELSE "404",
            !.path = IF Len(url) > 1 THEN Delivery!unquoted(Tail(url)) ELSE <<>>,
            !.lost = Delivery!File(outputs[k]) \notin stored]
  BY Zenon DEF Delivery!FollowUrl
<1> DEFINE p == outputs[k]
           built == Delivery!build_output_url(p)
<1>2. PICK url \in {built, Delivery!Follow(built)} :
        client' = [client EXCEPT
            !.door = door,
            !.output = p,
            !.stage = IF url[1] = "outputs" /\ Len(url) > 1 THEN "local" ELSE "404",
            !.path = IF Len(url) > 1 THEN Delivery!unquoted(Tail(url)) ELSE <<>>,
            !.lost = Delivery!File(p) \notin stored]
  BY <1>1
<1>3. p \in Parsed /\ p \in ParsedOf(history)
  BY OfHistory DEF ParsedInv, Members
<1>4. UNCHANGED <<history, shared, stored, outputs, turn, register, assets, skipped>>
  BY DEF Delivery!FollowUrl
<1>5. ParsedInv' /\ RegisterInv'
  BY <1>4 DEF ParsedInv, RegisterInv
<1> HIDE DEF p, built
<1>6. /\ client' = [stage |-> client'.stage, door |-> door, output |-> p,
                    path |-> client'.path, file |-> client.file, lost |-> client'.lost]
      /\ client'.stage = IF url[1] = "outputs" /\ Len(url) > 1 THEN "local" ELSE "404"
      /\ client'.path = IF Len(url) > 1 THEN Delivery!unquoted(Tail(url)) ELSE <<>>
      /\ client'.lost = (Delivery!File(p) \notin stored)
      /\ client'.output = p /\ client'.file = client.file /\ client'.door = door
  BY <1>2 DEF ClientInv
<1>7. ASSUME PermanentOf(history, p)
      PROVE  /\ client'.stage = "local" /\ client'.path \in Seq(Plain)
             /\ Delivery!PathParts(client'.path) = FileOf(history, p).path
             /\ client'.lost <=> FileOf(history, p) \notin stored
  <2> DEFINE sub == Delivery!Item(p).sub
             last == Delivery!Item(p).file
  <2>1. /\ sub \in Seq(Spelt) /\ last \in Named /\ last \in Spelt
        /\ Delivery!File(p) = [type |-> "output", path |-> Append(Kept(sub), last)]
        /\ built = Delivery!quoted(Url(sub, last))
    <3>1. history \in Histories /\ Delivery!Permanent(p)
      BY <1>7, OfHistory DEF ParsedInv
    <3> QED
      BY <1>3, <3>1, PermanentIs DEF built
  <2> HIDE DEF sub, last
  <2>2. /\ url[1] = "outputs" /\ Len(url) > 1
        /\ Delivery!unquoted(Tail(url)) \in Seq(Plain)
        /\ Kept(Delivery!unquoted(Tail(url))) = Append(Kept(sub), last)
    <3>1. url \in {Delivery!quoted(Url(sub, last)),
                   Delivery!Follow(Delivery!quoted(Url(sub, last)))}
      BY <2>1
    <3> QED
      BY <2>1, <3>1, UrlLeads
  <2>3. client'.path = Delivery!unquoted(Tail(url)) /\ client'.stage = "local"
    BY <1>6, <2>2
  <2>4. Delivery!PathParts(client'.path) = Kept(client'.path)
    BY Zenon DEF Delivery!PathParts, Kept
  <2>5. Delivery!File(p) = FileOf(history, p)
    BY OfHistory
  <2>6. client'.lost <=> FileOf(history, p) \notin stored
    BY <1>6, <2>5, Zenon
  <2>7. Delivery!PathParts(client'.path) = FileOf(history, p).path
    BY <2>1, <2>2, <2>3, <2>4, <2>5
  <2> QED
    BY <2>2, <2>3, <2>6, <2>7, Zenon
<1>8. ClientInv'
  BY <1>3, <1>4, <1>6, <1>7 DEF ClientInv
<1> QED
  BY <1>5, <1>8

(* The path of a file is looked up as it is. *)
LEMMA FilePathIs ==
  ASSUME Delivery!DeliveryInputs, history \in Histories,
         NEW p \in ParsedOf(history), PermanentOf(history, p)
  PROVE  /\ FileOf(history, p) = [type |-> "output", path |-> FileOf(history, p).path]
         /\ FileOf(history, p).path # <<>>
         /\ ~Delivery!Ascends(FileOf(history, p).path)
         /\ Delivery!Follow(FileOf(history, p).path) = FileOf(history, p).path
<1> DEFINE path == FileOf(history, p).path
<1>1. Delivery!Permanent(p) /\ p \in Parsed /\ Delivery!File(p) = FileOf(history, p)
  BY OfHistory
<1>2. /\ FileOf(history, p) = [type |-> "output", path |-> path]
      /\ path \in Seq(Named) /\ path # <<>>
  BY <1>1, PermanentIs
<1> HIDE DEF path
<1>3. path \in Seq(Plain) /\ path \in Seq(Parts) /\ Kept(path) = path
  BY <1>2, NamedStays, Wide, Wider
<1>4. ~Delivery!Ascends(path) /\ Delivery!Follow(path) = path
  BY <1>3, PlainIs, FollowKept
<1> QED
  BY <1>2, <1>4 DEF path

(* What changes nothing but the answer keeps the rest. *)
LEMMA AnswerKeeps ==
  ASSUME ParsedInv, RegisterInv,
         UNCHANGED <<history, shared, stored, outputs, turn, register, assets, skipped>>
  PROVE  ParsedInv' /\ RegisterInv'
BY DEF ParsedInv, RegisterInv

(* The proxy answers with the local file if there is one. *)
LEMMA LocalKeeps ==
  ASSUME Delivery!DeliveryInputs, DeliveryInv, Delivery!ServeLocal
  PROVE  DeliveryInv'
<1> USE DEF DeliveryInv
<1> DEFINE parts == Delivery!PathParts(client.path)
           p == client.output
<1>1. /\ client.stage = "local" /\ client.door = "backend"
      /\ client' = [client EXCEPT
           !.stage = CASE parts = <<>> \/ Delivery!Ascends(parts) -> "400"
                       [] OTHER -> IF Delivery!IsFile(parts) THEN "200" ELSE "comfyui",
           !.file = IF Delivery!IsFile(parts) THEN [type |-> "output", path |-> parts]
                    ELSE NoOutput]
      /\ UNCHANGED <<history, shared, stored, outputs, turn, register, assets, skipped>>
  BY Zenon DEF Delivery!ServeLocal
<1> HIDE DEF parts
<1>2. /\ client' = [stage |-> client'.stage, door |-> client.door, output |-> p,
                    path |-> client.path, file |-> client'.file, lost |-> client.lost]
      /\ client'.stage = IF parts = <<>> \/ Delivery!Ascends(parts) THEN "400"
                         ELSE IF Delivery!IsFile(parts) THEN "200" ELSE "comfyui"
      /\ client'.file = IF Delivery!IsFile(parts) THEN [type |-> "output", path |-> parts]
                        ELSE NoOutput
      /\ client'.output = p /\ client'.path = client.path /\ client'.lost = client.lost
  BY <1>1 DEF ClientInv
<1>3. ParsedInv' /\ RegisterInv'
  BY <1>1, AnswerKeeps
<1>4. p \in ParsedOf(history)
  BY <1>1 DEF ClientInv
<1>5. ASSUME p # NoOutput, PermanentOf(history, p)
      PROVE  /\ client'.stage \in {"200", "comfyui"}
             /\ client'.stage = "200" => client'.file = FileOf(history, p)
             /\ client'.path \in Seq(Plain)
             /\ Delivery!PathParts(client'.path) = FileOf(history, p).path
             /\ FileOf(history, p) \notin stored => client.lost
  <2>1. parts = FileOf(history, p).path /\ (FileOf(history, p) \notin stored => client.lost)
    BY <1>1, <1>5 DEF ClientInv, parts
  <2>2. history \in Histories
    BY DEF ParsedInv
  <2>3. /\ FileOf(history, p) = [type |-> "output", path |-> parts]
        /\ parts # <<>> /\ ~Delivery!Ascends(parts)
    <3> HIDE DEF p
    <3> QED
      BY <1>4, <1>5, <2>1, <2>2, FilePathIs
  <2>4. Delivery!PathParts(client'.path) = parts /\ client'.path \in Seq(Plain)
    BY <1>1, <1>2, <1>5 DEF parts, ClientInv
  <2> QED
    BY <1>2, <2>1, <2>3, <2>4
<1>6. ClientInv'
  BY <1>1, <1>2, <1>4, <1>5 DEF ClientInv
<1> QED
  BY <1>3, <1>6

(* nginx answers with the file below its alias, or with none. *)
LEMMA AliasKeeps ==
  ASSUME Delivery!DeliveryInputs, DeliveryInv, Delivery!ServeAlias
  PROVE  DeliveryInv'
<1> USE DEF DeliveryInv
<1> DEFINE from_root == Delivery!Follow(<<"/">> \o (<<"outputs">> \o client.path))
           inside == from_root # <<>> /\ from_root[1] = "/"
           at == Tail(from_root)
           found == inside /\ Len(at) > 1 /\ at[1] = "outputs" /\ Delivery!IsFile(Tail(at))
           p == client.output
<1>1. /\ client.stage = "local" /\ client.door = "nginx"
      /\ client' = [client EXCEPT
           !.stage = IF found THEN "200" ELSE IF inside THEN "404" ELSE "400",
           !.file = IF found THEN [type |-> "output", path |-> Tail(at)] ELSE NoOutput]
      /\ UNCHANGED <<history, shared, stored, outputs, turn, register, assets, skipped>>
  BY Zenon DEF Delivery!ServeAlias
<1> HIDE DEF from_root, inside, at, found
<1>2. /\ client' = [stage |-> client'.stage, door |-> client.door, output |-> p,
                    path |-> client.path, file |-> client'.file, lost |-> client.lost]
      /\ client'.stage = IF found THEN "200" ELSE IF inside THEN "404" ELSE "400"
      /\ client'.file = IF found THEN [type |-> "output", path |-> Tail(at)] ELSE NoOutput
      /\ client'.output = p /\ client'.path = client.path /\ client'.lost = client.lost
      /\ client'.door = "nginx"
  BY <1>1 DEF ClientInv
<1>3. ParsedInv' /\ RegisterInv'
  BY <1>1, AnswerKeeps
<1>4. p \in ParsedOf(history)
  BY <1>1 DEF ClientInv
<1>5. ASSUME p # NoOutput, PermanentOf(history, p)
      PROVE  /\ client'.stage \in {"200", "404"}
             /\ client'.stage = "200" => client'.file = FileOf(history, p)
             /\ client'.stage = "404" => client.lost \/ ~shared
  <2> DEFINE path == FileOf(history, p).path
  <2>1. /\ client.path \in Seq(Plain) /\ Delivery!PathParts(client.path) = path
        /\ FileOf(history, p) \notin stored => client.lost
    BY <1>1, <1>5 DEF ClientInv
  <2>2. history \in Histories
    BY DEF ParsedInv
  <2>3. /\ FileOf(history, p) = [type |-> "output", path |-> path]
        /\ path # <<>> /\ Delivery!Follow(path) = path
    <3> HIDE DEF p
    <3> QED
      BY <1>4, <1>5, <2>2, FilePathIs
  <2> HIDE DEF path
  <2>4. Kept(client.path) = path
    BY <2>1, Zenon DEF Delivery!PathParts, Kept
  <2>5. \A e \in {"/", "outputs"} : <<e>> \in Seq(Plain) /\ Kept(<<e>>) = <<e>>
    <3>1. "/" \in Named /\ "outputs" \in Named
      BY DEF Named, Parts
    <3>2. <<"/">> \in Seq(Named) /\ <<"outputs">> \in Seq(Named)
      BY <3>1
    <3> QED
      BY <3>2, NamedStays
  <2>6. from_root = <<"/">> \o (<<"outputs">> \o path)
    <3> DEFINE below == <<"outputs">> \o client.path
    <3>1. below \in Seq(Plain) /\ <<"/">> \o below \in Seq(Plain)
      BY <2>1, <2>5
    <3>2. from_root = Kept(<<"/">> \o below)
      BY <3>1, FollowKept DEF from_root
    <3>3. Kept(below) = Kept(<<"outputs">>) \o Kept(client.path)
      BY <2>1, <2>5, KeptConcat
    <3> HIDE DEF below
    <3>4. Kept(<<"/">> \o below) = Kept(<<"/">>) \o Kept(below)
      BY <2>5, <3>1, KeptConcat
    <3> QED
      BY <2>4, <2>5, <3>2, <3>3, <3>4
  <2>7. path \in Seq(Plain) /\ Len(path) > 0
    <3>1. Kept(client.path) \in Seq(Named)
      BY <2>1, FollowKept
    <3>2. path \in Seq(Plain)
      BY <2>4, <3>1, NamedStays
    <3> QED
      BY <2>3, <3>2
  <2>8. inside /\ Len(at) > 1 /\ at[1] = "outputs" /\ Tail(at) = path
    <3>1. "/" \in Plain /\ "outputs" \in Plain
      BY DEF Plain, Parts
    <3>2. \A e \in Plain, s \in Seq(Plain) :
            /\ <<e>> \o s # <<>> /\ (<<e>> \o s)[1] = e /\ Tail(<<e>> \o s) = s
            /\ <<e>> \o s \in Seq(Plain) /\ Len(<<e>> \o s) = Len(s) + 1
      OBVIOUS
    <3>3. /\ <<"outputs">> \o path \in Seq(Plain) /\ Len(<<"outputs">> \o path) > 1
          /\ (<<"outputs">> \o path)[1] = "outputs" /\ Tail(<<"outputs">> \o path) = path
      BY <2>7, <3>1, <3>2
    <3>4. from_root # <<>> /\ from_root[1] = "/" /\ at = <<"outputs">> \o path
      BY <2>6, <3>1, <3>2, <3>3 DEF at
    <3> QED
      BY <3>3, <3>4 DEF inside
  <2>9. found <=> shared /\ FileOf(history, p) \in stored
    BY <2>3, <2>8 DEF found, Delivery!IsFile
  <2> QED
    BY <1>2, <2>1, <2>3, <2>8, <2>9
<1>6. ClientInv'
  BY <1>1, <1>2, <1>4, <1>5 DEF ClientInv
<1> QED
  BY <1>3, <1>6

(* Or it asks ComfyUI for the same file. *)
LEMMA ComfyUIKeeps ==
  ASSUME Delivery!DeliveryInputs, DeliveryInv, Delivery!ServeFromComfyUI
  PROVE  DeliveryInv'
<1> USE DEF DeliveryInv
<1> DEFINE p == client.output
           seen == Delivery!Viewed
<1>1. /\ client.stage = "comfyui"
      /\ \/ seen \in stored /\ client' = [client EXCEPT !.stage = "200", !.file = seen]
         \/ seen \notin stored /\ client' = [client EXCEPT !.stage = "404"]
         \/ client' = [client EXCEPT !.stage = "404", !.lost = TRUE]
      /\ UNCHANGED <<history, shared, stored, outputs, turn, register, assets, skipped>>
  BY Zenon DEF Delivery!ServeFromComfyUI
<1>2. ParsedInv' /\ RegisterInv'
  BY <1>1, AnswerKeeps
<1>3. p \in ParsedOf(history)
  BY <1>1 DEF ClientInv
<1>4. ASSUME p # NoOutput, PermanentOf(history, p)
      PROVE  seen = FileOf(history, p) /\ (FileOf(history, p) \notin stored => client.lost)
  <2>1. /\ Delivery!PathParts(client.path) = FileOf(history, p).path
        /\ FileOf(history, p) \notin stored => client.lost
    BY <1>1, <1>4 DEF ClientInv
  <2>2. history \in Histories
    BY DEF ParsedInv
  <2>3. FileOf(history, p) = [type |-> "output", path |-> FileOf(history, p).path]
    <3> HIDE DEF p
    <3> QED
      BY <1>3, <1>4, <2>2, FilePathIs
  <2> QED
    BY <2>1, <2>3 DEF Delivery!Viewed
<1> HIDE DEF seen
<1>5. ClientInv'
  BY <1>1, <1>3, <1>4 DEF ClientInv
<1> QED
  BY <1>2, <1>5

(* A file that vanishes is lost to the request under way. *)
LEMMA VanishKeeps ==
  ASSUME DeliveryInv, NEW gone \in stored, Delivery!Vanish(gone)
  PROVE  DeliveryInv'
<1> USE DEF DeliveryInv
<1>1. /\ stored' = stored \ {gone}
      /\ client' = IF client.output # NoOutput /\ client.stage \in {"local", "comfyui"}
                   THEN [client EXCEPT !.lost = @ \/ gone = FileOf(history, client.output)]
                   ELSE client
      /\ UNCHANGED <<history, shared, outputs, turn, register, assets, skipped>>
  BY OfHistory DEF Delivery!Vanish
<1>2. ParsedInv' /\ RegisterInv'
  BY <1>1 DEF ParsedInv, RegisterInv
<1>3. /\ client' = [stage |-> client.stage, door |-> client.door, output |-> client.output,
                    path |-> client.path, file |-> client.file, lost |-> client'.lost]
      /\ client'.lost = IF client.output # NoOutput /\ client.stage \in {"local", "comfyui"}
                        THEN client.lost \/ gone = FileOf(history, client.output)
                        ELSE client.lost
  BY <1>1 DEF ClientInv
<1>4. /\ client'.stage = client.stage /\ client'.output = client.output
      /\ client'.path = client.path /\ client'.file = client.file
      /\ client'.door = client.door
  BY <1>3
<1>5. ClientInv'
  BY <1>1, <1>3, <1>4 DEF ClientInv
<1> QED
  BY <1>2, <1>5

(* DeliveryInv is inductive. *)
LEMMA DeliveryNext ==
  ASSUME Delivery!DeliveryInputs, DeliveryInv, [Delivery!Next]_(Delivery!vars)
  PROVE  DeliveryInv'
<1>1. CASE UNCHANGED Delivery!vars
  BY <1>1 DEF Delivery!vars, DeliveryInv, ParsedInv, RegisterInv, ClientInv
<1>2. CASE Delivery!RegisterEnds
  BY <1>2 DEF Delivery!RegisterEnds, DeliveryInv, ParsedInv, RegisterInv, ClientInv
<1>3. CASE \E gone \in stored : Delivery!Vanish(gone)
  BY <1>3, VanishKeeps
<1> QED
  BY <1>1, <1>2, <1>3, ParseKeeps, RegisterKeeps, FollowKeeps, LocalKeeps, AliasKeeps,
     ComfyUIKeeps DEF Delivery!Next

(* Hence it holds of every behaviour. *)
LEMMA DeliveryHolds == Delivery!Spec => []DeliveryInv
<1>1. Delivery!Init => DeliveryInv
  BY DeliveryInit
<1>2. DeliveryInv /\ [Delivery!Next]_(Delivery!vars) => DeliveryInv'
  BY InputsAssumption, DeliveryNext
<1> QED
  BY <1>1, <1>2, PTL DEF Delivery!Spec

(* For any histories: the parser loses no output and repeats none, and      *)
(* keeps the order of the nodes and of their lists.                         *)
THEOREM OutputsAreParsed == Delivery!Spec => []ParsedOutputs
<1>1. DeliveryInv => ParsedOutputs
  <2>1. SUFFICES ASSUME DeliveryInv, register # "waiting"
                 PROVE  /\ {outputs[k] : k \in DOMAIN outputs} = Parsed
                        /\ \A j, k \in DOMAIN outputs : j < k => InOrder(outputs[j], outputs[k])
    BY Zenon DEF ParsedOutputs, Delivery!ParsedOutputs, Parsed, InOrder
  <2>2. Arranged(outputs, Parsed)
    BY <2>1, OfHistory DEF DeliveryInv, ParsedInv
  <2> QED
    BY <2>2 DEF Arranged, Members, Ordered
<1> QED
  BY <1>1, DeliveryHolds, PTL

(* For any histories and any escapes, with the files kept where the servers *)
(* look or not, and deleted at any time: a URL serves its output and no     *)
(* other file, by nginx only where it looks, and the worker registers the   *)
(* same file.                                                               *)
THEOREM UrlsServeOutputs == Delivery!Spec => []UrlServesOutput
<1>1. DeliveryInv => UrlServesOutput
  <2>1. ASSUME DeliveryInv
        PROVE  /\ client.output # NoOutput /\ Delivery!Permanent(client.output) =>
                    /\ client.stage = "200" => client.file = Delivery!File(client.output)
                    /\ client.stage \in {"400", "404"} =>
                         client.lost \/ (client.door = "nginx" /\ ~shared)
               /\ shared => \A p \in skipped :
                    Delivery!Permanent(p) => Delivery!File(p) \notin stored
    BY <2>1, OfHistory DEF DeliveryInv, ClientInv, RegisterInv
  <2>2. ASSUME DeliveryInv, register = "ended", NEW k \in DOMAIN outputs,
               Delivery!Permanent(outputs[k])
        PROVE  \/ outputs[k] \in skipped
               \/ \E path \in assets :
                    /\ Delivery!Follow(path) = Delivery!File(outputs[k]).path
                    /\ (\A j \in DOMAIN path : path[j] \notin DOMAIN Escapes)
                         => Delivery!url_for(path)
                              = Delivery!Follow(Delivery!build_output_url(outputs[k]))
    <3>1. k \in 1..Len(outputs) /\ k < turn
      BY <2>2 DEF DeliveryInv, ParsedInv, RegisterInv
    <3> QED
      BY <2>2, <3>1, OfHistory DEF DeliveryInv, RegisterInv, Registers
  <2> QED
    BY <2>1, <2>2 DEF UrlServesOutput, Delivery!UrlServesOutput
<1> QED
  BY <1>1, DeliveryHolds, PTL

(* The delivery keeps its types: what is listed are outputs of the history, *)
(* and every registered path resolves.                                      *)
THEOREM DeliveryIsTyped == Delivery!Spec => []Delivery!TypeOK
<1>1. DeliveryInv => Delivery!TypeOK
  <2> SUFFICES ASSUME DeliveryInv
               PROVE  Delivery!TypeOK
    OBVIOUS
  <2>1. ParsedOf(history) \subseteq Delivery!Places
    BY OfHistory DEF Parsed
  <2>2. \A k \in DOMAIN outputs : outputs[k] \in Delivery!Places /\ Delivery!Item(outputs[k]).ok
    BY OfHistory DEF DeliveryInv, ParsedInv, Members, Parsed
  <2> QED
    BY <2>1, <2>2 DEF DeliveryInv, ParsedInv, RegisterInv, ClientInv, Delivery!TypeOK
<1> QED
  BY <1>1, DeliveryHolds, PTL
=============================================================================
