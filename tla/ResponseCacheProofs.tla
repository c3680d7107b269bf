------------------------- MODULE ResponseCacheProofs -------------------------
(***************************************************************************)
(* Proofs about ResponseCache and Chunks, for any number of servers, any   *)
(* texts, limit, cap and clock: what is stored of a response is the whole  *)
(* of it, what is read back keeps to the limit as far as the code promises *)
(* it, the cache keeps to its cap, and a save evicts no more than it must. *)
(*                                                                         *)
(* The splitter and the cache are loops, folds in the modules.  A fold is  *)
(* recursive, and no theorem of a library says what it computes for an     *)
(* operator of ours; so the recursion of FoldLeft is unfolded here by well *)
(* founded induction on the naturals, once (FoldTrace), and every loop     *)
(* gets the two facts that follow: what it makes of nothing, and what one  *)
(* more element adds (the lemmas named ...Fold).  What a loop keeps is     *)
(* then proved by induction on the sequence it runs over (SeqInduct).      *)
(***************************************************************************)
EXTENDS ResponseCache, SequenceTheorems, WellFoundedInduction, TLAPS

-----------------------------------------------------------------------------
(* Induction on the naturals, and the recursion behind FoldLeft.           *)

(* The order of the naturals, as a relation.                               *)
Less == {x \in Nat \X Nat : x[1] < x[2]}

(* It is well founded.                                                     *)
LEMMA LessWF == IsWellFoundedOn(Less, Nat)
<1>1. IsWellFoundedOn(OpToRel(<, Nat), Nat)
  BY NatLessThanWellFounded
<1>2. OpToRel(<, Nat) = Less
  BY DEF OpToRel, Less
<1> QED
  BY <1>1, <1>2

(* A set of naturals has a least element.                                  *)
LEMMA NatMin ==
  ASSUME NEW T, T \subseteq Nat, T # {}
  PROVE  \E x \in T : \A y \in T : x <= y
<1>1. PICK x \in T : \A y \in T : ~ (<<y, x>> \in Less)
  BY LessWF, WFMin
<1>2. ASSUME NEW y \in T PROVE x <= y
  <2>1. x \in Nat /\ y \in Nat
    OBVIOUS
  <2>2. ~(y < x)
    BY <1>1, <2>1 DEF Less
  <2> QED
    BY <2>1, <2>2
<1> QED
  BY <1>2

(* Induction up to n: what holds of 0, and of the next number, holds.      *)
LEMMA Induct ==
  ASSUME NEW n \in Nat, NEW T, 0 \in T,
         \A i \in 0 .. n - 1 : i \in T => i + 1 \in T
  PROVE  \A i \in 0 .. n : i \in T
<1> DEFINE U == {i \in 0 .. n : i \notin T}
<1> SUFFICES ASSUME U # {} PROVE FALSE
  OBVIOUS
<1>0. U \subseteq Nat
  OBVIOUS
<1>1. PICK x \in U : \A y \in U : x <= y
  <2> HIDE DEF U
  <2> QED
    BY <1>0, NatMin
<1>2. x # 0 /\ x - 1 \in 0 .. n - 1
  BY <1>1
<1>3. x - 1 \in T
  BY <1>1, <1>2
<1> QED
  BY <1>1, <1>2, <1>3

(* The element FoldLeft takes next is the largest index left.              *)
LEMMA MaxOf ==
  ASSUME NEW n \in Nat, NEW t \in SUBSET (1 .. n), t # {}
  PROVE  Max(t) \in t /\ \A y \in t : y <= Max(t)
<1>1. \E x \in t : \A y \in t : x >= y
  <2> DEFINE U == {n - y : y \in t}
  <2>1. U \subseteq Nat /\ U # {}
    <3>1. ASSUME NEW y \in t PROVE n - y \in Nat
      <4>1. y \in 1 .. n
        OBVIOUS
      <4> QED
        BY <4>1
    <3> QED
      BY <3>1
  <2>2. PICK u \in U : \A w \in U : u <= w
    BY <2>1, NatMin
  <2>3. PICK x \in t : u = n - x
    OBVIOUS
  <2>4. ASSUME NEW y \in t PROVE x >= y
    <3>1. n - y \in U
      OBVIOUS
    <3> QED
      BY <2>2, <2>3, <3>1
  <2> QED
    BY <2>4
<1> QED
  BY <1>1 DEF Max

(* f is the fold of Op over the sets of indices.                           *)
IsFold(f, R, b, n, Op) ==
  /\ f \in [SUBSET (1 .. n) -> R]
  /\ \A t \in SUBSET (1 .. n) :
            f[t] = IF t = {} THEN b ELSE Op[<<f[t \ {Max(t)}], Max(t)>>]

(* c obeys the equation FoldLeft chooses its function by, as far as its    *)
(* values are of the right kind.                                           *)
FoldsLike(c, R, b, n, Op) ==
  /\ c[{}] = b
  /\ \A t \in SUBSET (1 .. n) : (t # {} /\ c[t \ {Max(t)}] \in R)
        => c[t] = Op[<<c[t \ {Max(t)}], Max(t)>>]

(* g holds the accumulator after each element.                             *)
IsTrace(g, R, b, n, Op) ==
  /\ g \in [0 .. n -> R]
  /\ g[0] = b
  /\ \A i \in 1 .. n : g[i] = Op[<<g[i - 1], i>>]

(* The last of them is what the fold returns.                              *)
Computes(g, c, n) == g[n] = c[1 .. n]

(* There is a function that obeys the equation.                            *)
LEMMA FoldExists ==
  ASSUME NEW R, NEW b \in R, NEW n \in Nat, NEW Op \in [R \X (1 .. n) -> R]
  PROVE  \E f : IsFold(f, R, b, n, Op)
<1> DEFINE Good(m, f) == \A t \in SUBSET (1 .. m) :
              f[t] = IF t = {} THEN b ELSE Op[<<f[t \ {Max(t)}], Max(t)>>]
           T == {m \in 0 .. n : \E f \in [SUBSET (1 .. m) -> R] : Good(m, f)}
<1>1. 0 \in T
  <2> DEFINE f == [t \in SUBSET (1 .. 0) |-> b]
  <2>1. \A t \in SUBSET (1 .. 0) : t = {}
    <3>1. 1 .. 0 = {}
      OBVIOUS
    <3> QED
      BY <3>1
  <2>2. f \in [SUBSET (1 .. 0) -> R] /\ Good(0, f)
    BY <2>1
  <2>3. \E h \in [SUBSET (1 .. 0) -> R] : Good(0, h)
    <3> HIDE DEF f, Good
    <3> QED
      BY <2>2
  <2>4. 0 \in 0 .. n
    OBVIOUS
  <2> HIDE DEF Good
  <2> QED
    BY <2>3, <2>4
<1>2. ASSUME NEW m \in 0 .. n - 1, m \in T PROVE m + 1 \in T
  <2>1. PICK f \in [SUBSET (1 .. m) -> R] : Good(m, f)
    BY <1>2
  <2> DEFINE g == [t \in SUBSET (1 .. m + 1) |->
                      IF m + 1 \in t THEN Op[<<f[t \ {m + 1}], m + 1>>] ELSE f[t]]
  <2>2. ASSUME NEW t \in SUBSET (1 .. m + 1)
        PROVE  /\ g[t] \in R
               /\ g[t] = IF t = {} THEN b ELSE Op[<<g[t \ {Max(t)}], Max(t)>>]
    <3>1. CASE m + 1 \in t
      <4>1. Max(t) = m + 1
        <5>1. Max(t) \in t /\ \A y \in t : y <= Max(t)
          BY <3>1, MaxOf, m + 1 \in Nat
        <5>2. Max(t) \in 1 .. m + 1
          BY <5>1
        <5>3. m + 1 <= Max(t)
          BY <3>1, <5>1
        <5> QED
          BY <5>2, <5>3
      <4>2. t \ {m + 1} \in SUBSET (1 .. m) /\ t # {}
        BY <3>1
      <4>3. g[t \ {m + 1}] = f[t \ {m + 1}] /\ f[t \ {m + 1}] \in R
        BY <4>2
      <4>4. g[t] = Op[<<f[t \ {m + 1}], m + 1>>]
        BY <3>1
      <4>5. <<f[t \ {m + 1}], m + 1>> \in R \X (1 .. n)
        BY <4>3
      <4> QED
        BY <4>1, <4>2, <4>3, <4>4, <4>5
    <3>2. CASE m + 1 \notin t
      <4>1. t \in SUBSET (1 .. m)
        BY <3>2
      <4>2. g[t] = f[t] /\ f[t] \in R
        BY <3>2, <4>1
      <4>3. CASE t # {}
        <5>1. m \in Nat
          OBVIOUS
        <5>2. t \ {Max(t)} \in SUBSET (1 .. m) /\ m + 1 \notin t \ {Max(t)}
          BY <3>2, <4>1
        <5>3. g[t \ {Max(t)}] = f[t \ {Max(t)}]
          BY <5>2
        <5> QED
          BY <2>1, <4>1, <4>2, <5>3, <4>3
      <4> QED
        BY <2>1, <4>1, <4>2, <4>3
    <3> QED
      BY <3>1, <3>2
  <2>3. g \in [SUBSET (1 .. m + 1) -> R] /\ Good(m + 1, g)
    <3>1. g \in [SUBSET (1 .. m + 1) -> R]
      BY <2>2
    <3> HIDE DEF g
    <3> QED
      BY <2>2, <3>1
  <2> HIDE DEF g, Good
  <2>4. m + 1 \in 0 .. n
    OBVIOUS
  <2> QED
    BY <2>3, <2>4
<1> HIDE DEF T
<1>3. n \in T
  BY <1>1, <1>2, Induct
<1> QED
  BY <1>3 DEF T, IsFold

(* Whatever function is chosen, it takes the steps of the loop.            *)
LEMMA FoldTrace ==
  ASSUME NEW R, NEW b \in R, NEW n \in Nat, NEW Op \in [R \X (1 .. n) -> R], NEW c,
         FoldsLike(c, R, b, n, Op)
  PROVE  \E g : IsTrace(g, R, b, n, Op) /\ Computes(g, c, n)
<1> DEFINE g == [i \in 0 .. n |-> c[1 .. i]]
           T == {i \in 0 .. n : g[i] \in R}
<1>1. g[0] = b
  <2>1. 1 .. 0 = {}
    OBVIOUS
  <2> QED
    BY <2>1 DEF FoldsLike
<1>2. ASSUME NEW i \in 0 .. n - 1, i \in T
      PROVE  g[i + 1] = Op[<<g[i], i + 1>>] /\ i + 1 \in T
  <2> DEFINE t == 1 .. i + 1
  <2>1. t \in SUBSET (1 .. n) /\ t # {} /\ i + 1 \in t
    <3>1. i + 1 \in 1 .. i + 1 /\ \A x \in 1 .. i + 1 : x \in 1 .. n
      OBVIOUS
    <3> QED
      BY <3>1
  <2>2. Max(t) = i + 1
    <3>1. Max(t) \in t /\ \A y \in t : y <= Max(t)
      BY <2>1, MaxOf
    <3> QED
      BY <2>1, <3>1
  <2>3. t \ {i + 1} = 1 .. i
    OBVIOUS
  <2>4. c[1 .. i] \in R
    BY <1>2
  <2>5. c[t] = Op[<<c[1 .. i], i + 1>>]
    <3> HIDE DEF t
    <3> QED
      BY <2>1, <2>2, <2>3, <2>4 DEF FoldsLike
  <2>6. g[i + 1] = c[t] /\ g[i] = c[1 .. i]
    OBVIOUS
  <2>7. <<c[1 .. i], i + 1>> \in R \X (1 .. n)
    BY <2>4
  <2>8. Op[<<c[1 .. i], i + 1>>] \in R
    BY <2>7
  <2>9. i + 1 \in 0 .. n
    OBVIOUS
  <2> HIDE DEF g, t
  <2> QED
    BY <2>5, <2>6, <2>8, <2>9
<1> HIDE DEF g
<1>3. \A i \in 0 .. n : i \in T
  <2>1. 0 \in T
    BY <1>1
  <2> HIDE DEF T
  <2> QED
    BY <2>1, <1>2, Induct
<1>4. g \in [0 .. n -> R]
  BY <1>3 DEF g
<1>5. ASSUME NEW i \in 1 .. n PROVE g[i] = Op[<<g[i - 1], i>>]
  <2>1. i - 1 \in 0 .. n - 1 /\ (i - 1) + 1 = i
    OBVIOUS
  <2> QED
    BY <2>1, <1>2, <1>3
<1>6. Computes(g, c, n)
  BY DEF g, Computes
<1> QED
  BY <1>1, <1>4, <1>5, <1>6 DEF IsTrace

-----------------------------------------------------------------------------
(* Induction on sequences, and concatenation.                              *)

(* Two traces start alike and step alike.                                  *)
InStep(g, h, n) ==
  /\ g[0] = h[0]
  /\ \A i \in 1 .. n : g[i - 1] = h[i - 1] => g[i] = h[i]

(* Two traces are equal.                                                   *)
Agree(g, h, n) == \A i \in 0 .. n : g[i] = h[i]

(* Traces that start and step alike are equal.                             *)
LEMMA SameTrace ==
  ASSUME NEW n \in Nat, NEW g, NEW h, InStep(g, h, n)
  PROVE  Agree(g, h, n)
<1> DEFINE T == {i \in 0 .. n : g[i] = h[i]}
<1>1. 0 \in T
  BY DEF InStep
<1>2. ASSUME NEW i \in 0 .. n - 1, i \in T PROVE i + 1 \in T
  <2>1. i + 1 \in 1 .. n /\ (i + 1) - 1 = i
    OBVIOUS
  <2> QED
    BY <1>2, <2>1 DEF InStep
<1> HIDE DEF T
<1>3. \A i \in 0 .. n : i \in T
  BY <1>1, <1>2, Induct
<1> QED
  BY <1>3 DEF T, Agree

(* Induction on sequences: what holds of none, and of one element more,    *)
(* holds of every sequence.                                                *)
LEMMA SeqInduct ==
  ASSUME NEW A, NEW T, << >> \in T,
         \A s \in Seq(A) : \A x \in A : s \in T => Append(s, x) \in T
  PROVE  Seq(A) \subseteq T
<1> SUFFICES ASSUME NEW z \in Seq(A) PROVE z \in T
  OBVIOUS
<1> DEFINE n == Len(z)
           U == {i \in 0 .. n : \A s \in Seq(A) : Len(s) = i => s \in T}
<1>1. 0 \in U
  OBVIOUS
<1>2. ASSUME NEW i \in 0 .. n - 1, i \in U PROVE i + 1 \in U
  <2>1. ASSUME NEW s \in Seq(A), Len(s) = i + 1 PROVE s \in T
    <3>1. s # << >>
      BY <2>1
    <3>2. PICK t \in Seq(A), x \in A : s = Append(t, x)
      BY <3>1, SequenceEmptyOrAppend
    <3>3. Len(t) = i
      BY <2>1, <3>2
    <3> QED
      BY <1>2, <3>2, <3>3
  <2> QED
    BY <2>1
<1> HIDE DEF U
<1>3. n \in Nat /\ n \in 0 .. n
  OBVIOUS
<1> HIDE DEF n
<1>4. n \in U
  BY <1>1, <1>2, <1>3, Induct
<1> QED
  BY <1>4 DEF U, n

(* FlattenSeq, as a trace of concatenations.                               *)
LEMMA FlattenTrace ==
  ASSUME NEW A, NEW s \in Seq(Seq(A))
  PROVE  \E g \in [0 .. Len(s) -> Seq(A)] :
            /\ g[0] = << >>
            /\ \A i \in 1 .. Len(s) : g[i] = g[i - 1] \o s[i]
            /\ FlattenSeq(s) = g[Len(s)]
<1> DEFINE n == Len(s)
           R == Seq(A)
           b == << >>
           Op == [p \in R \X (1 .. n) |-> p[1] \o s[p[2]]]
<1>1. n \in Nat /\ b \in R /\ \A i \in 1 .. n : s[i] \in R
  OBVIOUS
<1>2. Op \in [R \X (1 .. n) -> R]
  OBVIOUS
<1>3. \A r \in R, i \in 1 .. n : Op[<<r, i>>] = r \o s[i]
  OBVIOUS
<1> HIDE DEF n, R, b, Op
<1>4. PICK f : IsFold(f, R, b, n, Op)
  BY <1>1, <1>2, FoldExists
<1>5. FoldsLike(f, R, b, n, Op)
  BY <1>4 DEF IsFold, FoldsLike
<1>6. PICK g : IsTrace(g, R, b, n, Op) /\ Computes(g, f, n)
  BY <1>1, <1>2, <1>5, FoldTrace
<1>7. ASSUME NEW i \in 1 .. n PROVE g[i - 1] \in R /\ g[i] = g[i - 1] \o s[i]
  <2>1. i - 1 \in 0 .. n
    BY <1>1
  <2> QED
    BY <1>3, <1>6, <2>1 DEF IsTrace
<1>8. FlattenSeq(s) = g[n]
  <2>1. CASE n = 0
    BY <1>6, <2>1 DEF IsTrace, FlattenSeq, n, b
  <2>2. CASE n # 0
    <3> DEFINE Body(c) == [i \in 1 .. Len(s) |-> IF i = 1 THEN s[i] ELSE c[i - 1] \o s[i]]
               flatten == CHOOSE c : c = Body(c)
               h == [i \in 1 .. Len(s) |-> g[i]]
    <3>1. FlattenSeq(s) = flatten[Len(s)]
      BY <2>2 DEF FlattenSeq, n
    <3>2. h = Body(h)
      <4>1. ASSUME NEW i \in 1 .. Len(s) PROVE h[i] = Body(h)[i]
        <5>1. CASE i = 1
          <6>1. g[0] = << >> /\ s[1] \in Seq(A) /\ << >> \o s[1] = s[1]
            BY <1>1, <1>6, <5>1 DEF IsTrace, b, R, n
          <6>2. g[i - 1] = g[0]
            BY <5>1
          <6> QED
            BY <1>7, <5>1, <6>1, <6>2 DEF n
        <5>2. CASE i # 1
          <6>1. i - 1 \in 1 .. Len(s)
            BY <5>2
          <6> QED
            BY <1>7, <5>2, <6>1 DEF n
        <5> QED
          BY <5>1, <5>2
      <4> QED
        BY <4>1
    <3>3. flatten = Body(flatten)
      BY <3>2
    <3> HIDE DEF flatten, h
    <3> DEFINE c == [i \in 0 .. n |-> IF i = 0 THEN b ELSE flatten[i]]
    <3>4. c[0] = g[0]
      BY <1>1, <1>6 DEF IsTrace
    <3>5. ASSUME NEW i \in 1 .. n, c[i - 1] = g[i - 1] PROVE c[i] = g[i]
      <4>0. c[i] = flatten[i]
        BY <1>1
      <4>1. CASE i = 1
        <5>1. g[0] = << >> /\ s[1] \in Seq(A) /\ << >> \o s[1] = s[1]
          BY <1>1, <1>6, <4>1 DEF IsTrace, b, R, n
        <5>2. g[i - 1] = g[0]
          BY <4>1
        <5> QED
          BY <1>7, <3>3, <4>0, <4>1, <5>1, <5>2 DEF n
      <4>2. CASE i # 1
        <5>1. c[i - 1] = flatten[i - 1]
          BY <4>2, <1>1
        <5>2. flatten[i] = flatten[i - 1] \o s[i]
          BY <3>3, <4>2 DEF n
        <5> QED
          BY <1>7, <3>5, <4>0, <5>1, <5>2
      <4> QED
        BY <4>1, <4>2
    <3>6. c[n] = flatten[n]
      BY <1>1, <2>2
    <3> HIDE DEF c
    <3>7. \A i \in 0 .. n : c[i] = g[i]
      <4>1. InStep(c, g, n)
        BY <3>4, <3>5 DEF InStep
      <4> QED
        BY <1>1, <4>1, SameTrace DEF Agree
    <3> QED
      BY <1>1, <3>1, <3>6, <3>7 DEF n
  <2> QED
    BY <2>1, <2>2
<1> QED
  BY <1>6, <1>7, <1>8 DEF IsTrace, n, R, b

(* Flattening sequences of A gives a sequence of A.                        *)
LEMMA FlattenType ==
  ASSUME NEW A, NEW s \in Seq(Seq(A)) PROVE FlattenSeq(s) \in Seq(A)
<1>1. PICK g \in [0 .. Len(s) -> Seq(A)] : FlattenSeq(s) = g[Len(s)]
  BY FlattenTrace
<1>2. Len(s) \in 0 .. Len(s)
  OBVIOUS
<1> QED
  BY <1>1, <1>2

(* Nothing flattens to nothing.                                            *)
LEMMA FlattenEmpty == FlattenSeq(<< >>) = << >>
BY DEF FlattenSeq

(* One more sequence is concatenated to the rest.                          *)
LEMMA FlattenAppend ==
  ASSUME NEW A, NEW s \in Seq(Seq(A)), NEW x \in Seq(A)
  PROVE  FlattenSeq(Append(s, x)) = FlattenSeq(s) \o x
<1> DEFINE t == Append(s, x)
           n == Len(s)
<1>1. t \in Seq(Seq(A)) /\ Len(t) = n + 1 /\ t[n + 1] = x /\ n \in Nat
      /\ \A i \in 1 .. n : t[i] = s[i]
  OBVIOUS
<1> HIDE DEF t
<1>2. PICK g \in [0 .. n -> Seq(A)] :
            /\ g[0] = << >>
            /\ \A i \in 1 .. n : g[i] = g[i - 1] \o s[i]
            /\ FlattenSeq(s) = g[n]
  BY FlattenTrace
<1>3. PICK h \in [0 .. Len(t) -> Seq(A)] :
            /\ h[0] = << >>
            /\ \A i \in 1 .. Len(t) : h[i] = h[i - 1] \o t[i]
            /\ FlattenSeq(t) = h[Len(t)]
  BY <1>1, FlattenTrace
<1> HIDE DEF n
<1>4. ASSUME NEW i \in 1 .. n, g[i - 1] = h[i - 1] PROVE g[i] = h[i]
  <2>1. i \in 1 .. Len(t) /\ t[i] = s[i]
    BY <1>1
  <2> QED
    BY <1>2, <1>3, <1>4, <2>1
<1>5. g[n] = h[n]
  <2>1. InStep(g, h, n)
    BY <1>2, <1>3, <1>4 DEF InStep
  <2>2. Agree(g, h, n)
    BY <1>1, <2>1, SameTrace
  <2> QED
    BY <1>1, <2>2 DEF Agree
<1>6. h[n + 1] = h[n] \o x
  <2>1. n + 1 \in 1 .. Len(t) /\ (n + 1) - 1 = n
    BY <1>1
  <2> QED
    BY <1>1, <1>3, <2>1
<1> QED
  BY <1>1, <1>2, <1>3, <1>5, <1>6 DEF t

(* Flattening distributes over concatenation.                              *)
LEMMA FlattenConcat ==
  ASSUME NEW A, NEW s \in Seq(Seq(A)), NEW t \in Seq(Seq(A))
  PROVE  FlattenSeq(s \o t) = FlattenSeq(s) \o FlattenSeq(t)
<1> DEFINE B == Seq(A)
           T == {u \in Seq(B) : FlattenSeq(s \o u) = FlattenSeq(s) \o FlattenSeq(u)}
<1>1. << >> \in T
  <2>1. s \o << >> = s /\ << >> \in Seq(B)
    BY ConcatEmptySeq
  <2>2. FlattenSeq(s) \o << >> = FlattenSeq(s)
    BY FlattenType, ConcatEmptySeq
  <2> QED
    BY <2>1, <2>2, FlattenEmpty
<1>2. ASSUME NEW u \in Seq(B), NEW x \in B, u \in T PROVE Append(u, x) \in T
  <2>1. s \o u \in Seq(B) /\ Append(u, x) \in Seq(B)
        /\ s \o Append(u, x) = Append(s \o u, x)
    OBVIOUS
  <2>2. FlattenSeq(s \o u) = FlattenSeq(s) \o FlattenSeq(u)
    BY <1>2
  <2>3. FlattenSeq(Append(s \o u, x)) = FlattenSeq(s \o u) \o x
    BY <2>1, FlattenAppend
  <2>4. FlattenSeq(Append(u, x)) = FlattenSeq(u) \o x
    BY FlattenAppend
  <2>5. FlattenSeq(s) \in Seq(A) /\ FlattenSeq(u) \in Seq(A) /\ x \in Seq(A)
    BY FlattenType
  <2>6. (FlattenSeq(s) \o FlattenSeq(u)) \o x = FlattenSeq(s) \o (FlattenSeq(u) \o x)
    BY <2>5, ConcatAssociative
  <2> QED
    BY <2>1, <2>2, <2>3, <2>4, <2>6
<1>3. Seq(B) \subseteq T
  <2> HIDE DEF T, B
  <2> QED
    BY <1>1, <1>2, SeqInduct
<1> QED
  BY <1>3

-----------------------------------------------------------------------------
(* Texts, their bytes and their sizes.                                     *)

(* The bytes of each line.                                                 *)
LinesOf(text) == [i \in DOMAIN text |-> text[i].bytes]

(* The bytes of sections one after the other.                              *)
Whole(ss) == Bytes(FlattenSeq(ss))

(* Concatenation of bytes is associative.                                  *)
LEMMA IntAssoc ==
  ASSUME NEW u \in Seq(Int), NEW v \in Seq(Int), NEW w \in Seq(Int)
  PROVE  (u \o v) \o w = u \o (v \o w)
<1> DEFINE A == Int
<1>1. u \in Seq(A) /\ v \in Seq(A) /\ w \in Seq(A)
  OBVIOUS
<1> HIDE DEF A
<1> QED
  BY <1>1, ConcatAssociative

(* A line has bytes.                                                       *)
LEMMA LineType ==
  ASSUME NEW line \in Lines
  PROVE line.bytes \in Seq(Int) /\ Len(line.bytes) \in Nat \ {0} /\ line.kind \in Kinds
BY DEF Lines

(* The lines of a text with one line more.                                 *)
LEMMA LinesOfAppend ==
  ASSUME NEW t \in Texts, NEW line \in Lines
  PROVE  /\ LinesOf(t) \in Seq(Seq(Int))
         /\ LinesOf(Append(t, line)) = Append(LinesOf(t), line.bytes)
<1>1. ASSUME NEW u \in Texts
      PROVE  /\ LinesOf(u) \in Seq(Seq(Int)) /\ Len(LinesOf(u)) = Len(u)
             /\ \A i \in 1 .. Len(u) : LinesOf(u)[i] = u[i].bytes
  <2>1. DOMAIN u = 1 .. Len(u) /\ Len(u) \in Nat
        /\ \A i \in 1 .. Len(u) : u[i].bytes \in Seq(Int)
    BY LineType DEF Texts
  <2>2. LinesOf(u) = [i \in 1 .. Len(u) |-> u[i].bytes]
    BY <2>1 DEF LinesOf
  <2> QED
    BY <2>1, <2>2
<1>2. Append(t, line) \in Texts /\ Len(Append(t, line)) = Len(t) + 1
      /\ Append(t, line)[Len(t) + 1] = line
      /\ \A i \in 1 .. Len(t) : Append(t, line)[i] = t[i]
  BY DEF Texts
<1> DEFINE a == LinesOf(Append(t, line))
           p == LinesOf(t)
           c == Append(p, line.bytes)
           n == Len(t)
<1>3. p \in Seq(Seq(Int)) /\ Len(p) = n /\ n \in Nat /\ line.bytes \in Seq(Int)
      /\ \A i \in 1 .. n : p[i] = t[i].bytes
  BY <1>1, LineType DEF Texts
<1>4. /\ c \in Seq(Seq(Int)) /\ Len(c) = n + 1 /\ c[n + 1] = line.bytes
      /\ \A i \in 1 .. n : c[i] = p[i]
  <2> HIDE DEF p, n
  <2> QED
    BY <1>3
<1>5. /\ a \in Seq(Seq(Int)) /\ Len(a) = n + 1 /\ a[n + 1] = line.bytes
      /\ \A i \in 1 .. n : a[i] = t[i].bytes
  <2>1. \A i \in 1 .. n + 1 : a[i] = Append(t, line)[i].bytes
    BY <1>1, <1>2
  <2>2. Len(a) = n + 1 /\ a \in Seq(Seq(Int))
    BY <1>1, <1>2
  <2> HIDE DEF a, n
  <2>3. n + 1 \in 1 .. n + 1 /\ \A i \in 1 .. n : i \in 1 .. n + 1
    BY <1>3
  <2> QED
    BY <1>2, <2>1, <2>2, <2>3 DEF n
<1> HIDE DEF p, n
<1> HIDE DEF a, c
<1>6. a = c
  <2>1. \A i \in 1 .. n + 1 : a[i] = c[i]
    <3>1. \A i \in 1 .. n + 1 : i \in 1 .. n \/ i = n + 1
      BY <1>3
    <3> QED
      BY <1>3, <1>4, <1>5, <3>1
  <2> QED
    BY <1>4, <1>5, <2>1, SeqEqual
<1> QED
  BY <1>3, <1>6 DEF a, c, p

(* The bytes of a text with one line more.                                 *)
LEMMA BytesFold ==
  /\ << >> \in Texts /\ Bytes(<< >>) = << >>
  /\ \A t \in Texts : Bytes(t) \in Seq(Int)
  /\ \A t \in Texts : \A line \in Lines :
        Append(t, line) \in Texts /\ Bytes(Append(t, line)) = Bytes(t) \o line.bytes
<1>1. << >> \in Texts /\ LinesOf(<< >>) = << >>
  BY DEF Texts, LinesOf
<1>2. Bytes(<< >>) = << >>
  BY <1>1, FlattenEmpty DEF Bytes, LinesOf
<1>3. ASSUME NEW t \in Texts PROVE Bytes(t) \in Seq(Int)
  <2>1. LinesOf(t) \in Seq(Seq(Int))
    BY LineType DEF Texts, LinesOf
  <2> QED
    BY <2>1, FlattenType DEF Bytes, LinesOf
<1>4. ASSUME NEW t \in Texts, NEW line \in Lines
      PROVE  Append(t, line) \in Texts /\ Bytes(Append(t, line)) = Bytes(t) \o line.bytes
  <2>1. Append(t, line) \in Texts
    BY DEF Texts
  <2>2. FlattenSeq(Append(LinesOf(t), line.bytes)) = FlattenSeq(LinesOf(t)) \o line.bytes
    BY LinesOfAppend, LineType, FlattenAppend
  <2>3. \A u : Bytes(u) = FlattenSeq(LinesOf(u))
    BY DEF Bytes, LinesOf
  <2> QED
    BY <2>1, <2>2, <2>3, LinesOfAppend
<1> QED
  BY <1>1, <1>2, <1>3, <1>4

(* The bytes of two texts.                                                 *)
LEMMA BytesConcat ==
  ASSUME NEW t \in Texts, NEW u \in Texts
  PROVE  t \o u \in Texts /\ Bytes(t \o u) = Bytes(t) \o Bytes(u)
<1> DEFINE T == {w \in Texts : t \o w \in Texts /\ Bytes(t \o w) = Bytes(t) \o Bytes(w)}
<1>1. << >> \in T
  <2>1. t \o << >> = t
    BY ConcatEmptySeq DEF Texts
  <2>2. Bytes(t) \o << >> = Bytes(t)
    BY BytesFold, ConcatEmptySeq
  <2> QED
    BY <2>1, <2>2, BytesFold
<1>2. ASSUME NEW w \in Texts, NEW line \in Lines, w \in T PROVE Append(w, line) \in T
  <2>1. t \o w \in Texts /\ t \o Append(w, line) = Append(t \o w, line)
    BY DEF Texts
  <2>2. Bytes(Append(t \o w, line)) = Bytes(t \o w) \o line.bytes
        /\ Append(t \o w, line) \in Texts
    BY <2>1, BytesFold
  <2>3. Bytes(Append(w, line)) = Bytes(w) \o line.bytes /\ Append(w, line) \in Texts
    BY BytesFold
  <2>4. Bytes(t) \in Seq(Int) /\ Bytes(w) \in Seq(Int) /\ line.bytes \in Seq(Int)
    BY BytesFold, LineType
  <2>5. (Bytes(t) \o Bytes(w)) \o line.bytes = Bytes(t) \o (Bytes(w) \o line.bytes)
    BY <2>4, IntAssoc
  <2>6. Bytes(t \o w) = Bytes(t) \o Bytes(w)
    BY <1>2
  <2> QED
    BY <2>1, <2>2, <2>3, <2>5, <2>6
<1>3. Texts \subseteq T
  <2> HIDE DEF T
  <2> QED
    BY <1>1, <1>2, SeqInduct DEF Texts
<1> QED
  BY <1>3

(* The sizes that follow.                                                  *)
LEMMA SizeFold ==
  /\ Size(<< >>) = 0
  /\ \A t \in Texts : Size(t) \in Nat
  /\ \A t \in Texts : \A line \in Lines : Size(Append(t, line)) = Size(t) + Len(line.bytes)
  /\ \A t, u \in Texts : Size(t \o u) = Size(t) + Size(u)
  /\ \A line \in Lines : <<line>> \in Texts /\ Size(<<line>>) = Len(line.bytes)
                         /\ Bytes(<<line>>) = line.bytes
<1>1. Size(<< >>) = 0
  BY BytesFold DEF Size
<1>2. \A t \in Texts : Size(t) \in Nat
  BY BytesFold DEF Size
<1>3. ASSUME NEW t \in Texts, NEW line \in Lines
      PROVE  Size(Append(t, line)) = Size(t) + Len(line.bytes)
  <2>1. Bytes(t) \in Seq(Int) /\ line.bytes \in Seq(Int)
    BY BytesFold, LineType
  <2> QED
    BY <2>1, BytesFold, ConcatProperties DEF Size
<1>4. ASSUME NEW t \in Texts, NEW u \in Texts PROVE Size(t \o u) = Size(t) + Size(u)
  <2>1. Bytes(t) \in Seq(Int) /\ Bytes(u) \in Seq(Int)
    BY BytesFold
  <2> QED
    BY <2>1, BytesConcat, ConcatProperties DEF Size
<1>5. ASSUME NEW line \in Lines
      PROVE  <<line>> \in Texts /\ Size(<<line>>) = Len(line.bytes)
             /\ Bytes(<<line>>) = line.bytes
  <2>1. Append(<< >>, line) = <<line>>
    OBVIOUS
  <2>2. << >> \o line.bytes = line.bytes
    BY LineType, ConcatEmptySeq
  <2> QED
    BY <2>1, <2>2, BytesFold DEF Size
<1> QED
  BY <1>1, <1>2, <1>3, <1>4, <1>5

(* A text that is not empty holds a byte.                                  *)
LEMMA SizePositive ==
  ASSUME NEW t \in Texts, t # << >> PROVE Size(t) > 0 /\ Bytes(t) # << >>
<1>1. PICK u \in Texts, line \in Lines : t = Append(u, line)
  BY SequenceEmptyOrAppend DEF Texts
<1>2. Size(t) = Size(u) + Len(line.bytes) /\ Size(u) \in Nat
  BY <1>1, SizeFold
<1>3. Size(t) > 0
  BY <1>2, LineType
<1> QED
  BY <1>3 DEF Size

(* The bytes of sections with one section more.                            *)
LEMMA WholeFold ==
  /\ Whole(<< >>) = << >>
  /\ \A ss \in Seq(Texts) : Whole(ss) \in Seq(Int) /\ FlattenSeq(ss) \in Texts
  /\ \A ss \in Seq(Texts) : \A t \in Texts : Whole(Append(ss, t)) = Whole(ss) \o Bytes(t)
  /\ \A ss, tt \in Seq(Texts) : Whole(ss \o tt) = Whole(ss) \o Whole(tt)
<1>1. Whole(<< >>) = << >>
  BY FlattenEmpty, BytesFold DEF Whole
<1>2. \A ss \in Seq(Texts) : FlattenSeq(ss) \in Texts
  BY FlattenType DEF Texts
<1>3. \A ss \in Seq(Texts) : Whole(ss) \in Seq(Int)
  BY <1>2, BytesFold DEF Whole
<1>4. ASSUME NEW ss \in Seq(Texts), NEW t \in Texts
      PROVE  Whole(Append(ss, t)) = Whole(ss) \o Bytes(t)
  <2>1. FlattenSeq(Append(ss, t)) = FlattenSeq(ss) \o t
    BY FlattenAppend DEF Texts
  <2> QED
    BY <1>2, <2>1, BytesConcat DEF Whole
<1>5. ASSUME NEW ss \in Seq(Texts), NEW tt \in Seq(Texts)
      PROVE  Whole(ss \o tt) = Whole(ss) \o Whole(tt)
  <2>1. FlattenSeq(ss \o tt) = FlattenSeq(ss) \o FlattenSeq(tt)
    BY FlattenConcat DEF Texts
  <2> QED
    BY <1>2, <2>1, BytesConcat DEF Whole
<1> QED
  BY <1>1, <1>2, <1>3, <1>4, <1>5

(* Building a section                                                      *)
Building == [out : Seq(Texts), cur : Texts]

(* The bytes a splitter holds: of the sections that are closed and of the  *)
(* one it builds.                                                          *)
Held(acc) == Whole(acc.out) \o Bytes(acc.cur)

(* Closing the section drops no byte and adds none.                        *)
LEMMA FlushedWhole ==
  ASSUME NEW acc \in Building
  PROVE  Flushed(acc) \in Seq(Texts) /\ Whole(Flushed(acc)) = Held(acc)
         /\ Held(acc) \in Seq(Int)
<1>1. acc.out \in Seq(Texts) /\ acc.cur \in Texts
  BY DEF Building
<1>2. Whole(acc.out) \in Seq(Int) /\ Bytes(acc.cur) \in Seq(Int)
  BY <1>1, WholeFold, BytesFold
<1>3. Held(acc) \in Seq(Int)
  BY <1>2 DEF Held
<1>4. CASE acc.cur = << >>
  <2>1. Whole(acc.out) \o << >> = Whole(acc.out)
    BY <1>2, ConcatEmptySeq
  <2> QED
    BY <1>1, <1>3, <1>4, <2>1, BytesFold DEF Flushed, Held
<1>5. CASE acc.cur # << >>
  BY <1>1, <1>3, <1>5, WholeFold DEF Flushed, Held
<1> QED
  BY <1>4, <1>5

(* Nor does closing it and opening another.                                *)
LEMMA HeldAppend ==
  ASSUME NEW acc \in Building, NEW line \in Lines
  PROVE  /\ [acc EXCEPT !.cur = Append(@, line)] \in Building
         /\ Held([acc EXCEPT !.cur = Append(@, line)]) = Held(acc) \o line.bytes
<1>1. acc.out \in Seq(Texts) /\ acc.cur \in Texts
  BY DEF Building
<1> DEFINE new == [acc EXCEPT !.cur = Append(@, line)]
<1>2. new \in Building /\ new.out = acc.out /\ new.cur = Append(acc.cur, line)
  BY <1>1, BytesFold DEF Building
<1>3. Bytes(new.cur) = Bytes(acc.cur) \o line.bytes
  BY <1>1, <1>2, BytesFold
<1>4. (Whole(acc.out) \o Bytes(acc.cur)) \o line.bytes
        = Whole(acc.out) \o (Bytes(acc.cur) \o line.bytes)
  BY <1>1, WholeFold, BytesFold, LineType, IntAssoc
<1> QED
  BY <1>2, <1>3, <1>4 DEF Held

-----------------------------------------------------------------------------
(* Cutting a long line.                                                    *)

(* The lesser of two numbers.                                              *)
Least(x, y) == IF x < y THEN x ELSE y

(* The first bytes of a line, and the next.                                *)
LEMMA Prefix ==
  ASSUME NEW A, NEW s \in Seq(A), NEW i \in 1 .. Len(s)
  PROVE  /\ SubSeq(s, 1, i - 1) \in Seq(A)
         /\ Len(SubSeq(s, 1, i - 1)) = i - 1
         /\ \A k \in 1 .. i - 1 : SubSeq(s, 1, i - 1)[k] = s[k]
         /\ SubSeq(s, 1, i) = Append(SubSeq(s, 1, i - 1), s[i])
<1> DEFINE p == SubSeq(s, 1, i - 1)
           q == SubSeq(s, 1, i)
<1>1. p \in Seq(A) /\ Len(p) = i - 1 /\ \A k \in 1 .. i - 1 : p[k] = s[k]
  OBVIOUS
<1>2. q \in Seq(A) /\ Len(q) = i /\ \A k \in 1 .. i : q[k] = s[k]
  OBVIOUS
<1> HIDE DEF p, q
<1>3. Append(p, s[i]) = q
  BY <1>1, <1>2
<1> QED
  BY <1>1, <1>3 DEF p, q

(* The pieces of a line are within the cap, and together they are the      *)
(* line.                                                                   *)
LEMMA CutLineWhole ==
  ASSUME NEW line \in Lines, NEW cap \in Nat \ {0}
  PROVE  /\ CutLine(line, cap) \in Texts \ {<< >>}
         /\ \A k \in DOMAIN CutLine(line, cap) : Len(CutLine(line, cap)[k].bytes) <= cap
         /\ Bytes(CutLine(line, cap)) = line.bytes
<1> DEFINE n == Len(line.bytes)
           q == (n + cap - 1) \div cap
           pieces == CutLine(line, cap)
<1>1. n \in Nat \ {0} /\ line.bytes \in Seq(Int)
  BY LineType
<1>2. q \in Nat \ {0} /\ n <= q * cap /\ (q - 1) * cap < n
  <2> HIDE DEF n
  <2> QED
    BY <1>1
<1>3. pieces = [k \in 1 .. q |->
        [kind  |-> IF k = 1 THEN line.kind ELSE "top",
         bytes |-> SubSeq(line.bytes, (k - 1) * cap + 1, Least(k * cap, n))]]
  BY DEF CutLine, Least
<1> HIDE DEF pieces, q, n
<1>4. ASSUME NEW k \in 1 .. q
      PROVE  /\ pieces[k] \in Lines /\ Len(pieces[k].bytes) <= cap
             /\ pieces[k].bytes = SubSeq(line.bytes, (k - 1) * cap + 1, Least(k * cap, n))
  <2>1. (k - 1) * cap \in Nat /\ k * cap \in Nat /\ k * cap = (k - 1) * cap + cap
    BY <1>2
  <2>2. (k - 1) * cap <= (q - 1) * cap
    BY <1>2
  <2>3. (k - 1) * cap < n
    BY <1>1, <1>2, <2>1, <2>2
  <2> DEFINE from == (k - 1) * cap + 1
             to == Least(k * cap, n)
             bytes == SubSeq(line.bytes, from, to)
  <2>4. from \in 1 .. n /\ to \in from .. n /\ to - from + 1 <= cap
    BY <1>1, <2>1, <2>3 DEF Least
  <2>5. pieces[k] = [kind |-> IF k = 1 THEN line.kind ELSE "top", bytes |-> bytes]
    BY <1>3
  <2> HIDE DEF from, to
  <2>6. bytes \in Seq(Int) /\ Len(bytes) = to - from + 1
    BY <1>1, <2>4 DEF n
  <2>7. pieces[k].kind \in Kinds /\ pieces[k].bytes = bytes
    <3> HIDE DEF bytes
    <3>1. line.kind \in Kinds /\ "top" \in Kinds
      BY LineType DEF Kinds
    <3> QED
      BY <2>5, <3>1
  <2>8. bytes # << >>
    <3>1. to - from + 1 > 0
      BY <1>1, <2>4
    <3> HIDE DEF bytes
    <3> QED
      BY <2>6, <3>1
  <2>9. pieces[k] \in Lines
    BY <2>5, <2>6, <2>7, <2>8 DEF Lines
  <2> QED
    BY <2>4, <2>6, <2>7, <2>9 DEF from, to
<1>5. pieces \in Texts /\ Len(pieces) = q /\ DOMAIN pieces = 1 .. q
  <2>1. pieces \in [1 .. q -> Lines]
    BY <1>3, <1>4
  <2> QED
    BY <1>2, <2>1 DEF Texts
<1> DEFINE Upto(k) == SubSeq(line.bytes, 1, Least(k * cap, n))
           T == {k \in 0 .. q : Bytes(SubSeq(pieces, 1, k)) = Upto(k)}
<1>6. 0 \in T
  <2>1. SubSeq(pieces, 1, 0) = << >>
    BY <1>5 DEF Texts
  <2>2. Least(0 * cap, n) = 0
    BY <1>1 DEF Least
  <2>3. SubSeq(line.bytes, 1, 0) = << >>
    BY <1>1
  <2>4. Upto(0) = << >> /\ 0 \in 0 .. q
    BY <1>2, <2>2, <2>3
  <2> HIDE DEF Upto
  <2> QED
    BY <2>1, <2>4, BytesFold
<1>7. ASSUME NEW k \in 0 .. q - 1, k \in T PROVE k + 1 \in T
  <2> DEFINE p == SubSeq(pieces, 1, k)
             m == k * cap
             e == Least((k + 1) * cap, n)
  <2>1. k + 1 \in 1 .. q /\ (k + 1) - 1 = k
    BY <1>2
  <2>2. p \in Texts /\ SubSeq(pieces, 1, k + 1) = Append(p, pieces[k + 1])
    BY <1>5, <2>1, Prefix DEF Texts
  <2>3. Bytes(SubSeq(pieces, 1, k + 1)) = Bytes(p) \o pieces[k + 1].bytes
    BY <1>4, <2>1, <2>2, BytesFold
  <2>4. m \in Nat /\ (k + 1) * cap = m + cap
    BY <1>2
  <2>5. m < n
    <3>1. m <= (q - 1) * cap
      BY <1>2
    <3> QED
      BY <1>1, <1>2, <2>4, <3>1
  <2>6. Bytes(p) = SubSeq(line.bytes, 1, m)
    BY <1>7, <2>5 DEF Least
  <2>7. pieces[k + 1].bytes = SubSeq(line.bytes, m + 1, e)
    BY <1>4, <2>1
  <2>8. m \in 0 .. n /\ e \in m .. n
    BY <1>1, <2>4, <2>5 DEF Least
  <2> HIDE DEF m, e, p
  <2>9. SubSeq(line.bytes, 1, m) \o SubSeq(line.bytes, m + 1, e) = SubSeq(line.bytes, 1, e)
    <3>1. 1 \in 1 .. Len(line.bytes) + 1 /\ m \in 1 - 1 .. Len(line.bytes) /\ e \in m .. Len(line.bytes)
      BY <1>1, <2>8 DEF n
    <3> DEFINE A == Int
    <3>2. line.bytes \in Seq(A)
      BY <1>1
    <3> HIDE DEF A
    <3> QED
      BY <3>1, <3>2, ConcatAdjacentSubSeq
  <2>10. Upto(k + 1) = SubSeq(line.bytes, 1, e) /\ k + 1 \in 0 .. q
    BY <2>1 DEF e
  <2> HIDE DEF Upto
  <2> QED
    BY <2>3, <2>6, <2>7, <2>9, <2>10
<1> HIDE DEF T
<1>8. q \in T
  BY <1>2, <1>6, <1>7, Induct
<1>9. SubSeq(pieces, 1, q) = pieces /\ Upto(q) = line.bytes
  <2>1. SubSeq(pieces, 1, Len(pieces)) = pieces
    BY <1>5, SubSeqFull DEF Texts
  <2>2. Least(q * cap, n) = n
    BY <1>1, <1>2 DEF Least
  <2>3. SubSeq(line.bytes, 1, Len(line.bytes)) = line.bytes
    BY <1>1, SubSeqFull
  <2> QED
    BY <1>5, <2>1, <2>2, <2>3 DEF n
<1> QED
  BY <1>2, <1>4, <1>5, <1>8, <1>9 DEF T, pieces

(* Every line in a section of its own: the whole is the same.              *)
Alone(t) == [k \in 1 .. Len(t) |-> <<t[k]>>]

(* Pieces in sections of their own hold the bytes of the pieces.           *)
LEMMA AloneWhole ==
  \A t \in Texts : Alone(t) \in Seq(Texts) /\ Whole(Alone(t)) = Bytes(t)
<1>1. ASSUME NEW t \in Texts
      PROVE  Alone(t) \in Seq(Texts) /\ Len(Alone(t)) = Len(t) /\ Len(t) \in Nat
             /\ \A k \in 1 .. Len(t) : Alone(t)[k] = <<t[k]>>
  <2>1. Len(t) \in Nat /\ \A k \in 1 .. Len(t) : t[k] \in Lines
    BY DEF Texts
  <2>2. \A k \in 1 .. Len(t) : <<t[k]>> \in Texts
    BY <2>1, SizeFold
  <2> QED
    BY <2>1, <2>2 DEF Alone
<1> DEFINE T == {t \in Texts : Whole(Alone(t)) = Bytes(t)}
<1>2. << >> \in T
  <2>1. Alone(<< >>) = << >>
    BY DEF Alone
  <2> QED
    BY <2>1, WholeFold, BytesFold
<1>3. ASSUME NEW t \in Texts, NEW line \in Lines, t \in T PROVE Append(t, line) \in T
  <2> DEFINE u == Append(t, line)
             n == Len(t)
             c == Append(Alone(t), <<line>>)
  <2>1. u \in Texts /\ Len(u) = n + 1 /\ n \in Nat /\ u[n + 1] = line
        /\ \A k \in 1 .. n : u[k] = t[k]
    BY DEF Texts
  <2>2. <<line>> \in Texts /\ Bytes(<<line>>) = line.bytes
    BY SizeFold
  <2> HIDE DEF u
  <2>3. Alone(u) = c
    <3>1. Alone(u) \in Seq(Texts) /\ Len(Alone(u)) = n + 1
          /\ \A k \in 1 .. n + 1 : Alone(u)[k] = <<u[k]>>
      BY <1>1, <2>1
    <3>2. c \in Seq(Texts) /\ Len(c) = n + 1 /\ c[n + 1] = <<line>>
          /\ \A k \in 1 .. n : c[k] = <<t[k]>>
      BY <1>1, <2>2
    <3> HIDE DEF c, n
    <3>3. \A k \in 1 .. n + 1 : Alone(u)[k] = c[k]
      <4>1. \A k \in 1 .. n + 1 : k \in 1 .. n \/ k = n + 1
        BY <2>1
      <4> QED
        BY <2>1, <3>1, <3>2, <4>1
    <3> QED
      BY <3>1, <3>2, <3>3, SeqEqual
  <2>4. Whole(c) = Whole(Alone(t)) \o Bytes(<<line>>)
    BY <1>1, <2>2, WholeFold
  <2>5. Bytes(u) = Bytes(t) \o line.bytes
    BY BytesFold DEF u
  <2> QED
    BY <1>3, <2>1, <2>2, <2>3, <2>4, <2>5 DEF u
<1>4. Texts \subseteq T
  <2> HIDE DEF T
  <2> QED
    BY <1>2, <1>3, SeqInduct DEF Texts
<1> QED
  BY <1>1, <1>4

-----------------------------------------------------------------------------
(* What one step of a loop of the splitter keeps.                          *)

(* Sections within a cap.                                                  *)
InCap(ss, cap) == \A k \in DOMAIN ss : Size(ss[k]) <= cap

(* And the one being built.                                                *)
Fits(acc, cap) == InCap(acc.out, cap) /\ Size(acc.cur) <= cap

(* One section more, or several.                                           *)
LEMMA InCapFold ==
  ASSUME NEW ss \in Seq(Texts), NEW cap \in Nat
  PROVE  /\ InCap(<< >>, cap)
         /\ \A t \in Texts : InCap(ss, cap) /\ Size(t) <= cap <=> InCap(Append(ss, t), cap)
         /\ \A tt \in Seq(Texts) : InCap(ss, cap) /\ InCap(tt, cap) => InCap(ss \o tt, cap)
<1>1. InCap(<< >>, cap)
  BY DEF InCap
<1>2. ASSUME NEW t \in Texts, InCap(ss, cap), Size(t) <= cap
      PROVE  InCap(Append(ss, t), cap)
  <2>1. \A k \in DOMAIN Append(ss, t) :
           Append(ss, t)[k] = t \/ (k \in DOMAIN ss /\ Append(ss, t)[k] = ss[k])
    OBVIOUS
  <2> QED
    BY <1>2, <2>1 DEF InCap
<1>4. ASSUME NEW t \in Texts, InCap(Append(ss, t), cap)
      PROVE  InCap(ss, cap) /\ Size(t) <= cap
  <2>1. /\ Append(ss, t)[Len(ss) + 1] = t /\ Len(ss) + 1 \in DOMAIN Append(ss, t)
        /\ \A k \in DOMAIN ss : k \in DOMAIN Append(ss, t) /\ Append(ss, t)[k] = ss[k]
    OBVIOUS
  <2> QED
    BY <1>4, <2>1 DEF InCap
<1>3. ASSUME NEW tt \in Seq(Texts), InCap(ss, cap), InCap(tt, cap)
      PROVE  InCap(ss \o tt, cap)
  <2>1. \A k \in DOMAIN (ss \o tt) :
           \/ k \in DOMAIN ss /\ (ss \o tt)[k] = ss[k]
           \/ k - Len(ss) \in DOMAIN tt /\ (ss \o tt)[k] = tt[k - Len(ss)]
    OBVIOUS
  <2> QED
    BY <1>3, <2>1 DEF InCap
<1> QED
  BY <1>1, <1>2, <1>3, <1>4

(* Closing a section within the cap keeps within it.                       *)
LEMMA FlushedFits ==
  ASSUME NEW acc \in Building, NEW cap \in Nat, Fits(acc, cap)
  PROVE  InCap(Flushed(acc), cap)
<1>1. acc.out \in Seq(Texts) /\ acc.cur \in Texts
  BY DEF Building
<1> QED
  BY <1>1, InCapFold DEF Flushed, Fits

(* A line put into a section of its own, or into the one being built.      *)
LEMMA HeldNext ==
  ASSUME NEW acc \in Building, NEW line \in Lines
  PROVE  /\ [out |-> Flushed(acc), cur |-> <<line>>] \in Building
         /\ Held([out |-> Flushed(acc), cur |-> <<line>>]) = Held(acc) \o line.bytes
<1>1. Flushed(acc) \in Seq(Texts) /\ Whole(Flushed(acc)) = Held(acc)
  BY FlushedWhole
<1>2. <<line>> \in Texts /\ Bytes(<<line>>) = line.bytes
  BY SizeFold
<1> QED
  BY <1>1, <1>2 DEF Building, Held

(* A structural step keeps every byte.                                     *)
LEMMA PlaceHolds ==
  ASSUME NEW acc \in Building, NEW text \in Texts, NEW i \in 1 .. Len(text)
  PROVE  /\ Place(acc, text, i) \in Building
         /\ Held(Place(acc, text, i)) = Held(acc) \o text[i].bytes
<1>1. text[i] \in Lines
  BY DEF Texts
<1> QED
  BY <1>1, HeldNext, HeldAppend DEF Place

(* A step of the packer keeps every byte, and the cap.                     *)
LEMMA PackHolds ==
  ASSUME NEW acc \in Building, NEW line \in Lines, NEW cap \in Nat \ {0}
  PROVE  /\ Pack(acc, line, cap) \in Building
         /\ Held(Pack(acc, line, cap)) = Held(acc) \o line.bytes
         /\ Fits(acc, cap) => Fits(Pack(acc, line, cap), cap)
<1> DEFINE pieces == CutLine(line, cap)
           q == Len(pieces)
           last == pieces[q]
           whole == [k \in 1 .. q - 1 |-> <<pieces[k]>>]
           open == IF whole = << >> THEN acc
                   ELSE [out |-> Flushed(acc) \o whole, cur |-> << >>]
           front == SubSeq(pieces, 1, q - 1)
<1>1. /\ pieces \in Texts /\ q \in Nat \ {0} /\ Bytes(pieces) = line.bytes
      /\ \A k \in 1 .. q : pieces[k] \in Lines /\ Len(pieces[k].bytes) <= cap
  <2>1. pieces \in Texts /\ pieces # << >> /\ Bytes(pieces) = line.bytes
        /\ \A k \in DOMAIN pieces : Len(pieces[k].bytes) <= cap
    BY CutLineWhole
  <2> HIDE DEF pieces
  <2> QED
    BY <2>1 DEF Texts
<1>2. Pack(acc, line, cap) =
        IF Size(open.cur) + Len(last.bytes) > cap
        THEN [out |-> Flushed(open), cur |-> <<last>>]
        ELSE [open EXCEPT !.cur = Append(@, last)]
  BY DEF Pack
<1> HIDE DEF pieces
<1>3. front \in Texts /\ pieces = Append(front, last) /\ Len(front) = q - 1
      /\ \A k \in 1 .. q - 1 : front[k] = pieces[k]
  <2>0. pieces \in Seq(Lines) /\ q \in 1 .. Len(pieces)
    BY <1>1 DEF Texts
  <2>1. SubSeq(pieces, 1, q) = pieces
    BY <2>0, SubSeqFull
  <2>2. front \in Texts /\ SubSeq(pieces, 1, q) = Append(front, last)
    BY <2>0, Prefix DEF Texts
  <2>3. Len(front) = q - 1 /\ \A k \in 1 .. q - 1 : front[k] = pieces[k]
    BY <2>0, Prefix
  <2> QED
    BY <2>1, <2>2, <2>3
<1>4. whole = Alone(front)
  <2> HIDE DEF front, q
  <2> QED
    BY <1>3 DEF Alone
<1>5. last \in Lines /\ Len(last.bytes) <= cap /\ Len(last.bytes) \in Nat
  BY <1>1, LineType
<1> HIDE DEF q, last, front, whole
<1>6. Bytes(front) \o last.bytes = line.bytes
  BY <1>1, <1>3, <1>5, BytesFold
<1>7. whole \in Seq(Texts) /\ Whole(whole) = Bytes(front)
  BY <1>3, <1>4, AloneWhole
<1>8. InCap(whole, cap)
  <2>1. \A k \in DOMAIN whole : Size(whole[k]) <= cap
    <3>1. \A k \in 1 .. q - 1 : Size(<<pieces[k]>>) <= cap
      BY <1>1, SizeFold
    <3> QED
      BY <3>1 DEF whole
  <2> QED
    BY <2>1 DEF InCap
<1>9. acc.out \in Seq(Texts) /\ acc.cur \in Texts /\ Held(acc) \in Seq(Int)
      /\ Flushed(acc) \in Seq(Texts) /\ Whole(Flushed(acc)) = Held(acc)
  BY FlushedWhole DEF Building
<1>10. /\ open \in Building /\ Held(open) = Held(acc) \o Bytes(front)
       /\ Fits(acc, cap) => Fits(open, cap)
  <2>1. CASE whole = << >>
    <3>1. Bytes(front) = << >>
      BY <1>7, <2>1, WholeFold
    <3>2. Held(acc) \o << >> = Held(acc)
      BY <1>9, ConcatEmptySeq
    <3> QED
      BY <2>1, <3>1, <3>2
  <2>2. CASE whole # << >>
    <3> DEFINE out == Flushed(acc) \o whole
    <3>1. out \in Seq(Texts) /\ Whole(out) = Held(acc) \o Bytes(front)
      <4>1. out \in Seq(Texts)
        BY <1>7, <1>9
      <4>2. Whole(out) = Whole(Flushed(acc)) \o Whole(whole)
        BY <1>7, <1>9, WholeFold
      <4> QED
        BY <1>7, <1>9, <4>1, <4>2
    <3>2. Whole(out) \o << >> = Whole(out)
      BY <3>1, WholeFold, ConcatEmptySeq
    <3>3. Fits(acc, cap) => InCap(out, cap)
      BY <1>7, <1>8, <1>9, FlushedFits, InCapFold
    <3>4. open = [out |-> out, cur |-> << >>]
      BY <2>2
    <3> HIDE DEF out, open
    <3>5. open \in Building /\ Held(open) = Whole(out) \o << >>
      BY <3>1, <3>4, BytesFold DEF Building, Held
    <3>6. Fits(acc, cap) => Fits(open, cap)
      BY <3>3, <3>4, SizeFold DEF Fits
    <3> QED
      BY <3>1, <3>2, <3>5, <3>6
  <2> QED
    BY <2>1, <2>2
<1> HIDE DEF open
<1>11. (Held(acc) \o Bytes(front)) \o last.bytes = Held(acc) \o line.bytes
  <2>1. Bytes(front) \in Seq(Int) /\ last.bytes \in Seq(Int)
    BY <1>3, <1>5, BytesFold, LineType
  <2>2. (Held(acc) \o Bytes(front)) \o last.bytes = Held(acc) \o (Bytes(front) \o last.bytes)
    BY <1>9, <2>1, IntAssoc
  <2> QED
    BY <1>6, <2>2
<1>12. CASE Size(open.cur) + Len(last.bytes) > cap
  <2>1. Pack(acc, line, cap) = [out |-> Flushed(open), cur |-> <<last>>]
    BY <1>2, <1>12
  <2>2. Fits(open, cap) => InCap(Flushed(open), cap)
    BY <1>10, FlushedFits
  <2>3. Size(<<last>>) <= cap
    BY <1>5, SizeFold
  <2> DEFINE new == [out |-> Flushed(open), cur |-> <<last>>]
  <2>4. Fits(open, cap) => Fits(new, cap)
    BY <2>2, <2>3 DEF Fits
  <2>5. new \in Building /\ Held(new) = Held(open) \o last.bytes
    BY <1>5, <1>10, HeldNext
  <2>6. Pack(acc, line, cap) = new
    BY <2>1
  <2> HIDE DEF new
  <2> QED
    BY <1>10, <1>11, <2>4, <2>5, <2>6
<1>13. CASE ~(Size(open.cur) + Len(last.bytes) > cap)
  <2> DEFINE new == [open EXCEPT !.cur = Append(@, last)]
  <2>1. Pack(acc, line, cap) = new
    BY <1>2, <1>13
  <2>2. open.cur \in Texts /\ new.out = open.out /\ new.cur = Append(open.cur, last)
    BY <1>10 DEF Building
  <2>3. Size(new.cur) = Size(open.cur) + Len(last.bytes) /\ Size(open.cur) \in Nat
    BY <1>5, <2>2, SizeFold
  <2>4. Fits(open, cap) => Fits(new, cap)
    BY <1>5, <1>13, <2>2, <2>3 DEF Fits
  <2>5. new \in Building /\ Held(new) = Held(open) \o last.bytes
    BY <1>5, <1>10, HeldAppend
  <2> HIDE DEF new
  <2> QED
    BY <1>10, <1>11, <2>1, <2>4, <2>5
<1> QED
  BY <1>12, <1>13

(* A step of a merging pass keeps every byte, and the cap.                 *)
LEMMA MergeHolds ==
  ASSUME NEW acc \in Building, NEW s \in Texts, NEW cap \in Nat \ {0}
  PROVE  /\ Merge(acc, s, cap) \in Building
         /\ Held(Merge(acc, s, cap)) = Held(acc) \o Bytes(s)
         /\ Fits(acc, cap) /\ Size(s) <= cap => Fits(Merge(acc, s, cap), cap)
<1> DEFINE new == Merge(acc, s, cap)
<1>1. acc.out \in Seq(Texts) /\ acc.cur \in Texts
  BY DEF Building
<1>2. /\ Whole(acc.out) \in Seq(Int) /\ Bytes(acc.cur) \in Seq(Int) /\ Bytes(s) \in Seq(Int)
      /\ Size(acc.cur) \in Nat /\ Size(s) \in Nat
  BY <1>1, WholeFold, BytesFold, SizeFold
<1>3. CASE Size(acc.cur) < MinChunk /\ Size(acc.cur) + Size(s) <= cap
  <2>1. new = [acc EXCEPT !.cur = @ \o s]
    BY <1>3 DEF Merge
  <2>2. acc.cur \o s \in Texts /\ Bytes(acc.cur \o s) = Bytes(acc.cur) \o Bytes(s)
        /\ Size(acc.cur \o s) = Size(acc.cur) + Size(s)
    BY <1>1, BytesConcat, SizeFold
  <2>3. new \in Building /\ new.out = acc.out /\ new.cur = acc.cur \o s
    BY <1>1, <2>1, <2>2 DEF Building
  <2>4. Held(acc) \o Bytes(s) = Whole(acc.out) \o (Bytes(acc.cur) \o Bytes(s))
    BY <1>2, IntAssoc DEF Held
  <2> HIDE DEF new
  <2>5. Held(new) = Held(acc) \o Bytes(s)
    BY <2>2, <2>3, <2>4 DEF Held
  <2>6. Fits(acc, cap) => Fits(new, cap)
    BY <1>3, <2>2, <2>3 DEF Fits
  <2> QED
    BY <2>3, <2>5, <2>6 DEF new
<1>4. CASE ~(Size(acc.cur) < MinChunk /\ Size(acc.cur) + Size(s) <= cap)
  <2>1. new = [out |-> Append(acc.out, acc.cur), cur |-> s]
    BY <1>4 DEF Merge
  <2>2. Append(acc.out, acc.cur) \in Seq(Texts)
        /\ Whole(Append(acc.out, acc.cur)) = Held(acc)
    BY <1>1, WholeFold DEF Held
  <2>3. Fits(acc, cap) => InCap(Append(acc.out, acc.cur), cap)
    BY <1>1, InCapFold DEF Fits
  <2> HIDE DEF new
  <2>4. new \in Building /\ Held(new) = Held(acc) \o Bytes(s)
    BY <2>1, <2>2 DEF Building, Held
  <2>5. Fits(acc, cap) /\ Size(s) <= cap => Fits(new, cap)
    BY <2>1, <2>3 DEF Fits
  <2> QED
    BY <2>4, <2>5 DEF new
<1> QED
  BY <1>3, <1>4

-----------------------------------------------------------------------------
(* The loops of the splitter.                                              *)

(* The loops of the splitter, from the state each starts in.               *)
StructuralFrom(text, s) == FoldLeft(LAMBDA acc, i : Place(acc, text, i), Nothing, s)
FixedFrom(cap, s) == FoldLeft(LAMBDA acc, line : Pack(acc, line, cap), Nothing, s)
Opened(first) == [out |-> << >>, cur |-> first]
MergeFrom(first, cap, s) ==
  FoldLeft(LAMBDA acc, section : Merge(acc, section, cap), Opened(first), s)

(* A splitter starts with nothing.                                         *)
LEMMA NothingHeld ==
  /\ Nothing \in Building /\ Held(Nothing) = << >>
  /\ \A cap \in Nat : Fits(Nothing, cap)
  /\ \A first \in Texts : /\ Opened(first) \in Building /\ Held(Opened(first)) = Bytes(first)
                          /\ \A cap \in Nat : Size(first) <= cap => Fits(Opened(first), cap)
<1>1. << >> \in Seq(Texts) /\ << >> \in Texts
  BY DEF Texts
<1>2. Bytes(<< >>) = << >> /\ Whole(<< >>) = << >> /\ Size(<< >>) = 0
  BY BytesFold, WholeFold, SizeFold
<1>3. \A first \in Texts : << >> \o Bytes(first) = Bytes(first)
  BY BytesFold, ConcatEmptySeq
<1>4. << >> \o << >> = << >>
  BY <1>2, <1>3, <1>1
<1>5. \A cap : InCap(<< >>, cap)
  BY DEF InCap
<1>6. Nothing \in Building /\ Nothing.out = << >> /\ Nothing.cur = << >>
  BY <1>1 DEF Nothing, Building
<1>7. ASSUME NEW first \in Texts
      PROVE  /\ Opened(first) \in Building
             /\ Opened(first).out = << >> /\ Opened(first).cur = first
  BY <1>1 DEF Opened, Building
<1>8. Held(Nothing) = << >> /\ \A cap \in Nat : Fits(Nothing, cap)
  BY <1>2, <1>4, <1>5, <1>6 DEF Held, Fits
<1>9. ASSUME NEW first \in Texts
      PROVE  /\ Held(Opened(first)) = Bytes(first)
             /\ \A cap \in Nat : Size(first) <= cap => Fits(Opened(first), cap)
  BY <1>2, <1>3, <1>5, <1>7 DEF Held, Fits
<1> QED
  BY <1>6, <1>7, <1>8, <1>9

(* splitTOONOrText, and splitJSON: the loop over the lines.                *)
LEMMA StructuralTrace ==
  ASSUME NEW text \in Texts, NEW s \in Seq(1 .. Len(text))
  PROVE  \E g \in [0 .. Len(s) -> Building] :
            /\ g[0] = Nothing
            /\ \A i \in 1 .. Len(s) : g[i] = Place(g[i - 1], text, s[i])
            /\ StructuralFrom(text, s) = g[Len(s)]
<1> DEFINE n == Len(s)
           R == Building
           b == Nothing
           Op == [p \in R \X (1 .. n) |-> Place(p[1], text, s[p[2]])]
           Body(c) == [t \in SUBSET (DOMAIN s) |->
                         IF t = {} THEN b ELSE Place(c[t \ {Max(t)}], text, s[Max(t)])]
           iter == CHOOSE c : c = Body(c)
<1>1. StructuralFrom(text, s) = iter[DOMAIN s]
  BY DEF StructuralFrom, FoldLeft, MapThenFoldSet
<1>2. ASSUME NEW r \in R, NEW i \in 1 .. n PROVE Place(r, text, s[i]) \in R
  <2>1. s[i] \in 1 .. Len(text)
    OBVIOUS
  <2> QED
    BY <2>1, PlaceHolds, NothingHeld
<1>3. \A r \in R, i \in 1 .. n : Op[<<r, i>>] = Place(r, text, s[i])
  OBVIOUS
<1>4. b \in R /\ n \in Nat /\ DOMAIN s = 1 .. n
  BY PlaceHolds, NothingHeld
<1> HIDE DEF n, R, b
<1>5. Op \in [R \X (1 .. n) -> R]
  BY <1>2
<1> HIDE DEF Op
<1>6. \A t \in SUBSET (1 .. n) : t # {} => Max(t) \in 1 .. n
  BY <1>4, MaxOf
<1>7. PICK f : IsFold(f, R, b, n, Op)
  BY <1>4, <1>5, FoldExists
<1>8. f = Body(f)
  <2>1. ASSUME NEW t \in SUBSET (1 .. n) PROVE f[t] = Body(f)[t]
    BY <1>3, <1>4, <1>6, <1>7 DEF IsFold
  <2> QED
    BY <1>4, <1>7, <2>1 DEF IsFold
<1>9. iter = Body(iter)
  BY <1>8
<1> HIDE DEF iter
<1>10. FoldsLike(iter, R, b, n, Op)
  <2>1. iter[{}] = b
    BY <1>4, <1>9
  <2>2. \A t \in SUBSET (1 .. n) : (t # {} /\ iter[t \ {Max(t)}] \in R)
             => iter[t] = Op[<<iter[t \ {Max(t)}], Max(t)>>]
    BY <1>3, <1>4, <1>6, <1>9
  <2> QED
    BY <2>1, <2>2 DEF FoldsLike
<1> HIDE DEF Body
<1>11. PICK g : IsTrace(g, R, b, n, Op) /\ Computes(g, iter, n)
  BY <1>4, <1>5, <1>10, FoldTrace
<1>12. ASSUME NEW i \in 1 .. n PROVE g[i] = Place(g[i - 1], text, s[i])
  <2>1. i - 1 \in 0 .. n
    BY <1>4
  <2> QED
    BY <1>3, <1>11, <2>1 DEF IsTrace
<1> QED
  BY <1>1, <1>4, <1>11, <1>12 DEF n, R, b, IsTrace, Computes

(* Of nothing, and of one element more.                                    *)
LEMMA StructuralFold ==
  ASSUME NEW text \in Texts
  PROVE  /\ StructuralFrom(text, << >>) = Nothing
         /\ \A s \in Seq(1 .. Len(text)) :
               /\ StructuralFrom(text, s) \in Building
               /\ \A x \in 1 .. Len(text) : StructuralFrom(text, Append(s, x)) = Place(StructuralFrom(text, s), text, x)
<1>1. StructuralFrom(text, << >>) = Nothing
  <2> DEFINE z == << >>
  <2>1. z \in Seq(1 .. Len(text))
    OBVIOUS
  <2>2. Len(z) = 0
    OBVIOUS
  <2> HIDE DEF z
  <2>3. PICK g \in [0 .. Len(z) -> Building] :
            /\ g[0] = Nothing
            /\ \A i \in 1 .. Len(z) : g[i] = Place(g[i - 1], text, z[i])
            /\ StructuralFrom(text, z) = g[Len(z)]
    BY <2>1, StructuralTrace
  <2> QED
    BY <2>2, <2>3 DEF z
<1>2. ASSUME NEW s \in Seq(1 .. Len(text)) PROVE StructuralFrom(text, s) \in Building
  <2>1. PICK g \in [0 .. Len(s) -> Building] : StructuralFrom(text, s) = g[Len(s)]
    BY StructuralTrace
  <2>2. Len(s) \in 0 .. Len(s)
    OBVIOUS
  <2> QED
    BY <2>1, <2>2
<1>3. ASSUME NEW s \in Seq(1 .. Len(text)), NEW x \in 1 .. Len(text)
      PROVE  StructuralFrom(text, Append(s, x)) = Place(StructuralFrom(text, s), text, x)
  <2> DEFINE u == Append(s, x)
             n == Len(s)
  <2>1. /\ u \in Seq(1 .. Len(text)) /\ Len(u) = n + 1 /\ u[n + 1] = x /\ n \in Nat
        /\ \A i \in 1 .. n : u[i] = s[i]
    OBVIOUS
  <2> HIDE DEF u
  <2>2. PICK g \in [0 .. n -> Building] :
            /\ g[0] = Nothing
            /\ \A i \in 1 .. n : g[i] = Place(g[i - 1], text, s[i])
            /\ StructuralFrom(text, s) = g[n]
    BY StructuralTrace
  <2>3. PICK h \in [0 .. Len(u) -> Building] :
            /\ h[0] = Nothing
            /\ \A i \in 1 .. Len(u) : h[i] = Place(h[i - 1], text, u[i])
            /\ StructuralFrom(text, u) = h[Len(u)]
    BY <2>1, StructuralTrace
  <2> HIDE DEF n
  <2>4. ASSUME NEW i \in 1 .. n, g[i - 1] = h[i - 1] PROVE g[i] = h[i]
    <3>1. i \in 1 .. Len(u) /\ u[i] = s[i]
      BY <2>1
    <3> QED
      BY <2>2, <2>3, <2>4, <3>1
  <2>5. InStep(g, h, n)
    BY <2>2, <2>3, <2>4 DEF InStep
  <2>6. g[n] = h[n]
    <3>1. Agree(g, h, n)
      BY <2>1, <2>5, SameTrace
    <3> QED
      BY <2>1, <3>1 DEF Agree
  <2>7. h[n + 1] = Place(h[n], text, x)
    <3>1. n + 1 \in 1 .. Len(u) /\ (n + 1) - 1 = n
      BY <2>1
    <3> QED
      BY <2>1, <2>3, <3>1
  <2> QED
    BY <2>1, <2>2, <2>3, <2>6, <2>7 DEF u
<1> QED
  BY <1>1, <1>2, <1>3

(* splitFixed: the loop over the lines.                                    *)
LEMMA FixedTrace ==
  ASSUME NEW cap \in Nat \ {0}, NEW s \in Seq(Lines)
  PROVE  \E g \in [0 .. Len(s) -> Building] :
            /\ g[0] = Nothing
            /\ \A i \in 1 .. Len(s) : g[i] = Pack(g[i - 1], s[i], cap)
            /\ FixedFrom(cap, s) = g[Len(s)]
<1> DEFINE n == Len(s)
           R == Building
           b == Nothing
           Op == [p \in R \X (1 .. n) |-> Pack(p[1], s[p[2]], cap)]
           Body(c) == [t \in SUBSET (DOMAIN s) |->
                         IF t = {} THEN b ELSE Pack(c[t \ {Max(t)}], s[Max(t)], cap)]
           iter == CHOOSE c : c = Body(c)
<1>1. FixedFrom(cap, s) = iter[DOMAIN s]
  BY DEF FixedFrom, FoldLeft, MapThenFoldSet
<1>2. ASSUME NEW r \in R, NEW i \in 1 .. n PROVE Pack(r, s[i], cap) \in R
  <2>1. s[i] \in Lines
    OBVIOUS
  <2> QED
    BY <2>1, PackHolds, NothingHeld
<1>3. \A r \in R, i \in 1 .. n : Op[<<r, i>>] = Pack(r, s[i], cap)
  OBVIOUS
<1>4. b \in R /\ n \in Nat /\ DOMAIN s = 1 .. n
  BY PackHolds, NothingHeld
<1> HIDE DEF n, R, b
<1>5. Op \in [R \X (1 .. n) -> R]
  BY <1>2
<1> HIDE DEF Op
<1>6. \A t \in SUBSET (1 .. n) : t # {} => Max(t) \in 1 .. n
  BY <1>4, MaxOf
<1>7. PICK f : IsFold(f, R, b, n, Op)
  BY <1>4, <1>5, FoldExists
<1>8. f = Body(f)
  <2>1. ASSUME NEW t \in SUBSET (1 .. n) PROVE f[t] = Body(f)[t]
    BY <1>3, <1>4, <1>6, <1>7 DEF IsFold
  <2> QED
    BY <1>4, <1>7, <2>1 DEF IsFold
<1>9. iter = Body(iter)
  BY <1>8
<1> HIDE DEF iter
<1>10. FoldsLike(iter, R, b, n, Op)
  <2>1. iter[{}] = b
    BY <1>4, <1>9
  <2>2. \A t \in SUBSET (1 .. n) : (t # {} /\ iter[t \ {Max(t)}] \in R)
             => iter[t] = Op[<<iter[t \ {Max(t)}], Max(t)>>]
    BY <1>3, <1>4, <1>6, <1>9
  <2> QED
    BY <2>1, <2>2 DEF FoldsLike
<1> HIDE DEF Body
<1>11. PICK g : IsTrace(g, R, b, n, Op) /\ Computes(g, iter, n)
  BY <1>4, <1>5, <1>10, FoldTrace
<1>12. ASSUME NEW i \in 1 .. n PROVE g[i] = Pack(g[i - 1], s[i], cap)
  <2>1. i - 1 \in 0 .. n
    BY <1>4
  <2> QED
    BY <1>3, <1>11, <2>1 DEF IsTrace
<1> QED
  BY <1>1, <1>4, <1>11, <1>12 DEF n, R, b, IsTrace, Computes

(* Of nothing, and of one element more.                                    *)
LEMMA FixedFold ==
  ASSUME NEW cap \in Nat \ {0}
  PROVE  /\ FixedFrom(cap, << >>) = Nothing
         /\ \A s \in Seq(Lines) :
               /\ FixedFrom(cap, s) \in Building
               /\ \A x \in Lines : FixedFrom(cap, Append(s, x)) = Pack(FixedFrom(cap, s), x, cap)
<1>1. FixedFrom(cap, << >>) = Nothing
  <2> DEFINE z == << >>
  <2>1. z \in Seq(Lines)
    OBVIOUS
  <2>2. Len(z) = 0
    OBVIOUS
  <2> HIDE DEF z
  <2>3. PICK g \in [0 .. Len(z) -> Building] :
            /\ g[0] = Nothing
            /\ \A i \in 1 .. Len(z) : g[i] = Pack(g[i - 1], z[i], cap)
            /\ FixedFrom(cap, z) = g[Len(z)]
    BY <2>1, FixedTrace
  <2> QED
    BY <2>2, <2>3 DEF z
<1>2. ASSUME NEW s \in Seq(Lines) PROVE FixedFrom(cap, s) \in Building
  <2>1. PICK g \in [0 .. Len(s) -> Building] : FixedFrom(cap, s) = g[Len(s)]
    BY FixedTrace
  <2>2. Len(s) \in 0 .. Len(s)
    OBVIOUS
  <2> QED
    BY <2>1, <2>2
<1>3. ASSUME NEW s \in Seq(Lines), NEW x \in Lines
      PROVE  FixedFrom(cap, Append(s, x)) = Pack(FixedFrom(cap, s), x, cap)
  <2> DEFINE u == Append(s, x)
             n == Len(s)
  <2>1. /\ u \in Seq(Lines) /\ Len(u) = n + 1 /\ u[n + 1] = x /\ n \in Nat
        /\ \A i \in 1 .. n : u[i] = s[i]
    OBVIOUS
  <2> HIDE DEF u
  <2>2. PICK g \in [0 .. n -> Building] :
            /\ g[0] = Nothing
            /\ \A i \in 1 .. n : g[i] = Pack(g[i - 1], s[i], cap)
            /\ FixedFrom(cap, s) = g[n]
    BY FixedTrace
  <2>3. PICK h \in [0 .. Len(u) -> Building] :
            /\ h[0] = Nothing
            /\ \A i \in 1 .. Len(u) : h[i] = Pack(h[i - 1], u[i], cap)
            /\ FixedFrom(cap, u) = h[Len(u)]
    BY <2>1, FixedTrace
  <2> HIDE DEF n
  <2>4. ASSUME NEW i \in 1 .. n, g[i - 1] = h[i - 1] PROVE g[i] = h[i]
    <3>1. i \in 1 .. Len(u) /\ u[i] = s[i]
      BY <2>1
    <3> QED
      BY <2>2, <2>3, <2>4, <3>1
  <2>5. InStep(g, h, n)
    BY <2>2, <2>3, <2>4 DEF InStep
  <2>6. g[n] = h[n]
    <3>1. Agree(g, h, n)
      BY <2>1, <2>5, SameTrace
    <3> QED
      BY <2>1, <3>1 DEF Agree
  <2>7. h[n + 1] = Pack(h[n], x, cap)
    <3>1. n + 1 \in 1 .. Len(u) /\ (n + 1) - 1 = n
      BY <2>1
    <3> QED
      BY <2>1, <2>3, <3>1
  <2> QED
    BY <2>1, <2>2, <2>3, <2>6, <2>7 DEF u
<1> QED
  BY <1>1, <1>2, <1>3

(* mergeSmall: one pass over the sections.                                 *)
LEMMA MergePassTrace ==
  ASSUME NEW first \in Texts, NEW cap \in Nat \ {0}, NEW s \in Seq(Texts)
  PROVE  \E g \in [0 .. Len(s) -> Building] :
            /\ g[0] = Opened(first)
            /\ \A i \in 1 .. Len(s) : g[i] = Merge(g[i - 1], s[i], cap)
            /\ MergeFrom(first, cap, s) = g[Len(s)]
<1> DEFINE n == Len(s)
           R == Building
           b == Opened(first)
           Op == [p \in R \X (1 .. n) |-> Merge(p[1], s[p[2]], cap)]
           Body(c) == [t \in SUBSET (DOMAIN s) |->
                         IF t = {} THEN b ELSE Merge(c[t \ {Max(t)}], s[Max(t)], cap)]
           iter == CHOOSE c : c = Body(c)
<1>1. MergeFrom(first, cap, s) = iter[DOMAIN s]
  BY DEF MergeFrom, FoldLeft, MapThenFoldSet
<1>2. ASSUME NEW r \in R, NEW i \in 1 .. n PROVE Merge(r, s[i], cap) \in R
  <2>1. s[i] \in Texts
    OBVIOUS
  <2> QED
    BY <2>1, MergeHolds, NothingHeld
<1>3. \A r \in R, i \in 1 .. n : Op[<<r, i>>] = Merge(r, s[i], cap)
  OBVIOUS
<1>4. b \in R /\ n \in Nat /\ DOMAIN s = 1 .. n
  BY MergeHolds, NothingHeld
<1> HIDE DEF n, R, b
<1>5. Op \in [R \X (1 .. n) -> R]
  BY <1>2
<1> HIDE DEF Op
<1>6. \A t \in SUBSET (1 .. n) : t # {} => Max(t) \in 1 .. n
  BY <1>4, MaxOf
<1>7. PICK f : IsFold(f, R, b, n, Op)
  BY <1>4, <1>5, FoldExists
<1>8. f = Body(f)
  <2>1. ASSUME NEW t \in SUBSET (1 .. n) PROVE f[t] = Body(f)[t]
    BY <1>3, <1>4, <1>6, <1>7 DEF IsFold
  <2> QED
    BY <1>4, <1>7, <2>1 DEF IsFold
<1>9. iter = Body(iter)
  BY <1>8
<1> HIDE DEF iter
<1>10. FoldsLike(iter, R, b, n, Op)
  <2>1. iter[{}] = b
    BY <1>4, <1>9
  <2>2. \A t \in SUBSET (1 .. n) : (t # {} /\ iter[t \ {Max(t)}] \in R)
             => iter[t] = Op[<<iter[t \ {Max(t)}], Max(t)>>]
    BY <1>3, <1>4, <1>6, <1>9
  <2> QED
    BY <2>1, <2>2 DEF FoldsLike
<1> HIDE DEF Body
<1>11. PICK g : IsTrace(g, R, b, n, Op) /\ Computes(g, iter, n)
  BY <1>4, <1>5, <1>10, FoldTrace
<1>12. ASSUME NEW i \in 1 .. n PROVE g[i] = Merge(g[i - 1], s[i], cap)
  <2>1. i - 1 \in 0 .. n
    BY <1>4
  <2> QED
    BY <1>3, <1>11, <2>1 DEF IsTrace
<1> QED
  BY <1>1, <1>4, <1>11, <1>12 DEF n, R, b, IsTrace, Computes

(* Of nothing, and of one element more.                                    *)
LEMMA MergePassFold ==
  ASSUME NEW first \in Texts, NEW cap \in Nat \ {0}
  PROVE  /\ MergeFrom(first, cap, << >>) = Opened(first)
         /\ \A s \in Seq(Texts) :
               /\ MergeFrom(first, cap, s) \in Building
               /\ \A x \in Texts : MergeFrom(first, cap, Append(s, x)) = Merge(MergeFrom(first, cap, s), x, cap)
<1>1. MergeFrom(first, cap, << >>) = Opened(first)
  <2> DEFINE z == << >>
  <2>1. z \in Seq(Texts)
    OBVIOUS
  <2>2. Len(z) = 0
    OBVIOUS
  <2> HIDE DEF z
  <2>3. PICK g \in [0 .. Len(z) -> Building] :
            /\ g[0] = Opened(first)
            /\ \A i \in 1 .. Len(z) : g[i] = Merge(g[i - 1], z[i], cap)
            /\ MergeFrom(first, cap, z) = g[Len(z)]
    BY <2>1, MergePassTrace
  <2> QED
    BY <2>2, <2>3 DEF z
<1>2. ASSUME NEW s \in Seq(Texts) PROVE MergeFrom(first, cap, s) \in Building
  <2>1. PICK g \in [0 .. Len(s) -> Building] : MergeFrom(first, cap, s) = g[Len(s)]
    BY MergePassTrace
  <2>2. Len(s) \in 0 .. Len(s)
    OBVIOUS
  <2> QED
    BY <2>1, <2>2
<1>3. ASSUME NEW s \in Seq(Texts), NEW x \in Texts
      PROVE  MergeFrom(first, cap, Append(s, x)) = Merge(MergeFrom(first, cap, s), x, cap)
  <2> DEFINE u == Append(s, x)
             n == Len(s)
  <2>1. /\ u \in Seq(Texts) /\ Len(u) = n + 1 /\ u[n + 1] = x /\ n \in Nat
        /\ \A i \in 1 .. n : u[i] = s[i]
    OBVIOUS
  <2> HIDE DEF u
  <2>2. PICK g \in [0 .. n -> Building] :
            /\ g[0] = Opened(first)
            /\ \A i \in 1 .. n : g[i] = Merge(g[i - 1], s[i], cap)
            /\ MergeFrom(first, cap, s) = g[n]
    BY MergePassTrace
  <2>3. PICK h \in [0 .. Len(u) -> Building] :
            /\ h[0] = Opened(first)
            /\ \A i \in 1 .. Len(u) : h[i] = Merge(h[i - 1], u[i], cap)
            /\ MergeFrom(first, cap, u) = h[Len(u)]
    BY <2>1, MergePassTrace
  <2> HIDE DEF n
  <2>4. ASSUME NEW i \in 1 .. n, g[i - 1] = h[i - 1] PROVE g[i] = h[i]
    <3>1. i \in 1 .. Len(u) /\ u[i] = s[i]
      BY <2>1
    <3> QED
      BY <2>2, <2>3, <2>4, <3>1
  <2>5. InStep(g, h, n)
    BY <2>2, <2>3, <2>4 DEF InStep
  <2>6. g[n] = h[n]
    <3>1. Agree(g, h, n)
      BY <2>1, <2>5, SameTrace
    <3> QED
      BY <2>1, <3>1 DEF Agree
  <2>7. h[n + 1] = Merge(h[n], x, cap)
    <3>1. n + 1 \in 1 .. Len(u) /\ (n + 1) - 1 = n
      BY <2>1
    <3> QED
      BY <2>1, <2>3, <3>1
  <2> QED
    BY <2>1, <2>2, <2>3, <2>6, <2>7 DEF u
<1> QED
  BY <1>1, <1>2, <1>3

-----------------------------------------------------------------------------
(* What the loops of the splitter keep.                                    *)

(* The lines at given places.                                              *)
Picked(text, s) == [k \in 1 .. Len(s) |-> text[s[k]]]

(* The structural sections are the whole text.                             *)
LEMMA StructuralWhole ==
  ASSUME NEW text \in Texts
  PROVE  SplitStructural(text) \in Seq(Texts) /\ Whole(SplitStructural(text)) = Bytes(text)
<1> DEFINE D == 1 .. Len(text)
           T == {s \in Seq(D) : /\ Picked(text, s) \in Texts
                                /\ Held(StructuralFrom(text, s)) = Bytes(Picked(text, s))}
<1>1. \A i \in D : text[i] \in Lines
  BY DEF Texts
<1>2. << >> \in T
  <2>1. Picked(text, << >>) = << >>
    BY DEF Picked
  <2> QED
    BY <2>1, StructuralFold, NothingHeld, BytesFold
<1>3. ASSUME NEW s \in Seq(D), NEW i \in D, s \in T PROVE Append(s, i) \in T
  <2> DEFINE p == Picked(text, s)
             c == Append(p, text[i])
             n == Len(s)
             acc == StructuralFrom(text, s)
  <2>1. p \in Texts /\ Len(p) = n /\ n \in Nat /\ \A k \in 1 .. n : p[k] = text[s[k]]
    BY <1>3 DEF Picked
  <2>2. /\ c \in Texts /\ Len(c) = n + 1 /\ c[n + 1] = text[i]
        /\ \A k \in 1 .. n : c[k] = p[k]
        /\ Bytes(c) = Bytes(p) \o text[i].bytes
    <3> HIDE DEF p, n
    <3> QED
      BY <1>1, <2>1, BytesFold DEF Texts
  <2>3. Picked(text, Append(s, i)) = c
    <3> DEFINE u == Append(s, i)
               d == Picked(text, u)
    <3>1. Len(u) = n + 1 /\ u[n + 1] = i /\ \A k \in 1 .. n : u[k] = s[k]
      OBVIOUS
    <3>2. d = [k \in 1 .. n + 1 |-> text[u[k]]]
      BY <3>1 DEF Picked
    <3>3. c = [k \in 1 .. n + 1 |-> c[k]]
      <4> HIDE DEF c, n
      <4> QED
        BY <2>1, <2>2 DEF Texts
    <3> HIDE DEF u, c, p, n
    <3>4. \A k \in 1 .. n + 1 : c[k] = text[u[k]]
      <4>1. \A k \in 1 .. n + 1 : k \in 1 .. n \/ k = n + 1
        BY <2>1
      <4> QED
        BY <2>1, <2>2, <3>1, <4>1
    <3> HIDE DEF d
    <3>5. d = c
      BY <3>2, <3>3, <3>4
    <3> QED
      BY <3>5 DEF d, u
  <2>4. acc \in Building /\ StructuralFrom(text, Append(s, i)) = Place(acc, text, i)
    BY StructuralFold
  <2>5. Held(Place(acc, text, i)) = Held(acc) \o text[i].bytes
    BY <2>4, PlaceHolds
  <2>6. Append(s, i) \in Seq(D) /\ Held(acc) = Bytes(p)
    BY <1>3
  <2> HIDE DEF c, p, acc
  <2>7. Held(StructuralFrom(text, Append(s, i))) = Bytes(Picked(text, Append(s, i)))
    <3>1. Held(StructuralFrom(text, Append(s, i))) = Held(acc) \o text[i].bytes
      BY <2>4, <2>5
    <3>2. Bytes(Picked(text, Append(s, i))) = Bytes(p) \o text[i].bytes
      BY <2>2, <2>3
    <3> QED
      BY <2>6, <3>1, <3>2
  <2> QED
    BY <2>2, <2>3, <2>6, <2>7
<1>4. Seq(D) \subseteq T
  <2> HIDE DEF T, D
  <2> QED
    BY <1>2, <1>3, SeqInduct
<1> DEFINE id == [i \in DOMAIN text |-> i]
<1>5. id \in Seq(D) /\ Picked(text, id) = text
  <2>1. Len(text) \in Nat /\ DOMAIN text = D /\ text = [k \in D |-> text[k]]
    BY DEF Texts
  <2>2. id \in Seq(D) /\ Len(id) = Len(text) /\ \A k \in D : id[k] = k
    BY <2>1
  <2> QED
    BY <2>1, <2>2 DEF Picked
<1>6. StructuralFrom(text, id) \in Building /\ Held(StructuralFrom(text, id)) = Bytes(text)
  BY <1>4, <1>5, StructuralFold
<1>7. SplitStructural(text) = Flushed(StructuralFrom(text, id))
  BY DEF SplitStructural, StructuralFrom
<1> QED
  BY <1>6, <1>7, FlushedWhole

(* The packed sections are the whole text, within the cap.                 *)
LEMMA FixedWhole ==
  ASSUME NEW text \in Texts, NEW cap \in Nat \ {0}
  PROVE  /\ SplitFixed(text, cap) \in Seq(Texts)
         /\ Whole(SplitFixed(text, cap)) = Bytes(text)
         /\ InCap(SplitFixed(text, cap), cap)
<1> DEFINE T == {s \in Texts : /\ Held(FixedFrom(cap, s)) = Bytes(s)
                               /\ Fits(FixedFrom(cap, s), cap)}
<1>1. << >> \in T
  BY FixedFold, NothingHeld, BytesFold
<1>2. ASSUME NEW s \in Texts, NEW line \in Lines, s \in T PROVE Append(s, line) \in T
  <2> DEFINE acc == FixedFrom(cap, s)
  <2>1. acc \in Building /\ FixedFrom(cap, Append(s, line)) = Pack(acc, line, cap)
    BY FixedFold DEF Texts
  <2>2. Held(acc) = Bytes(s) /\ Fits(acc, cap)
    BY <1>2
  <2> HIDE DEF acc
  <2>3. Held(Pack(acc, line, cap)) = Held(acc) \o line.bytes /\ Fits(Pack(acc, line, cap), cap)
    BY <2>1, <2>2, PackHolds
  <2>4. Append(s, line) \in Texts /\ Bytes(Append(s, line)) = Bytes(s) \o line.bytes
    BY BytesFold
  <2> QED
    BY <2>1, <2>2, <2>3, <2>4
<1>3. Texts \subseteq T
  <2> HIDE DEF T
  <2> QED
    BY <1>1, <1>2, SeqInduct DEF Texts
<1>4. FixedFrom(cap, text) \in Building
  BY FixedFold DEF Texts
<1>5. SplitFixed(text, cap) = Flushed(FixedFrom(cap, text))
  BY DEF SplitFixed, FixedFrom
<1> QED
  BY <1>3, <1>4, <1>5, FlushedWhole, FlushedFits

(* A sequence is its head and its tail.                                    *)
LEMMA HeadAndTail ==
  ASSUME NEW ss \in Seq(Texts) \ {<< >>}, NEW cap \in Nat
  PROVE  /\ Head(ss) \in Texts /\ Tail(ss) \in Seq(Texts)
         /\ Whole(ss) = Bytes(Head(ss)) \o Whole(Tail(ss))
         /\ InCap(ss, cap) => Size(Head(ss)) <= cap /\ InCap(Tail(ss), cap)
<1> DEFINE h == Head(ss)
           t == Tail(ss)
           one == Append(<< >>, h)
<1>1. h \in Texts /\ t \in Seq(Texts) /\ ss = one \o t
  OBVIOUS
<1>2. one \in Seq(Texts) /\ Whole(one) = Whole(<< >>) \o Bytes(h)
  <2> HIDE DEF h, t
  <2>1. << >> \in Seq(Texts) /\ one \in Seq(Texts)
    BY <1>1
  <2>2. Whole(Append(<< >>, h)) = Whole(<< >>) \o Bytes(h)
    BY <1>1, <2>1, WholeFold
  <2> QED
    BY <2>1, <2>2
<1>3. << >> \o Bytes(h) = Bytes(h)
  BY <1>1, BytesFold, ConcatEmptySeq
<1>4. Whole(one \o t) = Whole(one) \o Whole(t)
  BY <1>1, <1>2, WholeFold
<1>5. InCap(ss, cap) => Size(h) <= cap /\ InCap(t, cap)
  <2>1. 1 \in DOMAIN ss /\ ss[1] = h
        /\ \A k \in DOMAIN t : k + 1 \in DOMAIN ss /\ ss[k + 1] = t[k]
    OBVIOUS
  <2> HIDE DEF h, t
  <2> QED
    BY <2>1 DEF InCap
<1> HIDE DEF h, t, one
<1> QED
  BY <1>1, <1>2, <1>3, <1>4, <1>5, WholeFold DEF h, t

(* A pass keeps every byte, and the cap.                                   *)
LEMMA MergePassWhole ==
  ASSUME NEW ss \in Seq(Texts) \ {<< >>}, NEW cap \in Nat \ {0}
  PROVE  /\ MergePass(ss, cap) \in Seq(Texts) \ {<< >>}
         /\ Whole(MergePass(ss, cap)) = Whole(ss)
         /\ InCap(ss, cap) => InCap(MergePass(ss, cap), cap)
<1> DEFINE first == Head(ss)
           From(s) == MergeFrom(first, cap, s)
           T == {s \in Seq(Texts) :
                    /\ Held(From(s)) = Bytes(first) \o Whole(s)
                    /\ InCap(s, cap) /\ Size(first) <= cap => Fits(From(s), cap)}
<1>1. /\ first \in Texts /\ Tail(ss) \in Seq(Texts)
      /\ Whole(ss) = Bytes(first) \o Whole(Tail(ss))
      /\ InCap(ss, cap) => Size(first) <= cap /\ InCap(Tail(ss), cap)
  BY HeadAndTail
<1> HIDE DEF first
<1>0. /\ From(<< >>) = Opened(first)
      /\ \A s \in Seq(Texts) :
            /\ From(s) \in Building
            /\ \A x \in Texts : From(Append(s, x)) = Merge(From(s), x, cap)
  BY <1>1, MergePassFold, Zenon
<1>2. << >> \in T
  <2>1. Bytes(first) \o << >> = Bytes(first)
    BY <1>1, BytesFold, ConcatEmptySeq
  <2>2. Held(From(<< >>)) = Bytes(first)
        /\ (Size(first) <= cap => Fits(From(<< >>), cap))
    BY <1>0, <1>1, NothingHeld
  <2>3. << >> \in Seq(Texts) /\ Whole(<< >>) = << >>
    BY WholeFold
  <2> HIDE DEF From
  <2> QED
    BY <2>1, <2>2, <2>3
<1>3. ASSUME NEW s \in Seq(Texts), NEW x \in Texts, s \in T PROVE Append(s, x) \in T
  <2> DEFINE acc == From(s)
  <2>1. acc \in Building /\ From(Append(s, x)) = Merge(acc, x, cap)
    BY <1>0
  <2>2. Held(acc) = Bytes(first) \o Whole(s)
        /\ (InCap(s, cap) /\ Size(first) <= cap => Fits(acc, cap))
    BY <1>3
  <2> HIDE DEF acc, From
  <2>3. Held(Merge(acc, x, cap)) = Held(acc) \o Bytes(x)
        /\ (Fits(acc, cap) /\ Size(x) <= cap => Fits(Merge(acc, x, cap), cap))
    BY <2>1, MergeHolds
  <2>4. (Bytes(first) \o Whole(s)) \o Bytes(x) = Bytes(first) \o (Whole(s) \o Bytes(x))
    <3>1. Bytes(first) \in Seq(Int) /\ Whole(s) \in Seq(Int) /\ Bytes(x) \in Seq(Int)
      BY <1>1, BytesFold, WholeFold
    <3> QED
      BY <3>1, IntAssoc
  <2>5. Append(s, x) \in Seq(Texts) /\ Whole(Append(s, x)) = Whole(s) \o Bytes(x)
    BY WholeFold
  <2>6. InCap(Append(s, x), cap) => InCap(s, cap) /\ Size(x) <= cap
    BY InCapFold
  <2> QED
    BY <2>1, <2>2, <2>3, <2>4, <2>5, <2>6
<1>4. Seq(Texts) \subseteq T
  <2> HIDE DEF T
  <2> QED
    BY <1>2, <1>3, SeqInduct
<1> DEFINE end == From(Tail(ss))
<1>5. end \in Building /\ Held(end) = Whole(ss) /\ (InCap(ss, cap) => Fits(end, cap))
  BY <1>0, <1>1, <1>4
<1>6. MergePass(ss, cap) = Append(end.out, end.cur)
  BY DEF MergePass, MergeFrom, Opened, first
<1> HIDE DEF end
<1>7. end.out \in Seq(Texts) /\ end.cur \in Texts
  BY <1>5 DEF Building
<1>8. Whole(Append(end.out, end.cur)) = Held(end)
  BY <1>7, WholeFold DEF Held
<1>9. Fits(end, cap) => InCap(Append(end.out, end.cur), cap)
  BY <1>7, InCapFold DEF Fits
<1> QED
  BY <1>5, <1>6, <1>7, <1>8, <1>9

-----------------------------------------------------------------------------
(* Folding small sections, and the rendered sections.                      *)

(* What there is to fold: one section at least.                            *)
Splits == Seq(Texts) \ {<< >>}

(* The sections after some passes.                                         *)
MergeSmallFrom(ss, cap, s) ==
  FoldLeft(LAMBDA merged, section : MergePass(merged, cap), ss, s)

(* mergeSmall: the passes.                                                 *)
LEMMA MergeSmallTrace ==
  ASSUME NEW ss \in Splits, NEW cap \in Nat \ {0}, NEW s \in Seq(Texts)
  PROVE  \E g \in [0 .. Len(s) -> Splits] :
            /\ g[0] = ss
            /\ \A i \in 1 .. Len(s) : g[i] = MergePass(g[i - 1], cap)
            /\ MergeSmallFrom(ss, cap, s) = g[Len(s)]
<1> DEFINE n == Len(s)
           R == Splits
           b == ss
           Op == [p \in R \X (1 .. n) |-> MergePass(p[1], cap)]
           Body(c) == [t \in SUBSET (DOMAIN s) |->
                         IF t = {} THEN b ELSE MergePass(c[t \ {Max(t)}], cap)]
           iter == CHOOSE c : c = Body(c)
<1>1. MergeSmallFrom(ss, cap, s) = iter[DOMAIN s]
  BY DEF MergeSmallFrom, FoldLeft, MapThenFoldSet
<1>2. ASSUME NEW r \in R, NEW i \in 1 .. n PROVE MergePass(r, cap) \in R
  <2>1. s[i] \in Texts
    OBVIOUS
  <2> QED
    BY <2>1, MergePassWhole DEF Splits
<1>3. \A r \in R, i \in 1 .. n : Op[<<r, i>>] = MergePass(r, cap)
  OBVIOUS
<1>4. b \in R /\ n \in Nat /\ DOMAIN s = 1 .. n
  BY MergePassWhole DEF Splits
<1> HIDE DEF n, R, b
<1>5. Op \in [R \X (1 .. n) -> R]
  BY <1>2
<1> HIDE DEF Op
<1>6. \A t \in SUBSET (1 .. n) : t # {} => Max(t) \in 1 .. n
  BY <1>4, MaxOf
<1>7. PICK f : IsFold(f, R, b, n, Op)
  BY <1>4, <1>5, FoldExists
<1>8. f = Body(f)
  <2>1. ASSUME NEW t \in SUBSET (1 .. n) PROVE f[t] = Body(f)[t]
    BY <1>3, <1>4, <1>6, <1>7 DEF IsFold
  <2> QED
    BY <1>4, <1>7, <2>1 DEF IsFold
<1>9. iter = Body(iter)
  BY <1>8
<1> HIDE DEF iter
<1>10. FoldsLike(iter, R, b, n, Op)
  <2>1. iter[{}] = b
    BY <1>4, <1>9
  <2>2. \A t \in SUBSET (1 .. n) : (t # {} /\ iter[t \ {Max(t)}] \in R)
             => iter[t] = Op[<<iter[t \ {Max(t)}], Max(t)>>]
    BY <1>3, <1>4, <1>6, <1>9
  <2> QED
    BY <2>1, <2>2 DEF FoldsLike
<1> HIDE DEF Body
<1>11. PICK g : IsTrace(g, R, b, n, Op) /\ Computes(g, iter, n)
  BY <1>4, <1>5, <1>10, FoldTrace
<1>12. ASSUME NEW i \in 1 .. n PROVE g[i] = MergePass(g[i - 1], cap)
  <2>1. i - 1 \in 0 .. n
    BY <1>4
  <2> QED
    BY <1>3, <1>11, <2>1 DEF IsTrace
<1> QED
  BY <1>1, <1>4, <1>11, <1>12 DEF n, R, b, IsTrace, Computes

(* Of nothing, and of one element more.                                    *)
LEMMA MergeSmallFold ==
  ASSUME NEW ss \in Splits, NEW cap \in Nat \ {0}
  PROVE  /\ MergeSmallFrom(ss, cap, << >>) = ss
         /\ \A s \in Seq(Texts) :
               /\ MergeSmallFrom(ss, cap, s) \in Splits
               /\ \A x \in Texts : MergeSmallFrom(ss, cap, Append(s, x)) = MergePass(MergeSmallFrom(ss, cap, s), cap)
<1>1. MergeSmallFrom(ss, cap, << >>) = ss
  <2> DEFINE z == << >>
  <2>1. z \in Seq(Texts)
    OBVIOUS
  <2>2. Len(z) = 0
    OBVIOUS
  <2> HIDE DEF z
  <2>3. PICK g \in [0 .. Len(z) -> Splits] :
            /\ g[0] = ss
            /\ \A i \in 1 .. Len(z) : g[i] = MergePass(g[i - 1], cap)
            /\ MergeSmallFrom(ss, cap, z) = g[Len(z)]
    BY <2>1, MergeSmallTrace
  <2> QED
    BY <2>2, <2>3 DEF z
<1>2. ASSUME NEW s \in Seq(Texts) PROVE MergeSmallFrom(ss, cap, s) \in Splits
  <2>1. PICK g \in [0 .. Len(s) -> Splits] : MergeSmallFrom(ss, cap, s) = g[Len(s)]
    BY MergeSmallTrace
  <2>2. Len(s) \in 0 .. Len(s)
    OBVIOUS
  <2> QED
    BY <2>1, <2>2
<1>3. ASSUME NEW s \in Seq(Texts), NEW x \in Texts
      PROVE  MergeSmallFrom(ss, cap, Append(s, x)) = MergePass(MergeSmallFrom(ss, cap, s), cap)
  <2> DEFINE u == Append(s, x)
             n == Len(s)
  <2>1. /\ u \in Seq(Texts) /\ Len(u) = n + 1 /\ u[n + 1] = x /\ n \in Nat
        /\ \A i \in 1 .. n : u[i] = s[i]
    OBVIOUS
  <2> HIDE DEF u
  <2>2. PICK g \in [0 .. n -> Splits] :
            /\ g[0] = ss
            /\ \A i \in 1 .. n : g[i] = MergePass(g[i - 1], cap)
            /\ MergeSmallFrom(ss, cap, s) = g[n]
    BY MergeSmallTrace
  <2>3. PICK h \in [0 .. Len(u) -> Splits] :
            /\ h[0] = ss
            /\ \A i \in 1 .. Len(u) : h[i] = MergePass(h[i - 1], cap)
            /\ MergeSmallFrom(ss, cap, u) = h[Len(u)]
    BY <2>1, MergeSmallTrace
  <2> HIDE DEF n
  <2>4. ASSUME NEW i \in 1 .. n, g[i - 1] = h[i - 1] PROVE g[i] = h[i]
    <3>1. i \in 1 .. Len(u) /\ u[i] = s[i]
      BY <2>1
    <3> QED
      BY <2>2, <2>3, <2>4, <3>1
  <2>5. InStep(g, h, n)
    BY <2>2, <2>3, <2>4 DEF InStep
  <2>6. g[n] = h[n]
    <3>1. Agree(g, h, n)
      BY <2>1, <2>5, SameTrace
    <3> QED
      BY <2>1, <3>1 DEF Agree
  <2>7. h[n + 1] = MergePass(h[n], cap)
    <3>1. n + 1 \in 1 .. Len(u) /\ (n + 1) - 1 = n
      BY <2>1
    <3> QED
      BY <2>1, <2>3, <3>1
  <2> QED
    BY <2>1, <2>2, <2>3, <2>6, <2>7 DEF u
<1> QED
  BY <1>1, <1>2, <1>3

(* The passes keep every byte, and the cap.                                *)
LEMMA MergeSmallWhole ==
  ASSUME NEW ss \in Seq(Texts) \ {<< >>}, NEW cap \in Nat \ {0}
  PROVE  /\ MergeSmall(ss, cap) \in Seq(Texts) \ {<< >>}
         /\ Whole(MergeSmall(ss, cap)) = Whole(ss)
         /\ InCap(ss, cap) => InCap(MergeSmall(ss, cap), cap)
<1> DEFINE From(s) == MergeSmallFrom(ss, cap, s)
           T == {s \in Seq(Texts) : /\ Whole(From(s)) = Whole(ss)
                                    /\ InCap(ss, cap) => InCap(From(s), cap)}
<1>1. << >> \in T
  BY MergeSmallFold DEF Splits
<1>2. ASSUME NEW s \in Seq(Texts), NEW x \in Texts, s \in T PROVE Append(s, x) \in T
  <2>1. From(s) \in Seq(Texts) \ {<< >>} /\ From(Append(s, x)) = MergePass(From(s), cap)
    BY MergeSmallFold DEF Splits
  <2> HIDE DEF From
  <2>2. /\ Whole(MergePass(From(s), cap)) = Whole(From(s))
        /\ InCap(From(s), cap) => InCap(MergePass(From(s), cap), cap)
    BY <2>1, MergePassWhole
  <2> QED
    BY <1>2, <2>1, <2>2
<1>3. Seq(Texts) \subseteq T
  <2> HIDE DEF T
  <2> QED
    BY <1>1, <1>2, SeqInduct
<1>4. MergeSmall(ss, cap) = From(ss) /\ ss \in T /\ From(ss) \in Seq(Texts) \ {<< >>}
  <2>1. MergeSmall(ss, cap) = From(ss)
    BY DEF MergeSmall, MergeSmallFrom
  <2> QED
    BY <1>3, <2>1, MergeSmallFold DEF Splits
<1> QED
  BY <1>4

(* What is stored of a text: one section at least, within the cap the gate *)
(* leaves, and together the whole text.                                    *)
LEMMA RenderedWhole ==
  ASSUME NEW text \in Texts \ {<< >>}
  PROVE  /\ RenderedSections(text) \in Seq(Texts) \ {<< >>}
         /\ Whole(RenderedSections(text)) = Bytes(text)
         /\ InCap(RenderedSections(text), SectionCap)
<1> DEFINE structural == SplitStructural(text)
           cap == SectionCap
           split == IF ExceedsMax(structural) THEN SplitFixed(text, cap) ELSE structural
<1>1. cap \in Nat \ {0}
  BY LimitsAssumption DEF SectionCap
<1>2. structural \in Seq(Texts) /\ Whole(structural) = Bytes(text)
  BY StructuralWhole
<1>3. ~ExceedsMax(structural) => InCap(structural, cap)
  <2> HIDE DEF structural
  <2>1. \A k \in DOMAIN structural : structural[k] \in Texts
    BY <1>2
  <2>2. \A k \in DOMAIN structural : Size(structural[k]) \in Nat
    BY <2>1, SizeFold
  <2> QED
    BY <1>1, <2>2 DEF ExceedsMax, InCap
<1> HIDE DEF structural, cap
<1>4. split \in Seq(Texts) /\ Whole(split) = Bytes(text) /\ InCap(split, cap)
  BY <1>1, <1>2, <1>3, FixedWhole
<1>5. split # << >>
  <2>1. Bytes(text) # << >>
    BY SizePositive
  <2> QED
    BY <1>4, <2>1, WholeFold
<1>6. RenderedSections(text) = MergeSmall(split, cap)
  BY DEF RenderedSections, structural, cap
<1> HIDE DEF split
<1> QED
  BY <1>1, <1>4, <1>5, <1>6, MergeSmallWhole DEF cap

-----------------------------------------------------------------------------
(* Reading a response back.                                                *)

(* The first bytes of a text, line by line.                                *)
CutTo(size, s) == FoldLeft(LAMBDA acc, line : Take(acc, line, size), << >>, s)

(* One line more, or the part of it there is room for.                     *)
LEMMA TakeFits ==
  ASSUME NEW acc \in Texts, NEW line \in Lines, NEW size \in Int
  PROVE  /\ Take(acc, line, size) \in Texts
         /\ Size(acc) <= size => Size(Take(acc, line, size)) <= size
<1> DEFINE room == size - Size(acc)
           n == IF Len(line.bytes) < room THEN Len(line.bytes) ELSE room
           cut == [line EXCEPT !.bytes = SubSeq(@, 1, n)]
<1>1. Size(acc) \in Nat /\ room \in Int
  BY SizeFold
<1>2. CASE room <= 0
  BY <1>2 DEF Take
<1>3. CASE ~(room <= 0)
  <2>1. Take(acc, line, size) = Append(acc, cut)
    BY <1>3 DEF Take
  <2>2. n \in 1 .. Len(line.bytes) /\ n <= room /\ line.bytes \in Seq(Int)
    BY <1>1, <1>3, LineType
  <2> HIDE DEF n, room
  <2>3. cut \in Lines /\ Len(cut.bytes) = n
    <3>1. SubSeq(line.bytes, 1, n) \in Seq(Int) /\ Len(SubSeq(line.bytes, 1, n)) = n
      BY <2>2
    <3>2. SubSeq(line.bytes, 1, n) # << >>
      BY <2>2, <3>1
    <3> QED
      BY <3>1, <3>2 DEF Lines
  <2> HIDE DEF cut
  <2>4. Append(acc, cut) \in Texts /\ Size(Append(acc, cut)) = Size(acc) + n
    BY <2>3, BytesFold, SizeFold
  <2> QED
    BY <1>1, <2>1, <2>2, <2>4 DEF room
<1> QED
  BY <1>2, <1>3

(* The empty text is one.                                                  *)
LEMMA EmptyText == << >> \in Texts
BY DEF Texts

(* truncateUTF8: the first bytes of a text.                                *)
LEMMA CutTrace ==
  ASSUME NEW size \in Int, NEW s \in Seq(Lines)
  PROVE  \E g \in [0 .. Len(s) -> Texts] :
            /\ g[0] = << >>
            /\ \A i \in 1 .. Len(s) : g[i] = Take(g[i - 1], s[i], size)
            /\ CutTo(size, s) = g[Len(s)]
<1> DEFINE n == Len(s)
           R == Texts
           b == << >>
           Op == [p \in R \X (1 .. n) |-> Take(p[1], s[p[2]], size)]
           Body(c) == [t \in SUBSET (DOMAIN s) |->
                         IF t = {} THEN b ELSE Take(c[t \ {Max(t)}], s[Max(t)], size)]
           iter == CHOOSE c : c = Body(c)
<1>1. CutTo(size, s) = iter[DOMAIN s]
  BY DEF CutTo, FoldLeft, MapThenFoldSet
<1>2. ASSUME NEW r \in R, NEW i \in 1 .. n PROVE Take(r, s[i], size) \in R
  <2>1. s[i] \in Lines
    OBVIOUS
  <2> QED
    BY <2>1, TakeFits, EmptyText
<1>3. \A r \in R, i \in 1 .. n : Op[<<r, i>>] = Take(r, s[i], size)
  OBVIOUS
<1>4. b \in R /\ n \in Nat /\ DOMAIN s = 1 .. n
  BY TakeFits, EmptyText
<1> HIDE DEF n, R, b
<1>5. Op \in [R \X (1 .. n) -> R]
  BY <1>2
<1> HIDE DEF Op
<1>6. \A t \in SUBSET (1 .. n) : t # {} => Max(t) \in 1 .. n
  BY <1>4, MaxOf
<1>7. PICK f : IsFold(f, R, b, n, Op)
  BY <1>4, <1>5, FoldExists
<1>8. f = Body(f)
  <2>1. ASSUME NEW t \in SUBSET (1 .. n) PROVE f[t] = Body(f)[t]
    BY <1>3, <1>4, <1>6, <1>7 DEF IsFold
  <2> QED
    BY <1>4, <1>7, <2>1 DEF IsFold
<1>9. iter = Body(iter)
  BY <1>8
<1> HIDE DEF iter
<1>10. FoldsLike(iter, R, b, n, Op)
  <2>1. iter[{}] = b
    BY <1>4, <1>9
  <2>2. \A t \in SUBSET (1 .. n) : (t # {} /\ iter[t \ {Max(t)}] \in R)
             => iter[t] = Op[<<iter[t \ {Max(t)}], Max(t)>>]
    BY <1>3, <1>4, <1>6, <1>9
  <2> QED
    BY <2>1, <2>2 DEF FoldsLike
<1> HIDE DEF Body
<1>11. PICK g : IsTrace(g, R, b, n, Op) /\ Computes(g, iter, n)
  BY <1>4, <1>5, <1>10, FoldTrace
<1>12. ASSUME NEW i \in 1 .. n PROVE g[i] = Take(g[i - 1], s[i], size)
  <2>1. i - 1 \in 0 .. n
    BY <1>4
  <2> QED
    BY <1>3, <1>11, <2>1 DEF IsTrace
<1> QED
  BY <1>1, <1>4, <1>11, <1>12 DEF n, R, b, IsTrace, Computes

(* Of nothing, and of one element more.                                    *)
LEMMA CutFold ==
  ASSUME NEW size \in Int
  PROVE  /\ CutTo(size, << >>) = << >>
         /\ \A s \in Seq(Lines) :
               /\ CutTo(size, s) \in Texts
               /\ \A x \in Lines : CutTo(size, Append(s, x)) = Take(CutTo(size, s), x, size)
<1>1. CutTo(size, << >>) = << >>
  <2> DEFINE z == << >>
  <2>1. z \in Seq(Lines)
    OBVIOUS
  <2>2. Len(z) = 0
    OBVIOUS
  <2> HIDE DEF z
  <2>3. PICK g \in [0 .. Len(z) -> Texts] :
            /\ g[0] = << >>
            /\ \A i \in 1 .. Len(z) : g[i] = Take(g[i - 1], z[i], size)
            /\ CutTo(size, z) = g[Len(z)]
    BY <2>1, CutTrace
  <2> QED
    BY <2>2, <2>3 DEF z
<1>2. ASSUME NEW s \in Seq(Lines) PROVE CutTo(size, s) \in Texts
  <2>1. PICK g \in [0 .. Len(s) -> Texts] : CutTo(size, s) = g[Len(s)]
    BY CutTrace
  <2>2. Len(s) \in 0 .. Len(s)
    OBVIOUS
  <2> QED
    BY <2>1, <2>2
<1>3. ASSUME NEW s \in Seq(Lines), NEW x \in Lines
      PROVE  CutTo(size, Append(s, x)) = Take(CutTo(size, s), x, size)
  <2> DEFINE u == Append(s, x)
             n == Len(s)
  <2>1. /\ u \in Seq(Lines) /\ Len(u) = n + 1 /\ u[n + 1] = x /\ n \in Nat
        /\ \A i \in 1 .. n : u[i] = s[i]
    OBVIOUS
  <2> HIDE DEF u
  <2>2. PICK g \in [0 .. n -> Texts] :
            /\ g[0] = << >>
            /\ \A i \in 1 .. n : g[i] = Take(g[i - 1], s[i], size)
            /\ CutTo(size, s) = g[n]
    BY CutTrace
  <2>3. PICK h \in [0 .. Len(u) -> Texts] :
            /\ h[0] = << >>
            /\ \A i \in 1 .. Len(u) : h[i] = Take(h[i - 1], u[i], size)
            /\ CutTo(size, u) = h[Len(u)]
    BY <2>1, CutTrace
  <2> HIDE DEF n
  <2>4. ASSUME NEW i \in 1 .. n, g[i - 1] = h[i - 1] PROVE g[i] = h[i]
    <3>1. i \in 1 .. Len(u) /\ u[i] = s[i]
      BY <2>1
    <3> QED
      BY <2>2, <2>3, <2>4, <3>1
  <2>5. InStep(g, h, n)
    BY <2>2, <2>3, <2>4 DEF InStep
  <2>6. g[n] = h[n]
    <3>1. Agree(g, h, n)
      BY <2>1, <2>5, SameTrace
    <3> QED
      BY <2>1, <3>1 DEF Agree
  <2>7. h[n + 1] = Take(h[n], x, size)
    <3>1. n + 1 \in 1 .. Len(u) /\ (n + 1) - 1 = n
      BY <2>1
    <3> QED
      BY <2>1, <2>3, <3>1
  <2> QED
    BY <2>1, <2>2, <2>3, <2>6, <2>7 DEF u
<1> QED
  BY <1>1, <1>2, <1>3

(* A text is cut to the size asked for.                                    *)
LEMMA CutFits ==
  ASSUME NEW text \in Texts, NEW size \in Int
  PROVE  Cut(text, size) \in Texts /\ (size >= 0 => Size(Cut(text, size)) <= size)
<1> DEFINE T == {s \in Texts : size >= 0 => Size(CutTo(size, s)) <= size}
<1>1. << >> \in T
  BY CutFold, SizeFold, EmptyText
<1>2. ASSUME NEW s \in Texts, NEW line \in Lines, s \in T PROVE Append(s, line) \in T
  <2>1. CutTo(size, s) \in Texts
        /\ CutTo(size, Append(s, line)) = Take(CutTo(size, s), line, size)
    BY CutFold DEF Texts
  <2> QED
    BY <1>2, <2>1, TakeFits, BytesFold
<1>3. Texts \subseteq T
  <2> HIDE DEF T
  <2> QED
    BY <1>1, <1>2, SeqInduct DEF Texts
<1>4. Cut(text, size) = CutTo(size, text)
  BY DEF Cut, CutTo
<1> QED
  BY <1>3, <1>4, CutFold DEF Texts

(* The sizes the notices and headers have.                                 *)
LEMMA Sizes ==
  /\ Size(Header) \in Nat \ {0} /\ Size(Gap) \in Nat /\ Size(Truncated) \in Nat
  /\ \A i \in 0 .. Limit : Size(Notice(i)) \in Nat
  /\ Limit \in Nat \ {0} /\ Budget \in Int /\ Budget = Limit - Size(Notice(0))
  /\ Header \in Texts /\ Gap \in Texts /\ Truncated \in Texts
<1>1. Limit \in Nat \ {0} /\ 0 \in 0 .. Limit
  BY LimitsAssumption
<1>2. \A i \in 0 .. Limit : Size(Notice(i)) \in Nat
  BY TextsAssumption, SizeFold
<1>3. Size(Header) \in Nat \ {0}
  BY TextsAssumption, SizeFold, SizePositive
<1>4. Size(Gap) \in Nat /\ Size(Truncated) \in Nat
  BY TextsAssumption, SizeFold
<1>5. Budget \in Int
  BY <1>1, <1>2 DEF Budget
<1> QED
  BY <1>1, <1>2, <1>3, <1>4, <1>5, TextsAssumption DEF Budget

(* What reading every section has put out so far.                          *)
Roomy == Limit >= Size(Header) + Size(Notice(0))

(* The section the stop notice names.                                      *)
LastRead(a) == IF a.read = 0 THEN 0 ELSE a.read - 1

Reading ==
  {a \in [out : Texts, read : 0 .. Limit, stopped : BOOLEAN] :
      /\ ~a.stopped => /\ a.read <= Size(a.out)
                       /\ a.out = << >> \/ Size(a.out) <= Budget + Size(Gap)
                       /\ a.read = 0 => a.out = << >>
      /\ Roomy => Size(a.out) <= Limit + Size(Gap) + Size(Notice(LastRead(a)))
                                       - Size(Notice(0))}

(* Adding a section keeps to that, and reads one section at most.          *)
LEMMA AddReads ==
  ASSUME NEW a \in Reading, NEW section \in Texts
  PROVE  Add(a, section) \in Reading /\ Add(a, section).read <= a.read + 1
<1> DEFINE new == Add(a, section)
<1>1. /\ a.out \in Texts /\ a.read \in 0 .. Limit /\ a.stopped \in BOOLEAN
      /\ a = [out |-> a.out, read |-> a.read, stopped |-> a.stopped]
  BY DEF Reading
<1>2. Size(a.out) \in Nat /\ Size(section) \in Nat
  BY <1>1, SizeFold
<1>3. CASE a.stopped
  BY <1>1, <1>3 DEF Add
<1>4. CASE ~a.stopped /\ Size(a.out) + Size(Header) + Size(section) <= Budget
  <2> DEFINE out == a.out \o Header \o section \o Gap
  <2>1. out \in Texts /\ Size(out) = Size(a.out) + Size(Header) + Size(section) + Size(Gap)
    <3>1. a.out \o Header \in Texts /\ Size(a.out \o Header) = Size(a.out) + Size(Header)
      BY <1>1, Sizes, BytesConcat, SizeFold
    <3>2. (a.out \o Header) \o section \in Texts
          /\ Size((a.out \o Header) \o section) = Size(a.out \o Header) + Size(section)
      BY <3>1, BytesConcat, SizeFold
    <3>3. out \in Texts /\ Size(out) = Size((a.out \o Header) \o section) + Size(Gap)
      BY <3>2, Sizes, BytesConcat, SizeFold
    <3> QED
      BY <3>1, <3>2, <3>3
  <2>2. new = [out |-> out, read |-> a.read + 1, stopped |-> FALSE]
    BY <1>1, <1>4 DEF Add
  <2> HIDE DEF out, new
  <2>3. a.read <= Size(a.out)
    BY <1>4 DEF Reading
  <2>4. a.read + 1 \in 0 .. Limit /\ LastRead(new) = a.read /\ a.read \in 0 .. Limit
    <3>1. 0 \in 0 .. Limit
      BY Sizes
    <3>2. Size(Notice(0)) \in Nat
      BY <3>1, Sizes
    <3>3. a.read + 1 <= Limit
      BY <1>1, <1>2, <1>4, <2>3, <3>2, Sizes
    <3> QED
      BY <1>1, <2>2, <3>3, Sizes DEF LastRead
  <2>5. Size(out) <= Budget + Size(Gap) /\ a.read + 1 <= Size(out)
    BY <1>1, <1>2, <1>4, <2>1, <2>3, Sizes
  <2>6. Size(out) <= Limit + Size(Gap) + Size(Notice(LastRead(new))) - Size(Notice(0))
    <3>1. Size(Notice(LastRead(new))) \in Nat /\ Size(Notice(0)) \in Nat
      BY <2>4, Sizes
    <3> QED
      BY <2>1, <2>5, <3>1, Sizes, <1>2
  <2>7. new \in Reading
    BY <1>1, <2>1, <2>2, <2>4, <2>5, <2>6 DEF Reading
  <2> QED
    BY <1>1, <2>2, <2>7 DEF new
<1>5. CASE ~a.stopped /\ ~(Size(a.out) + Size(Header) + Size(section) <= Budget) /\ a.read > 0
  <2> DEFINE out == a.out \o Notice(a.read - 1)
  <2>1. LastRead(a) = a.read - 1 /\ a.read - 1 \in 0 .. Limit
    BY <1>1, <1>5, Sizes DEF LastRead
  <2>2. Notice(a.read - 1) \in Texts /\ Size(Notice(a.read - 1)) \in Nat
    BY <2>1, Sizes, TextsAssumption
  <2>3. out \in Texts /\ Size(out) = Size(a.out) + Size(Notice(a.read - 1))
    BY <1>1, <2>2, BytesConcat, SizeFold
  <2>4. new = [out |-> out, read |-> a.read, stopped |-> TRUE]
    BY <1>1, <1>5 DEF Add
  <2> HIDE DEF out, new
  <2>5. 0 \in 0 .. Limit /\ Size(Notice(0)) \in Nat
    BY Sizes
  <2>6. Size(a.out) <= Budget + Size(Gap) \/ (a.out = << >> /\ Size(a.out) = 0)
    BY <1>5, SizeFold DEF Reading
  <2>7. Roomy => Size(out) <= Limit + Size(Gap) + Size(Notice(a.read - 1)) - Size(Notice(0))
    BY <1>2, <2>2, <2>3, <2>5, <2>6, Sizes DEF Roomy
  <2>8. LastRead(new) = a.read - 1 /\ new.read = a.read
    BY <2>1, <2>4 DEF LastRead
  <2>9. new \in Reading
    BY <1>1, <2>3, <2>4, <2>7, <2>8 DEF Reading
  <2> QED
    BY <1>1, <2>8, <2>9 DEF new
<1>6. CASE ~a.stopped /\ ~(Size(a.out) + Size(Header) + Size(section) <= Budget) /\ ~(a.read > 0)
  <2> DEFINE cut == Cut(section, Budget - Size(Header))
             out == Header \o cut \o Truncated
  <2>1. a.read = 0
    BY <1>1, <1>6
  <2>2. Budget - Size(Header) \in Int
    BY Sizes
  <2>3. cut \in Texts /\ (Budget - Size(Header) >= 0 => Size(cut) <= Budget - Size(Header))
    BY <2>2, CutFits
  <2> HIDE DEF cut
  <2>4. out \in Texts /\ Size(out) = Size(Header) + Size(cut) + Size(Truncated)
        /\ Size(cut) \in Nat
    <3>1. Header \o cut \in Texts /\ Size(Header \o cut) = Size(Header) + Size(cut)
          /\ Size(cut) \in Nat
      BY <2>3, Sizes, BytesConcat, SizeFold
    <3> QED
      BY <3>1, Sizes, BytesConcat, SizeFold
  <2>5. new = [out |-> out, read |-> a.read, stopped |-> TRUE]
    BY <1>1, <1>6 DEF Add, cut
  <2> HIDE DEF out, new
  <2>6. 0 \in 0 .. Limit /\ Size(Notice(0)) \in Nat
    BY Sizes
  <2>7. Roomy => Size(out) <= Limit + Size(Gap) + Size(Notice(0)) - Size(Notice(0))
    BY <2>3, <2>4, <2>6, Sizes, SizesAssumption DEF Roomy
  <2>8. LastRead(new) = 0 /\ new.read = a.read
    BY <2>1, <2>5 DEF LastRead
  <2>9. new \in Reading
    BY <1>1, <2>4, <2>5, <2>7, <2>8 DEF Reading
  <2> QED
    BY <1>1, <2>8, <2>9 DEF new
<1> QED
  BY <1>1, <1>3, <1>4, <1>5, <1>6

-----------------------------------------------------------------------------
(* The loops of the cache.                                                 *)

(* The rows of the table.                                                  *)
Rows == [id : Nat, sections : Seq(Texts), text : Texts, from : Nat]

(* The loops of the cache, from the state each starts in.                  *)
Start == [out |-> << >>, read |-> 0, stopped |-> FALSE]
ReadAll(s) == FoldLeft(Add, Start, s)
SizeOf(s) == FoldLeft(LAMBDA sum, section : sum + Size(section), 0, s)
TotalOf(s) == FoldLeft(LAMBDA sum, r : sum + SectionsSize(r.sections), 0, s)
PruneFrom(rows, keep, s) == FoldLeft(LAMBDA left, r : Evict(left, keep), rows, s)

(* Nothing has been read yet.                                              *)
LEMMA StartReads == Start \in Reading
<1>1. << >> \in Texts /\ Size(<< >>) = 0
  BY EmptyText, SizeFold
<1>2. 0 \in 0 .. Limit /\ Size(Notice(0)) \in Nat
  BY Sizes
<1>3. Roomy => 0 <= Limit + Size(Gap) + Size(Notice(0)) - Size(Notice(0))
  BY <1>2, Sizes
<1>4. LastRead(Start) = 0
  BY DEF LastRead, Start
<1> QED
  BY <1>1, <1>2, <1>3, <1>4 DEF Reading, Start

(* readAllResponseSections: the loop over the sections.                    *)
LEMMA ReadAllTrace ==
  ASSUME NEW s \in Seq(Texts)
  PROVE  \E g \in [0 .. Len(s) -> Reading] :
            /\ g[0] = Start
            /\ \A i \in 1 .. Len(s) : g[i] = Add(g[i - 1], s[i])
            /\ ReadAll(s) = g[Len(s)]
<1> DEFINE n == Len(s)
           R == Reading
           b == Start
           Op == [p \in R \X (1 .. n) |-> Add(p[1], s[p[2]])]
           Body(c) == [t \in SUBSET (DOMAIN s) |->
                         IF t = {} THEN b ELSE Add(c[t \ {Max(t)}], s[Max(t)])]
           iter == CHOOSE c : c = Body(c)
<1>1. ReadAll(s) = iter[DOMAIN s]
  BY DEF ReadAll, FoldLeft, MapThenFoldSet
<1>2. ASSUME NEW r \in R, NEW i \in 1 .. n PROVE Add(r, s[i]) \in R
  <2>1. s[i] \in Texts
    OBVIOUS
  <2> QED
    BY <2>1, StartReads, AddReads
<1>3. \A r \in R, i \in 1 .. n : Op[<<r, i>>] = Add(r, s[i])
  OBVIOUS
<1>4. b \in R /\ n \in Nat /\ DOMAIN s = 1 .. n
  BY StartReads, AddReads
<1> HIDE DEF n, R, b
<1>5. Op \in [R \X (1 .. n) -> R]
  BY <1>2
<1> HIDE DEF Op
<1>6. \A t \in SUBSET (1 .. n) : t # {} => Max(t) \in 1 .. n
  BY <1>4, MaxOf
<1>7. PICK f : IsFold(f, R, b, n, Op)
  BY <1>4, <1>5, FoldExists
<1>8. f = Body(f)
  <2>1. ASSUME NEW t \in SUBSET (1 .. n) PROVE f[t] = Body(f)[t]
    BY <1>3, <1>4, <1>6, <1>7 DEF IsFold
  <2> QED
    BY <1>4, <1>7, <2>1 DEF IsFold
<1>9. iter = Body(iter)
  BY <1>8
<1> HIDE DEF iter
<1>10. FoldsLike(iter, R, b, n, Op)
  <2>1. iter[{}] = b
    BY <1>4, <1>9
  <2>2. \A t \in SUBSET (1 .. n) : (t # {} /\ iter[t \ {Max(t)}] \in R)
             => iter[t] = Op[<<iter[t \ {Max(t)}], Max(t)>>]
    BY <1>3, <1>4, <1>6, <1>9
  <2> QED
    BY <2>1, <2>2 DEF FoldsLike
<1> HIDE DEF Body
<1>11. PICK g : IsTrace(g, R, b, n, Op) /\ Computes(g, iter, n)
  BY <1>4, <1>5, <1>10, FoldTrace
<1>12. ASSUME NEW i \in 1 .. n PROVE g[i] = Add(g[i - 1], s[i])
  <2>1. i - 1 \in 0 .. n
    BY <1>4
  <2> QED
    BY <1>3, <1>11, <2>1 DEF IsTrace
<1> QED
  BY <1>1, <1>4, <1>11, <1>12 DEF n, R, b, IsTrace, Computes

(* Of nothing, and of one element more.                                    *)
LEMMA ReadAllFold ==
  /\ ReadAll(<< >>) = Start
  /\ \A s \in Seq(Texts) :
        /\ ReadAll(s) \in Reading
        /\ \A x \in Texts : ReadAll(Append(s, x)) = Add(ReadAll(s), x)
<1>1. ReadAll(<< >>) = Start
  <2> DEFINE z == << >>
  <2>1. z \in Seq(Texts)
    OBVIOUS
  <2>2. Len(z) = 0
    OBVIOUS
  <2> HIDE DEF z
  <2>3. PICK g \in [0 .. Len(z) -> Reading] :
            /\ g[0] = Start
            /\ \A i \in 1 .. Len(z) : g[i] = Add(g[i - 1], z[i])
            /\ ReadAll(z) = g[Len(z)]
    BY <2>1, ReadAllTrace
  <2> QED
    BY <2>2, <2>3 DEF z
<1>2. ASSUME NEW s \in Seq(Texts) PROVE ReadAll(s) \in Reading
  <2>1. PICK g \in [0 .. Len(s) -> Reading] : ReadAll(s) = g[Len(s)]
    BY ReadAllTrace
  <2>2. Len(s) \in 0 .. Len(s)
    OBVIOUS
  <2> QED
    BY <2>1, <2>2
<1>3. ASSUME NEW s \in Seq(Texts), NEW x \in Texts
      PROVE  ReadAll(Append(s, x)) = Add(ReadAll(s), x)
  <2> DEFINE u == Append(s, x)
             n == Len(s)
  <2>1. /\ u \in Seq(Texts) /\ Len(u) = n + 1 /\ u[n + 1] = x /\ n \in Nat
        /\ \A i \in 1 .. n : u[i] = s[i]
    OBVIOUS
  <2> HIDE DEF u
  <2>2. PICK g \in [0 .. n -> Reading] :
            /\ g[0] = Start
            /\ \A i \in 1 .. n : g[i] = Add(g[i - 1], s[i])
            /\ ReadAll(s) = g[n]
    BY ReadAllTrace
  <2>3. PICK h \in [0 .. Len(u) -> Reading] :
            /\ h[0] = Start
            /\ \A i \in 1 .. Len(u) : h[i] = Add(h[i - 1], u[i])
            /\ ReadAll(u) = h[Len(u)]
    BY <2>1, ReadAllTrace
  <2> HIDE DEF n
  <2>4. ASSUME NEW i \in 1 .. n, g[i - 1] = h[i - 1] PROVE g[i] = h[i]
    <3>1. i \in 1 .. Len(u) /\ u[i] = s[i]
      BY <2>1
    <3> QED
      BY <2>2, <2>3, <2>4, <3>1
  <2>5. InStep(g, h, n)
    BY <2>2, <2>3, <2>4 DEF InStep
  <2>6. g[n] = h[n]
    <3>1. Agree(g, h, n)
      BY <2>1, <2>5, SameTrace
    <3> QED
      BY <2>1, <3>1 DEF Agree
  <2>7. h[n + 1] = Add(h[n], x)
    <3>1. n + 1 \in 1 .. Len(u) /\ (n + 1) - 1 = n
      BY <2>1
    <3> QED
      BY <2>1, <2>3, <3>1
  <2> QED
    BY <2>1, <2>2, <2>3, <2>6, <2>7 DEF u
<1> QED
  BY <1>1, <1>2, <1>3

(* The size of the sections of a response.                                 *)
LEMMA SectionsSizeTrace ==
  ASSUME NEW s \in Seq(Texts)
  PROVE  \E g \in [0 .. Len(s) -> Nat] :
            /\ g[0] = 0
            /\ \A i \in 1 .. Len(s) : g[i] = g[i - 1] + Size(s[i])
            /\ SizeOf(s) = g[Len(s)]
<1> DEFINE n == Len(s)
           R == Nat
           b == 0
           Op == [p \in R \X (1 .. n) |-> p[1] + Size(s[p[2]])]
           Body(c) == [t \in SUBSET (DOMAIN s) |->
                         IF t = {} THEN b ELSE c[t \ {Max(t)}] + Size(s[Max(t)])]
           iter == CHOOSE c : c = Body(c)
<1>1. SizeOf(s) = iter[DOMAIN s]
  BY DEF SizeOf, FoldLeft, MapThenFoldSet
<1>2. ASSUME NEW r \in R, NEW i \in 1 .. n PROVE r + Size(s[i]) \in R
  <2>1. s[i] \in Texts
    OBVIOUS
  <2> QED
    BY <2>1, SizeFold
<1>3. \A r \in R, i \in 1 .. n : Op[<<r, i>>] = r + Size(s[i])
  OBVIOUS
<1>4. b \in R /\ n \in Nat /\ DOMAIN s = 1 .. n
  BY SizeFold
<1> HIDE DEF n, R, b
<1>5. Op \in [R \X (1 .. n) -> R]
  BY <1>2
<1> HIDE DEF Op
<1>6. \A t \in SUBSET (1 .. n) : t # {} => Max(t) \in 1 .. n
  BY <1>4, MaxOf
<1>7. PICK f : IsFold(f, R, b, n, Op)
  BY <1>4, <1>5, FoldExists
<1>8. f = Body(f)
  <2>1. ASSUME NEW t \in SUBSET (1 .. n) PROVE f[t] = Body(f)[t]
    BY <1>3, <1>4, <1>6, <1>7 DEF IsFold
  <2> QED
    BY <1>4, <1>7, <2>1 DEF IsFold
<1>9. iter = Body(iter)
  BY <1>8
<1> HIDE DEF iter
<1>10. FoldsLike(iter, R, b, n, Op)
  <2>1. iter[{}] = b
    BY <1>4, <1>9
  <2>2. \A t \in SUBSET (1 .. n) : (t # {} /\ iter[t \ {Max(t)}] \in R)
             => iter[t] = Op[<<iter[t \ {Max(t)}], Max(t)>>]
    BY <1>3, <1>4, <1>6, <1>9
  <2> QED
    BY <2>1, <2>2 DEF FoldsLike
<1> HIDE DEF Body
<1>11. PICK g : IsTrace(g, R, b, n, Op) /\ Computes(g, iter, n)
  BY <1>4, <1>5, <1>10, FoldTrace
<1>12. ASSUME NEW i \in 1 .. n PROVE g[i] = g[i - 1] + Size(s[i])
  <2>1. i - 1 \in 0 .. n
    BY <1>4
  <2> QED
    BY <1>3, <1>11, <2>1 DEF IsTrace
<1> QED
  BY <1>1, <1>4, <1>11, <1>12 DEF n, R, b, IsTrace, Computes

(* Of nothing, and of one element more.                                    *)
LEMMA SectionsSizeFold ==
  /\ SizeOf(<< >>) = 0
  /\ \A s \in Seq(Texts) :
        /\ SizeOf(s) \in Nat
        /\ \A x \in Texts : SizeOf(Append(s, x)) = SizeOf(s) + Size(x)
<1>1. SizeOf(<< >>) = 0
  <2> DEFINE z == << >>
  <2>1. z \in Seq(Texts)
    OBVIOUS
  <2>2. Len(z) = 0
    OBVIOUS
  <2> HIDE DEF z
  <2>3. PICK g \in [0 .. Len(z) -> Nat] :
            /\ g[0] = 0
            /\ \A i \in 1 .. Len(z) : g[i] = g[i - 1] + Size(z[i])
            /\ SizeOf(z) = g[Len(z)]
    BY <2>1, SectionsSizeTrace
  <2> QED
    BY <2>2, <2>3 DEF z
<1>2. ASSUME NEW s \in Seq(Texts) PROVE SizeOf(s) \in Nat
  <2>1. PICK g \in [0 .. Len(s) -> Nat] : SizeOf(s) = g[Len(s)]
    BY SectionsSizeTrace
  <2>2. Len(s) \in 0 .. Len(s)
    OBVIOUS
  <2> QED
    BY <2>1, <2>2
<1>3. ASSUME NEW s \in Seq(Texts), NEW x \in Texts
      PROVE  SizeOf(Append(s, x)) = SizeOf(s) + Size(x)
  <2> DEFINE u == Append(s, x)
             n == Len(s)
  <2>1. /\ u \in Seq(Texts) /\ Len(u) = n + 1 /\ u[n + 1] = x /\ n \in Nat
        /\ \A i \in 1 .. n : u[i] = s[i]
    OBVIOUS
  <2> HIDE DEF u
  <2>2. PICK g \in [0 .. n -> Nat] :
            /\ g[0] = 0
            /\ \A i \in 1 .. n : g[i] = g[i - 1] + Size(s[i])
            /\ SizeOf(s) = g[n]
    BY SectionsSizeTrace
  <2>3. PICK h \in [0 .. Len(u) -> Nat] :
            /\ h[0] = 0
            /\ \A i \in 1 .. Len(u) : h[i] = h[i - 1] + Size(u[i])
            /\ SizeOf(u) = h[Len(u)]
    BY <2>1, SectionsSizeTrace
  <2> HIDE DEF n
  <2>4. ASSUME NEW i \in 1 .. n, g[i - 1] = h[i - 1] PROVE g[i] = h[i]
    <3>1. i \in 1 .. Len(u) /\ u[i] = s[i]
      BY <2>1
    <3> QED
      BY <2>2, <2>3, <2>4, <3>1
  <2>5. InStep(g, h, n)
    BY <2>2, <2>3, <2>4 DEF InStep
  <2>6. g[n] = h[n]
    <3>1. Agree(g, h, n)
      BY <2>1, <2>5, SameTrace
    <3> QED
      BY <2>1, <3>1 DEF Agree
  <2>7. h[n + 1] = h[n] + Size(x)
    <3>1. n + 1 \in 1 .. Len(u) /\ (n + 1) - 1 = n
      BY <2>1
    <3> QED
      BY <2>1, <2>3, <3>1
  <2> QED
    BY <2>1, <2>2, <2>3, <2>6, <2>7 DEF u
<1> QED
  BY <1>1, <1>2, <1>3

(* The operators of the module are those loops.                            *)
LEMMA SectionsSizeIs ==
  /\ \A s : SectionsSize(s) = SizeOf(s)
  /\ \A s : AllSections(s) = ReadAll(s).out
  /\ \A s : TotalBytes(s) = TotalOf(s)
BY DEF SectionsSize, SizeOf, AllSections, ReadAll, Start, TotalBytes, TotalOf

(* A row has a size.                                                       *)
LEMMA RowSize ==
  \A r \in Rows : SectionsSize(r.sections) \in Nat
BY SectionsSizeIs, SectionsSizeFold DEF Rows

(* The size of a table.                                                    *)
LEMMA TotalTrace ==
  ASSUME NEW s \in Seq(Rows)
  PROVE  \E g \in [0 .. Len(s) -> Nat] :
            /\ g[0] = 0
            /\ \A i \in 1 .. Len(s) : g[i] = g[i - 1] + SectionsSize(s[i].sections)
            /\ TotalOf(s) = g[Len(s)]
<1> DEFINE n == Len(s)
           R == Nat
           b == 0
           Op == [p \in R \X (1 .. n) |-> p[1] + SectionsSize(s[p[2]].sections)]
           Body(c) == [t \in SUBSET (DOMAIN s) |->
                         IF t = {} THEN b ELSE c[t \ {Max(t)}] + SectionsSize(s[Max(t)].sections)]
           iter == CHOOSE c : c = Body(c)
<1>1. TotalOf(s) = iter[DOMAIN s]
  BY DEF TotalOf, FoldLeft, MapThenFoldSet
<1>2. ASSUME NEW r \in R, NEW i \in 1 .. n PROVE r + SectionsSize(s[i].sections) \in R
  <2>1. s[i] \in Rows
    OBVIOUS
  <2> QED
    BY <2>1, RowSize
<1>3. \A r \in R, i \in 1 .. n : Op[<<r, i>>] = r + SectionsSize(s[i].sections)
  OBVIOUS
<1>4. b \in R /\ n \in Nat /\ DOMAIN s = 1 .. n
  BY RowSize
<1> HIDE DEF n, R, b
<1>5. Op \in [R \X (1 .. n) -> R]
  BY <1>2
<1> HIDE DEF Op
<1>6. \A t \in SUBSET (1 .. n) : t # {} => Max(t) \in 1 .. n
  BY <1>4, MaxOf
<1>7. PICK f : IsFold(f, R, b, n, Op)
  BY <1>4, <1>5, FoldExists
<1>8. f = Body(f)
  <2>1. ASSUME NEW t \in SUBSET (1 .. n) PROVE f[t] = Body(f)[t]
    BY <1>3, <1>4, <1>6, <1>7 DEF IsFold
  <2> QED
    BY <1>4, <1>7, <2>1 DEF IsFold
<1>9. iter = Body(iter)
  BY <1>8
<1> HIDE DEF iter
<1>10. FoldsLike(iter, R, b, n, Op)
  <2>1. iter[{}] = b
    BY <1>4, <1>9
  <2>2. \A t \in SUBSET (1 .. n) : (t # {} /\ iter[t \ {Max(t)}] \in R)
             => iter[t] = Op[<<iter[t \ {Max(t)}], Max(t)>>]
    BY <1>3, <1>4, <1>6, <1>9
  <2> QED
    BY <2>1, <2>2 DEF FoldsLike
<1> HIDE DEF Body
<1>11. PICK g : IsTrace(g, R, b, n, Op) /\ Computes(g, iter, n)
  BY <1>4, <1>5, <1>10, FoldTrace
<1>12. ASSUME NEW i \in 1 .. n PROVE g[i] = g[i - 1] + SectionsSize(s[i].sections)
  <2>1. i - 1 \in 0 .. n
    BY <1>4
  <2> QED
    BY <1>3, <1>11, <2>1 DEF IsTrace
<1> QED
  BY <1>1, <1>4, <1>11, <1>12 DEF n, R, b, IsTrace, Computes

(* Of nothing, and of one element more.                                    *)
LEMMA TotalFold ==
  /\ TotalOf(<< >>) = 0
  /\ \A s \in Seq(Rows) :
        /\ TotalOf(s) \in Nat
        /\ \A x \in Rows : TotalOf(Append(s, x)) = TotalOf(s) + SectionsSize(x.sections)
<1>1. TotalOf(<< >>) = 0
  <2> DEFINE z == << >>
  <2>1. z \in Seq(Rows)
    OBVIOUS
  <2>2. Len(z) = 0
    OBVIOUS
  <2> HIDE DEF z
  <2>3. PICK g \in [0 .. Len(z) -> Nat] :
            /\ g[0] = 0
            /\ \A i \in 1 .. Len(z) : g[i] = g[i - 1] + SectionsSize(z[i].sections)
            /\ TotalOf(z) = g[Len(z)]
    BY <2>1, TotalTrace
  <2> QED
    BY <2>2, <2>3 DEF z
<1>2. ASSUME NEW s \in Seq(Rows) PROVE TotalOf(s) \in Nat
  <2>1. PICK g \in [0 .. Len(s) -> Nat] : TotalOf(s) = g[Len(s)]
    BY TotalTrace
  <2>2. Len(s) \in 0 .. Len(s)
    OBVIOUS
  <2> QED
    BY <2>1, <2>2
<1>3. ASSUME NEW s \in Seq(Rows), NEW x \in Rows
      PROVE  TotalOf(Append(s, x)) = TotalOf(s) + SectionsSize(x.sections)
  <2> DEFINE u == Append(s, x)
             n == Len(s)
  <2>1. /\ u \in Seq(Rows) /\ Len(u) = n + 1 /\ u[n + 1] = x /\ n \in Nat
        /\ \A i \in 1 .. n : u[i] = s[i]
    OBVIOUS
  <2> HIDE DEF u
  <2>2. PICK g \in [0 .. n -> Nat] :
            /\ g[0] = 0
            /\ \A i \in 1 .. n : g[i] = g[i - 1] + SectionsSize(s[i].sections)
            /\ TotalOf(s) = g[n]
    BY TotalTrace
  <2>3. PICK h \in [0 .. Len(u) -> Nat] :
            /\ h[0] = 0
            /\ \A i \in 1 .. Len(u) : h[i] = h[i - 1] + SectionsSize(u[i].sections)
            /\ TotalOf(u) = h[Len(u)]
    BY <2>1, TotalTrace
  <2> HIDE DEF n
  <2>4. ASSUME NEW i \in 1 .. n, g[i - 1] = h[i - 1] PROVE g[i] = h[i]
    <3>1. i \in 1 .. Len(u) /\ u[i] = s[i]
      BY <2>1
    <3> QED
      BY <2>2, <2>3, <2>4, <3>1
  <2>5. InStep(g, h, n)
    BY <2>2, <2>3, <2>4 DEF InStep
  <2>6. g[n] = h[n]
    <3>1. Agree(g, h, n)
      BY <2>1, <2>5, SameTrace
    <3> QED
      BY <2>1, <3>1 DEF Agree
  <2>7. h[n + 1] = h[n] + SectionsSize(x.sections)
    <3>1. n + 1 \in 1 .. Len(u) /\ (n + 1) - 1 = n
      BY <2>1
    <3> QED
      BY <2>1, <2>3, <3>1
  <2> QED
    BY <2>1, <2>2, <2>3, <2>6, <2>7 DEF u
<1> QED
  BY <1>1, <1>2, <1>3

(* A table is a sequence of rows.                                          *)
Tables == Seq(Rows)

(* It stays one with a row more.                                           *)
LEMMA KeepRows ==
  /\ << >> \in Tables
  /\ \A kept \in Tables, r \in Rows : Append(kept, r) \in Tables
BY DEF Tables

(* Deleting a response from the table.                                     *)
LEMMA WithoutTrace ==
  ASSUME NEW id, NEW s \in Seq(Rows)
  PROVE  \E g \in [0 .. Len(s) -> Tables] :
            /\ g[0] = << >>
            /\ \A i \in 1 .. Len(s) : g[i] = (IF s[i].id = id THEN g[i - 1] ELSE Append(g[i - 1], s[i]))
            /\ Without(s, id) = g[Len(s)]
<1> DEFINE n == Len(s)
           R == Tables
           b == << >>
           Op == [p \in R \X (1 .. n) |-> (IF s[p[2]].id = id THEN p[1] ELSE Append(p[1], s[p[2]]))]
           Body(c) == [t \in SUBSET (DOMAIN s) |->
                         IF t = {} THEN b ELSE (IF s[Max(t)].id = id THEN c[t \ {Max(t)}] ELSE Append(c[t \ {Max(t)}], s[Max(t)]))]
           iter == CHOOSE c : c = Body(c)
<1>1. Without(s, id) = iter[DOMAIN s]
  BY DEF Without, FoldLeft, MapThenFoldSet
<1>2. ASSUME NEW r \in R, NEW i \in 1 .. n PROVE (IF s[i].id = id THEN r ELSE Append(r, s[i])) \in R
  <2>1. s[i] \in Rows
    OBVIOUS
  <2> QED
    BY <2>1, KeepRows
<1>3. \A r \in R, i \in 1 .. n : Op[<<r, i>>] = (IF s[i].id = id THEN r ELSE Append(r, s[i]))
  OBVIOUS
<1>4. b \in R /\ n \in Nat /\ DOMAIN s = 1 .. n
  BY KeepRows
<1> HIDE DEF n, R, b
<1>5. Op \in [R \X (1 .. n) -> R]
  BY <1>2
<1> HIDE DEF Op
<1>6. \A t \in SUBSET (1 .. n) : t # {} => Max(t) \in 1 .. n
  BY <1>4, MaxOf
<1>7. PICK f : IsFold(f, R, b, n, Op)
  BY <1>4, <1>5, FoldExists
<1>8. f = Body(f)
  <2>1. ASSUME NEW t \in SUBSET (1 .. n) PROVE f[t] = Body(f)[t]
    BY <1>3, <1>4, <1>6, <1>7 DEF IsFold
  <2> QED
    BY <1>4, <1>7, <2>1 DEF IsFold
<1>9. iter = Body(iter)
  BY <1>8
<1> HIDE DEF iter
<1>10. FoldsLike(iter, R, b, n, Op)
  <2>1. iter[{}] = b
    BY <1>4, <1>9
  <2>2. \A t \in SUBSET (1 .. n) : (t # {} /\ iter[t \ {Max(t)}] \in R)
             => iter[t] = Op[<<iter[t \ {Max(t)}], Max(t)>>]
    BY <1>3, <1>4, <1>6, <1>9
  <2> QED
    BY <2>1, <2>2 DEF FoldsLike
<1> HIDE DEF Body
<1>11. PICK g : IsTrace(g, R, b, n, Op) /\ Computes(g, iter, n)
  BY <1>4, <1>5, <1>10, FoldTrace
<1>12. ASSUME NEW i \in 1 .. n PROVE g[i] = (IF s[i].id = id THEN g[i - 1] ELSE Append(g[i - 1], s[i]))
  <2>1. i - 1 \in 0 .. n
    BY <1>4
  <2> QED
    BY <1>3, <1>11, <2>1 DEF IsTrace
<1> QED
  BY <1>1, <1>4, <1>11, <1>12 DEF n, R, b, IsTrace, Computes

(* Of nothing, and of one element more.                                    *)
LEMMA WithoutFold ==
  ASSUME NEW id
  PROVE  /\ Without(<< >>, id) = << >>
         /\ \A s \in Seq(Rows) :
               /\ Without(s, id) \in Tables
               /\ \A x \in Rows : Without(Append(s, x), id) = (IF x.id = id THEN Without(s, id) ELSE Append(Without(s, id), x))
<1>1. Without(<< >>, id) = << >>
  <2> DEFINE z == << >>
  <2>1. z \in Seq(Rows)
    OBVIOUS
  <2>2. Len(z) = 0
    OBVIOUS
  <2> HIDE DEF z
  <2>3. PICK g \in [0 .. Len(z) -> Tables] :
            /\ g[0] = << >>
            /\ \A i \in 1 .. Len(z) : g[i] = (IF z[i].id = id THEN g[i - 1] ELSE Append(g[i - 1], z[i]))
            /\ Without(z, id) = g[Len(z)]
    BY <2>1, WithoutTrace
  <2> QED
    BY <2>2, <2>3 DEF z
<1>2. ASSUME NEW s \in Seq(Rows) PROVE Without(s, id) \in Tables
  <2>1. PICK g \in [0 .. Len(s) -> Tables] : Without(s, id) = g[Len(s)]
    BY WithoutTrace
  <2>2. Len(s) \in 0 .. Len(s)
    OBVIOUS
  <2> QED
    BY <2>1, <2>2
<1>3. ASSUME NEW s \in Seq(Rows), NEW x \in Rows
      PROVE  Without(Append(s, x), id) = (IF x.id = id THEN Without(s, id) ELSE Append(Without(s, id), x))
  <2> DEFINE u == Append(s, x)
             n == Len(s)
  <2>1. /\ u \in Seq(Rows) /\ Len(u) = n + 1 /\ u[n + 1] = x /\ n \in Nat
        /\ \A i \in 1 .. n : u[i] = s[i]
    OBVIOUS
  <2> HIDE DEF u
  <2>2. PICK g \in [0 .. n -> Tables] :
            /\ g[0] = << >>
            /\ \A i \in 1 .. n : g[i] = (IF s[i].id = id THEN g[i - 1] ELSE Append(g[i - 1], s[i]))
            /\ Without(s, id) = g[n]
    BY WithoutTrace
  <2>3. PICK h \in [0 .. Len(u) -> Tables] :
            /\ h[0] = << >>
            /\ \A i \in 1 .. Len(u) : h[i] = (IF u[i].id = id THEN h[i - 1] ELSE Append(h[i - 1], u[i]))
            /\ Without(u, id) = h[Len(u)]
    BY <2>1, WithoutTrace
  <2> HIDE DEF n
  <2>4. ASSUME NEW i \in 1 .. n, g[i - 1] = h[i - 1] PROVE g[i] = h[i]
    <3>1. i \in 1 .. Len(u) /\ u[i] = s[i]
      BY <2>1
    <3> QED
      BY <2>2, <2>3, <2>4, <3>1
  <2>5. InStep(g, h, n)
    BY <2>2, <2>3, <2>4 DEF InStep
  <2>6. g[n] = h[n]
    <3>1. Agree(g, h, n)
      BY <2>1, <2>5, SameTrace
    <3> QED
      BY <2>1, <3>1 DEF Agree
  <2>7. h[n + 1] = (IF x.id = id THEN h[n] ELSE Append(h[n], x))
    <3>1. n + 1 \in 1 .. Len(u) /\ (n + 1) - 1 = n
      BY <2>1
    <3> QED
      BY <2>1, <2>3, <3>1
  <2> QED
    BY <2>1, <2>2, <2>3, <2>6, <2>7 DEF u
<1> QED
  BY <1>1, <1>2, <1>3

-----------------------------------------------------------------------------
(* Deleting a response, and which one goes first.                          *)

(* Rows are in the order of their ids, and no two share one.               *)
Ordered(s) == \A i, j \in DOMAIN s : i < j => s[i].id < s[j].id

(* A row more in a table.                                                  *)
LEMMA AppendRows ==
  ASSUME NEW s \in Tables, NEW x \in Rows
  PROVE  /\ Append(s, x) \in Tables
         /\ Len(Append(s, x)) = Len(s) + 1
         /\ Range(Append(s, x)) = Range(s) \cup {x}
         /\ Ordered(Append(s, x)) <=> (Ordered(s) /\ \A r \in Range(s) : r.id < x.id)
<1> DEFINE u == Append(s, x)
           n == Len(s)
<1>1. /\ u \in Tables /\ Len(u) = n + 1 /\ u[n + 1] = x /\ n \in Nat
      /\ DOMAIN s = 1 .. n /\ DOMAIN u = 1 .. n + 1
      /\ \A i \in 1 .. n : u[i] = s[i]
  BY DEF Tables
<1>2. \A i \in 1 .. n + 1 : i \in 1 .. n \/ i = n + 1
  BY <1>1
<1>3. \A i \in 1 .. n : i \in 1 .. n + 1 /\ i < n + 1
  BY <1>1
<1>4. n + 1 \in 1 .. n + 1
  BY <1>1
<1>5. \A r \in Range(s) : \E i \in 1 .. n : r = s[i]
  BY <1>1 DEF Range
<1>6. \A i \in 1 .. n : s[i] \in Range(s)
  BY <1>1 DEF Range
<1> HIDE DEF u, n
<1>7. Range(u) = Range(s) \cup {x}
  <2>1. \A i \in 1 .. n + 1 : u[i] \in Range(s) \cup {x}
    BY <1>1, <1>2, <1>6
  <2>2. Range(u) \subseteq Range(s) \cup {x}
    BY <1>1, <2>1 DEF Range
  <2>3. \A r \in Range(s) \cup {x} : \E i \in 1 .. n + 1 : u[i] = r
    BY <1>1, <1>3, <1>4, <1>5
  <2>4. Range(s) \cup {x} \subseteq Range(u)
    BY <1>1, <2>3 DEF Range
  <2> QED
    BY <2>2, <2>4
<1>8. Ordered(u) => (Ordered(s) /\ \A r \in Range(s) : r.id < x.id)
  BY <1>1, <1>3, <1>4, <1>5 DEF Ordered
<1>9. ASSUME Ordered(s), \A r \in Range(s) : r.id < x.id PROVE Ordered(u)
  <2> SUFFICES ASSUME NEW i \in 1 .. n + 1, NEW j \in 1 .. n + 1, i < j
               PROVE  u[i].id < u[j].id
    BY <1>1 DEF Ordered
  <2>1. i \in 1 .. n
    BY <1>1
  <2>2. CASE j = n + 1
    BY <1>1, <1>6, <1>9, <2>1, <2>2
  <2>3. CASE j \in 1 .. n
    BY <1>1, <1>9, <2>1, <2>3 DEF Ordered
  <2> QED
    BY <1>2, <2>2, <2>3
<1> QED
  BY <1>1, <1>7, <1>8, <1>9 DEF u, n

(* The empty table.                                                        *)
LEMMA NoRows ==
  /\ << >> \in Tables /\ Len(<< >>) = 0
  /\ Range(<< >>) = {} /\ Ordered(<< >>)
BY DEF Tables, Range, Ordered

(* Deleting a response leaves the others as they are, and frees its bytes. *)
WithoutHolds(s, id) ==
  /\ Range(Without(s, id)) = {r \in Range(s) : r.id # id}
  /\ Ordered(s) => Ordered(Without(s, id))
  /\ (\A r \in Range(s) : r.id # id) => Without(s, id) = s
  /\ Ordered(s) => \A r \in Range(s) : r.id = id =>
        /\ Len(Without(s, id)) + 1 = Len(s)
        /\ TotalOf(Without(s, id)) + SectionsSize(r.sections) = TotalOf(s)

(* It does.                                                                *)
LEMMA WithoutKeeps ==
  ASSUME NEW s \in Tables, NEW id
  PROVE  Without(s, id) \in Tables /\ WithoutHolds(s, id)
<1> DEFINE T == {u \in Tables : WithoutHolds(u, id)}
<1>1. << >> \in T
  BY NoRows, WithoutFold DEF WithoutHolds
<1>2. ASSUME NEW u \in Tables, NEW x \in Rows, u \in T PROVE Append(u, x) \in T
  <2> DEFINE w == Without(u, id)
             v == Append(u, x)
  <2>1. w \in Tables /\ Without(v, id) = IF x.id = id THEN w ELSE Append(w, x)
    BY WithoutFold DEF Tables
  <2>2. WithoutHolds(u, id)
    BY <1>2
  <2>3. /\ v \in Tables /\ Len(v) = Len(u) + 1 /\ Range(v) = Range(u) \cup {x}
        /\ Ordered(v) <=> (Ordered(u) /\ \A r \in Range(u) : r.id < x.id)
    BY AppendRows
  <2>4. /\ Len(Append(w, x)) = Len(w) + 1 /\ Range(Append(w, x)) = Range(w) \cup {x}
        /\ Ordered(Append(w, x)) <=> (Ordered(w) /\ \A r \in Range(w) : r.id < x.id)
        /\ Append(w, x) \in Tables
    BY <2>1, AppendRows
  <2>5. /\ TotalOf(v) = TotalOf(u) + SectionsSize(x.sections)
        /\ TotalOf(Append(w, x)) = TotalOf(w) + SectionsSize(x.sections)
        /\ TotalOf(u) \in Nat /\ TotalOf(w) \in Nat /\ SectionsSize(x.sections) \in Nat
    BY <2>1, TotalFold, RowSize DEF Tables
  <2>6. Len(u) \in Nat /\ Len(w) \in Nat /\ \A r \in Range(u) : r \in Rows
    BY <2>1 DEF Tables, Range
  <2> HIDE DEF w, v
  <2>7. Range(w) = {r \in Range(u) : r.id # id}
    BY <2>2 DEF WithoutHolds, w
  <2>8. Ordered(u) => Ordered(w)
    BY <2>2 DEF WithoutHolds, w
  <2>9. (\A r \in Range(u) : r.id # id) => w = u
    BY <2>2 DEF WithoutHolds, w
  <2>10. Ordered(u) => \A r \in Range(u) : r.id = id =>
            /\ Len(w) + 1 = Len(u)
            /\ TotalOf(w) + SectionsSize(r.sections) = TotalOf(u)
    BY <2>2 DEF WithoutHolds, w
  <2>11. CASE x.id = id
    <3>1. Without(v, id) = w
      BY <2>1, <2>11
    <3>2. Range(w) = {r \in Range(v) : r.id # id}
      BY <2>3, <2>7, <2>11
    <3>3. Ordered(v) => Ordered(w)
      BY <2>3, <2>8
    <3>4. ~(\A r \in Range(v) : r.id # id)
      BY <2>3, <2>11
    <3>5. ASSUME Ordered(v), NEW r \in Range(v), r.id = id
          PROVE  /\ Len(w) + 1 = Len(v)
                 /\ TotalOf(w) + SectionsSize(r.sections) = TotalOf(v)
      <4>1. \A q \in Range(u) : q.id # id
        <5>1. ASSUME NEW q \in Range(u) PROVE q.id # id
          <6>1. q.id < x.id /\ q.id \in Nat /\ x.id \in Nat
            BY <2>3, <2>6, <3>5 DEF Rows
          <6> QED
            BY <2>11, <6>1
        <5> QED
          BY <5>1
      <4>2. w = u
        BY <2>9, <4>1
      <4>3. r = x
        BY <2>3, <3>5, <4>1
      <4> QED
        BY <2>3, <2>5, <4>2, <4>3
    <3>6. WithoutHolds(v, id)
      BY <3>1, <3>2, <3>3, <3>4, <3>5 DEF WithoutHolds
    <3> QED
      BY <2>3, <3>6 DEF v
  <2>12. CASE x.id # id
    <3>1. Without(v, id) = Append(w, x)
      BY <2>1, <2>12
    <3>2. Range(Append(w, x)) = {r \in Range(v) : r.id # id}
      BY <2>3, <2>4, <2>7, <2>12
    <3>3. Ordered(v) => Ordered(Append(w, x))
      BY <2>3, <2>4, <2>7, <2>8
    <3>4. (\A r \in Range(v) : r.id # id) => Append(w, x) = v
      BY <2>3, <2>9 DEF v
    <3>5. ASSUME Ordered(v), NEW r \in Range(v), r.id = id
          PROVE  /\ Len(Append(w, x)) + 1 = Len(v)
                 /\ TotalOf(Append(w, x)) + SectionsSize(r.sections) = TotalOf(v)
      <4>1. r \in Range(u) /\ Ordered(u) /\ r \in Rows
        BY <2>3, <2>6, <2>12, <3>5
      <4>2. Len(w) + 1 = Len(u) /\ TotalOf(w) + SectionsSize(r.sections) = TotalOf(u)
        BY <2>10, <3>5, <4>1
      <4>3. SectionsSize(r.sections) \in Nat
        BY <4>1, RowSize
      <4> QED
        BY <2>3, <2>4, <2>5, <2>6, <4>2, <4>3
    <3>6. WithoutHolds(v, id)
      BY <3>1, <3>2, <3>3, <3>4, <3>5 DEF WithoutHolds
    <3> QED
      BY <2>3, <3>6 DEF v
  <2> QED
    BY <2>11, <2>12
<1>3. Tables \subseteq T
  <2> HIDE DEF T
  <2> QED
    BY <1>1, <1>2, SeqInduct DEF Tables
<1> QED
  BY <1>3, WithoutFold DEF Tables

(* What division means, for the two divisors created_at is made with.      *)
LEMMA Division ==
  /\ \A t, q, r \in Int : (q = t \div 100 /\ r = t % 100) => t = 100 * q + r
  /\ \A t, q, r \in Int : (q = t \div 10 /\ r = t % 10) => t = 10 * q + r
OBVIOUS

(* The digits of a time.                                                   *)
LEMMA DivMod ==
  ASSUME NEW t \in Nat
  PROVE  \E q \in Nat, d, e \in 0 .. 9 :
            /\ t \div 100 = q /\ t % 100 = 10 * d + e /\ t = 100 * q + 10 * d + e
            /\ (t % 100) \div 10 = d /\ t % 10 = e
<1> DEFINE q == t \div 100
           a == t % 100
           d == a \div 10
           e == t % 10
<1>1. q \in Nat /\ a \in 0 .. 99 /\ e \in 0 .. 9
  OBVIOUS
<1>2. e = a % 10
  OBVIOUS
<1>3. t = 100 * q + a
  <2>1. t \in Int /\ q \in Int /\ a \in Int /\ q = t \div 100 /\ a = t % 100
    BY <1>1
  <2> HIDE DEF q, a
  <2> QED
    BY <2>1, Division
<1>4. d \in 0 .. 9 /\ a = 10 * d + e
  <2>1. d = a \div 10
    OBVIOUS
  <2> HIDE DEF a, e, d
  <2>2. d \in 0 .. 9
    BY <1>1, <2>1
  <2>3. a \in Int /\ d \in Int /\ e \in Int
    BY <1>1, <2>2
  <2> QED
    BY <1>2, <2>1, <2>2, <2>3, Division
<1> QED
  BY <1>1, <1>3, <1>4

(* What the last two digits of a time sort by within its second.           *)
Fraction(d, e) == IF d = 0 /\ e = 0 THEN 999 ELSE d * 11 + (IF e = 0 THEN 10 ELSE e)

(* Two times never have the same created_at.                               *)
LEMMA CreatedAtOrders ==
  /\ \A t \in Nat : CreatedAt(t) \in Nat
  /\ \A t, u \in Nat : t # u => CreatedAt(t) # CreatedAt(u)
<1>1. ASSUME NEW t \in Nat
      PROVE  \E q \in Nat, d, e \in 0 .. 9 :
                t = 100 * q + 10 * d + e /\ CreatedAt(t) = q * 1000 + Fraction(d, e)
  <2>1. PICK q \in Nat, d \in 0 .. 9, e \in 0 .. 9 :
            /\ t \div 100 = q /\ t % 100 = 10 * d + e /\ t = 100 * q + 10 * d + e
            /\ (t % 100) \div 10 = d /\ t % 10 = e
    BY DivMod
  <2> DEFINE rank == IF e = 0 THEN 10 ELSE e
  <2>2. CreatedAt(t) = q * 1000 + IF t % 100 = 0 THEN 999 ELSE d * 11 + rank
    BY <2>1 DEF CreatedAt
  <2>3. t % 100 = 0 <=> d = 0 /\ e = 0
    BY <2>1
  <2>4. CreatedAt(t) = q * 1000 + Fraction(d, e)
    BY <2>2, <2>3 DEF Fraction
  <2> QED
    BY <2>1, <2>4
<1>2. ASSUME NEW d \in 0 .. 9, NEW e \in 0 .. 9 PROVE Fraction(d, e) \in 1 .. 999
  BY DEF Fraction
<1>3. ASSUME NEW d \in 0 .. 9, NEW e \in 0 .. 9, NEW f \in 0 .. 9, NEW g \in 0 .. 9,
             Fraction(d, e) = Fraction(f, g)
      PROVE  d = f /\ e = g
  BY <1>3 DEF Fraction
<1>5. ASSUME NEW t \in Nat PROVE CreatedAt(t) \in Nat
  <2>1. PICK q \in Nat, d \in 0 .. 9, e \in 0 .. 9 :
            CreatedAt(t) = q * 1000 + Fraction(d, e)
    BY <1>1
  <2>2. PICK x \in 1 .. 999 : x = Fraction(d, e)
    BY <1>2
  <2>3. q * 1000 + x \in Nat
    OBVIOUS
  <2> QED
    BY <2>1, <2>2, <2>3
<1>6. ASSUME NEW t \in Nat, NEW u \in Nat, CreatedAt(t) = CreatedAt(u) PROVE t = u
  <2>1. PICK q \in Nat, d \in 0 .. 9, e \in 0 .. 9 :
                t = 100 * q + 10 * d + e /\ CreatedAt(t) = q * 1000 + Fraction(d, e)
    BY <1>1
  <2>2. PICK r \in Nat, f \in 0 .. 9, g \in 0 .. 9 :
                u = 100 * r + 10 * f + g /\ CreatedAt(u) = r * 1000 + Fraction(f, g)
    BY <1>1
  <2>3. q = r /\ Fraction(d, e) = Fraction(f, g)
    <3>1. Fraction(d, e) \in 1 .. 999 /\ Fraction(f, g) \in 1 .. 999
      BY <1>2
    <3>2. q * 1000 + Fraction(d, e) = r * 1000 + Fraction(f, g)
      BY <1>6, <2>1, <2>2
    <3>3. PICK x \in 1 .. 999, y \in 1 .. 999 : x = Fraction(d, e) /\ y = Fraction(f, g)
      BY <3>1
    <3>4. q * 1000 + x = r * 1000 + y
      BY <3>2, <3>3
    <3>5. q = r /\ x = y
      BY <3>4
    <3> QED
      BY <3>3, <3>5
  <2>4. d = f /\ e = g
    BY <1>3, <2>3
  <2> QED
    BY <2>1, <2>2, <2>3, <2>4
<1> QED
  BY <1>5, <1>6

(* The row that goes first is there, it is not the one just stored, and    *)
(* its created_at is the least.                                            *)
LEMMA FirstSorts ==
  ASSUME NEW s \in Tables, Ordered(s), NEW keep, \E r \in Range(s) : r.id # keep
  PROVE  /\ s[First(s, keep)] \in Range(s)
         /\ s[First(s, keep)].id # keep
         /\ \A r \in Range(s) : (r.id # keep /\ r.id # s[First(s, keep)].id) =>
               CreatedAt(s[First(s, keep)].id) < CreatedAt(r.id)
<1> DEFINE Free == {k \in DOMAIN s : s[k].id # keep}
           At(k) == CreatedAt(s[k].id)
           Moments == {At(k) : k \in Free}
<1>1. ASSUME NEW k \in DOMAIN s
      PROVE  k \in Nat /\ s[k] \in Rows /\ s[k].id \in Nat /\ At(k) \in Nat
  <2>1. k \in Nat /\ s[k] \in Rows
    BY DEF Tables
  <2>2. s[k].id \in Nat
    BY <2>1 DEF Rows
  <2> QED
    BY <2>1, <2>2, CreatedAtOrders
<1>2. Free # {}
  BY DEF Range
<1>3. PICK m \in Moments : \A y \in Moments : m <= y
  <2>1. Moments \subseteq Nat /\ Moments # {}
    BY <1>1, <1>2
  <2> HIDE DEF Moments
  <2> QED
    BY <2>1, NatMin
<1> DEFINE Firsts == {k \in Free : At(k) = m}
<1>4. PICK k \in Firsts : \A j \in Firsts : k <= j
  <2>1. Firsts \subseteq Nat /\ Firsts # {}
    BY <1>1, <1>3
  <2> HIDE DEF Firsts
  <2> QED
    BY <2>1, NatMin
<1>5. \A j \in DOMAIN s \ {k} : s[j].id # keep =>
         \/ CreatedAt(s[k].id) < CreatedAt(s[j].id)
         \/ CreatedAt(s[k].id) = CreatedAt(s[j].id) /\ k < j
  <2> SUFFICES ASSUME NEW j \in DOMAIN s \ {k}, s[j].id # keep
               PROVE  \/ At(k) < At(j)
                      \/ At(k) = At(j) /\ k < j
    OBVIOUS
  <2>1. At(k) = m /\ At(j) \in Moments /\ m <= At(j)
    BY <1>3, <1>4
  <2>2. At(j) = m => k <= j
    BY <1>4
  <2> QED
    BY <1>1, <1>4, <2>1, <2>2
<1> DEFINE f == First(s, keep)
<1>6. /\ f \in DOMAIN s /\ s[f].id # keep
      /\ \A j \in DOMAIN s \ {f} : s[j].id # keep =>
            \/ CreatedAt(s[f].id) < CreatedAt(s[j].id)
            \/ CreatedAt(s[f].id) = CreatedAt(s[j].id) /\ f < j
  <2>1. k \in DOMAIN s /\ s[k].id # keep
    BY <1>4
  <2> QED
    BY <1>5, <2>1 DEF First
<1> HIDE DEF f
<1>7. ASSUME NEW r \in Range(s), r.id # keep, r.id # s[f].id
      PROVE  CreatedAt(s[f].id) < CreatedAt(r.id)
  <2>1. PICK j \in DOMAIN s : s[j] = r
    BY DEF Range
  <2>2. j # f
    BY <1>7, <2>1
  <2>3. CreatedAt(s[f].id) # CreatedAt(r.id)
    BY <1>1, <1>6, <1>7, <2>1, CreatedAtOrders
  <2> QED
    BY <1>6, <1>7, <2>1, <2>2, <2>3
<1> QED
  BY <1>6, <1>7 DEF f, Range

-----------------------------------------------------------------------------
(* Pruning.                                                                *)

(* An eviction leaves a table.                                             *)
LEMMA EvictType ==
  ASSUME NEW left \in Tables, NEW keep \in Nat
  PROVE  Evict(left, keep) \in Tables
BY WithoutKeeps DEF Evict

(* pruneResponseChunks: the loop of evictions.                             *)
LEMMA PruneTrace ==
  ASSUME NEW rows \in Tables, NEW keep \in Nat, NEW s \in Seq(Rows)
  PROVE  \E g \in [0 .. Len(s) -> Tables] :
            /\ g[0] = rows
            /\ \A i \in 1 .. Len(s) : g[i] = Evict(g[i - 1], keep)
            /\ PruneFrom(rows, keep, s) = g[Len(s)]
<1> DEFINE n == Len(s)
           R == Tables
           b == rows
           Op == [p \in R \X (1 .. n) |-> Evict(p[1], keep)]
           Body(c) == [t \in SUBSET (DOMAIN s) |->
                         IF t = {} THEN b ELSE Evict(c[t \ {Max(t)}], keep)]
           iter == CHOOSE c : c = Body(c)
<1>1. PruneFrom(rows, keep, s) = iter[DOMAIN s]
  BY DEF PruneFrom, FoldLeft, MapThenFoldSet
<1>2. ASSUME NEW r \in R, NEW i \in 1 .. n PROVE Evict(r, keep) \in R
  <2>1. s[i] \in Rows
    OBVIOUS
  <2> QED
    BY <2>1, EvictType
<1>3. \A r \in R, i \in 1 .. n : Op[<<r, i>>] = Evict(r, keep)
  OBVIOUS
<1>4. b \in R /\ n \in Nat /\ DOMAIN s = 1 .. n
  BY EvictType
<1> HIDE DEF n, R, b
<1>5. Op \in [R \X (1 .. n) -> R]
  BY <1>2
<1> HIDE DEF Op
<1>6. \A t \in SUBSET (1 .. n) : t # {} => Max(t) \in 1 .. n
  BY <1>4, MaxOf
<1>7. PICK f : IsFold(f, R, b, n, Op)
  BY <1>4, <1>5, FoldExists
<1>8. f = Body(f)
  <2>1. ASSUME NEW t \in SUBSET (1 .. n) PROVE f[t] = Body(f)[t]
    BY <1>3, <1>4, <1>6, <1>7 DEF IsFold
  <2> QED
    BY <1>4, <1>7, <2>1 DEF IsFold
<1>9. iter = Body(iter)
  BY <1>8
<1> HIDE DEF iter
<1>10. FoldsLike(iter, R, b, n, Op)
  <2>1. iter[{}] = b
    BY <1>4, <1>9
  <2>2. \A t \in SUBSET (1 .. n) : (t # {} /\ iter[t \ {Max(t)}] \in R)
             => iter[t] = Op[<<iter[t \ {Max(t)}], Max(t)>>]
    BY <1>3, <1>4, <1>6, <1>9
  <2> QED
    BY <2>1, <2>2 DEF FoldsLike
<1> HIDE DEF Body
<1>11. PICK g : IsTrace(g, R, b, n, Op) /\ Computes(g, iter, n)
  BY <1>4, <1>5, <1>10, FoldTrace
<1>12. ASSUME NEW i \in 1 .. n PROVE g[i] = Evict(g[i - 1], keep)
  <2>1. i - 1 \in 0 .. n
    BY <1>4
  <2> QED
    BY <1>3, <1>11, <2>1 DEF IsTrace
<1> QED
  BY <1>1, <1>4, <1>11, <1>12 DEF n, R, b, IsTrace, Computes

(* Of nothing, and of one element more.                                    *)
LEMMA PruneFold ==
  ASSUME NEW rows \in Tables, NEW keep \in Nat
  PROVE  /\ PruneFrom(rows, keep, << >>) = rows
         /\ \A s \in Seq(Rows) :
               /\ PruneFrom(rows, keep, s) \in Tables
               /\ \A x \in Rows : PruneFrom(rows, keep, Append(s, x)) = Evict(PruneFrom(rows, keep, s), keep)
<1>1. PruneFrom(rows, keep, << >>) = rows
  <2> DEFINE z == << >>
  <2>1. z \in Seq(Rows)
    OBVIOUS
  <2>2. Len(z) = 0
    OBVIOUS
  <2> HIDE DEF z
  <2>3. PICK g \in [0 .. Len(z) -> Tables] :
            /\ g[0] = rows
            /\ \A i \in 1 .. Len(z) : g[i] = Evict(g[i - 1], keep)
            /\ PruneFrom(rows, keep, z) = g[Len(z)]
    BY <2>1, PruneTrace
  <2> QED
    BY <2>2, <2>3 DEF z
<1>2. ASSUME NEW s \in Seq(Rows) PROVE PruneFrom(rows, keep, s) \in Tables
  <2>1. PICK g \in [0 .. Len(s) -> Tables] : PruneFrom(rows, keep, s) = g[Len(s)]
    BY PruneTrace
  <2>2. Len(s) \in 0 .. Len(s)
    OBVIOUS
  <2> QED
    BY <2>1, <2>2
<1>3. ASSUME NEW s \in Seq(Rows), NEW x \in Rows
      PROVE  PruneFrom(rows, keep, Append(s, x)) = Evict(PruneFrom(rows, keep, s), keep)
  <2> DEFINE u == Append(s, x)
             n == Len(s)
  <2>1. /\ u \in Seq(Rows) /\ Len(u) = n + 1 /\ u[n + 1] = x /\ n \in Nat
        /\ \A i \in 1 .. n : u[i] = s[i]
    OBVIOUS
  <2> HIDE DEF u
  <2>2. PICK g \in [0 .. n -> Tables] :
            /\ g[0] = rows
            /\ \A i \in 1 .. n : g[i] = Evict(g[i - 1], keep)
            /\ PruneFrom(rows, keep, s) = g[n]
    BY PruneTrace
  <2>3. PICK h \in [0 .. Len(u) -> Tables] :
            /\ h[0] = rows
            /\ \A i \in 1 .. Len(u) : h[i] = Evict(h[i - 1], keep)
            /\ PruneFrom(rows, keep, u) = h[Len(u)]
    BY <2>1, PruneTrace
  <2> HIDE DEF n
  <2>4. ASSUME NEW i \in 1 .. n, g[i - 1] = h[i - 1] PROVE g[i] = h[i]
    <3>1. i \in 1 .. Len(u) /\ u[i] = s[i]
      BY <2>1
    <3> QED
      BY <2>2, <2>3, <2>4, <3>1
  <2>5. InStep(g, h, n)
    BY <2>2, <2>3, <2>4 DEF InStep
  <2>6. g[n] = h[n]
    <3>1. Agree(g, h, n)
      BY <2>1, <2>5, SameTrace
    <3> QED
      BY <2>1, <3>1 DEF Agree
  <2>7. h[n + 1] = Evict(h[n], keep)
    <3>1. n + 1 \in 1 .. Len(u) /\ (n + 1) - 1 = n
      BY <2>1
    <3> QED
      BY <2>1, <2>3, <3>1
  <2> QED
    BY <2>1, <2>2, <2>3, <2>6, <2>7 DEF u
<1> QED
  BY <1>1, <1>2, <1>3

(* The rows that are gone.                                                 *)
Gone(rows, left) == Range(rows) \ Range(left)

(* What n evictions have done to a table.                                  *)
Pruned(rows, keep, left, n) ==
  /\ Ordered(left)
  /\ Range(left) \subseteq Range(rows)
  /\ \A e \in Gone(rows, left) :
        /\ e.id # keep
        /\ \A r \in Range(left) : r.id # keep => CreatedAt(e.id) < CreatedAt(r.id)
        /\ \/ TotalOf(left) + SectionsSize(e.sections) > CapBytes
           \/ \E f \in Gone(rows, left) : CreatedAt(e.id) < CreatedAt(f.id)
  /\ \/ TotalOf(left) <= CapBytes
     \/ \A r \in Range(left) : r.id = keep
     \/ Len(left) + n <= Len(rows)

(* One eviction more.                                                      *)
LEMMA EvictPrunes ==
  ASSUME NEW rows \in Tables, NEW left \in Tables, NEW keep \in Nat, NEW n \in Nat,
         Pruned(rows, keep, left, n)
  PROVE  Pruned(rows, keep, Evict(left, keep), n + 1)
<1>1. /\ Ordered(left) /\ Range(left) \subseteq Range(rows)
      /\ TotalOf(left) \in Nat /\ Len(left) \in Nat /\ Len(rows) \in Nat
      /\ \A r \in Range(left) : r \in Rows
  <2>1. TotalOf(left) \in Nat /\ Len(left) \in Nat /\ Len(rows) \in Nat
    BY TotalFold DEF Tables
  <2>2. \A r \in Range(left) : r \in Rows
    BY DEF Tables, Range
  <2> QED
    BY <2>1, <2>2 DEF Pruned
<1>2. \A e \in Gone(rows, left) :
         /\ e.id # keep
         /\ \A r \in Range(left) : r.id # keep => CreatedAt(e.id) < CreatedAt(r.id)
  BY DEF Pruned
<1>3. CASE TotalOf(left) <= CapBytes \/ \A r \in Range(left) : r.id = keep
  <2>1. Evict(left, keep) = left
    BY <1>1, <1>3, CapAssumption, SectionsSizeIs DEF Evict
  <2> QED
    BY <1>3, <2>1 DEF Pruned
<1>4. CASE ~(TotalOf(left) <= CapBytes) /\ ~(\A r \in Range(left) : r.id = keep)
  <2> DEFINE e == left[First(left, keep)]
             next == Without(left, e.id)
  <2>1. /\ e \in Range(left) /\ e.id # keep
        /\ \A r \in Range(left) :
              (r.id # keep /\ r.id # e.id) => CreatedAt(e.id) < CreatedAt(r.id)
    BY <1>1, <1>4, FirstSorts
  <2>2. Evict(left, keep) = next
    BY <1>1, <1>4, CapAssumption, SectionsSizeIs DEF Evict
  <2> HIDE DEF e
  <2>3. next \in Tables /\ WithoutHolds(left, e.id)
    BY WithoutKeeps
  <2>4. /\ Range(next) = {r \in Range(left) : r.id # e.id}
        /\ Ordered(next) /\ Len(next) + 1 = Len(left)
        /\ TotalOf(next) + SectionsSize(e.sections) = TotalOf(left)
    BY <1>1, <2>1, <2>3 DEF WithoutHolds
  <2>5. TotalOf(next) \in Nat /\ Len(next) \in Nat /\ SectionsSize(e.sections) \in Nat
    BY <1>1, <2>1, <2>3, TotalFold, RowSize DEF Tables
  <2> HIDE DEF next
  <2>6. Ordered(next) /\ Range(next) \subseteq Range(rows)
    BY <1>1, <2>4
  <2>7. e \in Gone(rows, next)
    BY <1>1, <2>1, <2>4 DEF Gone
  <2>8. \A f \in Gone(rows, next) : f \in Gone(rows, left) \/ f.id = e.id
    BY <2>4 DEF Gone
  <2>9. ASSUME NEW f \in Gone(rows, next)
        PROVE  /\ f.id # keep
               /\ \A r \in Range(next) : r.id # keep => CreatedAt(f.id) < CreatedAt(r.id)
               /\ \/ TotalOf(next) + SectionsSize(f.sections) > CapBytes
                  \/ \E g \in Gone(rows, next) : CreatedAt(f.id) < CreatedAt(g.id)
    <3>1. CASE f \in Gone(rows, left)
      <4>1. CreatedAt(f.id) < CreatedAt(e.id)
        BY <1>2, <2>1, <3>1
      <4> QED
        BY <1>2, <2>4, <2>7, <3>1, <4>1
    <3>2. CASE f \in Range(left)
      <4>1. f.id = e.id
        BY <2>8, <3>2 DEF Gone
      <4>2. f = e
        <5>1. PICK i \in DOMAIN left, j \in DOMAIN left : f = left[i] /\ e = left[j]
          BY <2>1, <3>2 DEF Range
        <5>2. i \in Nat /\ j \in Nat /\ left[i].id \in Nat /\ left[j].id \in Nat
          <6>1. left[i] \in Rows /\ left[j] \in Rows /\ i \in Nat /\ j \in Nat
            BY DEF Tables
          <6> QED
            BY <6>1 DEF Rows
        <5>3. ~(i < j) /\ ~(j < i)
          BY <1>1, <4>1, <5>1, <5>2 DEF Ordered
        <5> QED
          BY <5>1, <5>2, <5>3
      <4>3. TotalOf(next) + SectionsSize(f.sections) > CapBytes
        BY <1>1, <1>4, <2>4, <2>5, <4>2, CapAssumption
      <4> QED
        BY <2>1, <2>4, <4>2, <4>3
    <3> QED
      BY <2>8, <3>1, <3>2 DEF Gone
  <2>10. Len(next) + (n + 1) <= Len(rows)
    BY <1>1, <1>4, <2>4, <2>5 DEF Pruned
  <2> QED
    BY <2>2, <2>6, <2>9, <2>10 DEF Pruned
<1> QED
  BY <1>3, <1>4

(* As many evictions as there are rows.                                    *)
LEMMA PruneToCapHolds ==
  ASSUME NEW rows \in Tables, Ordered(rows), NEW keep \in Nat
  PROVE  /\ PruneToCap(rows, keep) \in Tables
         /\ Pruned(rows, keep, PruneToCap(rows, keep), Len(rows))
<1> DEFINE T == {s \in Tables : Pruned(rows, keep, PruneFrom(rows, keep, s), Len(s))}
<1>1. << >> \in T
  <2>1. PruneFrom(rows, keep, << >>) = rows
    BY PruneFold
  <2>2. Gone(rows, rows) = {}
    BY DEF Gone
  <2>3. Len(rows) + 0 <= Len(rows)
    BY DEF Tables
  <2> QED
    BY <2>1, <2>2, <2>3, NoRows DEF Pruned
<1>2. ASSUME NEW s \in Tables, NEW x \in Rows, s \in T PROVE Append(s, x) \in T
  <2>1. /\ PruneFrom(rows, keep, s) \in Tables
        /\ PruneFrom(rows, keep, Append(s, x)) = Evict(PruneFrom(rows, keep, s), keep)
    BY PruneFold DEF Tables
  <2>2. Len(s) \in Nat /\ Append(s, x) \in Tables /\ Len(Append(s, x)) = Len(s) + 1
    BY AppendRows DEF Tables
  <2> QED
    BY <1>2, <2>1, <2>2, EvictPrunes
<1>3. Tables \subseteq T
  <2> HIDE DEF T
  <2> QED
    BY <1>1, <1>2, SeqInduct DEF Tables
<1>4. PruneToCap(rows, keep) = PruneFrom(rows, keep, rows)
  BY DEF PruneToCap, PruneFrom
<1> QED
  BY <1>3, <1>4, PruneFold DEF Tables

(* As many as that leave the table within its cap, or one row.             *)
LEMMA PrunedFits ==
  ASSUME NEW rows \in Tables, NEW left \in Tables, NEW keep \in Nat,
         Pruned(rows, keep, left, Len(rows))
  PROVE  TotalBytes(left) <= CapBytes \/ Len(left) = 1
<1>1. Len(left) \in Nat /\ Len(rows) \in Nat /\ DOMAIN left = 1 .. Len(left)
  BY DEF Tables
<1>2. Len(left) = 0 => TotalOf(left) <= CapBytes
  BY TotalFold, CapAssumption DEF Tables
<1>3. ASSUME \A r \in Range(left) : r.id = keep PROVE Len(left) < 2
  <2> SUFFICES ASSUME ~(Len(left) < 2) PROVE FALSE
    OBVIOUS
  <2>1. 1 \in DOMAIN left /\ 2 \in DOMAIN left /\ 1 < 2
    BY <1>1
  <2>2. left[1].id = keep /\ left[2].id = keep
    BY <1>3, <2>1 DEF Range
  <2>3. left[1].id < left[2].id
    BY <2>1 DEF Pruned, Ordered
  <2>4. left[1] \in Rows /\ left[2] \in Rows
    BY <2>1 DEF Tables
  <2> QED
    BY <2>2, <2>3, <2>4 DEF Rows
<1>4. TotalBytes(left) = TotalOf(left)
  BY SectionsSizeIs
<1>5. \/ TotalOf(left) <= CapBytes
      \/ \A r \in Range(left) : r.id = keep
      \/ Len(left) + Len(rows) <= Len(rows)
  BY DEF Pruned
<1>6. Len(left) + Len(rows) <= Len(rows) => Len(left) = 0
  BY <1>1
<1> QED
  BY <1>1, <1>2, <1>3, <1>4, <1>5, <1>6

-----------------------------------------------------------------------------
(* The states of the cache.                                                *)

(* Reading all sections names a section that was read, and comes within    *)
(* the limit as ReadsBack says.                                            *)
LEMMA AllSectionsFits ==
  ASSUME NEW s \in Seq(Texts) \ {<< >>}
  PROVE  /\ AllSections(s) \in Texts
         /\ Limit >= Size(Header) + Size(Notice(0)) =>
               \E last \in DOMAIN s :
                  Size(AllSections(s)) <=
                      Limit + Size(Gap) + Size(Notice(last - 1)) - Size(Notice(0))
<1> DEFINE T == {u \in Seq(Texts) : ReadAll(u).read <= Len(u)}
<1>1. << >> \in T
  BY ReadAllFold DEF Start
<1>2. ASSUME NEW u \in Seq(Texts), NEW x \in Texts, u \in T PROVE Append(u, x) \in T
  <2>1. ReadAll(u) \in Reading /\ ReadAll(Append(u, x)) = Add(ReadAll(u), x)
    BY ReadAllFold
  <2>2. Add(ReadAll(u), x) \in Reading /\ Add(ReadAll(u), x).read <= ReadAll(u).read + 1
    BY <2>1, AddReads
  <2>3. ReadAll(u).read \in Int /\ Add(ReadAll(u), x).read \in Int
    BY <2>1, <2>2 DEF Reading
  <2>4. Append(u, x) \in Seq(Texts) /\ Len(Append(u, x)) = Len(u) + 1 /\ Len(u) \in Nat
    OBVIOUS
  <2>5. ReadAll(u).read <= Len(u)
    BY <1>2
  <2>6. ReadAll(Append(u, x)).read <= Len(Append(u, x))
    BY <2>1, <2>2, <2>3, <2>4, <2>5
  <2> QED
    BY <2>4, <2>6
<1>3. Seq(Texts) \subseteq T
  <2> HIDE DEF T
  <2> QED
    BY <1>1, <1>2, SeqInduct
<1> DEFINE a == ReadAll(s)
           last == IF a.read = 0 THEN 1 ELSE a.read
<1>4. a \in Reading /\ a.read <= Len(s) /\ AllSections(s) = a.out
  BY <1>3, ReadAllFold, SectionsSizeIs
<1> HIDE DEF a
<1>5. a.read \in 0 .. Limit /\ a.out \in Texts
  BY <1>4 DEF Reading
<1>6. last \in DOMAIN s /\ last - 1 = LastRead(a)
  <2>1. Len(s) \in Nat /\ Len(s) # 0 /\ DOMAIN s = 1 .. Len(s)
    OBVIOUS
  <2>2. Limit \in Nat
    BY Sizes
  <2> QED
    BY <1>4, <1>5, <2>1, <2>2 DEF LastRead
<1>7. Roomy => Size(AllSections(s)) <=
                  Limit + Size(Gap) + Size(Notice(last - 1)) - Size(Notice(0))
  BY <1>4, <1>6 DEF Reading
<1> QED
  BY <1>4, <1>5, <1>6, <1>7 DEF Roomy

(* A stored response is split from its text and not from the future.       *)
RowHolds(r) ==
  /\ r.id \in Instants
  /\ r.id <= now
  /\ r.from \in 0 .. generation
  /\ r.text \in Texts \ {<< >>}
  /\ r.sections = RenderedSections(r.text)

(* A call at the gate has a text to store.                                 *)
CallHolds(c) ==
  /\ c.at \in {"idle", "gate", "save", "found"}
  /\ c.at \in {"gate", "save"} =>
        /\ c.text \in Texts \ {<< >>}
        /\ c.from \in 0 .. generation
  /\ c.at = "found" => c.how \in {"all", "first", "last", "match"}

(* The inductive invariant.                                                *)
CacheInv ==
  /\ generation \in 0 .. MaxGeneration
  /\ now \in Instants \cup {0}
  /\ chunks \in Tables
  /\ Ordered(chunks)
  /\ \A r \in Range(chunks) : RowHolds(r)
  /\ call = [s \in Servers |-> call[s]]
  /\ \A s \in Servers : CallHolds(call[s])
  /\ CapHolds

(* An empty cache is within its cap.                                       *)
LEMMA CapEmpty == TotalBytes(<< >>) <= CapBytes
BY SectionsSizeIs, TotalFold, CapAssumption

(* It holds at first.                                                      *)
LEMMA InvInit == Init => CacheInv
<1> SUFFICES ASSUME Init PROVE CacheInv
  OBVIOUS
<1>1. generation \in 0 .. MaxGeneration /\ now \in Instants \cup {0}
  BY BoundsAssumption DEF Init
<1>2. chunks = << >> /\ chunks \in Tables /\ Ordered(chunks) /\ Range(chunks) = {}
  BY NoRows DEF Init
<1>3. call = [s \in Servers |-> call[s]] /\ \A s \in Servers : CallHolds(call[s])
  BY DEF Init, CallHolds, Replied
<1> QED
  BY <1>1, <1>2, <1>3, CapEmpty DEF CacheInv, CapHolds

(* The call of s goes on, and the tables stay.                             *)
LEMMA InvGoto ==
  ASSUME CacheInv, NEW s \in Servers, NEW c, Goto(s, c),
         UNCHANGED <<generation, now, chunks>>, CallHolds(c)
  PROVE  CacheInv'
<1>1. \A t \in Servers : call'[t] = IF t = s THEN c ELSE call[t]
  BY DEF Goto, CacheInv
<1>2. call' = [t \in Servers |-> call'[t]]
  BY DEF Goto, CacheInv
<1>3. \A t \in Servers : CallHolds(call[t])'
  BY <1>1 DEF CallHolds, CacheInv
<1>4. (\A r \in Range(chunks) : RowHolds(r))'
  BY DEF RowHolds, CacheInv
<1> QED
  BY <1>2, <1>3, <1>4 DEF CacheInv, CapHolds

(* A write of the index empties the cache.                                 *)
LEMMA InvRebuild ==
  ASSUME CacheInv, Rebuild, UNCHANGED now
  PROVE  /\ generation' \in 0 .. MaxGeneration
         /\ generation \in Nat /\ generation' = generation + 1
         /\ (chunks \in Tables)' /\ Ordered(chunks)' /\ Range(chunks)' = {}
         /\ CapHolds'
<1>1. chunks' = << >> /\ generation' = generation + 1 /\ generation < MaxGeneration
  BY DEF Rebuild
<1>2. generation \in 0 .. MaxGeneration /\ MaxGeneration \in Nat
  BY BoundsAssumption DEF CacheInv
<1>3. generation' \in 0 .. MaxGeneration /\ generation \in Nat
  BY <1>1, <1>2
<1> QED
  BY <1>1, <1>3, NoRows, CapEmpty DEF CapHolds, Ordered, Range

(* Another process writes the index.                                       *)
LEMMA InvReindex ==
  ASSUME CacheInv, Reindex
  PROVE  CacheInv'
<1>1. Rebuild /\ UNCHANGED <<now, call>>
  BY DEF Reindex
<1>2. (\A s \in Servers : CallHolds(call[s]))'
  <2>1. \A x \in 0 .. generation : x \in 0 .. generation'
    BY <1>1, InvRebuild
  <2> QED
    BY <1>1, <2>1 DEF CallHolds, CacheInv
<1> QED
  BY <1>1, <1>2, InvRebuild DEF CacheInv

(* A handler answers, or goes to the gate.                                 *)
LEMMA InvRender ==
  ASSUME CacheInv, NEW s \in Servers, NEW text \in Texts, NEW from \in 0 .. generation,
         Render(s, text, from), UNCHANGED <<generation, now, chunks>>
  PROVE  CacheInv'
<1>1. CASE Size(text) <= Limit
  <2>1. Goto(s, Replied("answer"))
    BY <1>1 DEF Render, Says
  <2>2. CallHolds(Replied("answer"))
    BY DEF CallHolds, Replied
  <2> QED
    BY <2>1, <2>2, InvGoto
<1>2. CASE ~(Size(text) <= Limit)
  <2> DEFINE c == [at |-> "gate", text |-> text, from |-> from]
  <2>1. Goto(s, c)
    BY <1>2 DEF Render
  <2>2. text # << >>
    BY <1>2, SizeFold, LimitsAssumption
  <2>3. CallHolds(c)
    BY <2>2 DEF CallHolds
  <2> QED
    BY <2>1, <2>3, InvGoto
<1> QED
  BY <1>1, <1>2

(* A query tool renders.                                                   *)
LEMMA InvQuery ==
  ASSUME CacheInv, NEW s \in Servers, Query(s)
  PROVE  CacheInv'
<1>1. PICK text \in Payloads : Render(s, text, generation)
  BY DEF Query
<1>2. text \in Texts /\ generation \in 0 .. generation
  BY TextsAssumption, BoundsAssumption DEF CacheInv
<1> QED
  BY <1>1, <1>2, InvRender DEF Query

(* The gate asks for the store.                                            *)
LEMMA InvGateStore ==
  ASSUME CacheInv, NEW s \in Servers, GateStore(s)
  PROVE  CacheInv'
<1> DEFINE c == [call[s] EXCEPT !.at = "save"]
<1>1. call[s].at = "gate" /\ CallHolds(call[s]) /\ now' = now
  BY DEF GateStore, CacheInv
<1>2. c.at = "save" /\ c.text = call[s].text /\ c.from = call[s].from
  OBVIOUS
<1>3. CallHolds(c)
  BY <1>1, <1>2 DEF CallHolds
<1>4. CASE Goto(s, c) /\ UNCHANGED <<generation, chunks>>
  BY <1>1, <1>3, <1>4, InvGoto
<1>5. CASE Rebuild /\ Goto(s, c)
  <2>1. \A x \in 0 .. generation : x \in 0 .. generation'
    BY <1>1, <1>5, InvRebuild
  <2>2. call' = [t \in Servers |-> call'[t]]
    BY <1>5 DEF Goto, CacheInv
  <2>3. \A t \in Servers : call'[t] = IF t = s THEN c ELSE call[t]
    BY <1>5 DEF Goto, CacheInv
  <2> HIDE DEF c
  <2>4. (\A t \in Servers : CallHolds(call[t]))'
    BY <1>3, <2>1, <2>3 DEF CallHolds, CacheInv
  <2> QED
    BY <1>1, <1>5, <2>2, <2>4, InvRebuild DEF CacheInv
<1>6. CASE Says(s, "error") /\ UNCHANGED <<generation, chunks>>
  <2>1. CallHolds(Replied("error"))
    BY DEF CallHolds, Replied
  <2> QED
    BY <1>1, <1>6, <2>1, InvGoto DEF Says
<1> QED
  BY <1>4, <1>5, <1>6 DEF GateStore

(* A response is looked for.                                               *)
LEMMA InvFind ==
  ASSUME CacheInv, NEW s \in Servers, Find(s)
  PROVE  CacheInv'
<1>1. PICK id \in Instants, how \in {"all", "first", "last", "match"} :
         IF id \in Stored
         THEN Goto(s, [at |-> "found", id |-> id, how |-> how])
         ELSE Says(s, "error")
  BY DEF Find
<1>2. CallHolds([at |-> "found", id |-> id, how |-> how]) /\ CallHolds(Replied("error"))
  BY DEF CallHolds, Replied
<1> QED
  BY <1>1, <1>2, InvGoto DEF Find, Says

(* It is read: whatever is rendered is a text.                             *)
LEMMA InvRead ==
  ASSUME CacheInv, NEW s \in Servers, Read(s)
  PROVE  CacheInv'
<1> DEFINE id == call[s].id
           how == call[s].how
           r == ResponseOf(id)
           k == IF how = "first" THEN 1 ELSE Len(r.sections)
<1>1. UNCHANGED <<generation, now, chunks>>
  BY DEF Read
<1>2. CASE id \in Stored
  <2>1. r \in Range(chunks)
    <3>1. \E q \in Range(chunks) : q.id = id
      BY <1>2 DEF Stored, Range
    <3> QED
      BY <3>1 DEF ResponseOf
  <2>2. /\ r.sections = RenderedSections(r.text)
        /\ r.text \in Texts \ {<< >>} /\ r.from \in 0 .. generation
    BY <2>1 DEF CacheInv, RowHolds
  <2>3. r.sections \in Seq(Texts) \ {<< >>}
    BY <2>2, RenderedWhole
  <2>4. PICK text :
          /\ text \in {Header \o r.sections[k], AllSections(r.sections),
                       Header \o Cut(r.sections[1], Size(Header))}
          /\ Render(s, text, r.from)
    BY <1>2 DEF Read
  <2> HIDE DEF r
  <2>5. r.sections[k] \in Texts /\ r.sections[1] \in Texts
    BY <2>3
  <2>6. Cut(r.sections[1], Size(Header)) \in Texts
    <3>1. Size(Header) \in Int
      BY Sizes
    <3> QED
      BY <2>5, <3>1, CutFits
  <2> HIDE DEF k
  <2>7. text \in Texts
    <3>1. Header \in Texts
      BY Sizes
    <3>2. \A x \in Texts : Header \o x \in Texts
      BY <3>1 DEF Texts
    <3>3. AllSections(r.sections) \in Texts
      BY <2>3, AllSectionsFits
    <3> QED
      BY <2>4, <2>5, <2>6, <3>2, <3>3
  <2> QED
    BY <1>1, <2>2, <2>4, <2>7, InvRender
<1>3. CASE id \notin Stored
  <2>1. PICK what : Says(s, what)
    BY <1>3 DEF Read
  <2>2. CallHolds(Replied(what))
    BY DEF CallHolds, Replied
  <2> QED
    BY <1>1, <2>1, <2>2, InvGoto DEF Says
<1> QED
  BY <1>2, <1>3

(* What a save leaves.                                                     *)
LEMMA Saved ==
  ASSUME CacheInv, NEW s \in Servers, Save(s)
  PROVE  \E t \in Instants :
            LET r == Row(t, call[s].text, call[s].from)
                rows == Append(chunks, r)
            IN  /\ t > now /\ now' = t /\ generation' = generation
                /\ r \in Rows
                /\ r.text \in Texts \ {<< >>} /\ r.from \in 0 .. generation
                /\ rows \in Tables /\ Ordered(rows)
                /\ Range(rows) = Range(chunks) \cup {r}
                /\ \A q \in Range(chunks) : q.id < t
                /\ chunks' \in Tables
                /\ Pruned(rows, t, chunks', Len(rows))
                /\ Goto(s, Replied("manifest"))
<1>1. PICK t \in Later :
         /\ now' = t
         /\ chunks' = PruneToCap(Append(chunks, Row(t, call[s].text, call[s].from)), t)
         /\ Says(s, "manifest")
  BY DEF Save
<1> DEFINE r == Row(t, call[s].text, call[s].from)
           rows == Append(chunks, r)
<1>2. call[s].at = "save" /\ CallHolds(call[s])
  BY DEF Save, CacheInv
<1>3. call[s].text \in Texts \ {<< >>} /\ call[s].from \in 0 .. generation
  BY <1>2 DEF CallHolds
<1>4. t \in Instants /\ t > now /\ t \in Nat /\ now \in Nat
  BY BoundsAssumption DEF Later, CacheInv
<1>5. RenderedSections(call[s].text) \in Seq(Texts)
  BY <1>3, RenderedWhole
<1>6. call[s].from \in Nat
  BY <1>3
<1>7. /\ r \in Rows /\ r.id = t
      /\ r.text \in Texts \ {<< >>} /\ r.from \in 0 .. generation
  BY <1>3, <1>4, <1>5, <1>6 DEF Row, Rows
<1> HIDE DEF r
<1>8. \A q \in Range(chunks) : q.id < t
  <2>1. ASSUME NEW q \in Range(chunks) PROVE q.id < t
    <3>1. q.id \in Instants /\ q.id <= now
      BY DEF CacheInv, RowHolds
    <3>2. q.id \in Nat
      BY <3>1, BoundsAssumption
    <3> QED
      BY <1>4, <3>1, <3>2
  <2> QED
    BY <2>1
<1>9. rows \in Tables /\ Ordered(rows) /\ Range(rows) = Range(chunks) \cup {r}
  BY <1>7, <1>8, AppendRows DEF CacheInv
<1> HIDE DEF rows
<1>10. chunks' \in Tables /\ Pruned(rows, t, chunks', Len(rows))
  BY <1>1, <1>4, <1>9, PruneToCapHolds DEF rows, r
<1> QED
  BY <1>1, <1>4, <1>7, <1>8, <1>9, <1>10 DEF r, rows, Save, Says

(* A response is stored and the cache pruned.                              *)
LEMMA InvSave ==
  ASSUME CacheInv, NEW s \in Servers, Save(s)
  PROVE  CacheInv'
<1>1. PICK t \in Instants :
         LET r == Row(t, call[s].text, call[s].from)
             rows == Append(chunks, r)
         IN  /\ t > now /\ now' = t /\ generation' = generation
             /\ r \in Rows
             /\ r.text \in Texts \ {<< >>} /\ r.from \in 0 .. generation
             /\ rows \in Tables /\ Ordered(rows)
             /\ Range(rows) = Range(chunks) \cup {r}
             /\ \A q \in Range(chunks) : q.id < t
             /\ chunks' \in Tables
             /\ Pruned(rows, t, chunks', Len(rows))
             /\ Goto(s, Replied("manifest"))
  BY Saved
<1> DEFINE r == Row(t, call[s].text, call[s].from)
           rows == Append(chunks, r)
<1>2. /\ chunks' \in Tables /\ Pruned(rows, t, chunks', Len(rows))
      /\ rows \in Tables /\ Range(rows) = Range(chunks) \cup {r}
      /\ now' = t /\ generation' = generation /\ t > now
      /\ Goto(s, Replied("manifest"))
  BY <1>1
<1>3. /\ r.id \in Instants /\ r.id <= now' /\ r.from \in 0 .. generation'
      /\ r.text \in Texts \ {<< >>} /\ r.sections = RenderedSections(r.text)
  <2>1. r.id = t /\ r.sections = RenderedSections(r.text) /\ t \in Nat
    BY BoundsAssumption DEF Row
  <2>2. r.text \in Texts \ {<< >>} /\ r.from \in 0 .. generation
    BY <1>1
  <2> HIDE DEF r
  <2> QED
    BY <1>2, <2>1, <2>2
<1> HIDE DEF r, rows
<1>4. \A q \in Range(chunks) : q.id \in Nat /\ q.id <= t
  <2>1. ASSUME NEW q \in Range(chunks) PROVE q.id \in Nat /\ q.id <= t
    <3>1. q.id \in Instants /\ q.id <= now
      BY DEF CacheInv, RowHolds
    <3>2. q.id \in Nat /\ now \in Nat /\ t \in Nat
      BY <3>1, BoundsAssumption DEF CacheInv
    <3> QED
      BY <1>2, <3>1, <3>2
  <2> QED
    BY <2>1
<1>5. ASSUME NEW q \in Range(chunks)' PROVE RowHolds(q)'
  <2>1. q \in Range(chunks) \/ q = r
    BY <1>2 DEF Pruned
  <2>2. CASE q \in Range(chunks)
    BY <1>2, <1>4, <2>2 DEF CacheInv, RowHolds
  <2>3. CASE q = r
    BY <1>3, <2>3 DEF RowHolds
  <2> QED
    BY <2>1, <2>2, <2>3
<1>6. CapHolds'
  <2>1. t \in Nat
    BY BoundsAssumption
  <2> QED
    BY <1>2, <2>1, PrunedFits DEF CapHolds
<1>7. Ordered(chunks)'
  BY <1>2 DEF Pruned
<1>8. \A x \in Servers : call'[x] = IF x = s THEN Replied("manifest") ELSE call[x]
  BY <1>2 DEF Goto, CacheInv
<1>9. call' = [x \in Servers |-> call'[x]]
  BY <1>2 DEF Goto, CacheInv
<1>10. (\A x \in Servers : CallHolds(call[x]))'
  BY <1>2, <1>8 DEF CallHolds, Replied, CacheInv
<1> QED
  BY <1>2, <1>5, <1>6, <1>7, <1>9, <1>10 DEF CacheInv

(* Every step keeps it.                                                    *)
THEOREM CacheInvariant == Spec => []CacheInv
<1>1. CacheInv /\ [Next]_vars => CacheInv'
  <2> SUFFICES ASSUME CacheInv, [Next]_vars PROVE CacheInv'
    OBVIOUS
  <2>1. CASE Reindex
    BY <2>1, InvReindex
  <2>2. ASSUME NEW s \in Servers, Query(s) \/ GateStore(s) \/ Save(s) \/ Find(s) \/ Read(s)
        PROVE  CacheInv'
    BY <2>2, InvQuery, InvGateStore, InvSave, InvFind, InvRead
  <2>3. CASE UNCHANGED vars
    BY <2>3 DEF vars, CacheInv, RowHolds, CallHolds, CapHolds
  <2> QED
    BY <2>1, <2>2, <2>3 DEF Next
<1> QED
  BY <1>1, InvInit, PTL DEF Spec

(* ResponseCache.TypeOK: every stored response has an id of its own, and   *)
(* the clock has passed it (SaveResponseChunks of                          *)
(* store_response_chunks.go).                                              *)
THEOREM CacheTyped == Spec => []TypeOK
<1>1. CacheInv => TypeOK
  <2> SUFFICES ASSUME CacheInv PROVE TypeOK
    OBVIOUS
  <2>1. ASSUME NEW k \in DOMAIN chunks
        PROVE  /\ chunks[k].id \in Instants
               /\ chunks[k].id <= now
               /\ chunks[k].from \in 0 .. generation
               /\ \A j \in 1 .. k - 1 : chunks[j].id < chunks[k].id
    <3>1. RowHolds(chunks[k])
      BY DEF CacheInv, Range
    <3>2. ASSUME NEW j \in 1 .. k - 1 PROVE chunks[j].id < chunks[k].id
      <4>1. j \in DOMAIN chunks /\ j < k
        BY DEF CacheInv, Tables
      <4> QED
        BY <4>1 DEF CacheInv, Ordered
    <3> QED
      BY <3>1, <3>2 DEF RowHolds
  <2>2. \A s \in Servers : call[s].at \in {"idle", "gate", "save", "found"}
    BY DEF CacheInv, CallHolds
  <2> QED
    BY <2>1, <2>2 DEF CacheInv, TypeOK
<1> QED
  BY <1>1, CacheInvariant, PTL

(* The cache stays within its cap, but for a single response above it      *)
(* (pruneResponseChunks of store_response_chunks.go).                      *)
THEOREM CacheWithinCap == Spec => []CapHolds
<1>1. CacheInv => CapHolds
  BY DEF CacheInv
<1> QED
  BY <1>1, CacheInvariant, PTL

(* The sections stored are the bytes of the response, in order, whatever   *)
(* RenderedSections cut and folded (chunk.go).                             *)
THEOREM StoredIsWhole == Spec => []StoredWhole
<1>1. CacheInv => StoredWhole
  <2> SUFFICES ASSUME CacheInv, NEW k \in DOMAIN chunks
               PROVE  Bytes(FlattenSeq(chunks[k].sections)) = Bytes(chunks[k].text)
    BY DEF StoredWhole
  <2>1. RowHolds(chunks[k])
    BY DEF CacheInv, Range
  <2> QED
    BY <2>1, RenderedWhole DEF RowHolds, Whole
<1> QED
  BY <1>1, CacheInvariant, PTL

(* A section read back fits the gate with its header, and reading all of a *)
(* response comes as near the limit as ReadsBack says (chunk.go            *)
(* RenderedSections, overflow.go readAllResponseSections).                 *)
THEOREM SectionsReadBack == Spec => []ReadsBack
<1>1. CacheInv => ReadsBack
  <2> SUFFICES ASSUME CacheInv, NEW r \in Range(chunks)
        PROVE /\ Limit >= HeaderRoom + MinChunk =>
                    \A section \in Range(r.sections) : Size(Header \o section) <= Limit
              /\ Limit >= Size(Header) + Size(Notice(0)) =>
                    \E last \in DOMAIN r.sections :
                        Size(AllSections(r.sections)) <=
                          Limit + Size(Gap) + Size(Notice(last - 1)) - Size(Notice(0))
    BY DEF ReadsBack
  <2>1. r.text \in Texts \ {<< >>} /\ r.sections = RenderedSections(r.text)
    BY DEF CacheInv, RowHolds
  <2>2. r.sections \in Seq(Texts) \ {<< >>} /\ InCap(r.sections, SectionCap)
    BY <2>1, RenderedWhole
  <2>3. ASSUME Limit >= HeaderRoom + MinChunk, NEW section \in Range(r.sections)
        PROVE  Size(Header \o section) <= Limit
    <3>1. section \in Texts /\ Size(section) <= SectionCap
      BY <2>2 DEF Range, InCap
    <3>2. Size(Header \o section) = Size(Header) + Size(section) /\ Size(section) \in Nat
      BY <3>1, Sizes, BytesConcat, SizeFold
    <3>3. SectionCap = Limit - HeaderRoom
      BY <2>3, LimitsAssumption DEF SectionCap
    <3> QED
      BY <3>1, <3>2, <3>3, Sizes, SizesAssumption, LimitsAssumption
  <2> QED
    BY <2>2, <2>3, AllSectionsFits
<1> QED
  BY <1>1, CacheInvariant, PTL

(* What EvictsAsNeeded says of a response a step evicts.                   *)
Evicts(e) ==
  /\ \A r \in Range(chunks') :
        r.id \in Stored => CreatedAt(e.id) < CreatedAt(r.id)
  /\ \/ TotalBytes(chunks') + SectionsSize(e.sections) > CapBytes
     \/ \E j \in DOMAIN chunks :
           /\ chunks[j] \notin Range(chunks')
           /\ CreatedAt(e.id) < CreatedAt(chunks[j].id)

(* It is true of what a save evicts.                                       *)
LEMMA SaveEvicts ==
  ASSUME CacheInv, NEW s \in Servers, Save(s), NEW k \in DOMAIN chunks,
         chunks[k] \notin Range(chunks')
  PROVE  Evicts(chunks[k])
<1>1. PICK t \in Instants :
         LET r == Row(t, call[s].text, call[s].from)
             rows == Append(chunks, r)
         IN  /\ t > now /\ now' = t /\ generation' = generation
             /\ r \in Rows
             /\ r.text \in Texts \ {<< >>} /\ r.from \in 0 .. generation
             /\ rows \in Tables /\ Ordered(rows)
             /\ Range(rows) = Range(chunks) \cup {r}
             /\ \A q \in Range(chunks) : q.id < t
             /\ chunks' \in Tables
             /\ Pruned(rows, t, chunks', Len(rows))
             /\ Goto(s, Replied("manifest"))
  BY Saved
<1> DEFINE r == Row(t, call[s].text, call[s].from)
           rows == Append(chunks, r)
           e == chunks[k]
<1>2. /\ Pruned(rows, t, chunks', Len(rows))
      /\ Range(rows) = Range(chunks) \cup {r}
      /\ \A q \in Range(chunks) : q.id < t
  BY <1>1
<1>3. r.id = t
  BY DEF Row
<1> HIDE DEF r, rows
<1>4. e \in Range(chunks) /\ e \in Gone(rows, chunks')
  BY <1>2 DEF Range, Gone
<1>5. ASSUME NEW q \in Range(chunks'), q.id \in Stored
      PROVE  CreatedAt(e.id) < CreatedAt(q.id)
  <2>1. PICK j \in DOMAIN chunks : q.id = chunks[j].id
    BY <1>5 DEF Stored
  <2>2. q.id < t /\ q.id \in Nat /\ t \in Nat
    <3>1. chunks[j] \in Range(chunks) /\ RowHolds(chunks[j])
      BY DEF Range, CacheInv
    <3> QED
      BY <1>2, <2>1, <3>1, BoundsAssumption DEF RowHolds
  <2>3. q.id # t
    BY <2>2
  <2> QED
    BY <1>2, <1>4, <2>3 DEF Pruned
<1>6. \/ TotalBytes(chunks') + SectionsSize(e.sections) > CapBytes
      \/ \E j \in DOMAIN chunks :
            chunks[j] \notin Range(chunks') /\ CreatedAt(e.id) < CreatedAt(chunks[j].id)
  <2>1. CASE TotalOf(chunks') + SectionsSize(e.sections) > CapBytes
    BY <2>1, SectionsSizeIs
  <2>2. CASE \E f \in Gone(rows, chunks') : CreatedAt(e.id) < CreatedAt(f.id)
    <3>1. PICK f \in Gone(rows, chunks') : CreatedAt(e.id) < CreatedAt(f.id)
      BY <2>2
    <3>2. f.id # t /\ f \in Range(rows) /\ f \notin Range(chunks')
      BY <1>2 DEF Pruned, Gone
    <3>3. f \in Range(chunks)
      BY <1>2, <1>3, <3>2
    <3> QED
      BY <3>1, <3>2, <3>3 DEF Range
  <2> QED
    BY <1>2, <1>4, <2>1, <2>2 DEF Pruned
<1> QED
  BY <1>5, <1>6 DEF Evicts

(* A save evicts no more than it must, and nothing that sorts after what   *)
(* stays (pruneResponseChunks of store_response_chunks.go).                *)
THEOREM EvictionIsNeeded == Spec => EvictsAsNeeded
<1>1. CacheInv /\ [Next]_vars =>
        [ \A k \in DOMAIN chunks :
             (generation' = generation /\ chunks[k] \notin Range(chunks')) =>
                Evicts(chunks[k]) ]_vars
  <2> SUFFICES ASSUME CacheInv, Next, NEW k \in DOMAIN chunks,
                      generation' = generation, chunks[k] \notin Range(chunks')
               PROVE  Evicts(chunks[k])
    OBVIOUS
  <2>1. chunks[k] \in Range(chunks)
    BY DEF Range
  <2>2. ~Rebuild
    BY BoundsAssumption DEF Rebuild, CacheInv
  <2>3. CASE Reindex
    BY <2>2, <2>3 DEF Reindex
  <2>4. ASSUME NEW s \in Servers, Query(s) \/ GateStore(s) \/ Find(s) \/ Read(s)
        PROVE  FALSE
    <3>1. chunks' = chunks
      BY <2>2, <2>4 DEF Query, GateStore, Find, Read
    <3> QED
      BY <2>1, <3>1
  <2>5. ASSUME NEW s \in Servers, Save(s) PROVE Evicts(chunks[k])
    BY <2>5, SaveEvicts
  <2> QED
    BY <2>3, <2>4, <2>5 DEF Next
<1>2. [ \A k \in DOMAIN chunks :
          (generation' = generation /\ chunks[k] \notin Range(chunks')) =>
             Evicts(chunks[k]) ]_vars
      <=> [ \A k \in DOMAIN chunks :
          (generation' = generation /\ chunks[k] \notin Range(chunks')) =>
              /\ \A r \in Range(chunks') :
                    r.id \in Stored => CreatedAt(chunks[k].id) < CreatedAt(r.id)
              /\ \/ TotalBytes(chunks') + SectionsSize(chunks[k].sections) > CapBytes
                 \/ \E j \in DOMAIN chunks :
                       /\ chunks[j] \notin Range(chunks')
                       /\ CreatedAt(chunks[k].id) < CreatedAt(chunks[j].id) ]_vars
  BY DEF Evicts
<1> QED
  BY <1>1, <1>2, CacheInvariant, PTL DEF Spec, EvictsAsNeeded
=============================================================================
