---------------------------- MODULE Preload_proofs ----------------------------
(***************************************************************************)
(* For any rows, models, handlers and number of calls of Preload: what is  *)
(* attached belongs where it is, nothing that a successful call asked for  *)
(* is missing from a result that did not break off, and a first call       *)
(* attaches it once.                                                       *)
(***************************************************************************)
EXTENDS Preload, WellFoundedInduction, NaturalsInduction, FiniteSetTheorems,
        SequenceTheorems, TLAPS

\* Objects, and heaps whose links stay inside.
Objects == UNION {[row : {r}, links : [Links(r) -> Seq(Nat)]] : r \in Row}

Closed(h) == \A i \in DOMAIN h : \A n \in Links(h[i].row) : ToSet(h[i].links[n]) \subseteq DOMAIN h
HeapOK(h) == h \in Seq(Objects) /\ Closed(h)

\* The path on which each object is reached, if it is.
Labels(h, k, P) ==
    /\ P \in [DOMAIN h -> Seq(STRING)]
    /\ \A i \in 1..k : P[i] = <<>>
    /\ \A i \in DOMAIN h : \A n \in Links(h[i].row) :
           \A x \in ToSet(h[i].links[n]) : P[x] = Append(P[i], n)

\* An operation has run: its instances have the association and hold what it gave them,
\* all of it unless its result is one of those that broke off.
Served(h, op, broken) ==
    \A w \in ToSet(Owners(h, op)) :
        LET r == h[w.obj].row
            n == Last(op.path)
        IN  n \in Links(r) /\ (op \in broken \/ w.copy \/ Given(h, w.obj, Ref(r, n), op))

\* An association has no row twice, ...
Distinct(h, i, n) ==
    \A k, l \in DOMAIN h[i].links[n] : h[h[i].links[n][k]].row = h[h[i].links[n][l]].row => k = l

\* ... nor has that of any instance that an operation reaches once.
Once(h, op) ==
    LET owners == Owners(h, op)
    IN  \A i \in DOMAIN owners :
            \/ \E j \in DOMAIN owners : j # i /\ owners[j].obj = owners[i].obj
            \/ Distinct(h, owners[i].obj, Last(op.path))

\* The operations of the call that have run.
Ran == Operations(asked) \ todo

Typed ==
    /\ HeapOK(heap) /\ roots \in 1..Len(heap)
    /\ \A i \in 1..roots : Of[heap[i].row] = Of[heap[1].row]
    /\ asked \in Asks \cup {<<>>} /\ todo \subseteq Operations(asked)
    /\ calls \in 0..MaxCalls /\ archived \subseteq Row
    /\ status \in {"ready", "running", "ok", "error"}
    /\ IF status = "running" THEN calls > 0 ELSE todo = {}
    /\ cut \subseteq Ran

\* Level after level: what has run is served, and what is left is not above it, so that
\* it changes nothing on the way to what has run.
InOrder ==
    status \in {"running", "ok"} => \A d \in Ran :
        Served(heap, d, cut) /\ \A op \in todo : Len(d.path) <= Len(op.path)

\* In a first call only operations that have run have linked anything, each under its
\* own path, and an instance that is reached once has each row once.
FirstCall(P) ==
    /\ calls = 0 => \A i \in DOMAIN heap : \A n \in Links(heap[i].row) : heap[i].links[n] = <<>>
    /\ calls = 1 /\ status \in {"running", "ok"} =>
           /\ \A i \in DOMAIN heap : \A n \in Links(heap[i].row) :
                  heap[i].links[n] # <<>> => \E d \in Ran : d.path = Append(P[i], n)
           /\ \A d \in Ran : Once(heap, d)

\* NothingLost and OnceUnlessShared speak of calls that are over; half way it takes the
\* order of the levels, and labels by which what one operation changes is out of the way
\* of the others.
IInv == Typed /\ RightOwner /\ InOrder /\ \E P : Labels(heap, roots, P) /\ FirstCall(P)

\* Sets of numbers have a least one.
LEMMA LeastNat ==
    ASSUME NEW T, T \subseteq Nat, T # {}
    PROVE  \E x \in T : \A y \in T : x <= y
<1>1. \E x \in T : \A y \in T : ~(<<y, x>> \in OpToRel(<, Nat))
  BY WFMin, NatLessThanWellFounded
<1>2. ASSUME NEW x \in Nat, NEW y \in Nat, y < x
      PROVE  <<y, x>> \in OpToRel(<, Nat)
  BY <1>2 DEF OpToRel
<1>3. PICK x \in T : \A y \in T : ~(<<y, x>> \in OpToRel(<, Nat))
  BY <1>1
<1>4. \A y \in T : ~(y < x)
  BY <1>2, <1>3
<1> QED
  BY <1>4

\* Induction up to n, with a set for the predicate.
LEMMA Upto ==
    ASSUME NEW n \in Nat, NEW K, 0 \in K, \A k \in 0..n-1 : k \in K => k + 1 \in K
    PROVE  \A k \in 0..n : k \in K
<1> DEFINE T == {k \in 0..n : k \notin K}
<1> SUFFICES ASSUME T # {} PROVE FALSE
  OBVIOUS
<1>1. PICK x \in T : \A y \in T : x <= y
  <2>1. T \subseteq Nat
    OBVIOUS
  <2> HIDE DEF T
  <2> QED
    BY <2>1, LeastNat
<1>2. x # 0 /\ x - 1 \in 0..n-1 /\ x - 1 \notin T
  BY <1>1
<1> QED
  BY <1>1, <1>2

\* The largest element of a set of numbers up to n.
LEMMA MaxUpto ==
    ASSUME NEW n \in Nat, NEW S, S \subseteq 1..n, S # {}
    PROVE  Max(S) \in S /\ \A y \in S : y <= Max(S)
<1> DEFINE T == {n - x : x \in S}
<1>1. PICK t \in T : \A y \in T : t <= y
  <2>1. \A x \in S : x \in 1..n /\ n - x \in Nat
    OBVIOUS
  <2>2. T \subseteq Nat /\ T # {}
    BY <2>1
  <2> HIDE DEF T
  <2> QED
    BY <2>2, LeastNat
<1>2. PICK x \in S : t = n - x
  OBVIOUS
<1>3. \A y \in S : n - x <= n - y
  BY <1>1, <1>2
<1>4. \A y \in S : x >= y
  BY <1>3
<1>5. \E z \in S : \A y \in S : z >= y
  BY <1>4
<1> QED
  BY <1>5 DEF Max

\* The functions by which a fold over 1..n is defined.
Iterates(n, H, base, F) ==
    {it \in [SUBSET (1..n) -> H] : \A s \in SUBSET (1..n) :
         it[s] = IF s = {} THEN base ELSE F[it[s \ {Max(s)}], Max(s)]}

\* A fold over 1..n is well defined when its step stays in a set.
LEMMA FoldExists ==
    ASSUME NEW n \in Nat, NEW H, NEW base \in H, NEW F \in [H \X (1..n) -> H]
    PROVE  Iterates(n, H, base, F) # {}
<1> DEFINE Eq(it, m) == \A s \in SUBSET (1..m) :
                   it[s] = IF s = {} THEN base ELSE F[it[s \ {Max(s)}], Max(s)]
           K == {m \in 0..n : \E it \in [SUBSET (1..m) -> H] : Eq(it, m)}
<1>1. 0 \in K
  <2> DEFINE it == [s \in SUBSET (1..0) |-> base]
  <2>1. \A s \in SUBSET (1..0) : s = {}
    OBVIOUS
  <2>2. it \in [SUBSET (1..0) -> H] /\ Eq(it, 0)
    BY <2>1
  <2> HIDE DEF it, Eq
  <2>3. \E f \in [SUBSET (1..0) -> H] : Eq(f, 0)
    BY <2>2
  <2>4. 0 \in 0..n
    OBVIOUS
  <2> QED
    BY <2>3, <2>4, Zenon
<1>2. ASSUME NEW m \in 0..n-1, m \in K PROVE m + 1 \in K
  <2>1. PICK it \in [SUBSET (1..m) -> H] : Eq(it, m)
    BY <1>2
  <2> DEFINE new == [s \in SUBSET (1..(m + 1)) |->
                        IF m + 1 \in s THEN F[it[s \ {m + 1}], m + 1] ELSE it[s]]
  <2>2. ASSUME NEW s \in SUBSET (1..(m + 1))
        PROVE  /\ s \ {m + 1} \in SUBSET (1..m) /\ s \ {m + 1} \in SUBSET (1..(m + 1))
               /\ new[s \ {m + 1}] = it[s \ {m + 1}]
               /\ m + 1 \notin s => s \in SUBSET (1..m) /\ new[s] = it[s]
    <3>1. s \subseteq 1..(m + 1) /\ \A x \in 1..(m + 1) : x # m + 1 => x \in 1..m
      OBVIOUS
    <3>2. s \ {m + 1} \subseteq 1..m /\ s \ {m + 1} \subseteq 1..(m + 1)
      BY <3>1
    <3>3. m + 1 \notin s => s \subseteq 1..m
      BY <3>1
    <3> QED
      BY <3>1, <3>2, <3>3
  <2>3. ASSUME NEW s \in SUBSET (1..(m + 1)), m + 1 \in s
        PROVE  new[s] = F[new[s \ {Max(s)}], Max(s)]
    <3>1. Max(s) = m + 1
      <4>1. s \subseteq 1..(m + 1) /\ s # {} /\ m + 1 \in Nat
        BY <2>3
      <4>2. Max(s) \in s /\ \A y \in s : y <= Max(s)
        BY <4>1, MaxUpto
      <4>3. Max(s) \in 1..(m + 1) /\ m + 1 <= Max(s)
        BY <2>3, <4>1, <4>2
      <4> QED
        BY <4>3
    <3> QED
      BY <2>2, <2>3, <3>1
  <2>4. ASSUME NEW s \in SUBSET (1..(m + 1)), m + 1 \notin s, s # {}
        PROVE  new[s] = F[new[s \ {Max(s)}], Max(s)]
    <3>1. s \in SUBSET (1..m) /\ s \ {Max(s)} \in SUBSET (1..m)
          /\ s \ {Max(s)} \in SUBSET (1..(m + 1)) /\ m + 1 \notin s \ {Max(s)}
      <4>1. s \subseteq 1..m
        BY <2>2, <2>4
      <4>2. s \ {Max(s)} \subseteq 1..m /\ s \ {Max(s)} \subseteq s
        BY <4>1
      <4> QED
        BY <4>1, <4>2, <2>4
    <3>2. new[s] = it[s] /\ new[s \ {Max(s)}] = it[s \ {Max(s)}]
      BY <2>2, <2>4, <3>1
    <3> QED
      BY <2>1, <2>4, <3>1, <3>2
  <2>5. new[{}] = base
    <3>1. {} \in SUBSET (1..m) /\ {} \in SUBSET (1..(m + 1)) /\ m + 1 \notin {}
      OBVIOUS
    <3> QED
      BY <2>1, <3>1
  <2>6. new \in [SUBSET (1..(m + 1)) -> H]
    <3> SUFFICES ASSUME NEW s \in SUBSET (1..(m + 1)) PROVE new[s] \in H
      OBVIOUS
    <3>1. CASE m + 1 \in s
      <4>1. it[s \ {m + 1}] \in H
        BY <2>2
      <4>2. <<it[s \ {m + 1}], m + 1>> \in H \X (1..n)
        BY <4>1
      <4>3. F[it[s \ {m + 1}], m + 1] \in H
        BY <4>2
      <4> QED
        BY <3>1, <4>3
    <3>2. CASE m + 1 \notin s
      BY <2>2, <3>2
    <3> QED
      BY <3>1, <3>2
  <2>7. Eq(new, m + 1)
    <3> HIDE DEF new
    <3> QED
      BY <2>3, <2>4, <2>5
  <2> HIDE DEF Eq, new
  <2> QED
    BY <2>6, <2>7
<1> HIDE DEF Eq
<1>3. \A m \in 0..n : m \in K
  <2>1. \A m \in 0..n-1 : m \in K => m + 1 \in K
    BY <1>2
  <2> HIDE DEF K
  <2> QED
    BY <1>1, <2>1, Upto
<1>4. \E it \in [SUBSET (1..n) -> H] : Eq(it, n)
  <2>1. n \in 0..n
    OBVIOUS
  <2> QED
    BY <1>3, <2>1, Zenon
<1> QED
  BY <1>4, Zenon DEF Eq, Iterates

------------------------------------------------------------------------------
\* Folds, as the functions that define them.

\* The intervals that a fold over a sequence ends with.
LEMMA Intervals ==
    ASSUME NEW n \in Nat, NEW k \in 1..n
    PROVE  /\ 1..k \in SUBSET (1..n) /\ 1..k # {}
           /\ Max(1..k) = k /\ (1..k) \ {Max(1..k)} = 1..(k - 1)
<1>1. 1..k \subseteq 1..n /\ 1..k # {} /\ k \in Nat
  OBVIOUS
<1>2. Max(1..k) \in 1..k /\ \A y \in 1..k : y <= Max(1..k)
  <2>1. 1..k \subseteq 1..k
    OBVIOUS
  <2> QED
    BY <1>1, <2>1, MaxUpto
<1>3. Max(1..k) = k
  BY <1>1, <1>2
<1>4. (1..k) \ {k} = 1..(k - 1)
  OBVIOUS
<1> QED
  BY <1>1, <1>3, <1>4

\* The folds of the model, one step at a time.
LEMMA WalkForm ==
    ASSUME NEW h, NEW k, NEW p
    PROVE  Walk(h, k, p) =
           (CHOOSE it : it = [s \in SUBSET DOMAIN p |->
                IF s = {} THEN First(k) ELSE Down(h, it[s \ {Max(s)}], p[Max(s)])])[DOMAIN p]
BY DEF Walk, FoldLeft, MapThenFoldSet

\* The same for Attach.
LEMMA AttachForm ==
    ASSUME NEW h, NEW a, NEW owners, NEW x
    PROVE  Attach(h, a, owners, x) =
           (CHOOSE it : it = [s \in SUBSET DOMAIN owners |->
                IF s = {} THEN IF Shared(a) /\ (\E w \in ToSet(owners) : Takes(h, a, w, x))
                               THEN Append(h, New(x)) ELSE h
                ELSE Give(it[s \ {Max(s)}], a, owners[Max(s)], x)])[DOMAIN owners]
BY DEF Attach, FoldLeft, MapThenFoldSet

\* The same for AttachAll.
LEMMA AttachAllForm ==
    ASSUME NEW h, NEW a, NEW owners, NEW found
    PROVE  AttachAll(h, a, owners, found) =
           (CHOOSE it : it = [s \in SUBSET DOMAIN found |->
                IF s = {} THEN h
                ELSE Attach(it[s \ {Max(s)}], a, owners, found[Max(s)])])[DOMAIN found]
BY DEF AttachAll, FoldLeft, MapThenFoldSet

\* The elements of a flattened sequence come from its parts.
LEMMA FlattenFacts ==
    ASSUME NEW S, NEW ss \in Seq(Seq(S))
    PROVE  /\ FlattenSeq(ss) \in Seq(S)
           /\ \A x \in ToSet(FlattenSeq(ss)) : \E i \in DOMAIN ss : x \in ToSet(ss[i])
<1> DEFINE n == Len(ss)
           Eq(f, m) == \A i \in 1..m : f[i] = IF i = 1 THEN ss[i] ELSE f[i - 1] \o ss[i]
           E(m) == \E f : DOMAIN f = 1..m /\ f = [i \in 1..m |-> f[i]] /\ Eq(f, m)
           G == CHOOSE f : f = [i \in 1..n |-> IF i = 1 THEN ss[i] ELSE f[i - 1] \o ss[i]]
<1>0. n \in Nat /\ DOMAIN ss = 1..n /\ \A i \in 1..n : ss[i] \in Seq(S)
  OBVIOUS
<1>1. CASE n = 0
  <2>1. FlattenSeq(ss) = ss
    BY <1>1, Zenon DEF FlattenSeq
  <2>2. DOMAIN ss = {} /\ ss = <<>>
    BY <1>0, <1>1
  <2> QED
    BY <2>1, <2>2 DEF ToSet
<1>2. CASE n # 0
  <2> HIDE DEF n
  <2>1. FlattenSeq(ss) = G[n]
    BY <1>2 DEF FlattenSeq, n
  <2>2. E(0)
    <3> DEFINE f == [i \in 1..0 |-> ss[i]]
    <3>1. DOMAIN f = 1..0 /\ f = [i \in 1..0 |-> f[i]] /\ Eq(f, 0)
      OBVIOUS
    <3> HIDE DEF f, Eq
    <3> QED
      BY <3>1
  <2>3. ASSUME NEW m \in 0..n-1, E(m) PROVE E(m + 1)
    <3>1. PICK f : DOMAIN f = 1..m /\ f = [i \in 1..m |-> f[i]] /\ Eq(f, m)
      BY <2>3
    <3> DEFINE g == [i \in 1..(m + 1) |-> IF i \in 1..m THEN f[i]
                         ELSE IF i = 1 THEN ss[i] ELSE f[i - 1] \o ss[i]]
    <3>2. DOMAIN g = 1..(m + 1) /\ g = [i \in 1..(m + 1) |-> g[i]]
      OBVIOUS
    <3>3. \A i \in 1..(m + 1) : g[i] = IF i \in 1..m THEN f[i]
                         ELSE IF i = 1 THEN ss[i] ELSE f[i - 1] \o ss[i]
      OBVIOUS
    <3> HIDE DEF g
    <3>4. ASSUME NEW i \in 1..(m + 1)
          PROVE  g[i] = IF i = 1 THEN ss[i] ELSE g[i - 1] \o ss[i]
      <4>1. i # 1 => i - 1 \in 1..m /\ i - 1 \in 1..(m + 1)
        BY <1>0
      <4>2. i # 1 => g[i - 1] = f[i - 1]
        BY <3>3, <4>1
      <4>3. i \in 1..m => f[i] = IF i = 1 THEN ss[i] ELSE f[i - 1] \o ss[i]
        BY <3>1
      <4> QED
        BY <3>3, <4>2, <4>3
    <3>5. Eq(g, m + 1)
      BY <3>4
    <3> HIDE DEF Eq
    <3> QED
      BY <3>2, <3>5
  <2>4. E(n)
    <3> DEFINE K == {m \in 0..n : E(m)}
    <3> HIDE DEF E
    <3>1. 0 \in K
      <4>1. 0 \in 0..n
        BY <1>0
      <4> QED
        BY <2>2, <4>1
    <3>2. \A m \in 0..n-1 : m \in K => m + 1 \in K
      <4>1. \A m \in 0..n-1 : m + 1 \in 0..n
        BY <1>0
      <4> QED
        BY <2>3, <4>1
    <3>3. n \in 0..n
      BY <1>0
    <3>4. n \in K
      <4> HIDE DEF K
      <4> QED
        BY <1>0, <3>1, <3>2, <3>3, Upto
    <3> QED
      BY <3>4
  <2>5. \E f : f = [i \in 1..n |-> IF i = 1 THEN ss[i] ELSE f[i - 1] \o ss[i]]
    <3>1. PICK f : f = [i \in 1..n |-> f[i]] /\ Eq(f, n)
      BY <2>4
    <3>2. f = [i \in 1..n |-> IF i = 1 THEN ss[i] ELSE f[i - 1] \o ss[i]]
      BY <3>1
    <3> QED
      BY <3>2
  <2>6. G = [i \in 1..n |-> IF i = 1 THEN ss[i] ELSE G[i - 1] \o ss[i]]
    BY <2>5, Zenon
  <2> HIDE DEF G
  <2> DEFINE Good(v) == v \in Seq(S) /\ \A x \in ToSet(v) : \E i \in DOMAIN ss : x \in ToSet(ss[i])
             L == {m \in 0..n : m = 0 \/ Good(G[m])}
  <2>7. ASSUME NEW m \in 1..n PROVE G[m] = IF m = 1 THEN ss[m] ELSE G[m - 1] \o ss[m]
    BY <2>6
  <2>8. ASSUME NEW m \in 0..n-1, m = 0 \/ Good(G[m]) PROVE Good(G[m + 1])
    <3>1. m + 1 \in 1..n /\ (m + 1) - 1 = m
      BY <1>0
    <3>2. Good(ss[m + 1])
      BY <1>0, <3>1
    <3>3. ASSUME NEW v, Good(v) PROVE Good(v \o ss[m + 1])
      <4>1. v \in Seq(S) /\ ss[m + 1] \in Seq(S)
        BY <1>0, <3>1, <3>3
      <4>2. ASSUME NEW x \in ToSet(v \o ss[m + 1]) PROVE x \in ToSet(v) \/ x \in ToSet(ss[m + 1])
        <5>1. PICK j \in 1..(Len(v) + Len(ss[m + 1])) : x = (v \o ss[m + 1])[j]
          BY <4>1 DEF ToSet
        <5>2. CASE j <= Len(v)
          BY <4>1, <5>1, <5>2 DEF ToSet
        <5>3. CASE j > Len(v)
          <6>1. j - Len(v) \in 1..Len(ss[m + 1]) /\ x = ss[m + 1][j - Len(v)]
            BY <4>1, <5>1, <5>3
          <6> QED
            BY <4>1, <6>1 DEF ToSet
        <5> QED
          BY <4>1, <5>1, <5>2, <5>3
      <4> QED
        BY <3>2, <3>3, <4>1, <4>2
    <3> HIDE DEF Good
    <3>4. CASE m = 0
      BY <2>7, <3>1, <3>2, <3>4
    <3>5. CASE m # 0
      <4>1. G[m + 1] = G[m] \o ss[m + 1]
        <5>1. m + 1 # 1
          BY <3>1, <3>5
        <5> QED
          BY <2>7, <3>1, <5>1
      <4> QED
        BY <2>8, <3>3, <3>5, <4>1
    <3> QED
      BY <3>4, <3>5
  <2>9. Good(G[n])
    <3> HIDE DEF Good
    <3>1. 0 \in L
      BY <1>0
    <3>2. \A m \in 0..n-1 : m \in L => m + 1 \in L
      <4>1. \A m \in 0..n-1 : m + 1 \in 0..n
        BY <1>0
      <4> QED
        BY <2>8, <4>1
    <3>3. n \in 0..n
      BY <1>0
    <3>4. n \in L
      <4> HIDE DEF L
      <4> QED
        BY <1>0, <3>1, <3>2, <3>3, Upto
    <3> QED
      BY <1>2, <3>4
  <2> QED
    BY <2>1, <2>9
<1> QED
  BY <1>1, <1>2

------------------------------------------------------------------------------
\* The walker.

\* What the walker returns: objects of a heap, as they are or as copies.
Reached(h) == [obj : DOMAIN h, copy : BOOLEAN]

\* What an object of the heap is.
LEMMA ObjectFacts ==
    ASSUME NEW h, HeapOK(h), NEW i \in DOMAIN h
    PROVE  /\ DOMAIN h = 1..Len(h) /\ Len(h) \in Nat
           /\ h[i].row \in Row /\ h[i].links \in [Links(h[i].row) -> Seq(Nat)]
           /\ h[i] = [row |-> h[i].row, links |-> h[i].links]
<1>1. h \in Seq(Objects)
  BY DEF HeapOK
<1>2. DOMAIN h = 1..Len(h) /\ Len(h) \in Nat /\ h[i] \in Objects
  BY <1>1
<1>3. PICK r \in Row : h[i] \in [row : {r}, links : [Links(r) -> Seq(Nat)]]
  BY <1>2 DEF Objects
<1> QED
  BY <1>2, <1>3

\* Down returns objects of the heap that are linked to those of the owners.
LEMMA DownFacts ==
    ASSUME NEW h, HeapOK(h), NEW owners \in Seq(Reached(h)), NEW n
    PROVE  /\ Down(h, owners, n) \in Seq(Reached(h))
           /\ \A w \in ToSet(Down(h, owners, n)) : \E v \in ToSet(owners) :
                  n \in Links(h[v.obj].row) /\ w.obj \in ToSet(h[v.obj].links[n])
<1> DEFINE part(i) == IF n \notin Links(h[owners[i].obj].row) THEN <<>>
                      ELSE [k \in DOMAIN h[owners[i].obj].links[n] |->
                               [obj |-> h[owners[i].obj].links[n][k],
                                copy |-> Ref(h[owners[i].obj].row, n).shape = "T"]]
           parts == [i \in DOMAIN owners |-> part(i)]
<1>1. Down(h, owners, n) = FlattenSeq(parts)
  BY Zenon DEF Down
<1>2. ASSUME NEW i \in DOMAIN owners
      PROVE  /\ part(i) \in Seq(Reached(h))
             /\ \A w \in ToSet(part(i)) : \E v \in ToSet(owners) :
                    n \in Links(h[v.obj].row) /\ w.obj \in ToSet(h[v.obj].links[n])
  <2> DEFINE o == owners[i].obj
  <2>1. owners[i] \in Reached(h) /\ owners[i] \in ToSet(owners)
    BY DEF ToSet
  <2>2. o \in DOMAIN h
    BY <2>1 DEF Reached
  <2>3. h[o].links \in [Links(h[o].row) -> Seq(Nat)]
    BY <2>2, ObjectFacts
  <2>4. CASE n \notin Links(h[o].row)
    BY <2>4 DEF ToSet
  <2>5. CASE n \in Links(h[o].row)
    <3>1. h[o].links[n] \in Seq(Nat) /\ ToSet(h[o].links[n]) \subseteq DOMAIN h
      BY <2>2, <2>3, <2>5 DEF HeapOK, Closed
    <3> DEFINE l == h[o].links[n]
    <3>2. part(i) = [k \in 1..Len(l) |-> [obj |-> l[k], copy |-> Ref(h[o].row, n).shape = "T"]]
      BY <2>5, <3>1
    <3> HIDE DEF part
    <3>3. \A k \in 1..Len(l) : l[k] \in ToSet(l) /\ l[k] \in DOMAIN h
      BY <3>1 DEF ToSet
    <3> HIDE DEF l
    <3>4. \A k \in 1..Len(l) : [obj |-> l[k], copy |-> Ref(h[o].row, n).shape = "T"] \in Reached(h)
      BY <3>3 DEF Reached
    <3>5. part(i) \in Seq(Reached(h))
      <4>1. Len(l) \in Nat
        BY <3>1 DEF l
      <4>2. part(i) \in [1..Len(l) -> Reached(h)]
        BY <3>2, <3>4
      <4> QED
        BY <4>1, <4>2
    <3>6. ASSUME NEW w \in ToSet(part(i)) PROVE w.obj \in ToSet(l)
      BY <3>2, <3>3, <3>6 DEF ToSet
    <3> QED
      BY <2>1, <2>5, <3>5, <3>6 DEF l
  <2> QED
    BY <2>4, <2>5
<1>3. parts \in Seq(Seq(Reached(h))) /\ DOMAIN parts = DOMAIN owners
  <2>1. DOMAIN owners = 1..Len(owners) /\ Len(owners) \in Nat
    OBVIOUS
  <2>2. parts \in [1..Len(owners) -> Seq(Reached(h))]
    <3> HIDE DEF part
    <3> QED
      BY <1>2, <2>1
  <2> QED
    BY <2>1, <2>2
<1>4. \A i \in DOMAIN owners : parts[i] = part(i)
  OBVIOUS
<1> HIDE DEF part, parts
<1>5. /\ FlattenSeq(parts) \in Seq(Reached(h))
      /\ \A x \in ToSet(FlattenSeq(parts)) : \E i \in DOMAIN parts : x \in ToSet(parts[i])
  BY <1>3, FlattenFacts
<1> QED
  BY <1>1, <1>2, <1>3, <1>4, <1>5

\* Down reads nothing but the owners.
LEMMA DownSame ==
    ASSUME NEW h, NEW g, NEW owners, NEW n, \A w \in ToSet(owners) : g[w.obj] = h[w.obj]
    PROVE  Down(g, owners, n) = Down(h, owners, n)
<1> DEFINE part(f, i) ==
        LET o == f[owners[i].obj]
        IN  IF n \notin Links(o.row) THEN <<>>
            ELSE [k \in DOMAIN o.links[n] |->
                     [obj |-> o.links[n][k], copy |-> Ref(o.row, n).shape = "T"]]
<1>1. \A i \in DOMAIN owners : g[owners[i].obj] = h[owners[i].obj]
  BY DEF ToSet
<1>2. \A i \in DOMAIN owners : part(g, i) = part(h, i)
  BY <1>1, Zenon
<1>3. Down(g, owners, n) = FlattenSeq([i \in DOMAIN owners |-> part(g, i)])
  BY Zenon DEF Down
<1>4. Down(h, owners, n) = FlattenSeq([i \in DOMAIN owners |-> part(h, i)])
  BY Zenon DEF Down
<1> HIDE DEF part
<1>5. [i \in DOMAIN owners |-> part(g, i)] = [i \in DOMAIN owners |-> part(h, i)]
  BY <1>2
<1> QED
  BY <1>3, <1>4, <1>5

\* The instances to preload.
LEMMA FirstFacts ==
    ASSUME NEW h, HeapOK(h), NEW k \in 0..Len(h)
    PROVE  /\ First(k) \in Seq(Reached(h))
           /\ \A w \in ToSet(First(k)) : w.obj \in 1..k
<1>1. DOMAIN h = 1..Len(h) /\ Len(h) \in Nat
  BY DEF HeapOK
<1>2. First(k) = [i \in 1..k |-> [obj |-> i, copy |-> FALSE]] /\ k \in Nat
  BY <1>1 DEF First
<1> DEFINE f == First(k)
<1>3. \A i \in 1..k : [obj |-> i, copy |-> FALSE] \in Reached(h)
  BY <1>1 DEF Reached
<1>4. f \in [1..k -> Reached(h)]
  BY <1>2, <1>3
<1>5. DOMAIN f = 1..k /\ \A i \in 1..k : f[i].obj = i
  BY <1>2
<1> HIDE DEF f
<1>6. f \in Seq(Reached(h))
  BY <1>2, <1>4
<1>7. \A w \in ToSet(f) : w.obj \in 1..k
  BY <1>5 DEF ToSet
<1> QED
  BY <1>6, <1>7 DEF f

\* The levels of a walk.
LEMMA WalkChain ==
    ASSUME NEW h, HeapOK(h), NEW k \in 0..Len(h), NEW p, NEW n \in Nat, DOMAIN p = 1..n
    PROVE  \E c : /\ c[0] = First(k) /\ c[n] = Walk(h, k, p)
                  /\ \A m \in 1..n : c[m] = Down(h, c[m - 1], p[m])
<1> DEFINE H == Seq(Reached(h))
           F == [v \in H \X (1..n) |-> Down(h, v[1], p[v[2]])]
           Eq(it) == \A s \in SUBSET (1..n) :
                         it[s] = IF s = {} THEN First(k) ELSE Down(h, it[s \ {Max(s)}], p[Max(s)])
           G == CHOOSE it : it = [s \in SUBSET DOMAIN p |->
                    IF s = {} THEN First(k) ELSE Down(h, it[s \ {Max(s)}], p[Max(s)])]
<1>1. First(k) \in H
  BY FirstFacts
<1>2. ASSUME NEW v \in H, NEW m PROVE Down(h, v, m) \in H
  BY DownFacts
<1> HIDE DEF H
<1>3. F \in [H \X (1..n) -> H]
  BY <1>2
<1>4. \A v \in H : \A m \in 1..n : F[v, m] = Down(h, v, p[m])
  OBVIOUS
<1> HIDE DEF F
<1>5. PICK it \in [SUBSET (1..n) -> H] : \A s \in SUBSET (1..n) :
          it[s] = IF s = {} THEN First(k) ELSE F[it[s \ {Max(s)}], Max(s)]
  <2>1. Iterates(n, H, First(k), F) # {}
    BY <1>1, <1>3, FoldExists
  <2> QED
    BY <2>1, Zenon DEF Iterates
<1>6. ASSUME NEW s \in SUBSET (1..n), s # {}
      PROVE  it[s] = Down(h, it[s \ {Max(s)}], p[Max(s)])
  <2>1. Max(s) \in 1..n
    <3>1. s \subseteq 1..n
      OBVIOUS
    <3>2. Max(s) \in s
      BY <1>6, <3>1, MaxUpto
    <3> QED
      BY <3>1, <3>2
  <2>2. s \ {Max(s)} \in SUBSET (1..n)
    OBVIOUS
  <2> QED
    BY <1>4, <1>5, <1>6, <2>1, <2>2
<1>7. it = [s \in SUBSET DOMAIN p |->
                IF s = {} THEN First(k) ELSE Down(h, it[s \ {Max(s)}], p[Max(s)])]
  BY <1>5, <1>6
<1>8. G = [s \in SUBSET DOMAIN p |->
                IF s = {} THEN First(k) ELSE Down(h, G[s \ {Max(s)}], p[Max(s)])]
  BY <1>7
<1> HIDE DEF G
<1>9. Eq(G)
  BY <1>8
<1> DEFINE c == [m \in 0..n |-> G[1..m]]
<1>10. ASSUME NEW m \in 1..n PROVE c[m] = Down(h, c[m - 1], p[m])
  <2>1. m \in 0..n /\ m - 1 \in 0..n
    OBVIOUS
  <2>2. G[1..m] = Down(h, G[1..(m - 1)], p[m])
    BY <1>9, Intervals
  <2> QED
    BY <2>1, <2>2
<1>11. c[0] = First(k) /\ c[n] = G[1..n]
  <2>1. 1..0 = {} /\ {} \subseteq 1..n /\ 0 \in 0..n /\ n \in 0..n
    OBVIOUS
  <2>2. G[{}] = First(k)
    BY <1>9, <2>1
  <2> QED
    BY <2>1, <2>2
<1>12. Walk(h, k, p) = G[1..n]
  BY WalkForm DEF G
<1> HIDE DEF c
<1> QED
  BY <1>10, <1>11, <1>12

\* The levels of a walk.
Levels(c, h, k, p) ==
    /\ c[0] = First(k) /\ c[Len(p)] = Walk(h, k, p)
    /\ \A m \in 0..Len(p) : c[m] \in Seq(Reached(h))
    /\ \A m \in 1..Len(p) : c[m] = Down(h, c[m - 1], p[m])

\* An element of a sequence.
LEMMA InSeq ==
    ASSUME NEW S, NEW s \in Seq(S), NEW v \in ToSet(s)
    PROVE  v \in S
BY DEF ToSet

\* Each level of a walk is a sequence of objects of the heap.
LEMMA WalkLevels ==
    ASSUME NEW h, HeapOK(h), NEW k \in 0..Len(h), NEW p \in Seq(STRING)
    PROVE  \E c : Levels(c, h, k, p)
<1> DEFINE n == Len(p)
<1>1. n \in Nat /\ DOMAIN p = 1..n
  OBVIOUS
<1> HIDE DEF n
<1>2. PICK c : /\ c[0] = First(k) /\ c[n] = Walk(h, k, p)
               /\ \A m \in 1..n : c[m] = Down(h, c[m - 1], p[m])
  BY <1>1, WalkChain
<1> DEFINE K == {m \in 0..n : c[m] \in Seq(Reached(h))}
<1>3. 0 \in K
  BY <1>1, <1>2, FirstFacts
<1>4. ASSUME NEW m \in 0..n-1, m \in K PROVE m + 1 \in K
  <2>1. m + 1 \in 1..n /\ m + 1 \in 0..n /\ (m + 1) - 1 = m /\ c[m] \in Seq(Reached(h))
    BY <1>1, <1>4
  <2>2. c[m + 1] = Down(h, c[m], p[m + 1])
    BY <1>2, <2>1
  <2>3. c[m + 1] \in Seq(Reached(h))
    BY <2>1, <2>2, DownFacts
  <2> QED
    BY <2>1, <2>3
<1>5. \A m \in 0..n : m \in K
  <2>1. \A m \in 0..n-1 : m \in K => m + 1 \in K
    BY <1>4
  <2> HIDE DEF K
  <2> QED
    BY <1>1, <1>3, <2>1, Upto
<1>6. Levels(c, h, k, p)
  BY <1>2, <1>5 DEF Levels, n
<1> QED
  BY <1>6

\* So is what the walk returns.
LEMMA WalkTyped ==
    ASSUME NEW h, HeapOK(h), NEW k \in 0..Len(h), NEW p \in Seq(STRING)
    PROVE  Walk(h, k, p) \in Seq(Reached(h))
<1>1. PICK c : Levels(c, h, k, p)
  BY WalkLevels
<1>2. Len(p) \in 0..Len(p)
  OBVIOUS
<1> QED
  BY <1>1, <1>2 DEF Levels

\* A prefix and the next one.
LEMMA PrefixStep ==
    ASSUME NEW p \in Seq(STRING), NEW m \in 0..(Len(p) - 1)
    PROVE  /\ SubSeq(p, 1, m) \in Seq(STRING) /\ Len(SubSeq(p, 1, m)) = m
           /\ SubSeq(p, 1, m + 1) = Append(SubSeq(p, 1, m), p[m + 1])
           /\ m + 1 \in 1..Len(p) /\ m + 1 \in 0..Len(p) /\ (m + 1) - 1 = m /\ m \in 0..Len(p)
OBVIOUS

\* The walker reaches only what has the label of the path.
LEMMA LevelLabel ==
    ASSUME NEW h, HeapOK(h), NEW k \in 0..Len(h), NEW p \in Seq(STRING), NEW P, Labels(h, k, P),
           NEW c, Levels(c, h, k, p)
    PROVE  \A m \in 0..Len(p) : \A w \in ToSet(c[m]) :
               w.obj \in DOMAIN h /\ P[w.obj] = SubSeq(p, 1, m)
<1> DEFINE n == Len(p)
           K == {m \in 0..n : \A w \in ToSet(c[m]) :
                     w.obj \in DOMAIN h /\ P[w.obj] = SubSeq(p, 1, m)}
<1>1. n \in Nat
  OBVIOUS
<1>2. 0 \in K
  <2>1. 0 \in 0..n /\ SubSeq(p, 1, 0) = <<>>
    BY <1>1
  <2>2. \A w \in ToSet(c[0]) : w.obj \in 1..k /\ w.obj \in DOMAIN h
    <3>1. DOMAIN h = 1..Len(h) /\ Len(h) \in Nat
      BY DEF HeapOK
    <3> QED
      BY <3>1, FirstFacts DEF Levels
  <2>3. \A i \in 1..k : P[i] = <<>>
    BY DEF Labels
  <2> QED
    BY <2>1, <2>2, <2>3
<1>3. ASSUME NEW m \in 0..n-1, m \in K PROVE m + 1 \in K
  <2>1. c[m + 1] = Down(h, c[m], p[m + 1]) /\ c[m] \in Seq(Reached(h)) /\ m + 1 \in 0..n
    BY PrefixStep DEF Levels
  <2>2. ASSUME NEW w \in ToSet(c[m + 1])
        PROVE  w.obj \in DOMAIN h /\ P[w.obj] = SubSeq(p, 1, m + 1)
    <3>1. PICK v \in ToSet(c[m]) : /\ p[m + 1] \in Links(h[v.obj].row)
                                   /\ w.obj \in ToSet(h[v.obj].links[p[m + 1]])
      BY <2>1, DownFacts
    <3>2. v.obj \in DOMAIN h /\ P[v.obj] = SubSeq(p, 1, m)
      BY <1>3
    <3>3. P[w.obj] = Append(P[v.obj], p[m + 1])
      BY <3>1, <3>2 DEF Labels
    <3>4. w.obj \in DOMAIN h
      BY <3>1, <3>2 DEF HeapOK, Closed
    <3> QED
      BY <3>2, <3>3, <3>4, PrefixStep
  <2> QED
    BY <2>1, <2>2
<1>4. \A m \in 0..n : m \in K
  <2>1. \A m \in 0..n-1 : m \in K => m + 1 \in K
    BY <1>3
  <2> HIDE DEF K
  <2> QED
    BY <1>1, <1>2, <2>1, Upto
<1> QED
  BY <1>4

\* What a walk returns has its path for a label.
LEMMA WalkLabel ==
    ASSUME NEW h, HeapOK(h), NEW k \in 0..Len(h), NEW p \in Seq(STRING), NEW P, Labels(h, k, P)
    PROVE  \A w \in ToSet(Walk(h, k, p)) : w.obj \in DOMAIN h /\ P[w.obj] = p
<1>1. PICK c : Levels(c, h, k, p)
  BY WalkLevels
<1>2. Len(p) \in 0..Len(p) /\ SubSeq(p, 1, Len(p)) = p
  OBVIOUS
<1> QED
  BY <1>1, <1>2, LevelLabel DEF Levels

\* What changed further down does not change a walk.
LEMMA WalkSame ==
    ASSUME NEW h, HeapOK(h), NEW g, HeapOK(g), NEW k \in 0..Len(h), k \in 0..Len(g),
           NEW p \in Seq(STRING), NEW P, Labels(h, k, P),
           \A i \in DOMAIN h : Len(P[i]) < Len(p) => g[i] = h[i]
    PROVE  Walk(g, k, p) = Walk(h, k, p)
<1>1. PICK c : Levels(c, h, k, p)
  BY WalkLevels
<1>2. PICK d : Levels(d, g, k, p)
  BY WalkLevels
<1> DEFINE n == Len(p)
           K == {m \in 0..n : d[m] = c[m]}
<1>3. n \in Nat
  OBVIOUS
<1>4. 0 \in K
  <2>1. 0 \in 0..n
    BY <1>3
  <2> QED
    BY <1>1, <1>2, <2>1 DEF Levels
<1>5. ASSUME NEW m \in 0..n-1, m \in K PROVE m + 1 \in K
  <2>1. c[m + 1] = Down(h, c[m], p[m + 1]) /\ d[m + 1] = Down(g, d[m], p[m + 1]) /\ m + 1 \in 0..n
    BY <1>1, <1>2, PrefixStep DEF Levels
  <2>2. \A w \in ToSet(c[m]) : g[w.obj] = h[w.obj]
    <3> SUFFICES ASSUME NEW w \in ToSet(c[m]) PROVE g[w.obj] = h[w.obj]
      OBVIOUS
    <3>1. w.obj \in DOMAIN h /\ P[w.obj] = SubSeq(p, 1, m)
      BY <1>1, LevelLabel, PrefixStep
    <3>2. Len(P[w.obj]) < Len(p)
      BY <1>3, <3>1, PrefixStep
    <3> QED
      BY <3>1, <3>2
  <2>3. Down(g, c[m], p[m + 1]) = Down(h, c[m], p[m + 1])
    BY <2>2, DownSame
  <2> QED
    BY <1>5, <2>1, <2>3
<1>6. \A m \in 0..n : m \in K
  <2>1. \A m \in 0..n-1 : m \in K => m + 1 \in K
    BY <1>5
  <2> HIDE DEF K
  <2> QED
    BY <1>3, <1>4, <2>1, Upto
<1>7. n \in 0..n
  BY <1>3
<1> QED
  BY <1>1, <1>2, <1>6, <1>7 DEF Levels

\* Everything that is linked belongs where it is.
Sound(h) ==
    \A i \in DOMAIN h : \A n \in Links(h[i].row) :
        LET a == Ref(h[i].row, n)
        IN  \A x \in ToSet(h[i].links[n]) :
                /\ Of[h[x].row] = a.remote.model
                /\ Here(a, h[i].row) = There(a, h[x].row)

OneModel(h, k) == \A i \in 1..k : Of[h[i].row] = Of[h[1].row]

\* The instances of a path are of one model.
LEMMA WalkModel ==
    ASSUME NEW h, HeapOK(h), Sound(h), NEW k \in 0..Len(h), OneModel(h, k), NEW p \in Seq(STRING)
    PROVE  \A v, w \in ToSet(Walk(h, k, p)) : Of[h[v.obj].row] = Of[h[w.obj].row]
<1>1. PICK c : Levels(c, h, k, p)
  BY WalkLevels
<1> DEFINE n == Len(p)
           Same(o) == \A v, w \in ToSet(o) : Of[h[v.obj].row] = Of[h[w.obj].row]
           K == {m \in 0..n : Same(c[m])}
<1>2. n \in Nat
  OBVIOUS
<1>3. 0 \in K
  <2>1. \A w \in ToSet(c[0]) : w.obj \in 1..k
    BY <1>1, FirstFacts DEF Levels
  <2>2. Same(c[0])
    BY <2>1 DEF OneModel
  <2> QED
    BY <1>2, <2>2
<1>4. ASSUME NEW m \in 0..n-1, m \in K PROVE m + 1 \in K
  <2>1. c[m + 1] = Down(h, c[m], p[m + 1]) /\ c[m] \in Seq(Reached(h)) /\ m + 1 \in 0..n
    BY <1>1, PrefixStep DEF Levels
  <2> DEFINE N == p[m + 1]
  <2>2. ASSUME NEW w \in ToSet(c[m + 1])
        PROVE  \E v \in ToSet(c[m]) : Of[h[w.obj].row] = Ref(h[v.obj].row, N).remote.model
    <3>1. PICK v \in ToSet(c[m]) : N \in Links(h[v.obj].row) /\ w.obj \in ToSet(h[v.obj].links[N])
      BY <2>1, DownFacts
    <3>2. v.obj \in DOMAIN h
      <4>1. v \in Reached(h)
        BY <2>1, InSeq
      <4> QED
        BY <4>1 DEF Reached
    <3> QED
      BY <3>1, <3>2 DEF Sound
  <2>3. \A v, w \in ToSet(c[m]) : Ref(h[v.obj].row, N) = Ref(h[w.obj].row, N)
    BY <1>4 DEF Ref
  <2>4. Same(c[m + 1])
    <3> SUFFICES ASSUME NEW v \in ToSet(c[m + 1]), NEW w \in ToSet(c[m + 1])
                 PROVE  Of[h[v.obj].row] = Of[h[w.obj].row]
      OBVIOUS
    <3>1. PICK x \in ToSet(c[m]) : Of[h[v.obj].row] = Ref(h[x.obj].row, N).remote.model
      BY <2>2
    <3>2. PICK y \in ToSet(c[m]) : Of[h[w.obj].row] = Ref(h[y.obj].row, N).remote.model
      BY <2>2
    <3>3. Ref(h[x.obj].row, N) = Ref(h[y.obj].row, N)
      BY <2>3
    <3> QED
      BY <3>1, <3>2, <3>3
  <2> QED
    BY <2>1, <2>4
<1>5. \A m \in 0..n : m \in K
  <2>1. \A m \in 0..n-1 : m \in K => m + 1 \in K
    BY <1>4
  <2> HIDE DEF K
  <2> QED
    BY <1>2, <1>3, <2>1, Upto
<1>6. n \in 0..n
  BY <1>2
<1> QED
  BY <1>1, <1>5, <1>6 DEF Levels

------------------------------------------------------------------------------
\* What an owner is given.

\* A row that was read has no links yet.
LEMMA NewFacts ==
    ASSUME NEW x \in Row
    PROVE  /\ New(x) \in Objects /\ New(x).row = x
           /\ \A n \in Links(x) : New(x).links[n] = <<>>
<1>1. New(x) = [row |-> x, links |-> [n \in Links(x) |-> <<>>]]
  BY DEF New
<1>2. [n \in Links(x) |-> <<>>] \in [Links(x) -> Seq(Nat)]
  OBVIOUS
<1>3. New(x) \in [row : {x}, links : [Links(x) -> Seq(Nat)]]
  BY <1>1, <1>2
<1> QED
  BY <1>1, <1>3 DEF Objects

\* A heap with one more row.
LEMMA AppendFacts ==
    ASSUME NEW h, HeapOK(h), NEW x \in Row, NEW g, g = Append(h, New(x))
    PROVE  /\ HeapOK(g) /\ Len(g) = Len(h) + 1 /\ Len(h) \in Nat
           /\ \A i \in 1..Len(h) : g[i] = h[i]
           /\ g[Len(g)] = New(x)
<1>1. h \in Seq(Objects) /\ Closed(h)
  BY DEF HeapOK
<1>2. /\ g \in Seq(Objects) /\ Len(g) = Len(h) + 1 /\ Len(h) \in Nat
      /\ \A i \in 1..Len(h) : g[i] = h[i]
      /\ g[Len(g)] = New(x)
  BY <1>1, NewFacts
<1>3. Closed(g)
  <2> SUFFICES ASSUME NEW i \in DOMAIN g, NEW n \in Links(g[i].row)
               PROVE  ToSet(g[i].links[n]) \subseteq DOMAIN g
    BY DEF Closed
  <2>1. DOMAIN g = 1..(Len(h) + 1) /\ DOMAIN h = 1..Len(h)
    BY <1>1, <1>2
  <2>2. CASE i \in 1..Len(h)
    <3>1. g[i] = h[i] /\ i \in DOMAIN h
      BY <1>2, <2>1, <2>2
    <3>2. ToSet(h[i].links[n]) \subseteq DOMAIN h
      BY <1>1, <3>1 DEF Closed
    <3>3. DOMAIN h \subseteq DOMAIN g
      BY <1>2, <2>1
    <3> QED
      BY <3>1, <3>2, <3>3
  <2>3. CASE i = Len(g)
    <3>1. g[i].links[n] = <<>>
      BY <1>2, <2>3, NewFacts
    <3> QED
      BY <3>1 DEF ToSet
  <2> QED
    BY <1>2, <2>1, <2>2, <2>3
<1> QED
  BY <1>2, <1>3 DEF HeapOK

\* What Append adds to the elements.
LEMMA AppendSet ==
    ASSUME NEW s \in Seq(Nat), NEW v \in Nat
    PROVE  ToSet(Append(s, v)) = ToSet(s) \cup {v}
<1>2. Append(s, v) \in Seq(Nat) /\ Len(Append(s, v)) = Len(s) + 1 /\ Len(s) \in Nat
  OBVIOUS
<1>3. \A i \in 1..Len(s) : Append(s, v)[i] = s[i]
  OBVIOUS
<1>4. Append(s, v)[Len(s) + 1] = v
  OBVIOUS
<1>5. DOMAIN Append(s, v) = 1..(Len(s) + 1) /\ DOMAIN s = 1..Len(s)
  OBVIOUS
<1>6. ASSUME NEW y \in ToSet(Append(s, v)) PROVE y \in ToSet(s) \cup {v}
  <2>1. PICK i \in 1..(Len(s) + 1) : y = Append(s, v)[i]
    BY <1>5 DEF ToSet
  <2>2. i \in 1..Len(s) \/ i = Len(s) + 1
    BY <1>2
  <2> QED
    BY <1>3, <1>4, <1>5, <2>1, <2>2 DEF ToSet
<1>7. ASSUME NEW y \in ToSet(s) PROVE y \in ToSet(Append(s, v))
  <2>1. PICK i \in 1..Len(s) : y = s[i]
    BY <1>5 DEF ToSet
  <2>2. i \in 1..(Len(s) + 1)
    BY <1>2
  <2> QED
    BY <1>3, <1>5, <2>1, <2>2 DEF ToSet
<1>8. v \in ToSet(Append(s, v))
  <2>1. Len(s) + 1 \in 1..(Len(s) + 1)
    BY <1>2
  <2> QED
    BY <1>4, <1>5, <2>1 DEF ToSet
<1> QED
  BY <1>6, <1>7, <1>8

\* What was appended to is not empty.
LEMMA AppendSome ==
    ASSUME NEW s \in Seq(Nat), NEW v \in Nat
    PROVE  Append(s, v) # <<>>
<1>1. Len(Append(s, v)) = Len(s) + 1 /\ Len(s) \in Nat
  OBVIOUS
<1>2. Len(<<>>) = 0
  OBVIOUS
<1> QED
  BY <1>1, <1>2

\* Object o has y in an association, too.
Linked(h, g, a, o, y) ==
    /\ HeapOK(g) /\ Len(g) = Len(h) /\ DOMAIN g = DOMAIN h
    /\ \A i \in DOMAIN h : g[i].row = h[i].row /\ (i # o => g[i] = h[i])
    /\ \A n \in Links(h[o].row) : n # a.name => g[o].links[n] = h[o].links[n]
    /\ g[o].links[a.name] = IF IsMany(a) THEN Append(h[o].links[a.name], y) ELSE <<y>>

\* Link is what Linked says.
LEMMA LinkFacts ==
    ASSUME NEW h, HeapOK(h), NEW a, NEW o \in DOMAIN h, a.name \in Links(h[o].row),
           NEW y \in DOMAIN h
    PROVE  Linked(h, Link(h, a, o, y), a, o, y)
<1> DEFINE g == Link(h, a, o, y)
           new == IF IsMany(a) THEN Append(h[o].links[a.name], y) ELSE <<y>>
           obj == [row |-> h[o].row, links |-> [h[o].links EXCEPT ![a.name] = new]]
<1>1. /\ DOMAIN h = 1..Len(h) /\ Len(h) \in Nat
      /\ h[o].row \in Row /\ h[o].links \in [Links(h[o].row) -> Seq(Nat)]
      /\ h[o] = [row |-> h[o].row, links |-> h[o].links]
  BY ObjectFacts
<1>2. h[o].links[a.name] \in Seq(Nat) /\ y \in Nat
  BY <1>1
<1>3. new \in Seq(Nat)
  BY <1>2
<1>4. g = [h EXCEPT ![o] = [h[o] EXCEPT !.links = [h[o].links EXCEPT ![a.name] = new]]]
  BY DEF Link
<1> HIDE DEF new, g
<1>5. [h[o] EXCEPT !.links = [h[o].links EXCEPT ![a.name] = new]] = obj
  <2>1. ASSUME NEW u, NEW r, NEW l, NEW m, u = [row |-> r, links |-> l]
        PROVE  [u EXCEPT !.links = m] = [row |-> r, links |-> m]
    BY <2>1
  <2> DEFINE u == h[o]
             r == h[o].row
             l == h[o].links
             m == [h[o].links EXCEPT ![a.name] = new]
  <2>2. u = [row |-> r, links |-> l]
    BY <1>1
  <2> HIDE DEF u, r, l, m
  <2>3. [u EXCEPT !.links = m] = [row |-> r, links |-> m]
    BY <2>1, <2>2
  <2> QED
    BY <2>3 DEF u, r, l, m
<1>6. g = [h EXCEPT ![o] = obj]
  BY <1>4, <1>5
<1>7. obj \in Objects
  <2>1. [h[o].links EXCEPT ![a.name] = new] \in [Links(h[o].row) -> Seq(Nat)]
    BY <1>1, <1>3
  <2>2. obj \in [row : {h[o].row}, links : [Links(h[o].row) -> Seq(Nat)]]
    BY <2>1
  <2> QED
    BY <1>1, <2>2 DEF Objects
<1>8. /\ obj.row = h[o].row /\ obj.links[a.name] = new
      /\ \A n \in Links(h[o].row) : n # a.name => obj.links[n] = h[o].links[n]
  BY <1>1
<1> HIDE DEF obj
<1>9. h \in Seq(Objects) /\ Closed(h)
  BY DEF HeapOK
<1>10. /\ g \in Seq(Objects) /\ Len(g) = Len(h) /\ DOMAIN g = DOMAIN h
       /\ \A i \in DOMAIN h : i # o => g[i] = h[i]
       /\ g[o] = obj
  BY <1>1, <1>6, <1>7, <1>9
<1>11. Closed(g)
  <2> SUFFICES ASSUME NEW i \in DOMAIN h, NEW n \in Links(g[i].row)
               PROVE  ToSet(g[i].links[n]) \subseteq DOMAIN h
    BY <1>10 DEF Closed
  <2>1. CASE i = o /\ n = a.name
    <3>1. ToSet(h[o].links[a.name]) \subseteq DOMAIN h
      BY <1>9 DEF Closed
    <3>2. ToSet(<<y>>) = {y}
      BY DEF ToSet
    <3>3. ToSet(Append(h[o].links[a.name], y)) = ToSet(h[o].links[a.name]) \cup {y}
      BY <1>2, AppendSet
    <3>4. ToSet(new) \subseteq ToSet(h[o].links[a.name]) \cup {y}
      BY <3>2, <3>3 DEF new
    <3> QED
      BY <1>8, <1>10, <2>1, <3>1, <3>4
  <2>2. CASE i # o \/ n # a.name
    BY <1>8, <1>9, <1>10, <2>2 DEF Closed
  <2> QED
    BY <2>1, <2>2
<1> QED
  BY <1>8, <1>10, <1>11 DEF HeapOK, Linked, new, g

\* An owner is given a row: as the last object, a new one unless it is shared.
Gives(h, g, a, i, x) ==
    /\ HeapOK(g) /\ Len(g) = IF Shared(a) THEN Len(h) ELSE Len(h) + 1
    /\ \A j \in 1..Len(h) : g[j].row = h[j].row /\ (j # i => g[j] = h[j])
    /\ \A n \in Links(h[i].row) : n # a.name => g[i].links[n] = h[i].links[n]
    /\ g[i].links[a.name] =
           IF IsMany(a) THEN Append(h[i].links[a.name], Len(g)) ELSE <<Len(g)>>
    /\ g[Len(g)].row = x /\ (~Shared(a) => g[Len(g)] = New(x))

\* Give, for an owner with the key, is what Gives says.
LEMMA GiveFacts ==
    ASSUME NEW h, HeapOK(h), NEW a, NEW w \in Reached(h), a.name \in Links(h[w.obj].row),
           NEW x \in Row, Takes(h, a, w, x), Shared(a) => h[Len(h)].row = x
    PROVE  Gives(h, Give(h, a, w, x), a, w.obj, x)
<1> DEFINE g == Give(h, a, w, x)
<1>1. w.obj \in DOMAIN h /\ DOMAIN h = 1..Len(h) /\ Len(h) \in Nat
  BY ObjectFacts DEF Reached, HeapOK
<1>2. CASE Shared(a)
  <2>1. g = Link(h, a, w.obj, Len(h))
    BY <1>2 DEF Give
  <2>2. Len(h) \in DOMAIN h
    BY <1>1
  <2> HIDE DEF g
  <2> QED
    <3>1. Linked(h, g, a, w.obj, Len(h))
      BY <1>1, <2>1, <2>2, LinkFacts
    <3>2. Gives(h, g, a, w.obj, x)
      BY <1>1, <1>2, <2>2, <3>1 DEF Gives, Linked
    <3> QED
      BY <3>2 DEF g
<1>3. CASE ~Shared(a)
  <2> DEFINE f == Append(h, New(x))
  <2>1. g = Link(f, a, w.obj, Len(f))
    BY <1>3 DEF Give
  <2> HIDE DEF g
  <2>0. f = Append(h, New(x))
    OBVIOUS
  <2> HIDE DEF f
  <2>2. /\ HeapOK(f) /\ Len(f) = Len(h) + 1
        /\ \A i \in 1..Len(h) : f[i] = h[i]
        /\ f[Len(f)] = New(x)
    BY <2>0, AppendFacts, ZenonT(30)
  <2>3. DOMAIN f = 1..Len(f)
    BY <2>2 DEF HeapOK
  <2>4. Len(f) \in DOMAIN f /\ w.obj \in DOMAIN f /\ f[w.obj] = h[w.obj] /\ w.obj # Len(f)
    BY <1>1, <2>2, <2>3
  <2>5. Linked(f, g, a, w.obj, Len(f))
    <3>1. a.name \in Links(f[w.obj].row)
      BY <2>4
    <3> QED
      BY <2>1, <2>2, <2>4, <3>1, LinkFacts
  <2>6. \A j \in 1..Len(h) : j \in DOMAIN f
    BY <1>1, <2>2, <2>3
  <2>7. g[Len(g)] = New(x) /\ New(x).row = x
    BY <2>2, <2>4, <2>5, NewFacts DEF Linked
  <2>8. Gives(h, g, a, w.obj, x)
    BY <1>3, <2>2, <2>4, <2>5, <2>6, <2>7 DEF Gives, Linked
  <2> QED
    BY <2>8 DEF g
<1> QED
  BY <1>2, <1>3

------------------------------------------------------------------------------
\* The heap that grows while rows are given to the owners.

\* The objects that may be given something.
Open(owners) == {owners[j].obj : j \in {j \in DOMAIN owners : ~owners[j].copy}}

Ready(h, a, owners) ==
    /\ HeapOK(h) /\ owners \in Seq(Reached(h))
    /\ \A j \in DOMAIN owners : a.name \in Links(h[owners[j].obj].row)

\* Heap h became g while rows were given to the owners.
Grew(h, g, a, owners) ==
    /\ HeapOK(g) /\ Len(h) <= Len(g)
    /\ \A i \in 1..Len(h) : g[i].row = h[i].row /\ (i \notin Open(owners) => g[i] = h[i])
    /\ \A i \in Open(owners) : \A n \in Links(h[i].row) :
           n # a.name => g[i].links[n] = h[i].links[n]
    /\ \A i \in (Len(h) + 1)..Len(g) : Of[g[i].row] = a.remote.model /\ g[i] = New(g[i].row)
    /\ \A i \in Open(owners) : \A y \in ToSet(g[i].links[a.name]) :
           \/ y \in ToSet(h[i].links[a.name])
           \/ y \in (Len(h) + 1)..Len(g) /\ Here(a, h[i].row) = There(a, g[y].row)
    /\ \A i \in Open(owners) :
           IF IsMany(a) THEN ToSet(h[i].links[a.name]) \subseteq ToSet(g[i].links[a.name])
           ELSE h[i].links[a.name] # <<>> => g[i].links[a.name] # <<>>

\* An owner is an object that has the association.
LEMMA OwnerFacts ==
    ASSUME NEW h, NEW a, NEW owners, Ready(h, a, owners), NEW k \in DOMAIN owners
    PROVE  /\ owners[k] \in Reached(h) /\ owners[k].obj \in 1..Len(h) /\ owners[k].obj \in DOMAIN h
           /\ Len(h) \in Nat /\ a.name \in Links(h[owners[k].obj].row)
           /\ ~owners[k].copy => owners[k].obj \in Open(owners)
<1>1. DOMAIN h = 1..Len(h) /\ Len(h) \in Nat
  BY DEF Ready, HeapOK
<1>2. owners[k] \in Reached(h)
  BY DEF Ready
<1> QED
  BY <1>1, <1>2 DEF Ready, Reached, Open

\* So is one that may be given something.
LEMMA OpenFacts ==
    ASSUME NEW h, NEW a, NEW owners, Ready(h, a, owners), NEW i \in Open(owners)
    PROVE  i \in 1..Len(h) /\ i \in DOMAIN h /\ Len(h) \in Nat /\ a.name \in Links(h[i].row)
<1>1. PICK j \in DOMAIN owners : i = owners[j].obj
  BY DEF Open
<1> QED
  BY <1>1, OwnerFacts

\* What the owners need not know of the heap that grew.
LEMMA GrewReady ==
    ASSUME NEW h, NEW g, NEW a, NEW owners, Ready(h, a, owners), Grew(h, g, a, owners),
           NEW k \in DOMAIN owners, NEW x
    PROVE  /\ owners[k] \in Reached(g) /\ owners[k].obj \in DOMAIN g
           /\ a.name \in Links(g[owners[k].obj].row) /\ Len(g) \in Nat
           /\ Takes(g, a, owners[k], x) <=> Takes(h, a, owners[k], x)
<1>1. DOMAIN g = 1..Len(g) /\ Len(g) \in Nat
  BY DEF Grew, HeapOK
<1>2. owners[k] \in Reached(h) /\ owners[k].obj \in 1..Len(h) /\ Len(h) \in Nat
      /\ a.name \in Links(h[owners[k].obj].row)
  BY OwnerFacts
<1>3. owners[k].obj \in 1..Len(g) /\ g[owners[k].obj].row = h[owners[k].obj].row
  BY <1>1, <1>2 DEF Grew
<1>4. owners[k] \in Reached(g)
  BY <1>1, <1>2, <1>3 DEF Reached
<1> QED
  BY <1>1, <1>2, <1>3, <1>4 DEF Takes

\* Nothing given yet.
LEMMA GrewRefl ==
    ASSUME NEW h, NEW a, NEW owners, Ready(h, a, owners)
    PROVE  Grew(h, h, a, owners)
<1>1. HeapOK(h) /\ Len(h) \in Nat
  BY DEF Ready, HeapOK
<1>2. (Len(h) + 1)..Len(h) = {}
  BY <1>1
<1> QED
  BY <1>1, <1>2 DEF Grew

\* A new row of the model, given to nobody yet.
LEMMA GrewAppend ==
    ASSUME NEW h, NEW g, NEW a, NEW owners, Ready(h, a, owners), Grew(h, g, a, owners),
           NEW x \in Row, Of[x] = a.remote.model
    PROVE  Grew(h, Append(g, New(x)), a, owners)
<1> DEFINE f == Append(g, New(x))
<1>0. f = Append(g, New(x))
  OBVIOUS
<1> HIDE DEF f
<1>1. /\ HeapOK(f) /\ Len(f) = Len(g) + 1 /\ Len(g) \in Nat
      /\ \A i \in 1..Len(g) : f[i] = g[i]
      /\ f[Len(f)] = New(x)
  <2>1. HeapOK(g)
    BY DEF Grew
  <2> QED
    BY <1>0, <2>1, AppendFacts, Zenon
<1>2. Len(h) \in Nat /\ Len(h) <= Len(g)
  BY DEF Grew, Ready, HeapOK
<1>3. \A i \in 1..Len(h) : f[i] = g[i]
  BY <1>1, <1>2
<1>4. \A i \in Open(owners) : f[i] = g[i]
  BY <1>3, OpenFacts
<1>5. ASSUME NEW i \in (Len(h) + 1)..Len(f)
      PROVE  Of[f[i].row] = a.remote.model /\ f[i] = New(f[i].row)
  <2>1. CASE i = Len(f)
    BY <1>1, <2>1, NewFacts
  <2>2. CASE i # Len(f)
    <3>1. i \in (Len(h) + 1)..Len(g) /\ i \in 1..Len(g)
      BY <1>1, <1>2, <2>2
    <3> QED
      BY <1>1, <3>1 DEF Grew
  <2> QED
    BY <2>1, <2>2
<1>6. ASSUME NEW i \in Open(owners), NEW y \in ToSet(f[i].links[a.name])
      PROVE  \/ y \in ToSet(h[i].links[a.name])
             \/ y \in (Len(h) + 1)..Len(f) /\ Here(a, h[i].row) = There(a, f[y].row)
  <2>1. CASE y \in (Len(h) + 1)..Len(g) /\ Here(a, h[i].row) = There(a, g[y].row)
    <3>1. y \in 1..Len(g) /\ y \in (Len(h) + 1)..Len(f)
      BY <1>1, <1>2, <2>1
    <3> QED
      BY <1>1, <2>1, <3>1
  <2> QED
    BY <1>4, <1>6, <2>1 DEF Grew
<1>7. \A i \in 1..Len(h) : f[i].row = h[i].row /\ (i \notin Open(owners) => f[i] = h[i])
  BY <1>3 DEF Grew
<1>8. /\ \A i \in Open(owners) : \A n \in Links(h[i].row) :
             n # a.name => f[i].links[n] = h[i].links[n]
      /\ \A i \in Open(owners) :
             IF IsMany(a) THEN ToSet(h[i].links[a.name]) \subseteq ToSet(f[i].links[a.name])
             ELSE h[i].links[a.name] # <<>> => f[i].links[a.name] # <<>>
  BY <1>4 DEF Grew
<1>9. HeapOK(f) /\ Len(h) <= Len(f)
  BY <1>1, <1>2
<1>10. Grew(h, f, a, owners)
  BY <1>5, <1>6, <1>7, <1>8, <1>9 DEF Grew
<1> QED
  BY <1>0, <1>10

\* A row given to an owner with its key.
LEMMA GrewGives ==
    ASSUME NEW h, NEW g, NEW f, NEW a, NEW owners, Ready(h, a, owners), Grew(h, g, a, owners),
           NEW k \in DOMAIN owners, NEW x \in Row, Takes(h, a, owners[k], x),
           Shared(a) => Len(g) > Len(h), Gives(g, f, a, owners[k].obj, x)
    PROVE  Grew(h, f, a, owners)
<1> DEFINE o == owners[k].obj
<1>1. o \in Open(owners) /\ o \in 1..Len(h) /\ Len(h) \in Nat /\ Len(g) \in Nat /\ Len(h) <= Len(g)
      /\ a.name \in Links(h[o].row) /\ g[o].row = h[o].row
  BY OwnerFacts, GrewReady DEF Takes, Grew
<1>2. Of[x] = a.remote.model /\ Here(a, h[o].row) = There(a, x)
  BY DEF Takes, Fits
<1> HIDE DEF o
<1>3. /\ HeapOK(f) /\ Len(f) = IF Shared(a) THEN Len(g) ELSE Len(g) + 1
      /\ \A j \in 1..Len(g) : f[j].row = g[j].row /\ (j # o => f[j] = g[j])
      /\ \A n \in Links(g[o].row) : n # a.name => f[o].links[n] = g[o].links[n]
      /\ f[o].links[a.name] = IF IsMany(a) THEN Append(g[o].links[a.name], Len(f)) ELSE <<Len(f)>>
      /\ f[Len(f)].row = x /\ (~Shared(a) => f[Len(f)] = New(x))
  BY DEF Gives, o
<1>4. Len(f) \in Nat /\ Len(f) \in (Len(h) + 1)..Len(f) /\ Len(g) <= Len(f)
  BY <1>1, <1>3
<1>5. \A j \in 1..Len(h) : j \in 1..Len(g)
  BY <1>1
<1>6. \A i \in 1..Len(h) : f[i].row = h[i].row /\ (i \notin Open(owners) => f[i] = h[i])
  BY <1>1, <1>3, <1>5 DEF Grew
<1>7. ASSUME NEW i \in Open(owners)
      PROVE  i \in 1..Len(h) /\ i \in 1..Len(g) /\ (i # o => f[i] = g[i])
  BY <1>3, <1>5, OpenFacts
<1>8. \A i \in Open(owners) : \A n \in Links(h[i].row) :
          n # a.name => f[i].links[n] = h[i].links[n]
  BY <1>1, <1>3, <1>7 DEF Grew
<1>9. ASSUME NEW i \in (Len(h) + 1)..Len(f)
      PROVE  Of[f[i].row] = a.remote.model /\ f[i] = New(f[i].row)
  <2>1. CASE i \in (Len(h) + 1)..Len(g)
    <3>1. i \in 1..Len(g) /\ i # o
      BY <1>1, <2>1
    <3> QED
      BY <1>3, <2>1, <3>1 DEF Grew
  <2>2. CASE i \notin (Len(h) + 1)..Len(g)
    <3>1. i = Len(f) /\ ~Shared(a)
      BY <1>1, <1>3, <1>4, <2>2
    <3> QED
      BY <1>2, <1>3, <3>1
  <2> QED
    BY <2>1, <2>2
<1>10. g[o].links[a.name] \in Seq(Nat)
  <2>1. o \in DOMAIN g
    BY GrewReady DEF o
  <2>2. HeapOK(g)
    BY DEF Grew
  <2> QED
    BY <1>1, <2>1, <2>2, ObjectFacts
<1>11. /\ ToSet(f[o].links[a.name]) \subseteq ToSet(g[o].links[a.name]) \cup {Len(f)}
       /\ IsMany(a) => ToSet(g[o].links[a.name]) \subseteq ToSet(f[o].links[a.name])
       /\ f[o].links[a.name] # <<>>
  <2>1. CASE IsMany(a)
    <3>1. f[o].links[a.name] = Append(g[o].links[a.name], Len(f))
      BY <1>3, <2>1, Zenon
    <3>2. ToSet(Append(g[o].links[a.name], Len(f))) = ToSet(g[o].links[a.name]) \cup {Len(f)}
      BY <1>4, <1>10, AppendSet
    <3>3. Append(g[o].links[a.name], Len(f)) # <<>>
      BY <1>4, <1>10, AppendSome
    <3> QED
      BY <3>1, <3>2, <3>3
  <2>2. CASE ~IsMany(a)
    <3>1. f[o].links[a.name] = <<Len(f)>>
      BY <1>3, <2>2
    <3>2. ToSet(<<Len(f)>>) = {Len(f)}
      BY DEF ToSet
    <3> QED
      BY <2>2, <3>1, <3>2
  <2> QED
    BY <2>1, <2>2
<1>12. ASSUME NEW i \in Open(owners), NEW y \in ToSet(f[i].links[a.name])
       PROVE  \/ y \in ToSet(h[i].links[a.name])
              \/ y \in (Len(h) + 1)..Len(f) /\ Here(a, h[i].row) = There(a, f[y].row)
  <2>1. CASE i = o /\ y = Len(f)
    BY <1>2, <1>3, <1>4, <2>1
  <2>2. CASE y \in ToSet(g[i].links[a.name])
    <3>1. CASE y \in (Len(h) + 1)..Len(g) /\ Here(a, h[i].row) = There(a, g[y].row)
      <4>1. y \in 1..Len(g) /\ y \in (Len(h) + 1)..Len(f)
        BY <1>1, <1>4, <3>1
      <4> QED
        BY <1>3, <3>1, <4>1
    <3> QED
      BY <2>2, <3>1 DEF Grew
  <2>3. y \in ToSet(g[i].links[a.name]) \/ (i = o /\ y = Len(f))
    BY <1>7, <1>11, <1>12
  <2> QED
    BY <2>1, <2>2, <2>3
<1>13. ASSUME NEW i \in Open(owners)
       PROVE  IF IsMany(a) THEN ToSet(h[i].links[a.name]) \subseteq ToSet(f[i].links[a.name])
              ELSE h[i].links[a.name] # <<>> => f[i].links[a.name] # <<>>
  BY <1>7, <1>11 DEF Grew
<1>14. HeapOK(f) /\ Len(h) <= Len(f)
  BY <1>1, <1>3, <1>4
<1> QED
  BY <1>6, <1>8, <1>9, <1>12, <1>13, <1>14, Zenon DEF Grew

\* What is given by a step, and what stays.
Has(g, a, i, y) == IF IsMany(a) THEN y \in Held(g, i, a.name) ELSE g[i].links[a.name] # <<>>

\* What an association holds depends on its links and on the rows behind them.
LEMMA HeldSame ==
    ASSUME NEW g, HeapOK(g), NEW f, NEW i \in DOMAIN g, NEW n \in Links(g[i].row),
           f[i].links[n] = g[i].links[n], \A j \in DOMAIN g : f[j].row = g[j].row
    PROVE  Held(f, i, n) = Held(g, i, n) /\ (Distinct(f, i, n) <=> Distinct(g, i, n))
<1> DEFINE l == g[i].links[n]
<1>1. ToSet(l) \subseteq DOMAIN g
  BY DEF HeapOK, Closed
<1>2. f[i].links[n] = l
  OBVIOUS
<1> HIDE DEF l
<1>3. Held(f, i, n) = {f[x].row : x \in ToSet(l)} /\ Held(g, i, n) = {g[x].row : x \in ToSet(l)}
  BY <1>2 DEF Held, l
<1>4. \A x \in ToSet(l) : f[x].row = g[x].row
  BY <1>1
<1>5. \A k \in DOMAIN l : f[l[k]].row = g[l[k]].row
  BY <1>4 DEF ToSet
<1>6. Distinct(f, i, n) <=> \A k, m \in DOMAIN l : f[l[k]].row = f[l[m]].row => k = m
  BY <1>2 DEF Distinct
<1>7. Distinct(g, i, n) <=> \A k, m \in DOMAIN l : g[l[k]].row = g[l[m]].row => k = m
  BY DEF Distinct, l
<1> QED
  BY <1>3, <1>4, <1>5, <1>6, <1>7

\* Others than the owner hold what they held.
LEMMA GivesKeeps ==
    ASSUME NEW g, HeapOK(g), NEW f, NEW a, NEW o \in DOMAIN g, a.name \in Links(g[o].row),
           NEW x, Gives(g, f, a, o, x), NEW i \in DOMAIN g, a.name \in Links(g[i].row), i # o
    PROVE  /\ f[i].links[a.name] = g[i].links[a.name]
           /\ Held(f, i, a.name) = Held(g, i, a.name)
           /\ Distinct(f, i, a.name) <=> Distinct(g, i, a.name)
<1>1. DOMAIN g = 1..Len(g) /\ Len(g) \in Nat
  BY DEF HeapOK
<1>2. f[i] = g[i] /\ \A j \in DOMAIN g : f[j].row = g[j].row
  BY <1>1 DEF Gives
<1>3. f[i].links[a.name] = g[i].links[a.name]
  BY <1>2
<1> QED
  BY <1>2, <1>3, HeldSame

\* Object o has x from g to f: with many, beside the others.
Took(g, f, a, o, x) ==
    /\ f[o].links[a.name] # <<>>
    /\ Held(f, o, a.name) = IF IsMany(a) THEN Held(g, o, a.name) \cup {x} ELSE {x}
    /\ x \notin Held(g, o, a.name) /\ Distinct(g, o, a.name) => Distinct(f, o, a.name)

\* The owner that is given a row has it, and with many it keeps the others.
LEMMA GivesOwner ==
    ASSUME NEW g, HeapOK(g), NEW f, NEW a, NEW o \in DOMAIN g, a.name \in Links(g[o].row),
           NEW x, Gives(g, f, a, o, x)
    PROVE  Took(g, f, a, o, x)
<1> USE DEF Took
<1> DEFINE l == g[o].links[a.name]
           m == f[o].links[a.name]
           y == Len(f)
<1>1. DOMAIN g = 1..Len(g) /\ Len(g) \in Nat /\ DOMAIN f = 1..Len(f) /\ Len(f) \in Nat
  BY DEF HeapOK, Gives
<1>2. l \in Seq(Nat) /\ ToSet(l) \subseteq DOMAIN g
  BY ObjectFacts DEF HeapOK, Closed
<1>3. m = IF IsMany(a) THEN Append(l, y) ELSE <<y>>
  BY DEF Gives
<1>4. f[y].row = x /\ \A j \in DOMAIN g : f[j].row = g[j].row
  BY <1>1 DEF Gives
<1>5. Held(f, o, a.name) = {f[z].row : z \in ToSet(m)}
      /\ Held(g, o, a.name) = {g[z].row : z \in ToSet(l)}
  BY DEF Held
<1>6. /\ Distinct(f, o, a.name) <=> \A j, k \in DOMAIN m : f[m[j]].row = f[m[k]].row => j = k
      /\ Distinct(g, o, a.name) <=> \A j, k \in DOMAIN l : g[l[j]].row = g[l[k]].row => j = k
  BY DEF Distinct
<1>7. y \in Nat
  BY <1>1
<1> HIDE DEF l, m, y
<1>8. \A z \in ToSet(l) : f[z].row = g[z].row
  BY <1>2, <1>4
<1>9. CASE IsMany(a)
  <2>1. m = Append(l, y)
    BY <1>3, <1>9
  <2>2. ToSet(m) = ToSet(l) \cup {y}
    BY <1>2, <1>7, <2>1, AppendSet
  <2>3. m # <<>>
    BY <1>2, <1>7, <2>1, AppendSome
  <2>4. Held(f, o, a.name) = Held(g, o, a.name) \cup {x}
    BY <1>4, <1>5, <1>8, <2>2
  <2>5. /\ DOMAIN m = 1..(Len(l) + 1) /\ DOMAIN l = 1..Len(l) /\ Len(l) \in Nat
        /\ m[Len(l) + 1] = y /\ \A j \in 1..Len(l) : m[j] = l[j]
    BY <1>2, <1>7, <2>1
  <2>6. \A j \in 1..Len(l) : l[j] \in ToSet(l)
    BY <2>5 DEF ToSet
  <2>7. ASSUME x \notin Held(g, o, a.name), Distinct(g, o, a.name) PROVE Distinct(f, o, a.name)
    <3> SUFFICES ASSUME NEW j \in DOMAIN m, NEW k \in DOMAIN m, f[m[j]].row = f[m[k]].row
                 PROVE  j = k
      BY <1>6
    <3>1. \A i \in 1..Len(l) : f[m[i]].row = g[l[i]].row /\ g[l[i]].row # x
      BY <1>5, <1>8, <2>5, <2>6, <2>7
    <3>2. f[m[Len(l) + 1]].row = x
      BY <1>4, <2>5
    <3>3. \A i \in DOMAIN m : i \in 1..Len(l) \/ i = Len(l) + 1
      BY <2>5
    <3>4. CASE j \in 1..Len(l) /\ k \in 1..Len(l)
      BY <1>6, <2>5, <2>7, <3>1, <3>4
    <3> QED
      BY <3>1, <3>2, <3>3, <3>4
  <2> QED
    BY <1>9, <2>3, <2>4, <2>7 DEF m
<1>10. CASE ~IsMany(a)
  <2>1. m = <<y>>
    BY <1>3, <1>10
  <2>2. ToSet(m) = {y} /\ m # <<>> /\ DOMAIN m = {1}
    BY <2>1 DEF ToSet
  <2>3. Held(f, o, a.name) = {x}
    BY <1>4, <1>5, <2>2
  <2>4. Distinct(f, o, a.name)
    BY <1>6, <2>2
  <2> QED
    BY <1>10, <2>2, <2>3, <2>4 DEF m
<1> QED
  BY <1>9, <1>10

\* Owners that are reached once.
Sole(owners) ==
    {j \in DOMAIN owners : \A i \in DOMAIN owners : i # j => owners[i].obj # owners[j].obj}

\* The rows of F were given to the owners.
Fetched(h, g, a, owners, F) ==
    /\ Grew(h, g, a, owners)
    /\ \A y \in F : \A j \in DOMAIN owners :
           Takes(h, a, owners[j], y) => Has(g, a, owners[j].obj, y)
    /\ \A j \in Sole(owners) : h[owners[j].obj].links[a.name] = <<>> =>
           Held(g, owners[j].obj, a.name) \subseteq F /\ Distinct(g, owners[j].obj, a.name)

\* A pointer to x is shared by the owners.
SharedLast(h, g, a, owners, x) ==
    Shared(a) /\ (\E j \in DOMAIN owners : Takes(h, a, owners[j], x)) =>
        Len(g) > Len(h) /\ g[Len(g)].row = x

\* The rows of F were given to the owners, and x to the first k of them.
Giving(h, g, a, owners, F, x, k) ==
    /\ \A y \in F : \A j \in DOMAIN owners :
           Takes(h, a, owners[j], y) => Has(g, a, owners[j].obj, y)
    /\ \A j \in DOMAIN owners :
           j <= k /\ Takes(h, a, owners[j], x) => Has(g, a, owners[j].obj, x)
    /\ \A j \in Sole(owners) : h[owners[j].obj].links[a.name] = <<>> =>
           /\ Held(g, owners[j].obj, a.name) \subseteq F \cup {x}
           /\ j > k => Held(g, owners[j].obj, a.name) \subseteq F
           /\ Distinct(g, owners[j].obj, a.name)

\* The heap grows with each Give, ...
LEMMA GiveGrew ==
    ASSUME NEW h, NEW g, NEW a, NEW owners, Ready(h, a, owners), Grew(h, g, a, owners),
           NEW k \in DOMAIN owners, NEW x \in Row, SharedLast(h, g, a, owners, x),
           NEW f, f = Give(g, a, owners[k], x)
    PROVE  /\ Grew(h, f, a, owners) /\ SharedLast(h, f, a, owners, x)
           /\ Takes(h, a, owners[k], x) => Gives(g, f, a, owners[k].obj, x)
           /\ ~Takes(h, a, owners[k], x) => f = g
<1> DEFINE w == owners[k]
<1>1. /\ w \in Reached(g) /\ w.obj \in DOMAIN g /\ a.name \in Links(g[w.obj].row) /\ Len(g) \in Nat
      /\ Takes(g, a, w, x) <=> Takes(h, a, w, x)
  BY GrewReady
<1>2. HeapOK(g)
  BY DEF Grew
<1>3. f = Give(g, a, w, x)
  OBVIOUS
<1>4. CASE ~Takes(h, a, w, x)
  <2>1. f = g
    BY <1>1, <1>3, <1>4 DEF Give
  <2> QED
    BY <1>4, <2>1
<1>5. CASE Takes(h, a, w, x)
  <2>1. Shared(a) => Len(g) > Len(h) /\ g[Len(g)].row = x
    BY <1>5 DEF SharedLast
  <2> HIDE DEF w
  <2>2. Gives(g, f, a, w.obj, x)
    BY <1>1, <1>2, <1>3, <1>5, <2>1, GiveFacts
  <2>3. Grew(h, f, a, owners)
    BY <1>5, <2>1, <2>2, GrewGives DEF w
  <2>4. SharedLast(h, f, a, owners, x)
    BY <2>1, <2>2 DEF SharedLast, Gives
  <2> QED
    BY <1>5, <2>2, <2>3, <2>4 DEF w
<1> QED
  BY <1>4, <1>5

\* ... and the owner has the row.
LEMMA GiveGiving ==
    ASSUME NEW h, NEW g, NEW a, NEW owners, Ready(h, a, owners), Grew(h, g, a, owners),
           NEW F, NEW x \in Row, x \notin F, NEW k \in DOMAIN owners,
           SharedLast(h, g, a, owners, x), Giving(h, g, a, owners, F, x, k - 1),
           NEW f, f = Give(g, a, owners[k], x)
    PROVE  Giving(h, f, a, owners, F, x, k)
<1> DEFINE o == owners[k].obj
<1>0. DOMAIN owners = 1..Len(owners) /\ Len(owners) \in Nat
  BY DEF Ready
<1>1. HeapOK(g)
  BY DEF Grew
<1>2. ASSUME NEW j \in DOMAIN owners
      PROVE  owners[j].obj \in DOMAIN g /\ a.name \in Links(g[owners[j].obj].row)
  BY GrewReady
<1>3. CASE ~Takes(h, a, owners[k], x)
  <2>1. f = g
    BY <1>3, GiveGrew
  <2>2. \A j \in DOMAIN owners : j <= k => j <= k - 1 \/ j = k
    BY <1>0
  <2>3. \A j \in DOMAIN owners : j > k => j > k - 1
    BY <1>0
  <2> QED
    <3>1. \A j \in DOMAIN owners :
              j <= k /\ Takes(h, a, owners[j], x) => Has(g, a, owners[j].obj, x)
      BY <1>3, <2>2 DEF Giving
    <3>2. \A j \in Sole(owners) : j \in DOMAIN owners
      BY DEF Sole
    <3>3. Giving(h, g, a, owners, F, x, k)
      BY <2>3, <3>1, <3>2 DEF Giving
    <3> QED
      BY <2>1, <3>3
<1>4. CASE Takes(h, a, owners[k], x)
  <2>1. Gives(g, f, a, o, x)
    BY <1>4, GiveGrew
  <2> HIDE DEF o
  <2>2. o \in DOMAIN g /\ a.name \in Links(g[o].row)
    BY <1>2 DEF o
  <2>3. /\ f[o].links[a.name] # <<>>
        /\ Held(f, o, a.name) = IF IsMany(a) THEN Held(g, o, a.name) \cup {x} ELSE {x}
        /\ x \notin Held(g, o, a.name) /\ Distinct(g, o, a.name) => Distinct(f, o, a.name)
    <3>1. Took(g, f, a, o, x)
      BY <1>1, <2>1, <2>2, GivesOwner, Zenon
    <3> QED
      BY <3>1, Zenon DEF Took
  <2>4. ASSUME NEW i \in DOMAIN g, a.name \in Links(g[i].row), i # o
        PROVE  /\ f[i].links[a.name] = g[i].links[a.name]
               /\ Held(f, i, a.name) = Held(g, i, a.name)
               /\ Distinct(f, i, a.name) <=> Distinct(g, i, a.name)
    BY <1>1, <2>1, <2>2, <2>4, GivesKeeps
  <2>5. ASSUME NEW i \in DOMAIN g, a.name \in Links(g[i].row), NEW y, Has(g, a, i, y)
        PROVE  Has(f, a, i, y)
    BY <2>3, <2>4, <2>5 DEF Has
  <2>6. Has(f, a, o, x)
    BY <2>3 DEF Has
  <2>7. ASSUME NEW y \in F, NEW j \in DOMAIN owners, Takes(h, a, owners[j], y)
        PROVE  Has(f, a, owners[j].obj, y)
    BY <1>2, <2>5, <2>7 DEF Giving
  <2>8. ASSUME NEW j \in DOMAIN owners, j <= k, Takes(h, a, owners[j], x)
        PROVE  Has(f, a, owners[j].obj, x)
    <3>1. j <= k - 1 \/ j = k
      BY <1>0, <2>8
    <3> QED
      BY <1>2, <2>5, <2>6, <2>8, <3>1 DEF Giving, o
  <2>9. ASSUME NEW j \in Sole(owners), h[owners[j].obj].links[a.name] = <<>>
        PROVE  /\ Held(f, owners[j].obj, a.name) \subseteq F \cup {x}
               /\ j > k => Held(f, owners[j].obj, a.name) \subseteq F
               /\ Distinct(f, owners[j].obj, a.name)
    <3>1. j \in DOMAIN owners /\ j \in Nat /\ k \in Nat
      BY <1>0 DEF Sole
    <3>2. /\ Held(g, owners[j].obj, a.name) \subseteq F \cup {x}
          /\ j > k - 1 => Held(g, owners[j].obj, a.name) \subseteq F
          /\ Distinct(g, owners[j].obj, a.name)
      BY <2>9 DEF Giving
    <3>3. CASE j = k
      <4>1. Held(g, o, a.name) \subseteq F /\ Distinct(g, o, a.name)
        BY <3>1, <3>2, <3>3 DEF o
      <4>2. x \notin Held(g, o, a.name)
        BY <4>1
      <4>3. ~(j > k)
        BY <3>1, <3>3
      <4> QED
        BY <2>3, <3>3, <4>1, <4>2, <4>3 DEF o
    <3>4. CASE j # k
      <4>1. owners[j].obj # o
        BY <3>4 DEF Sole, o
      <4>2. j > k => j > k - 1
        BY <3>1
      <4>3. /\ Held(f, owners[j].obj, a.name) = Held(g, owners[j].obj, a.name)
            /\ Distinct(f, owners[j].obj, a.name) <=> Distinct(g, owners[j].obj, a.name)
        BY <1>2, <2>4, <3>1, <4>1
      <4> QED
        BY <3>2, <4>2, <4>3
    <3> QED
      BY <3>3, <3>4
  <2> QED
    BY <2>7, <2>8, <2>9 DEF Giving
<1> QED
  BY <1>3, <1>4

\* The heap while x is given to the owners.
Growing(h, a, owners, x) == {g \in Seq(Objects) : Grew(h, g, a, owners) /\ SharedLast(h, g, a, owners, x)}

\* Attach, owner by owner.
Gave(c, h, g, a, owners, x) ==
    /\ \A k \in 0..Len(owners) : c[k] \in Growing(h, a, owners, x)
    /\ c[0] = IF Shared(a) /\ (\E w \in ToSet(owners) : Takes(g, a, w, x))
              THEN Append(g, New(x)) ELSE g
    /\ \A k \in 1..Len(owners) : c[k] = Give(c[k - 1], a, owners[k], x)
    /\ c[Len(owners)] = Attach(g, a, owners, x)

\* Attach starts with the object that is shared, if there is one.
LEMMA AttachBase ==
    ASSUME NEW h, NEW g, NEW a, NEW owners, Ready(h, a, owners), Grew(h, g, a, owners),
           NEW x \in Row, NEW f,
           f = IF Shared(a) /\ (\E w \in ToSet(owners) : Takes(g, a, w, x))
               THEN Append(g, New(x)) ELSE g
    PROVE  f \in Growing(h, a, owners, x)
<1>1. g \in Seq(Objects) /\ HeapOK(g) /\ Len(h) <= Len(g) /\ Len(h) \in Nat /\ Len(g) \in Nat
  BY DEF Grew, HeapOK, Ready
<1>2. (\E w \in ToSet(owners) : Takes(g, a, w, x)) <=> \E j \in DOMAIN owners : Takes(h, a, owners[j], x)
  BY GrewReady DEF ToSet
<1>3. CASE Shared(a) /\ \E j \in DOMAIN owners : Takes(h, a, owners[j], x)
  <2>1. Of[x] = a.remote.model
    BY <1>3 DEF Takes, Fits
  <2>2. f = Append(g, New(x))
    BY <1>2, <1>3
  <2>3. Grew(h, f, a, owners)
    BY <2>1, <2>2, GrewAppend
  <2>4. f \in Seq(Objects) /\ Len(f) = Len(g) + 1 /\ f[Len(f)].row = x
    BY <1>1, <2>2, AppendFacts, NewFacts DEF HeapOK
  <2>5. Len(f) > Len(h)
    BY <1>1, <2>4
  <2> QED
    BY <2>3, <2>4, <2>5 DEF Growing, SharedLast
<1>4. CASE ~(Shared(a) /\ \E j \in DOMAIN owners : Takes(h, a, owners[j], x))
  BY <1>1, <1>2, <1>4 DEF Growing, SharedLast
<1> QED
  BY <1>3, <1>4

\* There are such heaps.
LEMMA AttachSteps ==
    ASSUME NEW h, NEW g, NEW a, NEW owners, Ready(h, a, owners), Grew(h, g, a, owners),
           NEW x \in Row
    PROVE  \E c : Gave(c, h, g, a, owners, x)
<1> DEFINE n == Len(owners)
           H == Growing(h, a, owners, x)
           F == [v \in H \X (1..n) |-> Give(v[1], a, owners[v[2]], x)]
           base == IF Shared(a) /\ (\E w \in ToSet(owners) : Takes(g, a, w, x))
                   THEN Append(g, New(x)) ELSE g
           Eq(it) == \A s \in SUBSET (1..n) :
               it[s] = IF s = {} THEN base ELSE Give(it[s \ {Max(s)}], a, owners[Max(s)], x)
           G == CHOOSE it : it = [s \in SUBSET DOMAIN owners |->
                    IF s = {} THEN base ELSE Give(it[s \ {Max(s)}], a, owners[Max(s)], x)]
<1>0. n \in Nat /\ DOMAIN owners = 1..n
  BY DEF Ready
<1>1. base \in H
  BY AttachBase
<1>2. ASSUME NEW v \in H, NEW m \in 1..n PROVE Give(v, a, owners[m], x) \in H
  <2>1. Grew(h, v, a, owners) /\ SharedLast(h, v, a, owners, x)
    BY DEF Growing
  <2> DEFINE f == Give(v, a, owners[m], x)
  <2>2. f = Give(v, a, owners[m], x)
    OBVIOUS
  <2> HIDE DEF f
  <2>3. Grew(h, f, a, owners) /\ SharedLast(h, f, a, owners, x)
    BY <1>0, <2>1, <2>2, GiveGrew
  <2>4. f \in Seq(Objects)
    BY <2>3 DEF Grew, HeapOK
  <2>5. f \in H
    BY <2>3, <2>4 DEF Growing
  <2> QED
    BY <2>2, <2>5
<1> HIDE DEF H
<1>3. F \in [H \X (1..n) -> H]
  BY <1>2
<1>4. \A v \in H : \A m \in 1..n : F[v, m] = Give(v, a, owners[m], x)
  OBVIOUS
<1> HIDE DEF F, n, base
<1>5. PICK it \in [SUBSET (1..n) -> H] : \A s \in SUBSET (1..n) :
          it[s] = IF s = {} THEN base ELSE F[it[s \ {Max(s)}], Max(s)]
  <2>1. Iterates(n, H, base, F) # {}
    BY <1>0, <1>1, <1>3, FoldExists
  <2> QED
    BY <2>1, Zenon DEF Iterates
<1>6. ASSUME NEW s \in SUBSET (1..n), s # {}
      PROVE  it[s] = Give(it[s \ {Max(s)}], a, owners[Max(s)], x)
  <2>1. Max(s) \in 1..n
    <3>1. s \subseteq 1..n
      OBVIOUS
    <3>2. Max(s) \in s
      BY <1>0, <1>6, <3>1, MaxUpto
    <3> QED
      BY <3>1, <3>2
  <2>2. s \ {Max(s)} \in SUBSET (1..n)
    OBVIOUS
  <2> QED
    BY <1>4, <1>5, <1>6, <2>1, <2>2
<1>7. it = [s \in SUBSET DOMAIN owners |->
                IF s = {} THEN base ELSE Give(it[s \ {Max(s)}], a, owners[Max(s)], x)]
  BY <1>0, <1>5, <1>6
<1>8. G = [s \in SUBSET DOMAIN owners |->
                IF s = {} THEN base ELSE Give(G[s \ {Max(s)}], a, owners[Max(s)], x)]
  BY <1>7
<1> HIDE DEF G
<1>9. Eq(G)
  BY <1>0, <1>8
<1> DEFINE c == [m \in 0..n |-> G[1..m]]
<1>10. ASSUME NEW m \in 1..n PROVE c[m] = Give(c[m - 1], a, owners[m], x)
  <2>1. m \in 0..n /\ m - 1 \in 0..n
    BY <1>0
  <2>2. G[1..m] = Give(G[1..(m - 1)], a, owners[m], x)
    BY <1>0, <1>9, Intervals
  <2> QED
    BY <2>1, <2>2
<1>11. c[0] = base /\ c[n] = G[1..n]
  <2>1. 1..0 = {} /\ {} \subseteq 1..n /\ 0 \in 0..n /\ n \in 0..n
    BY <1>0
  <2>2. G[{}] = base
    BY <1>9, <2>1
  <2> QED
    BY <2>1, <2>2
<1>12. Attach(g, a, owners, x) = G[1..n]
  BY <1>0, AttachForm DEF G, base
<1> HIDE DEF c
<1> DEFINE K == {m \in 0..n : c[m] \in H}
<1>13. 0 \in K
  BY <1>0, <1>1, <1>11
<1>14. \A m \in 0..n-1 : m \in K => m + 1 \in K
  <2> SUFFICES ASSUME NEW m \in 0..n-1, c[m] \in H PROVE m + 1 \in 0..n /\ c[m + 1] \in H
    OBVIOUS
  <2>1. m + 1 \in 1..n /\ m + 1 \in 0..n /\ (m + 1) - 1 = m
    BY <1>0
  <2>2. c[m + 1] = Give(c[m], a, owners[m + 1], x)
    BY <1>10, <2>1
  <2> QED
    BY <1>2, <2>1, <2>2
<1>15. \A m \in 0..n : c[m] \in H
  <2>1. \A m \in 0..n : m \in K
    <3> HIDE DEF K
    <3> QED
      BY <1>0, <1>13, <1>14, Upto
  <2> QED
    BY <2>1
<1>16. Gave(c, h, g, a, owners, x)
  BY <1>10, <1>11, <1>12, <1>15 DEF Gave, n, H, base
<1> QED
  BY <1>16

\* Attach makes the heap grow, ...
LEMMA AttachGrew ==
    ASSUME NEW h, NEW g, NEW a, NEW owners, Ready(h, a, owners), Grew(h, g, a, owners),
           NEW x \in Row
    PROVE  Grew(h, Attach(g, a, owners, x), a, owners)
<1>1. PICK c : Gave(c, h, g, a, owners, x)
  BY AttachSteps
<1>2. Len(owners) \in 0..Len(owners)
  BY DEF Ready
<1> QED
  BY <1>1, <1>2 DEF Gave, Growing

\* ... and gives the row to all that it belongs to, once to those reached once.
LEMMA AttachFetched ==
    ASSUME NEW h, NEW g, NEW a, NEW owners, NEW F, Ready(h, a, owners),
           Fetched(h, g, a, owners, F), NEW x \in Row, x \notin F
    PROVE  Fetched(h, Attach(g, a, owners, x), a, owners, F \cup {x})
<1> DEFINE n == Len(owners)
<1>0. n \in Nat /\ DOMAIN owners = 1..n
  BY DEF Ready
<1>1. Grew(h, g, a, owners)
  BY DEF Fetched
<1>2. PICK c : Gave(c, h, g, a, owners, x)
  BY <1>1, AttachSteps
<1> DEFINE K == {k \in 0..n : Giving(h, c[k], a, owners, F, x, k)}
<1>3. 0 \in K
  <2>1. c[0] = g \/ c[0] = Append(g, New(x))
    BY <1>2 DEF Gave
  <2>2. HeapOK(g)
    BY <1>1 DEF Grew
  <2>3. /\ \A i \in DOMAIN g : c[0][i] = g[i]
    <3>1. CASE c[0] = Append(g, New(x))
      <4>1. DOMAIN g = 1..Len(g)
        BY <2>2 DEF HeapOK
      <4> QED
        BY <2>2, <3>1, <4>1, AppendFacts
    <3> QED
      BY <2>1, <3>1
  <2>4. ASSUME NEW j \in DOMAIN owners
        PROVE  owners[j].obj \in DOMAIN g /\ a.name \in Links(g[owners[j].obj].row)
    BY <1>1, GrewReady
  <2>5. ASSUME NEW i \in DOMAIN g, a.name \in Links(g[i].row)
        PROVE  /\ c[0][i].links[a.name] = g[i].links[a.name]
               /\ Held(c[0], i, a.name) = Held(g, i, a.name)
               /\ Distinct(c[0], i, a.name) <=> Distinct(g, i, a.name)
    BY <2>2, <2>3, <2>5, HeldSame
  <2>6. ASSUME NEW y \in F, NEW j \in DOMAIN owners, Takes(h, a, owners[j], y)
        PROVE  Has(c[0], a, owners[j].obj, y)
    BY <2>4, <2>5, <2>6 DEF Has, Fetched
  <2>7. ASSUME NEW j \in Sole(owners), h[owners[j].obj].links[a.name] = <<>>
        PROVE  /\ Held(c[0], owners[j].obj, a.name) \subseteq F
               /\ Distinct(c[0], owners[j].obj, a.name)
    <3>1. j \in DOMAIN owners
      BY DEF Sole
    <3> QED
      BY <2>4, <2>5, <2>7, <3>1 DEF Fetched
  <2>8. \A j \in DOMAIN owners : ~(j <= 0)
    BY <1>0
  <2>9. Giving(h, c[0], a, owners, F, x, 0)
    BY <2>6, <2>7, <2>8 DEF Giving
  <2> QED
    BY <1>0, <2>9
<1>4. \A k \in 0..n-1 : k \in K => k + 1 \in K
  <2> SUFFICES ASSUME NEW k \in 0..n-1, Giving(h, c[k], a, owners, F, x, k)
               PROVE  k + 1 \in 0..n /\ Giving(h, c[k + 1], a, owners, F, x, k + 1)
    OBVIOUS
  <2>1. k + 1 \in DOMAIN owners /\ k + 1 \in 0..n /\ (k + 1) - 1 = k /\ k \in 0..n
    BY <1>0
  <2>2. c[k + 1] = Give(c[k], a, owners[k + 1], x)
    BY <1>0, <1>2, <2>1 DEF Gave
  <2>3. Grew(h, c[k], a, owners) /\ SharedLast(h, c[k], a, owners, x)
    BY <1>2, <2>1 DEF Gave, Growing
  <2> QED
    BY <2>1, <2>2, <2>3, GiveGiving
<1>5. Giving(h, c[n], a, owners, F, x, n)
  <2>1. \A k \in 0..n : k \in K
    <3> HIDE DEF K, n
    <3> QED
      BY <1>0, <1>3, <1>4, Upto
  <2> QED
    BY <1>0, <2>1
<1>6. c[n] = Attach(g, a, owners, x)
  BY <1>2 DEF Gave
<1>7. Grew(h, c[n], a, owners)
  BY <1>1, <1>6, AttachGrew
<1>8. \A j \in DOMAIN owners : j <= n
  BY <1>0
<1>9. Fetched(h, c[n], a, owners, F \cup {x})
  BY <1>5, <1>7, <1>8 DEF Giving, Fetched
<1> QED
  BY <1>6, <1>9

\* AttachAll, row by row.
GaveAll(c, h, a, owners, found) ==
    /\ \A k \in 0..Len(found) : Grew(h, c[k], a, owners)
    /\ c[0] = h
    /\ \A k \in 1..Len(found) : c[k] = Attach(c[k - 1], a, owners, found[k])
    /\ c[Len(found)] = AttachAll(h, a, owners, found)

\* There are such heaps.
LEMMA AttachAllSteps ==
    ASSUME NEW h, NEW a, NEW owners, Ready(h, a, owners), NEW found \in Seq(Row)
    PROVE  \E c : GaveAll(c, h, a, owners, found)
<1> DEFINE n == Len(found)
           H == {g \in Seq(Objects) : Grew(h, g, a, owners)}
           F == [v \in H \X (1..n) |-> Attach(v[1], a, owners, found[v[2]])]
           Eq(it) == \A s \in SUBSET (1..n) :
               it[s] = IF s = {} THEN h ELSE Attach(it[s \ {Max(s)}], a, owners, found[Max(s)])
           G == CHOOSE it : it = [s \in SUBSET DOMAIN found |->
                    IF s = {} THEN h ELSE Attach(it[s \ {Max(s)}], a, owners, found[Max(s)])]
<1>0. n \in Nat /\ DOMAIN found = 1..n /\ \A m \in 1..n : found[m] \in Row
  OBVIOUS
<1>1. h \in H
  BY GrewRefl DEF Ready, HeapOK
<1>2. ASSUME NEW v \in H, NEW m \in 1..n PROVE Attach(v, a, owners, found[m]) \in H
  <2>1. Grew(h, Attach(v, a, owners, found[m]), a, owners)
    BY <1>0, AttachGrew
  <2> QED
    BY <2>1 DEF Grew, HeapOK
<1>3. \A v \in H : Grew(h, v, a, owners)
  OBVIOUS
<1> HIDE DEF H
<1>4. F \in [H \X (1..n) -> H]
  BY <1>2
<1>5. \A v \in H : \A m \in 1..n : F[v, m] = Attach(v, a, owners, found[m])
  OBVIOUS
<1> HIDE DEF F, n
<1>6. PICK it \in [SUBSET (1..n) -> H] : \A s \in SUBSET (1..n) :
          it[s] = IF s = {} THEN h ELSE F[it[s \ {Max(s)}], Max(s)]
  <2>1. Iterates(n, H, h, F) # {}
    BY <1>0, <1>1, <1>4, FoldExists
  <2> QED
    BY <2>1, Zenon DEF Iterates
<1>7. ASSUME NEW s \in SUBSET (1..n), s # {}
      PROVE  it[s] = Attach(it[s \ {Max(s)}], a, owners, found[Max(s)])
  <2>1. Max(s) \in 1..n
    <3>1. s \subseteq 1..n
      OBVIOUS
    <3>2. Max(s) \in s
      BY <1>0, <1>7, <3>1, MaxUpto
    <3> QED
      BY <3>1, <3>2
  <2>2. s \ {Max(s)} \in SUBSET (1..n)
    OBVIOUS
  <2> QED
    BY <1>5, <1>6, <1>7, <2>1, <2>2
<1>8. it = [s \in SUBSET DOMAIN found |->
                IF s = {} THEN h ELSE Attach(it[s \ {Max(s)}], a, owners, found[Max(s)])]
  BY <1>0, <1>6, <1>7
<1>9. G = [s \in SUBSET DOMAIN found |->
                IF s = {} THEN h ELSE Attach(G[s \ {Max(s)}], a, owners, found[Max(s)])]
  BY <1>8
<1> HIDE DEF G
<1>10. Eq(G)
  BY <1>0, <1>9
<1> DEFINE c == [m \in 0..n |-> G[1..m]]
<1>11. ASSUME NEW m \in 1..n PROVE c[m] = Attach(c[m - 1], a, owners, found[m])
  <2>1. m \in 0..n /\ m - 1 \in 0..n
    BY <1>0
  <2>2. G[1..m] = Attach(G[1..(m - 1)], a, owners, found[m])
    BY <1>0, <1>10, Intervals
  <2> QED
    BY <2>1, <2>2
<1>12. c[0] = h /\ c[n] = G[1..n]
  <2>1. 1..0 = {} /\ {} \subseteq 1..n /\ 0 \in 0..n /\ n \in 0..n
    BY <1>0
  <2>2. G[{}] = h
    BY <1>10, <2>1
  <2> QED
    BY <2>1, <2>2
<1>13. AttachAll(h, a, owners, found) = G[1..n]
  BY <1>0, AttachAllForm DEF G
<1> HIDE DEF c
<1> DEFINE K == {m \in 0..n : c[m] \in H}
<1>14. 0 \in K
  BY <1>0, <1>1, <1>12
<1>15. \A m \in 0..n-1 : m \in K => m + 1 \in K
  <2> SUFFICES ASSUME NEW m \in 0..n-1, c[m] \in H PROVE m + 1 \in 0..n /\ c[m + 1] \in H
    OBVIOUS
  <2>1. m + 1 \in 1..n /\ m + 1 \in 0..n /\ (m + 1) - 1 = m
    BY <1>0
  <2>2. c[m + 1] = Attach(c[m], a, owners, found[m + 1])
    BY <1>11, <2>1
  <2> QED
    BY <1>2, <2>1, <2>2
<1>16. \A m \in 0..n : Grew(h, c[m], a, owners)
  <2>1. \A m \in 0..n : m \in K
    <3> HIDE DEF K
    <3> QED
      BY <1>0, <1>14, <1>15, Upto
  <2> QED
    BY <1>3, <2>1
<1>17. GaveAll(c, h, a, owners, found)
  BY <1>11, <1>12, <1>13, <1>16 DEF GaveAll, n
<1> QED
  BY <1>17

\* What a query found, each row once, was given to all that it belongs to.
LEMMA AttachAllFetched ==
    ASSUME NEW h, NEW a, NEW owners, Ready(h, a, owners), NEW found \in Seq(Row),
           \A i, j \in DOMAIN found : i # j => found[i] # found[j]
    PROVE  Fetched(h, AttachAll(h, a, owners, found), a, owners, ToSet(found))
<1> DEFINE n == Len(found)
           Rows(k) == {found[i] : i \in 1..k}
<1>0. n \in Nat /\ DOMAIN found = 1..n /\ \A m \in 1..n : found[m] \in Row
  OBVIOUS
<1>1. PICK c : GaveAll(c, h, a, owners, found)
  BY AttachAllSteps
<1> DEFINE K == {k \in 0..n : Fetched(h, c[k], a, owners, Rows(k))}
<1>2. 0 \in K
  <2>1. c[0] = h /\ Rows(0) = {}
    BY <1>1 DEF GaveAll
  <2>2. ASSUME NEW j \in Sole(owners), h[owners[j].obj].links[a.name] = <<>>
        PROVE  Held(h, owners[j].obj, a.name) \subseteq {} /\ Distinct(h, owners[j].obj, a.name)
    BY <2>2 DEF Held, Distinct, ToSet
  <2>3. Fetched(h, c[0], a, owners, Rows(0))
    BY <2>1, <2>2, GrewRefl DEF Fetched
  <2> QED
    BY <1>0, <2>3
<1>3. \A k \in 0..n-1 : k \in K => k + 1 \in K
  <2> SUFFICES ASSUME NEW k \in 0..n-1, Fetched(h, c[k], a, owners, Rows(k))
               PROVE  k + 1 \in 0..n /\ Fetched(h, c[k + 1], a, owners, Rows(k + 1))
    OBVIOUS
  <2>1. k + 1 \in 1..n /\ k + 1 \in 0..n /\ (k + 1) - 1 = k /\ k \in 0..n
    BY <1>0
  <2>2. c[k + 1] = Attach(c[k], a, owners, found[k + 1])
    BY <1>1, <2>1 DEF GaveAll
  <2>3. found[k + 1] \notin Rows(k)
    <3>1. \A i \in 1..k : i \in DOMAIN found /\ i # k + 1
      BY <1>0
    <3> QED
      BY <1>0, <2>1, <3>1
  <2>4. Rows(k + 1) = Rows(k) \cup {found[k + 1]}
    <3>1. 1..(k + 1) = (1..k) \cup {k + 1}
      BY <1>0
    <3> QED
      BY <3>1
  <2> HIDE DEF Rows
  <2> QED
    BY <1>0, <2>1, <2>2, <2>3, <2>4, AttachFetched
<1>4. Fetched(h, c[n], a, owners, Rows(n))
  <2>1. \A k \in 0..n : k \in K
    <3> HIDE DEF K, n
    <3> QED
      BY <1>0, <1>2, <1>3, Upto
  <2>2. n \in K
    <3> HIDE DEF K
    <3>1. n \in 0..n
      BY <1>0
    <3> QED
      BY <2>1, <3>1
  <2> HIDE DEF Rows, n
  <2> QED
    BY <2>2
<1>5. c[n] = AttachAll(h, a, owners, found)
  BY <1>1 DEF GaveAll
<1>6. Rows(n) = ToSet(found)
  BY <1>0 DEF ToSet
<1> QED
  BY <1>4, <1>5, <1>6

------------------------------------------------------------------------------
\* Sequences and operations.

\* A query returns each row once, in some order.
LEMMA SeqsFacts ==
    ASSUME NEW S, IsFiniteSet(S), NEW s \in SetToSeqs(S)
    PROVE  /\ s \in Seq(S) /\ ToSet(s) = S
           /\ \A i, j \in DOMAIN s : i # j => s[i] # s[j]
<1> DEFINE n == Cardinality(S)
<1>1. n \in Nat
  BY FS_CardinalityType
<1>2. s \in [1..n -> S] /\ \A i, j \in 1..n : i # j => s[i] # s[j]
  BY DEF SetToSeqs
<1>3. IsFiniteSet(1..n) /\ Cardinality(1..n) = n
  <2> HIDE DEF n
  <2>1. 1 \in Int /\ n \in Int
    BY <1>1
  <2> QED
    BY <1>1, <2>1, FS_Interval
<1>4. s \in Injection(1..n, S)
  <2> HIDE DEF n
  <2> QED
    BY <1>2 DEF Injection, IsInjective
<1>5. s \in Surjection(1..n, S)
  BY <1>3, <1>4, FS_Injection
<1> HIDE DEF n
<1>6. ToSet(s) = S
  BY <1>2, <1>5 DEF Surjection, ToSet
<1> QED
  BY <1>1, <1>2, <1>6

\* Rows that are distinct are counted by the links.
LEMMA HeldCount ==
    ASSUME NEW h, NEW i, NEW n, h[i].links[n] \in Seq(Nat), Distinct(h, i, n)
    PROVE  Cardinality(Held(h, i, n)) = Len(h[i].links[n])
<1> DEFINE l == h[i].links[n]
           m == Len(l)
           S == Held(h, i, n)
           f == [k \in 1..m |-> h[l[k]].row]
<1>1. m \in Nat /\ DOMAIN l = 1..m
  OBVIOUS
<1>2. S = {h[x].row : x \in ToSet(l)} /\ \A j, k \in DOMAIN l : h[l[j]].row = h[l[k]].row => j = k
  BY DEF Held, Distinct
<1> HIDE DEF S, l, m
<1>3. \A k \in 1..m : l[k] \in ToSet(l)
  BY <1>1 DEF ToSet
<1>4. \A k \in 1..m : f[k] \in S
  BY <1>2, <1>3
<1>5. f \in [1..m -> S]
  BY <1>4
<1>6. \A y \in S : \E k \in 1..m : f[k] = y
  <2> SUFFICES ASSUME NEW y \in S PROVE \E k \in 1..m : f[k] = y
    OBVIOUS
  <2>1. PICK x \in ToSet(l) : y = h[x].row
    BY <1>2
  <2>2. PICK k \in 1..m : x = l[k]
    BY <1>1 DEF ToSet
  <2> QED
    BY <2>1, <2>2
<1>7. \A j, k \in 1..m : f[j] = f[k] => j = k
  BY <1>1, <1>2
<1> HIDE DEF f
<1>8. f \in Bijection(1..m, S)
  BY <1>5, <1>6, <1>7 DEF Bijection, Injection, Surjection, IsInjective
<1>9. IsFiniteSet(1..m) /\ Cardinality(1..m) = m
  <2>1. 1 \in Int /\ m \in Int
    BY <1>1
  <2> QED
    BY <1>1, <2>1, FS_Interval
<1>10. ExistsBijection(1..m, S)
  BY <1>8 DEF ExistsBijection
<1>11. Cardinality(S) = m
  BY <1>9, <1>10, FS_Bijection
<1> QED
  BY <1>11 DEF S, m, l

\* A path is the path above and a name.
LEMMA FrontFacts ==
    ASSUME NEW p \in Seq(STRING), p # <<>>
    PROVE  /\ Front(p) \in Seq(STRING) /\ Len(Front(p)) = Len(p) - 1 /\ Len(p) \in Nat \ {0}
           /\ Last(p) \in STRING /\ p = Append(Front(p), Last(p))
<1> DEFINE f == Front(p)
           m == Last(p)
<1>1. Len(p) \in Nat \ {0} /\ Len(p) - 1 \in Nat /\ Len(p) \in 1..Len(p)
  OBVIOUS
<1>2. f = SubSeq(p, 1, Len(p) - 1) /\ m = p[Len(p)]
  BY DEF Front, Last
<1> HIDE DEF f, m
<1>3. f \in Seq(STRING) /\ Len(f) = Len(p) - 1
  <2>1. Len(p) - 1 \in 0..Len(p)
    BY <1>1
  <2> DEFINE k == Len(p) - 1
  <2>2. k \in 0..Len(p) /\ f = SubSeq(p, 1, k)
    BY <1>2, <2>1
  <2> HIDE DEF k
  <2>3. f \in Seq(STRING) /\ Len(f) = k
    BY <2>2
  <2> QED
    BY <2>3 DEF k
<1>4. m \in STRING
  BY <1>1, <1>2
<1>5. p = Append(f, m)
  <2>1. /\ Append(f, m) # <<>> /\ Len(Append(f, m)) = Len(f) + 1
        /\ \A k \in 1..Len(f) : Append(f, m)[k] = f[k]
        /\ Append(f, m)[Len(f) + 1] = m
    <3> DEFINE S == STRING
    <3>1. f \in Seq(S) /\ m \in S
      BY <1>3, <1>4
    <3> HIDE DEF S
    <3> QED
      BY <3>1, AppendProperties
  <2>2. \A k \in 1..Len(f) : f[k] = p[k]
    BY <1>1, <1>2, <1>3
  <2>3. \A k \in 1..Len(p) : Append(f, m)[k] = p[k]
    BY <1>1, <1>2, <1>3, <2>1, <2>2
  <2> QED
    BY <1>1, <1>3, <2>1, <2>3
<1> QED
  BY <1>1, <1>3, <1>4, <1>5 DEF f, m

\* What an operation is.
Op == [path : Seq(STRING) \ {<<>>}, unscoped : BOOLEAN, keep : SUBSET Row]

\* The operations of a call: one for each path, none without a path.
LEMMA OperationsFacts ==
    ASSUME NEW ask \in Seq(Op)
    PROVE  /\ \A d \in Operations(ask) : d.path \in Seq(STRING) \ {<<>>} /\ d.keep \subseteq Row
           /\ \A d, op \in Operations(ask) : d.path = op.path => d = op
<1> DEFINE of(p) == {i \in DOMAIN ask : ask[i].path = p}
           Choice(p) == IF of(p) = {} THEN [path |-> p, unscoped |-> FALSE, keep |-> Row]
                        ELSE ask[CHOOSE i \in of(p) : \A j \in of(p) : j <= i]
           PP == UNION {Parents(ask[i].path) : i \in DOMAIN ask}
<1>1. Operations(ask) = {Choice(p) : p \in PP}
  BY Zenon DEF Operations
<1>2. \A p \in PP : p \in Seq(STRING) /\ p # <<>>
  <2> SUFFICES ASSUME NEW i \in DOMAIN ask, NEW p \in Parents(ask[i].path)
               PROVE  p \in Seq(STRING) /\ p # <<>>
    OBVIOUS
  <2>1. ask[i].path \in Seq(STRING)
    <3>1. ask[i] \in Op
      OBVIOUS
    <3> QED
      BY <3>1 DEF Op
  <2>2. PICK k \in 1..Len(ask[i].path) : p = SubSeq(ask[i].path, 1, k)
    BY DEF Parents
  <2>3. Len(p) = k /\ k >= 1 /\ p \in Seq(STRING)
    BY <2>1, <2>2
  <2>4. Len(<<>>) = 0
    OBVIOUS
  <2> QED
    BY <2>3, <2>4
<1>3. ASSUME NEW p \in PP PROVE Choice(p).path = p /\ Choice(p).keep \subseteq Row
  <2>1. CASE of(p) = {}
    BY <2>1
  <2>2. CASE of(p) # {}
    <3> DEFINE m == CHOOSE i \in of(p) : \A j \in of(p) : j <= i
    <3>1. \E i \in of(p) : \A j \in of(p) : j <= i
      <4> DEFINE S == of(p)
      <4>1. S \subseteq 1..Len(ask) /\ Len(ask) \in Nat
        OBVIOUS
      <4>2. S # {}
        BY <2>2
      <4> HIDE DEF S
      <4>3. Max(S) \in S /\ \A y \in S : y <= Max(S)
        BY <4>1, <4>2, MaxUpto
      <4>4. \E i \in S : \A j \in S : j <= i
        BY <4>3
      <4> QED
        BY <4>4 DEF S
    <3>2. m \in of(p)
      <4> HIDE DEF of
      <4> QED
        BY <3>1, Zenon
    <3>3. Choice(p) = ask[m]
      <4> HIDE DEF of
      <4> QED
        BY <2>2
    <3> HIDE DEF m, Choice
    <3>4. m \in DOMAIN ask /\ ask[m].path = p
      BY <3>2
    <3>5. ask[m] \in Op
      BY <3>4
    <3> QED
      BY <3>3, <3>4, <3>5 DEF Op
  <2> QED
    BY <2>1, <2>2
<1> HIDE DEF Choice, PP
<1>4. \A d \in Operations(ask) : d.path \in Seq(STRING) \ {<<>>} /\ d.keep \subseteq Row
  BY <1>1, <1>2, <1>3
<1>5. \A d, op \in Operations(ask) : d.path = op.path => d = op
  BY <1>1, <1>3
<1> QED
  BY <1>4, <1>5

\* Before the first call there are none.
LEMMA NoOperations == Operations(<<>>) = {}
<1>1. DOMAIN <<>> = {}
  OBVIOUS
<1>2. UNION {Parents(<<>>[i].path) : i \in {}} = {}
  OBVIOUS
<1> QED
  BY <1>1, <1>2 DEF Operations

------------------------------------------------------------------------------
\* One operation: what its query changes, and what it does not.

\* The association of an operation, and the instances that it is preloaded for.
Fetching(h, k, P, p, a, owners) ==
    /\ HeapOK(h) /\ Sound(h) /\ k \in 1..Len(h) /\ OneModel(h, k) /\ Labels(h, k, P)
    /\ p \in Seq(STRING) /\ p # <<>>
    /\ owners = Walk(h, k, Front(p)) /\ owners # <<>>
    /\ Last(p) \in Links(h[owners[1].obj].row)
    /\ a = Ref(h[owners[1].obj].row, Last(p))

\* All owners are of one model, so they have the one association; they have the label
\* of the path above.
LEMMA FetchReady ==
    ASSUME NEW h, NEW k, NEW P, NEW p, NEW a, NEW owners, Fetching(h, k, P, p, a, owners)
    PROVE  /\ Ready(h, a, owners) /\ a.name = Last(p) /\ k \in 0..Len(h)
           /\ \A j \in DOMAIN owners : Ref(h[owners[j].obj].row, Last(p)) = a
           /\ \A j \in DOMAIN owners : P[owners[j].obj] = Front(p)
<1>1. HeapOK(h) /\ k \in 0..Len(h) /\ Sound(h) /\ OneModel(h, k) /\ Labels(h, k, P)
  BY DEF Fetching, HeapOK
<1>2. Front(p) \in Seq(STRING)
  BY FrontFacts DEF Fetching
<1>3. owners = Walk(h, k, Front(p))
  BY DEF Fetching
<1>4. owners \in Seq(Reached(h))
  BY <1>1, <1>2, <1>3, WalkTyped
<1>5. \A v, w \in ToSet(owners) : Of[h[v.obj].row] = Of[h[w.obj].row]
  BY <1>1, <1>2, <1>3, WalkModel
<1>6. \A w \in ToSet(owners) : w.obj \in DOMAIN h /\ P[w.obj] = Front(p)
  BY <1>1, <1>2, <1>3, WalkLabel
<1>7. 1 \in DOMAIN owners
  BY <1>4 DEF Fetching
<1>8. \A j \in DOMAIN owners : owners[j] \in ToSet(owners)
  BY DEF ToSet
<1>9. \A j \in DOMAIN owners : Of[h[owners[j].obj].row] = Of[h[owners[1].obj].row]
  BY <1>5, <1>7, <1>8
<1>10. \A j \in DOMAIN owners : /\ Ref(h[owners[j].obj].row, Last(p)) = a
                                /\ Last(p) \in Links(h[owners[j].obj].row)
  BY <1>9, Zenon DEF Ref, Links, Fetching
<1>11. a.name = Last(p)
  <2>1. owners[1].obj \in DOMAIN h
    BY <1>6, <1>7, <1>8
  <2>2. h[owners[1].obj].row \in Row
    BY <1>1, <2>1, ObjectFacts
  <2> QED
    BY <2>2, RowsAssumption DEF Fetching
<1> QED
  BY <1>1, <1>4, <1>6, <1>8, <1>10, <1>11 DEF Ready

\* The label alone.
LEMMA FetchLabel ==
    ASSUME NEW h, NEW k, NEW P, NEW p, NEW a, NEW owners, Fetching(h, k, P, p, a, owners),
           NEW j \in DOMAIN owners
    PROVE  P[owners[j].obj] = Front(p)
BY FetchReady

\* Same for what may be given something.
LEMMA FetchOpen ==
    ASSUME NEW h, NEW k, NEW P, NEW p, NEW a, NEW owners, Fetching(h, k, P, p, a, owners),
           NEW i \in Open(owners)
    PROVE  /\ i \in 1..Len(h) /\ i \in DOMAIN h /\ Ref(h[i].row, a.name) = a
           /\ a.name \in Links(h[i].row) /\ P[i] = Front(p)
<1>1. PICK j \in DOMAIN owners : i = owners[j].obj
  BY DEF Open
<1>2. i \in 1..Len(h) /\ i \in DOMAIN h /\ a.name \in Links(h[i].row)
  BY FetchReady, OpenFacts
<1> QED
  BY <1>1, <1>2, FetchReady

\* The links of the heap that grew: as they were, none, or those of the association.
LEMMA GrewLinks ==
    ASSUME NEW h, NEW g, NEW a, NEW owners, Ready(h, a, owners), Grew(h, g, a, owners),
           NEW i \in DOMAIN g, NEW m \in Links(g[i].row)
    PROVE  /\ DOMAIN h = 1..Len(h) /\ DOMAIN g = 1..Len(g) /\ Len(h) \in Nat /\ Len(g) \in Nat
           /\ Len(h) <= Len(g) /\ DOMAIN h \subseteq DOMAIN g
           /\ i \notin DOMAIN h => g[i].links[m] = <<>> /\ Of[g[i].row] = a.remote.model
           /\ i \in DOMAIN h => /\ g[i].row = h[i].row
                                /\ i \notin Open(owners) \/ m # a.name =>
                                       g[i].links[m] = h[i].links[m]
<1>1. DOMAIN h = 1..Len(h) /\ DOMAIN g = 1..Len(g) /\ Len(h) \in Nat /\ Len(g) \in Nat
      /\ Len(h) <= Len(g)
  BY DEF Ready, Grew, HeapOK
<1>2. ASSUME i \notin DOMAIN h PROVE g[i].links[m] = <<>> /\ Of[g[i].row] = a.remote.model
  <2>1. i \in (Len(h) + 1)..Len(g)
    BY <1>1, <1>2
  <2>2. Of[g[i].row] = a.remote.model /\ g[i] = New(g[i].row)
    BY <2>1 DEF Grew
  <2>3. HeapOK(g)
    BY DEF Grew
  <2>4. g[i].row \in Row
    BY <2>3, ObjectFacts
  <2>5. New(g[i].row).links[m] = <<>>
    BY <2>4, NewFacts
  <2> QED
    BY <2>2, <2>5
<1>3. ASSUME i \in DOMAIN h
      PROVE  g[i].row = h[i].row /\ (i \notin Open(owners) \/ m # a.name =>
                                        g[i].links[m] = h[i].links[m])
  BY <1>1, <1>3 DEF Grew
<1> QED
  BY <1>1, <1>2, <1>3

\* What is given belongs to whom it is given to.
LEMMA GrewSound ==
    ASSUME NEW h, NEW k, NEW P, NEW p, NEW a, NEW owners, Fetching(h, k, P, p, a, owners),
           NEW g, Grew(h, g, a, owners)
    PROVE  Sound(g)
<1>0. Ready(h, a, owners) /\ HeapOK(h) /\ Sound(h)
  BY FetchReady DEF Fetching
<1> SUFFICES ASSUME NEW i \in DOMAIN g, NEW m \in Links(g[i].row), NEW x \in ToSet(g[i].links[m])
             PROVE  /\ Of[g[x].row] = Ref(g[i].row, m).remote.model
                    /\ Here(Ref(g[i].row, m), g[i].row) = There(Ref(g[i].row, m), g[x].row)
  BY DEF Sound
<1>1. /\ DOMAIN h = 1..Len(h) /\ DOMAIN g = 1..Len(g) /\ Len(h) \in Nat /\ Len(g) \in Nat
      /\ Len(h) <= Len(g) /\ DOMAIN h \subseteq DOMAIN g
      /\ i \notin DOMAIN h => g[i].links[m] = <<>>
      /\ i \in DOMAIN h => /\ g[i].row = h[i].row
                           /\ i \notin Open(owners) \/ m # a.name => g[i].links[m] = h[i].links[m]
  BY <1>0, GrewLinks
<1>2. i \in DOMAIN h
  <2> SUFFICES ASSUME i \notin DOMAIN h PROVE FALSE
    OBVIOUS
  <2>1. ToSet(<<>>) = {}
    BY DEF ToSet
  <2> QED
    BY <1>1, <2>1
<1>3. CASE x \in ToSet(h[i].links[m])
  <2>1. x \in DOMAIN h
    BY <1>0, <1>1, <1>2, <1>3 DEF HeapOK, Closed
  <2>2. g[x].row = h[x].row
    BY <1>1, <2>1 DEF Grew
  <2> QED
    BY <1>0, <1>1, <1>2, <1>3, <2>2 DEF Sound
<1>4. CASE x \notin ToSet(h[i].links[m])
  <2>1. i \in Open(owners) /\ m = a.name
    BY <1>1, <1>2, <1>4
  <2>2. x \in (Len(h) + 1)..Len(g) /\ Here(a, h[i].row) = There(a, g[x].row)
    BY <1>4, <2>1 DEF Grew
  <2>3. Of[g[x].row] = a.remote.model
    BY <2>2 DEF Grew
  <2>4. Ref(h[i].row, m) = a
    BY <2>1, FetchOpen
  <2> QED
    BY <1>1, <1>2, <2>2, <2>3, <2>4
<1> QED
  BY <1>3, <1>4

\* The labels of the heap that grew.
More(h, g, P, q) == [i \in DOMAIN g |-> IF i \in DOMAIN h THEN P[i] ELSE q]

\* New objects have the path of the operation for a label.
LEMMA GrewLabels ==
    ASSUME NEW h, NEW k, NEW P, NEW p, NEW a, NEW owners, Fetching(h, k, P, p, a, owners),
           NEW g, Grew(h, g, a, owners)
    PROVE  Labels(g, k, More(h, g, P, p))
<1> DEFINE Q == More(h, g, P, p)
<1>0. /\ Ready(h, a, owners) /\ HeapOK(h) /\ Labels(h, k, P) /\ k \in 1..Len(h)
      /\ p \in Seq(STRING) /\ a.name = Last(p) /\ p # <<>>
  BY FetchReady DEF Fetching
<1>1. DOMAIN h = 1..Len(h) /\ DOMAIN g = 1..Len(g) /\ Len(h) \in Nat /\ Len(g) \in Nat
      /\ Len(h) <= Len(g) /\ DOMAIN h \subseteq DOMAIN g
  BY <1>0 DEF Grew, HeapOK
<1>2. Q \in [DOMAIN g -> Seq(STRING)]
  BY <1>0 DEF More, Labels
<1>3. (\A i \in DOMAIN h : Q[i] = P[i]) /\ \A i \in DOMAIN g : i \notin DOMAIN h => Q[i] = p
  BY <1>1 DEF More
<1> HIDE DEF Q
<1>4. \A i \in 1..k : Q[i] = <<>>
  BY <1>0, <1>1, <1>3 DEF Labels
<1>5. ASSUME NEW i \in DOMAIN g, NEW m \in Links(g[i].row), NEW x \in ToSet(g[i].links[m])
      PROVE  Q[x] = Append(Q[i], m)
  <2>1. /\ i \notin DOMAIN h => g[i].links[m] = <<>>
        /\ i \in DOMAIN h => /\ g[i].row = h[i].row
                             /\ i \notin Open(owners) \/ m # a.name => g[i].links[m] = h[i].links[m]
    BY <1>0, GrewLinks
  <2>2. i \in DOMAIN h
    <3> SUFFICES ASSUME i \notin DOMAIN h PROVE FALSE
      OBVIOUS
    <3>1. ToSet(<<>>) = {}
      BY DEF ToSet
    <3> QED
      BY <1>5, <2>1, <3>1
  <2>3. CASE x \in ToSet(h[i].links[m])
    <3>1. x \in DOMAIN h
      BY <1>0, <2>1, <2>2, <2>3 DEF HeapOK, Closed
    <3> QED
      BY <1>0, <1>3, <2>1, <2>2, <2>3, <3>1 DEF Labels
  <2>4. CASE x \notin ToSet(h[i].links[m])
    <3>1. i \in Open(owners) /\ m = a.name
      BY <1>5, <2>1, <2>2, <2>4
    <3>2. x \in (Len(h) + 1)..Len(g)
      BY <1>5, <2>4, <3>1 DEF Grew
    <3>3. x \in DOMAIN g /\ x \notin DOMAIN h
      BY <1>1, <3>2
    <3>4. P[i] = Front(p)
      BY <3>1, FetchOpen
    <3>5. p = Append(Front(p), Last(p))
      BY <1>0, FrontFacts
    <3> QED
      BY <1>0, <1>3, <2>2, <3>1, <3>3, <3>4, <3>5
  <2> QED
    BY <2>3, <2>4
<1>6. Labels(g, k, Q)
  BY <1>2, <1>4, <1>5 DEF Labels
<1> QED
  BY <1>6 DEF Q

\* The instances of the paths that are no longer are the same as before.
LEMMA GrewWalk ==
    ASSUME NEW h, NEW k, NEW P, NEW p, NEW a, NEW owners, Fetching(h, k, P, p, a, owners),
           NEW g, Grew(h, g, a, owners),
           NEW q \in Seq(STRING), q # <<>>, Len(q) <= Len(p)
    PROVE  Walk(g, k, Front(q)) = Walk(h, k, Front(q))
<1>1. HeapOK(h) /\ HeapOK(g) /\ k \in 0..Len(h) /\ Labels(h, k, P) /\ Len(h) <= Len(g)
  BY FetchReady, Zenon DEF Fetching, Grew
<1>2. Len(h) \in Nat /\ Len(g) \in Nat /\ DOMAIN h = 1..Len(h)
  BY <1>1 DEF HeapOK
<1>3. k \in 0..Len(g)
  BY <1>1, <1>2
<1>4. p \in Seq(STRING) /\ p # <<>>
  BY DEF Fetching
<1>5. Front(q) \in Seq(STRING) /\ Len(Front(q)) = Len(q) - 1 /\ Len(q) \in Nat
  BY FrontFacts
<1>6. Len(Front(p)) = Len(p) - 1 /\ Len(p) \in Nat
  BY <1>4, FrontFacts
<1>7. ASSUME NEW i \in DOMAIN h, Len(P[i]) < Len(Front(q)) PROVE g[i] = h[i]
  <2>1. CASE i \in Open(owners)
    <3>1. P[i] = Front(p)
      BY <2>1, FetchOpen
    <3> QED
      BY <1>5, <1>6, <1>7, <3>1
  <2>2. CASE i \notin Open(owners)
    BY <1>2, <2>2 DEF Grew
  <2> QED
    BY <2>1, <2>2
<1> QED
  BY <1>1, <1>3, <1>5, <1>7, WalkSame

\* Whatever the association, it keeps what it had.
LEMMA GrewKeeps ==
    ASSUME NEW h, NEW k, NEW P, NEW p, NEW a, NEW owners, Fetching(h, k, P, p, a, owners),
           NEW g, Grew(h, g, a, owners), NEW i \in DOMAIN h, NEW m \in Links(h[i].row)
    PROVE  /\ i \in DOMAIN g /\ g[i].row = h[i].row
           /\ IF IsMany(Ref(h[i].row, m)) THEN Held(h, i, m) \subseteq Held(g, i, m)
              ELSE h[i].links[m] # <<>> => g[i].links[m] # <<>>
<1>0. Ready(h, a, owners) /\ HeapOK(h)
  BY FetchReady DEF Fetching
<1>1. DOMAIN h = 1..Len(h) /\ DOMAIN g = 1..Len(g) /\ Len(h) \in Nat /\ Len(g) \in Nat
      /\ Len(h) <= Len(g)
  BY <1>0 DEF Grew, HeapOK
<1>2. \A j \in DOMAIN h : g[j].row = h[j].row
  BY <1>1 DEF Grew
<1>3. i \in DOMAIN g
  BY <1>1
<1>4. CASE i \notin Open(owners) \/ m # a.name
  <2>1. g[i].links[m] = h[i].links[m]
    BY <1>1, <1>4 DEF Grew
  <2>2. Held(g, i, m) = Held(h, i, m)
    BY <1>0, <1>2, <2>1, HeldSame
  <2> QED
    BY <1>2, <1>3, <2>1, <2>2
<1>5. CASE i \in Open(owners) /\ m = a.name
  <2>1. Ref(h[i].row, m) = a
    BY <1>5, FetchOpen
  <2>2. IF IsMany(a) THEN ToSet(h[i].links[m]) \subseteq ToSet(g[i].links[m])
        ELSE h[i].links[m] # <<>> => g[i].links[m] # <<>>
    BY <1>5 DEF Grew
  <2>3. ASSUME IsMany(a) PROVE Held(h, i, m) \subseteq Held(g, i, m)
    <3>1. ToSet(h[i].links[m]) \subseteq DOMAIN h
      BY <1>0 DEF HeapOK, Closed
    <3>2. \A x \in ToSet(h[i].links[m]) : g[x].row = h[x].row /\ x \in ToSet(g[i].links[m])
      BY <1>2, <2>2, <2>3, <3>1
    <3> QED
      BY <3>2 DEF Held
  <2> QED
    BY <1>2, <1>3, <2>1, <2>2, <2>3
<1> QED
  BY <1>4, <1>5

\* The instances of a path that is no longer, and where they are.
LEMMA GrewOwners ==
    ASSUME NEW h, NEW P, NEW p, NEW a, NEW owners, Fetching(h, roots, P, p, a, owners),
           NEW g, Grew(h, g, a, owners),
           NEW d, d.path \in Seq(STRING), d.path # <<>>, Len(d.path) <= Len(p)
    PROVE  /\ Owners(g, d) = Owners(h, d)
           /\ \A w \in ToSet(Owners(h, d)) : w.obj \in DOMAIN h /\ P[w.obj] = Front(d.path)
<1>1. Owners(g, d) = Owners(h, d)
  BY GrewWalk DEF Owners
<1>2. HeapOK(h) /\ roots \in 0..Len(h) /\ Labels(h, roots, P)
  BY FetchReady DEF Fetching
<1>3. Front(d.path) \in Seq(STRING)
  BY FrontFacts
<1>4. \A w \in ToSet(Owners(h, d)) : w.obj \in DOMAIN h /\ P[w.obj] = Front(d.path)
  BY <1>2, <1>3, WalkLabel DEF Owners
<1> QED
  BY <1>1, <1>4

\* What ran before stays served.
LEMMA GrewServed ==
    ASSUME NEW h, NEW P, NEW p, NEW a, NEW owners, Fetching(h, roots, P, p, a, owners),
           NEW g, Grew(h, g, a, owners),
           NEW d, d.path \in Seq(STRING), d.path # <<>>, Len(d.path) <= Len(p),
           NEW broken, Served(h, d, broken)
    PROVE  Served(g, d, broken)
<1> DEFINE n == Last(d.path)
<1>1. /\ Owners(g, d) = Owners(h, d)
      /\ \A w \in ToSet(Owners(h, d)) : w.obj \in DOMAIN h
  BY GrewOwners
<1> SUFFICES ASSUME NEW w \in ToSet(Owners(h, d))
             PROVE  /\ n \in Links(g[w.obj].row)
                    /\ d \in broken \/ w.copy \/ Given(g, w.obj, Ref(g[w.obj].row, n), d)
  BY <1>1 DEF Served
<1>2. /\ n \in Links(h[w.obj].row)
      /\ d \in broken \/ w.copy \/ Given(h, w.obj, Ref(h[w.obj].row, n), d)
  BY DEF Served
<1>3. w.obj \in DOMAIN h /\ HeapOK(h)
  BY <1>1 DEF Fetching
<1> HIDE DEF n
<1>4. /\ g[w.obj].row = h[w.obj].row
      /\ IF IsMany(Ref(h[w.obj].row, n)) THEN Held(h, w.obj, n) \subseteq Held(g, w.obj, n)
         ELSE h[w.obj].links[n] # <<>> => g[w.obj].links[n] # <<>>
  <2> DEFINE i == w.obj
  <2>1. i \in DOMAIN h /\ n \in Links(h[i].row)
    BY <1>2, <1>3
  <2> HIDE DEF i
  <2>2. /\ g[i].row = h[i].row
        /\ IF IsMany(Ref(h[i].row, n)) THEN Held(h, i, n) \subseteq Held(g, i, n)
           ELSE h[i].links[n] # <<>> => g[i].links[n] # <<>>
    BY <2>1, GrewKeeps
  <2> QED
    BY <2>2 DEF i
<1>5. Ref(h[w.obj].row, n).name = n
  <2>1. h[w.obj].row \in Row
    BY <1>3, ObjectFacts
  <2> QED
    BY <1>2, <2>1, RowsAssumption
<1>6. ASSUME Given(h, w.obj, Ref(h[w.obj].row, n), d) PROVE Given(g, w.obj, Ref(h[w.obj].row, n), d)
  BY <1>4, <1>5, <1>6 DEF Given
<1> QED
  BY <1>2, <1>4, <1>6

\* A row that an earlier path gave once stays given once: another path is another
\* association, or that of other objects.
LEMMA GrewOnce ==
    ASSUME NEW h, NEW P, NEW p, NEW a, NEW owners, Fetching(h, roots, P, p, a, owners),
           NEW g, Grew(h, g, a, owners),
           NEW d, d.path \in Seq(STRING), d.path # <<>>, Len(d.path) <= Len(p), d.path # p,
           NEW broken, Served(h, d, broken), Once(h, d)
    PROVE  Once(g, d)
<1> DEFINE n == Last(d.path)
           o == Owners(h, d)
<1>1. /\ Owners(g, d) = o
      /\ \A w \in ToSet(o) : w.obj \in DOMAIN h /\ P[w.obj] = Front(d.path)
  BY GrewOwners
<1>2. ASSUME NEW j \in DOMAIN o, Distinct(h, o[j].obj, n) PROVE Distinct(g, o[j].obj, n)
  <2>0. o[j] \in ToSet(o)
    BY DEF ToSet
  <2>1. o[j].obj \in DOMAIN h /\ P[o[j].obj] = Front(d.path)
    BY <1>1, <2>0
  <2>2. n \in Links(h[o[j].obj].row)
    BY <2>0 DEF Served
  <2> DEFINE i == o[j].obj
  <2>3. Ready(h, a, owners) /\ HeapOK(h) /\ a.name = Last(p) /\ p \in Seq(STRING) /\ p # <<>>
    BY FetchReady DEF Fetching
  <2>4. i \notin Open(owners) \/ n # a.name
    <3> SUFFICES ASSUME i \in Open(owners), n = a.name PROVE FALSE
      OBVIOUS
    <3>1. P[i] = Front(p)
      BY FetchOpen
    <3>2. d.path = Append(Front(d.path), Last(d.path)) /\ p = Append(Front(p), Last(p))
      BY <2>3, FrontFacts
    <3> QED
      BY <2>1, <2>3, <3>1, <3>2
  <2> HIDE DEF n, o, i
  <2>5. i \in DOMAIN h /\ n \in Links(h[i].row)
    BY <2>1, <2>2 DEF i
  <2>6. \A x \in DOMAIN h : g[x].row = h[x].row
    <3>1. DOMAIN h = 1..Len(h)
      BY <2>3 DEF HeapOK
    <3> QED
      BY <3>1 DEF Grew
  <2>7. g[i].links[n] = h[i].links[n]
    <3>1. i \in 1..Len(h)
      BY <2>3, <2>5 DEF HeapOK
    <3> QED
      BY <2>4, <2>5, <3>1 DEF Grew
  <2>8. Distinct(g, i, n) <=> Distinct(h, i, n)
    BY <2>3, <2>5, <2>6, <2>7, HeldSame
  <2> QED
    BY <1>2, <2>8 DEF i
<1> HIDE DEF n, o
<1>3. \A j \in DOMAIN o : (\E l \in DOMAIN o : l # j /\ o[l].obj = o[j].obj) \/ Distinct(h, o[j].obj, n)
  BY DEF Once, n, o
<1>4. \A j \in DOMAIN o : (\E l \in DOMAIN o : l # j /\ o[l].obj = o[j].obj) \/ Distinct(g, o[j].obj, n)
  BY <1>2, <1>3
<1> QED
  BY <1>1, <1>4 DEF Once, n, o

\* All that is wanted for the owners is found, and they had nothing before.
Finds(h, a, owners, op, F) == \A w \in ToSet(owners) : Wanted(a, h[w.obj].row, op) \subseteq F
Empty(h, a, owners) == \A j \in DOMAIN owners : h[owners[j].obj].links[a.name] = <<>>

\* The operation that ran is served, too, or its result broke off.
LEMMA FetchServed ==
    ASSUME NEW h, NEW P, NEW op, NEW a, NEW owners, Fetching(h, roots, P, op.path, a, owners),
           NEW g, NEW F, Fetched(h, g, a, owners, F),
           NEW broken, op \in broken \/ Finds(h, a, owners, op, F)
    PROVE  Served(g, op, broken)
<1> DEFINE n == Last(op.path)
<1>1. Fetched(h, g, a, owners, F)
  OBVIOUS
<1>2. Grew(h, g, a, owners) /\ Ready(h, a, owners)
  BY <1>1, FetchReady DEF Fetched
<1>3. op.path \in Seq(STRING) /\ op.path # <<>> /\ Len(op.path) <= Len(op.path)
  BY DEF Fetching
<1>4. Owners(g, op) = Owners(h, op) /\ Owners(h, op) = owners
  <2>1. Owners(h, op) = owners
    BY DEF Fetching, Owners
  <2>2. Owners(g, op) = Owners(h, op)
    BY <1>2, <1>3, GrewOwners
  <2> QED
    BY <2>1, <2>2
<1> SUFFICES ASSUME NEW w \in ToSet(owners)
             PROVE  /\ n \in Links(g[w.obj].row)
                    /\ op \in broken \/ w.copy \/ Given(g, w.obj, Ref(g[w.obj].row, n), op)
  BY <1>4 DEF Served
<1>5. PICK j \in DOMAIN owners : w = owners[j]
  BY DEF ToSet
<1>6. /\ n \in Links(g[w.obj].row) /\ a.name = n
      /\ g[w.obj].row = h[w.obj].row /\ Ref(h[w.obj].row, n) = a
  <2>1. a.name = n /\ Ref(h[w.obj].row, n) = a
    BY <1>5, FetchReady
  <2>2. a.name \in Links(g[owners[j].obj].row)
    BY <1>2, GrewReady
  <2>3. w.obj \in 1..Len(h)
    BY <1>2, <1>5, OwnerFacts
  <2>4. g[w.obj].row = h[w.obj].row
    BY <1>2, <2>3 DEF Grew
  <2> QED
    BY <1>5, <2>1, <2>2, <2>4
<1>7. ASSUME op \notin broken, ~w.copy, NEW y \in Wanted(a, h[w.obj].row, op)
      PROVE  Has(g, a, w.obj, y)
  <2>1. y \in F
    BY <1>7 DEF Finds
  <2>2. Takes(h, a, w, y)
    BY <1>7 DEF Takes, Fits, Wanted
  <2> QED
    BY <1>1, <1>5, <2>1, <2>2 DEF Fetched
<1>8. ASSUME op \notin broken, ~w.copy PROVE Given(g, w.obj, a, op)
  <2>1. CASE IsMany(a)
    <3>1. \A y \in Wanted(a, h[w.obj].row, op) : y \in Held(g, w.obj, a.name)
      BY <1>7, <1>8, <2>1 DEF Has
    <3> QED
      BY <1>6, <2>1, <3>1 DEF Given
  <2>2. CASE ~IsMany(a)
    <3>1. \A y \in Wanted(a, h[w.obj].row, op) : g[w.obj].links[a.name] # <<>>
      BY <1>7, <1>8, <2>2 DEF Has
    <3> QED
      BY <1>6, <2>2, <3>1 DEF Given
  <2> QED
    BY <2>1, <2>2
<1> QED
  BY <1>6, <1>8

\* An association that was empty has each row once.
LEMMA FetchOnce ==
    ASSUME NEW h, NEW P, NEW op, NEW a, NEW owners, Fetching(h, roots, P, op.path, a, owners),
           NEW g, NEW F, Fetched(h, g, a, owners, F),
           Empty(h, a, owners)
    PROVE  Once(g, op)
<1>1. Grew(h, g, a, owners) /\ a.name = Last(op.path)
  BY FetchReady DEF Fetched
<1>2. op.path \in Seq(STRING) /\ op.path # <<>> /\ Len(op.path) <= Len(op.path)
  <2>1. op.path \in Seq(STRING) /\ op.path # <<>>
    BY DEF Fetching
  <2>2. Len(op.path) \in Nat
    BY <2>1
  <2> QED
    BY <2>1, <2>2
<1>3. Owners(g, op) = owners
  <2>1. Owners(h, op) = owners
    BY DEF Fetching, Owners
  <2> QED
    BY <1>1, <1>2, <2>1, GrewOwners
<1>4. ASSUME NEW j \in DOMAIN owners
      PROVE  \/ \E l \in DOMAIN owners : l # j /\ owners[l].obj = owners[j].obj
             \/ Distinct(g, owners[j].obj, a.name)
  <2>1. j \in Sole(owners) => Distinct(g, owners[j].obj, a.name)
    <3>1. h[owners[j].obj].links[a.name] = <<>>
      BY DEF Empty
    <3> QED
      BY <3>1 DEF Fetched
  <2> QED
    BY <2>1 DEF Sole
<1> QED
  BY <1>1, <1>3, <1>4 DEF Once

------------------------------------------------------------------------------
\* Every step keeps the invariant.

\* The operations of a call, for any state.
LEMMA TypedOperations ==
    ASSUME Typed
    PROVE  /\ \A d \in Operations(asked) : d.path \in Seq(STRING) /\ d.path # <<>> /\ d.keep \subseteq Row
           /\ \A d, op \in Operations(asked) : d.path = op.path => d = op
<1>1. CASE asked \in Asks
  <2>1. asked \in Seq(Op)
    BY <1>1, AsksAssumption DEF Op
  <2> QED
    BY <2>1, OperationsFacts
<1>2. CASE asked = <<>>
  BY <1>2, NoOperations
<1> QED
  BY <1>1, <1>2 DEF Typed

\* Who archives rows asks for less, ...
LEMMA ServedNext ==
    ASSUME NEW op, roots' = roots, archived \subseteq archived',
           NEW broken, Served(heap', op, broken), broken \subseteq cut'
    PROVE  Served(heap, op, cut)'
<1> DEFINE n == Last(op.path)
<1>1. Owners(heap', op) = Walk(heap', roots, Front(op.path))
  BY DEF Owners
<1>2. Owners(heap, op)' = Walk(heap', roots', Front(op.path))
  BY DEF Owners
<1> DEFINE V(a, r) ==
               {x \in op.keep : /\ Of[x] = a.remote.model
                                /\ Here(a, r) # 0 /\ Here(a, r) = There(a, x)
                                /\ op.unscoped \/ x \notin archived'}
           G(i, a) == IF IsMany(a) THEN V(a, heap'[i].row) \subseteq Held(heap', i, a.name)
                      ELSE V(a, heap'[i].row) # {} => heap'[i].links[a.name] # <<>>
<1>3. ASSUME NEW i, NEW a, Given(heap', i, a, op) PROVE G(i, a)
  <2>1. V(a, heap'[i].row) \subseteq Wanted(a, heap'[i].row, op)
    BY DEF Wanted
  <2> HIDE DEF V
  <2> QED
    BY <1>3, <2>1 DEF Given
<1> SUFFICES ASSUME NEW w \in ToSet(Owners(heap', op))
             PROVE  /\ n \in Links(heap'[w.obj].row)
                    /\ op \in cut' \/ w.copy \/ G(w.obj, Ref(heap'[w.obj].row, n))
  BY <1>1, <1>2, Zenon DEF Served, Given, Wanted
<1>4. /\ n \in Links(heap'[w.obj].row)
      /\ op \in broken \/ w.copy \/ Given(heap', w.obj, Ref(heap'[w.obj].row, n), op)
  BY DEF Served
<1> HIDE DEF G, n
<1> QED
  BY <1>3, <1>4

\* ... and does not change what was given.
LEMMA OnceNext ==
    ASSUME NEW op, roots' = roots, Once(heap', op)
    PROVE  Once(heap, op)'
<1>1. Owners(heap, op)' = Owners(heap', op)
  BY DEF Owners
<1> QED
  BY <1>1 DEF Once

\* Before the first call nothing is linked.
LEMMA InitInv == Init => IInv
<1> SUFFICES ASSUME Init PROVE IInv
  OBVIOUS
<1>1. PICK q \in Roots : heap = [i \in DOMAIN q |-> New(q[i])] /\ roots = Len(q)
  BY DEF Init
<1>2. q \in Seq(Row) /\ q # <<>> /\ \A i \in DOMAIN q : Of[q[i]] = Of[q[1]]
  BY RootsAssumption
<1>3. Len(q) \in Nat \ {0} /\ DOMAIN q = 1..Len(q) /\ 1 \in DOMAIN q
  BY <1>2
<1>4. \A i \in 1..Len(q) : q[i] \in Row
  BY <1>2
<1>5. DOMAIN heap = 1..Len(q) /\ \A i \in 1..Len(q) : heap[i] = New(q[i])
  BY <1>1, <1>3
<1>6. \A i \in 1..Len(q) : heap[i] \in Objects /\ heap[i].row = q[i]
                           /\ \A n \in Links(heap[i].row) : heap[i].links[n] = <<>>
  BY <1>4, <1>5, NewFacts
<1>7. heap \in Seq(Objects) /\ Len(heap) = Len(q)
  <2>1. heap \in [1..Len(q) -> Objects]
    <3>1. heap = [i \in 1..Len(q) |-> New(q[i])]
      BY <1>1, <1>3
    <3>2. \A i \in 1..Len(q) : New(q[i]) \in Objects
      BY <1>4, NewFacts
    <3> QED
      BY <3>1, <3>2
  <2> DEFINE m == Len(q)
  <2>2. m \in Nat /\ heap \in [1..m -> Objects]
    BY <1>3, <2>1
  <2> HIDE DEF m
  <2>3. heap \in Seq(Objects) /\ Len(heap) = m
    BY <2>2
  <2> QED
    BY <2>3 DEF m
<1>8. ToSet(<<>>) = {}
  BY DEF ToSet
<1>9. HeapOK(heap)
  BY <1>5, <1>6, <1>7, <1>8 DEF HeapOK, Closed
<1>10. Typed
  <2>1. roots \in 1..Len(heap)
    BY <1>1, <1>3, <1>7
  <2>2. \A i \in 1..roots : Of[heap[i].row] = Of[heap[1].row]
    BY <1>1, <1>2, <1>3, <1>6
  <2>3. calls \in 0..MaxCalls
    BY MaxCallsAssumption DEF Init
  <2> QED
    BY <1>9, <2>1, <2>2, <2>3 DEF Init, Typed
<1>11. RightOwner
  BY <1>5, <1>6, <1>8 DEF RightOwner
<1>12. InOrder
  BY DEF Init, InOrder
<1> DEFINE P == [i \in DOMAIN heap |-> <<>>]
<1>13. Labels(heap, roots, P)
  <2>1. P \in [DOMAIN heap -> Seq(STRING)]
    OBVIOUS
  <2>2. \A i \in 1..roots : P[i] = <<>>
    BY <1>1, <1>5
  <2> HIDE DEF P
  <2> QED
    BY <1>5, <1>6, <1>8, <2>1, <2>2 DEF Labels
<1>14. FirstCall(P)
  BY <1>5, <1>6 DEF Init, FirstCall
<1> HIDE DEF P
<1> QED
  BY <1>10, <1>11, <1>12, <1>13, <1>14 DEF IInv

\* A call starts: nothing of it has run.
LEMMA StartInv ==
    ASSUME IInv, NEW ask \in Asks, Start(ask)
    PROVE  IInv'
<1>1. Typed /\ RightOwner
  BY DEF IInv
<1>2. PICK P : Labels(heap, roots, P) /\ FirstCall(P)
  BY DEF IInv
<1>3. /\ heap' = heap /\ roots' = roots /\ archived' = archived
      /\ asked' = ask /\ todo' = Operations(ask) /\ status' = "running" /\ calls' = calls + 1
      /\ calls < MaxCalls /\ cut' = {}
  BY DEF Start
<1>4. calls \in 0..MaxCalls /\ calls' \in 0..MaxCalls /\ calls' # 0 /\ (calls' = 1 => calls = 0)
  BY <1>1, <1>3, MaxCallsAssumption DEF Typed
<1>5. Typed'
  BY <1>1, <1>3, <1>4 DEF Typed
<1>6. RightOwner'
  BY <1>1, <1>3 DEF RightOwner
<1>7. Ran' = {}
  BY <1>3 DEF Ran
<1>8. InOrder'
  BY <1>7 DEF InOrder
<1>9. FirstCall(P)'
  <2>1. calls = 0 => \A i \in DOMAIN heap : \A n \in Links(heap[i].row) : heap[i].links[n] = <<>>
    BY <1>2 DEF FirstCall
  <2> QED
    BY <1>3, <1>4, <1>7, <2>1 DEF FirstCall
<1>10. Labels(heap, roots, P)'
  BY <1>2, <1>3 DEF Labels
<1> QED
  BY <1>5, <1>6, <1>8, <1>9, <1>10 DEF IInv

\* A call fails: it promises no more than the right owners.
LEMMA FailInv ==
    ASSUME IInv, Fail
    PROVE  IInv'
<1>1. Typed /\ RightOwner
  BY DEF IInv
<1>2. PICK P : Labels(heap, roots, P) /\ FirstCall(P)
  BY DEF IInv
<1>3. /\ heap' = heap /\ roots' = roots /\ archived' = archived
      /\ asked' = asked /\ todo' = {} /\ status' = "error" /\ calls' = calls
      /\ cut' = cut
  BY DEF Fail
<1>4. Typed'
  BY <1>1, <1>3 DEF Typed, Ran
<1>5. RightOwner'
  BY <1>1, <1>3 DEF RightOwner
<1>6. InOrder'
  BY <1>3 DEF InOrder
<1>7. FirstCall(P)'
  BY <1>2, <1>3 DEF FirstCall
<1>8. Labels(heap, roots, P)'
  BY <1>2, <1>3 DEF Labels
<1> QED
  BY <1>4, <1>5, <1>6, <1>7, <1>8 DEF IInv

\* Nothing but what the database holds, or the answer, changes.
LEMMA KeptInv ==
    ASSUME IInv, UNCHANGED <<heap, roots, asked, todo, calls, cut>>, archived \subseteq archived',
           archived' \subseteq Row,
           status' = status \/ (status = "running" /\ status' = "ok" /\ todo = {})
    PROVE  IInv'
<1>1. Typed /\ RightOwner /\ InOrder
  BY DEF IInv
<1>2. PICK P : Labels(heap, roots, P) /\ FirstCall(P)
  BY DEF IInv
<1>3. heap' = heap /\ roots' = roots /\ asked' = asked /\ todo' = todo /\ calls' = calls
      /\ cut' = cut
  OBVIOUS
<1>4. Typed'
  BY <1>1, <1>3 DEF Typed, Ran
<1>5. RightOwner'
  BY <1>1, <1>3 DEF RightOwner
<1>6. Ran' = Ran
  BY <1>3 DEF Ran
<1>7. status' \in {"running", "ok"} => status \in {"running", "ok"}
  OBVIOUS
<1>8. InOrder'
  <2> SUFFICES ASSUME status' \in {"running", "ok"}, NEW d \in Ran
               PROVE  Served(heap, d, cut)' /\ \A op \in todo : Len(d.path) <= Len(op.path)
    BY <1>3, <1>6 DEF InOrder
  <2>1. Served(heap, d, cut) /\ \A op \in todo : Len(d.path) <= Len(op.path)
    BY <1>1, <1>7 DEF InOrder
  <2>2. Served(heap', d, cut)
    BY <1>3, <2>1
  <2> QED
    BY <1>3, <2>1, <2>2, ServedNext
<1>9. FirstCall(P)'
  <2>1. ASSUME NEW d, Once(heap, d) PROVE Once(heap, d)'
    <3>1. Once(heap', d)
      BY <1>3, <2>1
    <3> QED
      BY <1>3, <3>1, OnceNext
  <2> QED
    BY <1>2, <1>3, <1>6, <1>7, <2>1 DEF FirstCall
<1>10. Labels(heap, roots, P)'
  BY <1>2, <1>3 DEF Labels
<1> QED
  BY <1>4, <1>5, <1>8, <1>9, <1>10 DEF IInv

\* An operation of the highest level is done.
LEMMA DoneFacts ==
    ASSUME Typed, status = "running", NEW op \in Level(todo), Done(op)
    PROVE  /\ op \in todo /\ op \in Operations(asked) /\ Ran' = Ran \cup {op} /\ op \notin Ran
           /\ \A d \in todo : Len(op.path) <= Len(d.path)
           /\ op.path \in Seq(STRING) /\ op.path # <<>>
           /\ todo' \subseteq todo /\ todo' \subseteq Operations(asked)
           /\ roots' = roots /\ asked' = asked /\ status' = status /\ calls' = calls
           /\ archived' = archived
           /\ \A d \in Ran : /\ d \in Operations(asked) /\ d.path \in Seq(STRING)
                             /\ d.path # <<>> /\ d.path # op.path
<1>1. op \in todo /\ \A d \in todo : Len(op.path) <= Len(d.path)
  BY DEF Level
<1>2. todo \subseteq Operations(asked)
  BY DEF Typed
<1>3. /\ todo' = todo \ {op} /\ roots' = roots /\ asked' = asked /\ status' = status
      /\ calls' = calls /\ archived' = archived
  BY DEF Done
<1>4. Ran' = Ran \cup {op} /\ op \notin Ran
  BY <1>1, <1>2, <1>3 DEF Ran
<1>5. /\ \A d \in Operations(asked) : d.path \in Seq(STRING) /\ d.path # <<>>
      /\ \A d \in Operations(asked) : d.path = op.path => d = op
  BY <1>1, <1>2, TypedOperations
<1>6. \A d \in Ran : d \in Operations(asked) /\ d # op
  BY <1>4 DEF Ran
<1> QED
  BY <1>1, <1>2, <1>3, <1>4, <1>5, <1>6

\* The operation of the level that is left, after those above it.
LEMMA DoneInOrder ==
    ASSUME Typed, InOrder, status = "running", NEW op \in Level(todo), Done(op),
           cut \subseteq cut',
           \A d \in Ran : Served(heap', d, cut), Served(heap', op, cut')
    PROVE  InOrder'
<1>1. /\ Ran' = Ran \cup {op} /\ \A d \in todo : Len(op.path) <= Len(d.path)
      /\ todo' \subseteq todo /\ roots' = roots /\ archived' = archived
  BY DoneFacts
<1>2. \A d \in Ran : \A e \in todo : Len(d.path) <= Len(e.path)
  BY DEF InOrder
<1>3. ASSUME NEW d \in Ran' PROVE Served(heap, d, cut)'
  <2>1. CASE d = op
    BY <1>1, <2>1, ServedNext
  <2>2. CASE d \in Ran
    <3>1. Served(heap', d, cut)
      BY <2>2
    <3> QED
      BY <1>1, <3>1, ServedNext
  <2> QED
    BY <1>1, <2>1, <2>2
<1> QED
  BY <1>1, <1>2, <1>3 DEF InOrder

\* An operation that finds no instance.
LEMMA EmptyInv ==
    ASSUME IInv, status = "running", NEW op \in Level(todo), Owners(heap, op) = <<>>,
           Done(op), UNCHANGED <<heap, cut>>
    PROVE  IInv'
<1>1. Typed /\ RightOwner /\ InOrder
  BY DEF IInv
<1>2. PICK P : Labels(heap, roots, P) /\ FirstCall(P)
  BY DEF IInv
<1>3. /\ op \in todo /\ Ran' = Ran \cup {op} /\ todo' \subseteq Operations(asked)
      /\ roots' = roots /\ asked' = asked /\ status' = status /\ calls' = calls
      /\ archived' = archived
  BY <1>1, DoneFacts
<1>4. heap' = heap /\ cut' = cut /\ cut \subseteq cut'
  OBVIOUS
<1>5. Typed'
  BY <1>1, <1>3, <1>4 DEF Typed
<1>6. RightOwner'
  BY <1>1, <1>4 DEF RightOwner
<1>7. InOrder'
  <2>1. \A d \in Ran : Served(heap', d, cut)
    BY <1>1, <1>4 DEF InOrder
  <2>2. ToSet(<<>>) = {}
    BY DEF ToSet
  <2>3. Served(heap, op, cut)
    BY <2>2 DEF Served
  <2>4. Served(heap', op, cut')
    BY <1>4, <2>3
  <2> QED
    BY <1>1, <1>4, <2>1, <2>4, DoneInOrder
<1>8. FirstCall(P)'
  <2>1. ASSUME calls = 1, NEW d \in Ran' PROVE Once(heap, d)'
    <3>1. CASE d \in Ran
      <4>1. Once(heap', d)
        BY <1>2, <1>4, <2>1, <3>1 DEF FirstCall
      <4> QED
        BY <1>3, <4>1, OnceNext
    <3>2. CASE d = op
      <4>1. DOMAIN <<>> = {}
        OBVIOUS
      <4>2. Once(heap, op)
        BY <4>1 DEF Once
      <4>3. Once(heap', op)
        BY <1>4, <4>2
      <4>4. Once(heap, op)'
        BY <1>3, <4>3, OnceNext
      <4> QED
        BY <3>2, <4>4
    <3> QED
      BY <1>3, <2>1, <3>1, <3>2
  <2> QED
    BY <1>2, <1>3, <1>4, <2>1 DEF FirstCall
<1>9. Labels(heap, roots, P)'
  BY <1>2, <1>3, <1>4 DEF Labels
<1> QED
  BY <1>5, <1>6, <1>7, <1>8, <1>9 DEF IInv

\* RightOwner of the heap, ...
LEMMA SoundOwner == RightOwner <=> Sound(heap)
BY DEF RightOwner, Sound

\* ... and of the next one.
LEMMA SoundOwnerNext == RightOwner' <=> Sound(heap')
BY DEF RightOwner, Sound

\* Of the rows W that a query asks for, F were read, in the order of found, and attached.
Queried(op, owners, a, W, F, found, h) ==
    /\ owners = Owners(heap, op) /\ owners # <<>>
    /\ Last(op.path) \in Links(heap[owners[1].obj].row)
    /\ a = Ref(heap[owners[1].obj].row, Last(op.path))
    /\ W = UNION {Wanted(a, r, op) : r \in {heap[w.obj].row : w \in ToSet(owners)}}
    /\ F \subseteq W
    /\ found \in SetToSeqs(F)
    /\ h = AttachAll(heap, a, owners, found)

\* A query without an error: it finds what is wanted when no row is missing.
LEMMA FetchRan ==
    ASSUME IInv, NEW op \in todo, NEW P, Labels(heap, roots, P),
           NEW owners, NEW a, NEW W, NEW F, NEW found, NEW h,
           Queried(op, owners, a, W, F, found, h)
    PROVE  /\ Fetching(heap, roots, P, op.path, a, owners)
           /\ Fetched(heap, h, a, owners, F)
           /\ Finds(heap, a, owners, op, W)
<1>1. Typed /\ RightOwner /\ InOrder
  BY DEF IInv
<1>2. /\ owners = Owners(heap, op) /\ owners # <<>>
      /\ Last(op.path) \in Links(heap[owners[1].obj].row)
      /\ a = Ref(heap[owners[1].obj].row, Last(op.path))
      /\ W = UNION {Wanted(a, r, op) : r \in {heap[w.obj].row : w \in ToSet(owners)}}
      /\ F \subseteq W /\ found \in SetToSeqs(F) /\ h = AttachAll(heap, a, owners, found)
  BY DEF Queried
<1>3. op \in Operations(asked) /\ op.path \in Seq(STRING) /\ op.path # <<>>
  <2>1. op \in Operations(asked)
    BY <1>1 DEF Typed
  <2> QED
    BY <1>1, <2>1, TypedOperations
<1>4. Fetching(heap, roots, P, op.path, a, owners)
  <2>1. Sound(heap)
    BY <1>1, SoundOwner
  <2>2. HeapOK(heap) /\ roots \in 1..Len(heap) /\ OneModel(heap, roots)
    BY <1>1 DEF Typed, OneModel
  <2>3. owners = Walk(heap, roots, Front(op.path))
    BY <1>2 DEF Owners
  <2> QED
    BY <1>2, <1>3, <2>1, <2>2, <2>3 DEF Fetching
<1>5. Ready(heap, a, owners) /\ a.name = Last(op.path)
  BY <1>4, FetchReady
<1>7. F \subseteq Row
  <2>1. op.keep \subseteq Row
    BY <1>1, <1>3, TypedOperations
  <2>2. W \subseteq Row
    BY <1>2, <2>1, Zenon DEF Wanted
  <2> QED
    BY <1>2, <2>2
<1>8. found \in Seq(Row) /\ ToSet(found) = F /\ \A i, j \in DOMAIN found : i # j => found[i] # found[j]
  <2>1. IsFiniteSet(F)
    BY <1>7, FS_Subset, RowsAssumption
  <2>2. found \in Seq(F) /\ ToSet(found) = F /\ \A i, j \in DOMAIN found : i # j => found[i] # found[j]
    BY <1>2, <2>1, SeqsFacts
  <2> QED
    BY <1>7, <2>2
<1>9. Fetched(heap, h, a, owners, F)
  <2>1. Fetched(heap, AttachAll(heap, a, owners, found), a, owners, ToSet(found))
    BY <1>5, <1>8, AttachAllFetched
  <2> QED
    BY <1>2, <1>8, <2>1
<1>10. Finds(heap, a, owners, op, W)
  BY <1>2 DEF Finds
<1> QED
  BY <1>4, <1>9, <1>10

LEMMA FetchInv ==
    ASSUME IInv, status = "running", NEW op \in Level(todo),
           NEW P, Labels(heap, roots, P), FirstCall(P), NEW a, NEW owners, NEW F,
           Fetching(heap, roots, P, op.path, a, owners), Fetched(heap, heap', a, owners, F),
           op \in cut' \/ Finds(heap, a, owners, op, F), Done(op),
           cut \subseteq cut', cut' \subseteq cut \cup {op}
    PROVE  IInv'
<1>1. Typed /\ RightOwner /\ InOrder
  BY DEF IInv
<1>2. Labels(heap, roots, P) /\ FirstCall(P)
  OBVIOUS
<1>3. /\ op \in todo /\ Ran' = Ran \cup {op} /\ todo' \subseteq Operations(asked)
      /\ op.path \in Seq(STRING) /\ op.path # <<>> /\ op \in Operations(asked)
      /\ roots' = roots /\ asked' = asked /\ status' = status /\ calls' = calls
      /\ archived' = archived
      /\ \A d \in Ran : d.path \in Seq(STRING) /\ d.path # <<>> /\ d.path # op.path
  BY <1>1, DoneFacts
<1>4. Fetching(heap, roots, P, op.path, a, owners)
  OBVIOUS
<1>9. /\ Fetched(heap, heap', a, owners, F)
      /\ op \in cut' \/ Finds(heap, a, owners, op, F)
      /\ cut \subseteq cut' /\ cut' \subseteq cut \cup {op}
  OBVIOUS
<1>5. Ready(heap, a, owners) /\ a.name = Last(op.path)
  BY <1>4, FetchReady
<1>6. \A j \in DOMAIN owners : P[owners[j].obj] = Front(op.path)
  <2> SUFFICES ASSUME NEW j \in DOMAIN owners PROVE P[owners[j].obj] = Front(op.path)
    OBVIOUS
  <2>1. owners[j].obj \in DOMAIN heap
    BY <1>5, OwnerFacts
  <2>2. Fetching(heap, roots, P, op.path, a, owners)
    BY <1>4
  <2> QED
    BY <2>2, FetchLabel
<1>10. Grew(heap, heap', a, owners)
  BY <1>9 DEF Fetched
<1>11. HeapOK(heap') /\ Len(heap) <= Len(heap') /\ DOMAIN heap = 1..Len(heap)
       /\ DOMAIN heap' = 1..Len(heap') /\ Len(heap) \in Nat /\ Len(heap') \in Nat
       /\ HeapOK(heap) /\ roots \in 1..Len(heap)
  <2>1. HeapOK(heap') /\ Len(heap) <= Len(heap')
    BY <1>10 DEF Grew
  <2>2. HeapOK(heap) /\ roots \in 1..Len(heap)
    BY <1>1 DEF Typed
  <2>3. DOMAIN heap = 1..Len(heap) /\ Len(heap) \in Nat
    BY <2>2 DEF HeapOK
  <2>4. DOMAIN heap' = 1..Len(heap') /\ Len(heap') \in Nat
    BY <2>1 DEF HeapOK
  <2> QED
    BY <2>1, <2>2, <2>3, <2>4
<1>12. Typed'
  <2>1. roots \in 1..Len(heap')
    BY <1>11
  <2>2. \A i \in 1..roots : heap'[i].row = heap[i].row
    <3>1. \A i \in 1..roots : i \in 1..Len(heap)
      BY <1>11
    <3> QED
      BY <1>10, <3>1 DEF Grew
  <2>3. \A i \in 1..roots : Of[heap'[i].row] = Of[heap'[1].row]
    <3>1. 1 \in 1..roots
      BY <1>11
    <3>2. \A i \in 1..roots : Of[heap[i].row] = Of[heap[1].row]
      BY <1>1 DEF Typed
    <3> QED
      BY <2>2, <3>1, <3>2
  <2>4. cut' \subseteq Ran'
    BY <1>1, <1>3, <1>9 DEF Typed
  <2> QED
    BY <1>1, <1>3, <1>11, <2>1, <2>3, <2>4 DEF Typed
<1>13. RightOwner'
  BY <1>4, <1>10, GrewSound, SoundOwnerNext
<1>14. \A d \in Ran : Len(d.path) <= Len(op.path) /\ Served(heap, d, cut)
  BY <1>1, <1>3 DEF InOrder
<1>15. InOrder'
  <2>1. \A d \in Ran : Served(heap', d, cut)
    BY <1>3, <1>4, <1>10, <1>14, GrewServed
  <2>2. Served(heap', op, cut')
    BY <1>4, <1>9, FetchServed
  <2> QED
    BY <1>1, <1>9, <2>1, <2>2, DoneInOrder
<1>16. PICK Q : Q = More(heap, heap', P, op.path)
  OBVIOUS
<1>17. Labels(heap, roots, Q)'
  <2>1. Labels(heap', roots, Q)
    BY <1>4, <1>10, <1>16, GrewLabels
  <2> QED
    BY <1>3, <2>1
<1>18. FirstCall(Q)'
  <2>1. calls' # 0
    BY <1>1, <1>3 DEF Typed
  <2>2. ASSUME calls = 1, NEW i \in DOMAIN heap', NEW n \in Links(heap'[i].row),
               heap'[i].links[n] # <<>>
        PROVE  \E d \in Ran \cup {op} : d.path = Append(Q[i], n)
    <3>1. /\ i \notin DOMAIN heap => heap'[i].links[n] = <<>>
          /\ i \in DOMAIN heap => /\ heap'[i].row = heap[i].row
                                  /\ i \notin Open(owners) \/ n # a.name =>
                                         heap'[i].links[n] = heap[i].links[n]
      BY <1>5, <1>10, GrewLinks
    <3>2. i \in DOMAIN heap /\ n \in Links(heap[i].row)
      BY <2>2, <3>1
    <3>3. Q[i] = P[i]
      BY <1>11, <1>16, <3>2 DEF More
    <3>4. CASE i \in Open(owners) /\ n = a.name
      <4>1. P[i] = Front(op.path)
        BY <1>4, <3>4, FetchOpen
      <4>2. op.path = Append(Front(op.path), Last(op.path))
        BY <1>3, FrontFacts
      <4> QED
        BY <1>5, <3>3, <3>4, <4>1, <4>2
    <3>5. CASE i \notin Open(owners) \/ n # a.name
      <4>1. heap[i].links[n] # <<>>
        BY <2>2, <3>1, <3>2, <3>5
      <4>2. \E d \in Ran : d.path = Append(P[i], n)
        BY <1>2, <2>2, <3>2, <4>1 DEF FirstCall
      <4> QED
        BY <3>3, <4>2
    <3> QED
      BY <3>4, <3>5
  <2>3. ASSUME calls = 1, NEW d \in Ran PROVE Once(heap, d)'
    <3>1. Once(heap, d)
      BY <1>2, <2>3 DEF FirstCall
    <3>2. Once(heap', d)
      BY <1>3, <1>4, <1>10, <1>14, <3>1, GrewOnce
    <3> QED
      BY <1>3, <3>2, OnceNext
  <2>4. ASSUME calls = 1 PROVE Once(heap, op)'
    <3>1. ASSUME NEW j \in DOMAIN owners PROVE heap[owners[j].obj].links[a.name] = <<>>
      <4> SUFFICES ASSUME heap[owners[j].obj].links[a.name] # <<>> PROVE FALSE
        OBVIOUS
      <4>1. owners[j].obj \in DOMAIN heap /\ a.name \in Links(heap[owners[j].obj].row)
        BY <1>5, OwnerFacts
      <4>2. PICK d \in Ran : d.path = Append(P[owners[j].obj], a.name)
        BY <1>2, <2>4, <4>1 DEF FirstCall
      <4>3. P[owners[j].obj] = Front(op.path)
        BY <1>6
      <4>4. op.path = Append(Front(op.path), Last(op.path))
        BY <1>3, FrontFacts
      <4> QED
        BY <1>3, <1>5, <4>2, <4>3, <4>4
    <3>2. Empty(heap, a, owners)
      BY <3>1 DEF Empty
    <3>3. Once(heap', op)
      BY <1>4, <1>9, <3>2, FetchOnce
    <3> QED
      BY <1>3, <3>3, OnceNext
  <2>5. calls' = 1 => \A d \in Ran' : Once(heap, d)'
    BY <1>3, <2>3, <2>4
  <2>6. calls' = 1 => \A i \in DOMAIN heap' : \A n \in Links(heap'[i].row) :
            heap'[i].links[n] # <<>> => \E d \in Ran' : d.path = Append(Q[i], n)
    BY <1>3, <2>2
  <2> QED
    BY <2>1, <2>5, <2>6 DEF FirstCall
<1> QED
  BY <1>12, <1>13, <1>15, <1>17, <1>18 DEF IInv

\* An operation, whatever comes of it.
LEMMA RunInv ==
    ASSUME IInv, NEW op \in todo, Run(op, Owners(heap, op))
    PROVE  IInv'
<1> DEFINE owners == Owners(heap, op)
           r == heap[owners[1].obj].row
           n == Last(op.path)
           a == Ref(r, n)
           rows == {heap[w.obj].row : w \in ToSet(owners)}
           W == UNION {Wanted(a, x, op) : x \in rows}
<1>1. status = "running" /\ op \in Level(todo)
  BY DEF Run
<1>2. CASE owners = <<>> /\ Done(op) /\ UNCHANGED <<heap, cut>>
  BY <1>1, <1>2, EmptyInv
<1>3. CASE owners # <<>> /\ n \notin Links(r) /\ Fail
  BY <1>3, FailInv
<1>4. CASE owners # <<>> /\ n \in Links(r) /\ Fetch(op, a, owners, rows)
  <2>1. \/ Fail
        \/ Done(op) /\ \E read \in SUBSET W :
               /\ \E found \in SetToSeqs(read) : heap' = AttachAll(heap, a, owners, found)
               /\ cut' = IF read = W THEN cut ELSE cut \cup {op}
    <3> HIDE DEF owners, a, rows
    <3> QED
      BY <1>4, Zenon DEF Fetch
  <2>2. CASE Fail
    BY <2>2, FailInv
  <2>3. CASE Done(op) /\ \E read \in SUBSET W :
               /\ \E found \in SetToSeqs(read) : heap' = AttachAll(heap, a, owners, found)
               /\ cut' = IF read = W THEN cut ELSE cut \cup {op}
    <3>1. PICK F \in SUBSET W :
              /\ \E found \in SetToSeqs(F) : heap' = AttachAll(heap, a, owners, found)
              /\ cut' = IF F = W THEN cut ELSE cut \cup {op}
      BY <2>3
    <3>2. PICK found \in SetToSeqs(F) : heap' = AttachAll(heap, a, owners, found)
      BY <3>1
    <3>3. PICK v : v = owners
      OBVIOUS
    <3>4. PICK b : b = a
      OBVIOUS
    <3>5. PICK G : G = W
      OBVIOUS
    <3>6. PICK P : Labels(heap, roots, P) /\ FirstCall(P)
      BY DEF IInv
    <3>7. Queried(op, v, b, G, F, found, heap')
      BY <1>4, <3>2, <3>3, <3>4, <3>5, Zenon DEF Queried
    <3>8. cut' = IF F = G THEN cut ELSE cut \cup {op}
      BY <3>1, <3>5
    <3> HIDE DEF owners, r, n, a, rows, W
    <3>9. op \in todo
      BY <1>1 DEF Level
    <3>10. /\ Fetching(heap, roots, P, op.path, b, v)
           /\ Fetched(heap, heap', b, v, F)
           /\ Finds(heap, b, v, op, G)
      BY <3>6, <3>7, <3>9, FetchRan
    <3>11. op \in cut' \/ Finds(heap, b, v, op, F)
      BY <3>8, <3>10
    <3>12. cut \subseteq cut' /\ cut' \subseteq cut \cup {op}
      BY <3>8
    <3> QED
      BY <1>1, <2>3, <3>6, <3>10, <3>11, <3>12, FetchInv
  <2> QED
    BY <2>1, <2>2, <2>3
<1>5. \/ owners = <<>> /\ Done(op) /\ UNCHANGED <<heap, cut>>
      \/ owners # <<>> /\ n \notin Links(r) /\ Fail
      \/ owners # <<>> /\ n \in Links(r) /\ Fetch(op, a, owners, rows)
  BY Zenon DEF Run
<1> QED
  BY <1>2, <1>3, <1>4, <1>5

\* Every step keeps the invariant.
LEMMA NextInv == IInv /\ [Next]_vars => IInv'
<1> SUFFICES ASSUME IInv, [Next]_vars PROVE IInv'
  OBVIOUS
<1>0. Typed
  BY DEF IInv
<1>1. CASE \E ask \in Asks : Start(ask)
  BY <1>1, StartInv
<1>2. CASE \E op \in todo : Run(op, Owners(heap, op))
  BY <1>2, RunInv
<1>3. CASE Return
  BY <1>0, <1>3, KeptInv DEF Return, Typed
<1>4. CASE \E r \in Row : Archive(r)
  <2>1. PICK r \in Row : Archive(r)
    BY <1>4
  <2> QED
    BY <1>0, <2>1, KeptInv DEF Archive, Typed
<1>5. CASE UNCHANGED vars
  BY <1>0, <1>5, KeptInv DEF vars, Typed
<1> QED
  BY <1>1, <1>2, <1>3, <1>4, <1>5 DEF Next

\* After any number of calls, failed or not, with any handlers: the types, the right owners,
\* every operation that has run served unless its result broke off (helpers.go:155), and
\* labels for the objects.
THEOREM PreloadKeeps == Spec => []IInv
BY InitInv, NextInv, PTL DEF Spec

\* Links lead to objects of the heap, and a call that is over has nothing left to do, so
\* the next one starts with its own operations (preload.go:37), for any rows, handlers
\* and number of calls.
THEOREM TypeCorrect == Spec => []TypeOK
<1>1. IInv => TypeOK
  <2> SUFFICES ASSUME IInv PROVE TypeOK
    OBVIOUS
  <2>1. Typed /\ HeapOK(heap)
    BY DEF IInv, Typed
  <2>2. ASSUME NEW i \in DOMAIN heap
        PROVE  /\ heap[i].row \in Row /\ DOMAIN heap[i].links = Links(heap[i].row)
               /\ \A n \in Links(heap[i].row) : ToSet(heap[i].links[n]) \subseteq DOMAIN heap
    <3>1. heap[i].row \in Row /\ heap[i].links \in [Links(heap[i].row) -> Seq(Nat)]
      BY <2>1, ObjectFacts
    <3>2. \A n \in Links(heap[i].row) : ToSet(heap[i].links[n]) \subseteq DOMAIN heap
      BY <2>1 DEF HeapOK, Closed
    <3> QED
      BY <3>1, <3>2
  <2> QED
    BY <2>1, <2>2 DEF TypeOK, Typed, Ran
<1> QED
  BY <1>1, PreloadKeeps, PTL

\* For any rows, associations and handlers: what an association holds has the key of the
\* instance that holds it, after calls that succeeded, and while others run or have failed
\* half way (reflectx/preload.go:89).
THEOREM OwnersAreRight == Spec => []RightOwner
<1>1. IInv => RightOwner
  BY DEF IInv
<1> QED
  BY <1>1, PreloadKeeps, PTL

\* For any paths and handlers: after a call without an error every instance of every path
\* whose own result did not break off holds what its handler asks for, whatever broke off
\* on other paths, whatever the operations of deeper levels attached since and in which
\* order those of one level ran (preload.go:184).
THEOREM NothingIsLost == Spec => []NothingLost
<1>1. IInv => NothingLost
  <2> SUFFICES ASSUME IInv, status = "ok", NEW op \in Operations(asked) \ cut,
                      NEW w \in ToSet(Owners(heap, op))
               PROVE  w.copy \/ Holds(w, op)
    BY DEF NothingLost
  <2>1. todo = {} /\ op \in Ran
    BY DEF IInv, Typed, Ran
  <2>2. Served(heap, op, cut)
    BY <2>1 DEF IInv, InOrder
  <2> QED
    BY <2>2 DEF Served, Holds
<1> QED
  BY <1>1, PreloadKeeps, PTL

\* For any rows and handlers: a first call gives a row once to an instance that the walker
\* reaches once (reflectx/walker.go:156).
THEOREM OnceIsOnce == Spec => []OnceUnlessShared
<1>1. IInv => OnceUnlessShared
  <2> SUFFICES ASSUME IInv, calls = 1, status = "ok", NEW op \in Operations(asked),
                      NEW i \in DOMAIN Owners(heap, op)
               PROVE  LET owners == Owners(heap, op)
                          n      == Last(op.path)
                      IN  \/ \E j \in DOMAIN owners : j # i /\ owners[j].obj = owners[i].obj
                          \/ Cardinality(Held(heap, owners[i].obj, n))
                             = Len(heap[owners[i].obj].links[n])
    BY DEF OnceUnlessShared
  <2> DEFINE owners == Owners(heap, op)
             n == Last(op.path)
             o == owners[i].obj
  <2>1. Typed /\ HeapOK(heap) /\ op \in Ran
    BY DEF IInv, Typed, Ran
  <2>2. PICK P : Labels(heap, roots, P) /\ FirstCall(P)
    BY DEF IInv
  <2>3. Once(heap, op) /\ Served(heap, op, cut)
    BY <2>1, <2>2 DEF IInv, InOrder, FirstCall
  <2>4. owners[i] \in ToSet(owners)
    BY DEF ToSet
  <2>5. n \in Links(heap[o].row)
    BY <2>3, <2>4 DEF Served
  <2>6. o \in DOMAIN heap
    <3>1. op.path \in Seq(STRING) /\ op.path # <<>>
      BY <2>1, TypedOperations
    <3>2. Front(op.path) \in Seq(STRING) /\ roots \in 0..Len(heap)
      BY <2>1, <3>1, FrontFacts DEF Typed, HeapOK
    <3>3. \A w \in ToSet(Owners(heap, op)) : w.obj \in DOMAIN heap
      BY <2>1, <2>2, <3>2, WalkLabel DEF Owners
    <3> QED
      BY <2>4, <3>3
  <2>7. heap[o].links[n] \in Seq(Nat)
    BY <2>1, <2>5, <2>6, ObjectFacts
  <2>8. (\E j \in DOMAIN owners : j # i /\ owners[j].obj = o) \/ Distinct(heap, o, n)
    BY <2>3 DEF Once
  <2>9. Distinct(heap, o, n) => Cardinality(Held(heap, o, n)) = Len(heap[o].links[n])
    BY <2>7, HeldCount
  <2> QED
    BY <2>8, <2>9, Zenon
<1> QED
  BY <1>1, PreloadKeeps, PTL
==============================================================================
