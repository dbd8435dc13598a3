---------------------------- MODULE SqlTx_proofs ----------------------------
(***************************************************************************)
(* Lemmas about SqlTx: its operations keep the database state well typed   *)
(* and change at most the session they are applied to.                     *)
(***************************************************************************)
EXTENDS SqlTx, SequenceTheorems, TLAPS

\* Replacing the writes at one position of a stack, even one that is not there,
\* gives a stack of layers.
LEMMA WritesAt ==
    ASSUME NEW s \in Seq(Layer), NEW i, NEW ws \in SUBSET Node
    PROVE  [s EXCEPT ![i].writes = ws] \in Seq(Layer)
<1>1. DOMAIN s = 1..Len(s)
  BY LenProperties
<1>2. CASE i \in 1..Len(s)
  <2>1. s[i] \in Layer
    BY <1>2, ElementOfSeq
  <2>2. [s[i] EXCEPT !.writes = ws] \in Layer
    BY <2>1 DEF Layer
  <2> HIDE DEF Layer
  <2> QED
    BY <1>2, <2>2, ExceptSeq
<1>3. CASE i \notin 1..Len(s)
  <2>1. [s EXCEPT ![i].writes = ws] = [j \in 1..Len(s) |-> s[j]]
    BY <1>1, <1>3
  <2>2. [j \in 1..Len(s) |-> s[j]] = s
    BY LenProperties
  <2> QED
    BY <2>1, <2>2
<1> QED
  BY <1>2, <1>3

\* The edits of a stack of layers return a stack of layers.
LEMMA StackEdits ==
    ASSUME NEW s \in Seq(Layer), NEW w \in Node, NEW i \in DOMAIN s
    PROVE  /\ AddToTop(s, w) \in Seq(Layer)
           /\ MergeDown(s, i) \in Seq(Layer)
           /\ ResetTo(s, i) \in Seq(Layer)
<1>1. /\ Len(s) \in Nat
      /\ DOMAIN s = 1..Len(s)
      /\ \A j \in 1..Len(s) : s[j] \in Layer
  BY LenProperties, ElementOfSeq
<1>2. AddToTop(s, w) \in Seq(Layer)
  <2>1. s[Len(s)].writes \cup {w} \in SUBSET Node
    BY <1>1 DEF Layer
  <2> QED
    BY <2>1, WritesAt DEF AddToTop
<1>3. SubSeq(s, 1, i - 1) \in Seq(Layer)
  BY <1>1, SubSeqProperties
<1>4. MergeDown(s, i) \in Seq(Layer)
  <2>1. CASE i = 1
    <3>1. SubSeq(s, 1, i - 1) = <<>>
      BY <2>1, SubSeqEmpty
    <3>2. \A ws : [<<>> EXCEPT ![i - 1].writes = ws] = <<>>
      OBVIOUS
    <3> QED
      BY <3>1, <3>2, <1>3 DEF MergeDown
  <2>2. CASE i # 1
    <3>1. \A j \in (i - 1)..Len(s) : s[j].writes \in SUBSET Node
      BY <1>1, <2>2 DEF Layer
    <3>2. UNION {s[j].writes : j \in (i - 1)..Len(s)} \in SUBSET Node
      BY <3>1
    <3> QED
      BY <3>2, <1>3, WritesAt DEF MergeDown
  <2> QED
    BY <2>1, <2>2
<1>5. ResetTo(s, i) \in Seq(Layer)
  <2>1. [s[i] EXCEPT !.writes = {}] \in Layer
    BY <1>1 DEF Layer
  <2> QED
    BY <1>3, <2>1, AppendProperties DEF ResetTo
<1> QED
  BY <1>2, <1>4, <1>5

\* What they leave at every position of the stack.
LEMMA TopAfter ==
    ASSUME NEW s \in Seq(Layer), s # <<>>, NEW w \in Node
    PROVE  LET r == AddToTop(s, w)
           IN  /\ Len(r) = Len(s)
               /\ \A j \in 1..Len(s) :
                      /\ r[j].sp = s[j].sp
                      /\ r[j].writes = IF j = Len(s) THEN s[j].writes \cup {w} ELSE s[j].writes
<1>1. /\ Len(s) \in Nat \ {0}
      /\ DOMAIN s = 1..Len(s)
      /\ \A j \in 1..Len(s) : s[j] \in Layer
  BY LenProperties, ElementOfSeq, EmptySeq
<1>2. AddToTop(s, w) = [s EXCEPT ![Len(s)] = [s[Len(s)] EXCEPT !.writes = @ \cup {w}]]
  BY DEF AddToTop
<1>3. [s[Len(s)] EXCEPT !.writes = @ \cup {w}] \in Layer
  BY <1>1 DEF Layer
<1>4. \A j \in 1..Len(s) : AddToTop(s, w)[j] =
          IF j = Len(s) THEN [s[Len(s)] EXCEPT !.writes = @ \cup {w}] ELSE s[j]
  BY <1>1, <1>2, <1>3, ExceptSeq
<1>5. Len(AddToTop(s, w)) = Len(s)
  BY <1>1, <1>2, <1>3, ExceptSeq
<1>6. s[Len(s)] \in [sp : Node \cup {None}, writes : SUBSET Node]
  BY <1>1 DEF Layer
<1> QED
  BY <1>4, <1>5, <1>6

LEMMA MergeAfter ==
    ASSUME NEW s \in Seq(Layer), NEW i \in 2..Len(s)
    PROVE  LET r == MergeDown(s, i)
           IN  /\ Len(r) = i - 1
               /\ \A j \in 1..(i - 1) :
                      /\ r[j].sp = s[j].sp
                      /\ r[j].writes = IF j = i - 1 THEN UNION {s[k].writes : k \in (i - 1)..Len(s)}
                                       ELSE s[j].writes
<1> DEFINE low == SubSeq(s, 1, i - 1)
           all == UNION {s[k].writes : k \in (i - 1)..Len(s)}
<1>1. Len(s) \in Nat /\ \A j \in 1..Len(s) : s[j] \in Layer
  BY LenProperties, ElementOfSeq
<1>2. /\ low \in Seq(Layer)
      /\ Len(low) = i - 1
      /\ \A j \in 1..(i - 1) : low[j] = s[j]
  BY <1>1, SubSeqProperties
<1>3. all \in SUBSET Node
  BY <1>1 DEF Layer
<1>4. s[i - 1] \in [sp : Node \cup {None}, writes : SUBSET Node]
  BY <1>1 DEF Layer
<1>5. [low[i - 1] EXCEPT !.writes = all] \in Layer
  BY <1>2, <1>3, <1>4 DEF Layer
<1>6. MergeDown(s, i) = [low EXCEPT ![i - 1] = [low[i - 1] EXCEPT !.writes = all]]
  BY DEF MergeDown
<1> HIDE DEF low, all
<1>7. /\ Len(MergeDown(s, i)) = i - 1
      /\ \A j \in 1..(i - 1) : MergeDown(s, i)[j] =
             IF j = i - 1 THEN [low[i - 1] EXCEPT !.writes = all] ELSE low[j]
  BY <1>2, <1>5, <1>6, ExceptSeq
<1>8. low[i - 1] \in [sp : Node \cup {None}, writes : SUBSET Node] /\ low[i - 1].sp = s[i - 1].sp
  BY <1>2, <1>4
<1>9. [low[i - 1] EXCEPT !.writes = all].sp = s[i - 1].sp
      /\ [low[i - 1] EXCEPT !.writes = all].writes = all
  BY <1>8
<1> QED
  BY <1>2, <1>7, <1>9 DEF all

LEMMA ResetAfter ==
    ASSUME NEW s \in Seq(Layer), NEW i \in 1..Len(s)
    PROVE  LET r == ResetTo(s, i)
           IN  /\ Len(r) = i
               /\ \A j \in 1..i : /\ r[j].sp = s[j].sp
                                  /\ r[j].writes = IF j = i THEN {} ELSE s[j].writes
<1>1. Len(s) \in Nat /\ \A j \in 1..Len(s) : s[j] \in Layer
  BY LenProperties, ElementOfSeq
<1>2. /\ SubSeq(s, 1, i - 1) \in Seq(Layer)
      /\ Len(SubSeq(s, 1, i - 1)) = i - 1
      /\ \A j \in 1..(i - 1) : SubSeq(s, 1, i - 1)[j] = s[j]
  BY <1>1, SubSeqProperties
<1>3. s[i] \in [sp : Node \cup {None}, writes : SUBSET Node]
  BY <1>1 DEF Layer
<1>4. [s[i] EXCEPT !.writes = {}] \in Layer
  BY <1>3 DEF Layer
<1>5. /\ Len(ResetTo(s, i)) = i
      /\ ResetTo(s, i)[i] = [s[i] EXCEPT !.writes = {}]
      /\ \A j \in 1..(i - 1) : ResetTo(s, i)[j] = s[j]
  BY <1>2, <1>4, AppendProperties DEF ResetTo
<1>6. \A j \in 1..i : j = i \/ j \in 1..(i - 1)
  BY <1>1
<1> QED
  BY <1>2, <1>3, <1>5, <1>6

\* A pending write is a write, so what COMMIT adds to durable are writes.
LEMMA PendingType ==
    ASSUME DbTypeOK, NEW t \in Node
    PROVE  Pending(t) \in SUBSET Node
<1>1. session[t].layers \in Seq(Layer)
  BY DEF DbTypeOK, Session
<1>2. \A i \in DOMAIN session[t].layers : session[t].layers[i].writes \in SUBSET Node
  <2>1. \A i \in DOMAIN session[t].layers : session[t].layers[i] \in Layer
    BY <1>1, LenProperties, ElementOfSeq
  <2> QED
    BY <2>1 DEF Layer
<1> QED
  BY <1>2 DEF Pending

\* A statement in a session, accepted or refused, keeps its connection: it
\* neither begins nor ends any session.
LEMMA StatementKeepsSessions ==
    ASSUME DbTypeOK, NEW t \in Node, NEW id \in Node,
           \/ Write(t, id) \/ Refuse(t) \/ Savepoint(t, id)
           \/ Release(t, id) \/ RollbackTo(t, id)
    PROVE  /\ DbTypeOK'
           /\ \A u \in Node : /\ Held(u)' <=> Held(u)
                              /\ session'[u].state = "idle" <=> session[u].state = "idle"
<1>1. /\ session \in [Node -> Session]
      /\ session[t].layers \in Seq(Layer)
      /\ durable \in SUBSET Node
  BY DEF DbTypeOK, Session
<1>2. CASE Write(t, id)
  <2>1. AddToTop(session[t].layers, id) \in Seq(Layer)
    <3>1. CASE session[t].layers = <<>>
      <4>1. \A i, ws : [<<>> EXCEPT ![i].writes = ws] = <<>>
        OBVIOUS
      <4>2. AddToTop(<<>>, id) = <<>>
        BY <4>1 DEF AddToTop
      <4> QED
        BY <3>1, <4>2, <1>1
    <3>2. CASE session[t].layers # <<>>
      <4>1. 1 \in DOMAIN session[t].layers
        BY <3>2, <1>1, LenProperties, EmptySeq
      <4> QED
        BY <4>1, <1>1, StackEdits
    <3> QED
      BY <3>1, <3>2
  <2> QED
    BY <1>1, <1>2, <2>1 DEF Write, DbTypeOK, Session, Held
<1>3. CASE Refuse(t)
  <2>1. PICK st \in {"idle", "open", "aborted", "lost", "done"} :
            /\ session' = [session EXCEPT ![t].state = st]
            /\ st = "idle" <=> session[t].state = "idle"
    BY <1>1, <1>3 DEF Refuse, Session, Held
  <2> QED
    BY <1>1, <1>3, <2>1 DEF Refuse, DbTypeOK, Session, Held
<1>4. CASE Savepoint(t, id)
  <2>1. Append(session[t].layers, [sp |-> id, writes |-> {}]) \in Seq(Layer)
    BY <1>1, AppendProperties DEF Layer
  <2> QED
    BY <1>1, <1>4, <2>1 DEF Savepoint, DbTypeOK, Session, Held
<1>5. CASE Release(t, id)
  <2>1. PICK i \in At(t, id) : session' = [session EXCEPT ![t].layers = MergeDown(@, i)]
    BY <1>5 DEF Release
  <2>2. MergeDown(session[t].layers, i) \in Seq(Layer)
    BY <1>1, StackEdits DEF At
  <2> QED
    BY <1>1, <1>5, <2>1, <2>2 DEF Release, DbTypeOK, Session, Held
<1>6. CASE RollbackTo(t, id)
  <2>1. PICK i \in At(t, id) :
            session' = [session EXCEPT ![t] =
                           [state |-> "open", layers |-> ResetTo(@.layers, i)]]
    BY <1>6 DEF RollbackTo
  <2>2. ResetTo(session[t].layers, i) \in Seq(Layer)
    BY <1>1, StackEdits DEF At
  <2> QED
    BY <1>1, <1>6, <2>1, <2>2 DEF RollbackTo, DbTypeOK, Session, Held
<1> QED
  BY <1>2, <1>3, <1>4, <1>5, <1>6

\* The end of a session gives its connection back and touches no other.
LEMMA EndFreesOne ==
    ASSUME DbTypeOK, NEW t \in Node,
           \/ CommitTx(t) \/ CommitTxFails(t)
           \/ RollbackTx(t) \/ RollbackTxFails(t) \/ ContextDone(t)
    PROVE  /\ DbTypeOK'
           /\ session[t].state # "idle"
           /\ session'[t].state = "done"
           /\ \A u \in Node \ {t} : session'[u] = session[u]
<1>1. /\ session' = [session EXCEPT ![t].state = "done"]
      /\ durable' = durable \/ durable' = durable \cup Pending(t)
      /\ session[t].state # "idle"
  BY DEF CommitTx, CommitTxFails, RollbackTx, RollbackTxFails, ContextDone, Held
<1>2. durable' \in SUBSET Node
  BY <1>1, PendingType DEF DbTypeOK
<1> QED
  BY <1>1, <1>2 DEF DbTypeOK, Session

\* BEGIN takes a connection for one session and touches no other.
LEMMA BeginHoldsOne ==
    ASSUME DbTypeOK, NEW t \in Node, Begin(t)
    PROVE  /\ DbTypeOK'
           /\ session[t].state = "idle"
           /\ session'[t].state = "open"
           /\ \A u \in Node \ {t} : session'[u] = session[u]
<1>1. <<[sp |-> None, writes |-> {}]>> \in Seq(Layer)
  BY DEF Layer
<1> QED
  BY <1>1 DEF Begin, DbTypeOK, Session

------------------------------------------------------------------------------
\* The stack of the session t: its size, the savepoint and the writes of a layer.
Used(t) == session[t].state # "idle"
Size(t) == Len(session[t].layers)
Sp(t, j) == session[t].layers[j].sp
Wr(t, j) == session[t].layers[j].writes

\* A stack that no statement touches.
SameStack(t) == session'[t].layers = session[t].layers

\* A stack that loses its last layers; their writes may move to the new last one.
Cuts(t) == /\ Size(t)' \in 1..Size(t)
           /\ \A j \in 1..(Size(t)') : Sp(t, j)' = Sp(t, j)

Moves(t, w, j) == \E i \in 1..Size(t) : w \in Wr(t, i) /\ j <= i /\ (i = j \/ j = Size(t)')

\* The a-th layer and those above it are merged into the one below, or emptied.
Merges(t, a) ==
    /\ Size(t)' = a - 1
    /\ \A j \in 1..(a - 1) :
           /\ Sp(t, j)' = Sp(t, j)
           /\ Wr(t, j)' = IF j = a - 1 THEN UNION {Wr(t, k) : k \in (a - 1)..Size(t)} ELSE Wr(t, j)
Resets(t, a) ==
    /\ Size(t)' = a
    /\ \A j \in 1..a : /\ Sp(t, j)' = Sp(t, j)
                       /\ Wr(t, j)' = IF j = a THEN {} ELSE Wr(t, j)

LEMMA LayerFacts ==
    ASSUME DbTypeOK, NEW t \in Node
    PROVE  /\ session[t].layers \in Seq(Layer) /\ Size(t) \in Nat
           /\ DOMAIN session[t].layers = 1..Size(t)
           /\ \A j \in 1..Size(t) : Sp(t, j) \in Node \cup {None} /\ Wr(t, j) \in SUBSET Node
<1>1. session[t].layers \in Seq(Layer)
  BY DEF DbTypeOK, Session
<1>2. /\ Size(t) \in Nat /\ DOMAIN session[t].layers = 1..Size(t)
      /\ \A j \in 1..Size(t) : session[t].layers[j] \in Layer
  BY <1>1, LenProperties, ElementOfSeq DEF Size
<1> QED
  BY <1>1, <1>2 DEF Layer, Sp, Wr

\* BEGIN starts with one empty layer.
LEMMA BeginStack ==
    ASSUME DbTypeOK, NEW t \in Node, Begin(t)
    PROVE  Size(t)' = 1 /\ Sp(t, 1)' = None /\ Wr(t, 1)' = {} /\ durable' = durable
<1>1. session'[t].layers = <<[sp |-> None, writes |-> {}]>> /\ durable' = durable
  BY DEF Begin, DbTypeOK
<1> QED
  BY <1>1 DEF Size, Sp, Wr

\* A statement writes into the last layer of its session.
LEMMA WriteToTop ==
    ASSUME DbTypeOK, NEW t \in Node, NEW d \in Node, 1 \in 1..Size(t), Write(t, d)
    PROVE  /\ session[t].state = "open" /\ session'[t].state = "open" /\ durable' = durable
           /\ \A u \in Node \ {t} : session'[u] = session[u]
           /\ Size(t)' = Size(t) /\ Cuts(t) /\ Size(t) \in Nat /\ Size(t) \in 1..Size(t)
           /\ \A j \in 1..Size(t) :
                  /\ Sp(t, j)' = Sp(t, j)
                  /\ Wr(t, j)' = IF j = Size(t) THEN Wr(t, j) \cup {d} ELSE Wr(t, j)
<1>1. session \in [Node -> Session] /\ session[t] \in Session
  BY DEF DbTypeOK
<1>2. session' = [session EXCEPT ![t] = [session[t] EXCEPT !.layers = AddToTop(session[t].layers, d)]]
  BY DEF Write
<1>3. /\ session'[t] = [session[t] EXCEPT !.layers = AddToTop(session[t].layers, d)]
      /\ \A u \in Node \ {t} : session'[u] = session[u]
  BY <1>1, <1>2
<1>4. session'[t].layers = AddToTop(session[t].layers, d) /\ session'[t].state = session[t].state
  BY <1>1, <1>3 DEF Session
<1>5. Size(t) \in Nat /\ Size(t) \in 1..Size(t)
  BY LayerFacts
<1> DEFINE s == session[t].layers
           r == AddToTop(s, d)
<1>6. /\ Len(r) = Len(s)
      /\ \A j \in 1..Len(s) :
             /\ r[j].sp = s[j].sp
             /\ r[j].writes = IF j = Len(s) THEN s[j].writes \cup {d} ELSE s[j].writes
  <2>1. s \in Seq(Layer) /\ s # <<>>
    BY <1>5, LayerFacts, EmptySeq DEF Size
  <2> QED
    BY <2>1, TopAfter
<1>7. /\ Size(t)' = Size(t)
      /\ \A j \in 1..Size(t) :
           /\ Sp(t, j)' = Sp(t, j)
           /\ Wr(t, j)' = IF j = Size(t) THEN Wr(t, j) \cup {d} ELSE Wr(t, j)
  BY <1>4, <1>6 DEF Size, Sp, Wr
<1> QED
  BY <1>3, <1>4, <1>5, <1>7 DEF Write, Cuts

\* SAVEPOINT m adds an empty layer.
LEMMA SavepointOnTop ==
    ASSUME DbTypeOK, NEW t \in Node, NEW m \in Node, Savepoint(t, m),
           NEW top \in Nat \ {0}, top = Size(t) + 1
    PROVE  /\ session[t].state = "open" /\ session'[t].state = "open" /\ durable' = durable
           /\ \A u \in Node \ {t} : session'[u] = session[u]
           /\ Size(t)' = top /\ Sp(t, top)' = m /\ Wr(t, top)' = {}
           /\ \A j \in 1..Size(t) : Sp(t, j)' = Sp(t, j) /\ Wr(t, j)' = Wr(t, j)
<1>1. session \in [Node -> Session] /\ session[t] \in Session
  BY DEF DbTypeOK
<1> DEFINE e == [sp |-> m, writes |-> {}]
           s == session[t].layers
           r == Append(s, e)
<1>2. session' = [session EXCEPT ![t] = [session[t] EXCEPT !.layers = r]]
  BY DEF Savepoint
<1>3. /\ session'[t] = [session[t] EXCEPT !.layers = r]
      /\ \A u \in Node \ {t} : session'[u] = session[u]
  BY <1>1, <1>2
<1>4. session'[t].layers = r /\ session'[t].state = session[t].state
  BY <1>1, <1>3 DEF Session
<1>5. s \in Seq(Layer) /\ e \in Layer /\ e.sp = m /\ e.writes = {}
  BY LayerFacts DEF Layer
<1> HIDE DEF e
<1>6. Len(r) = Len(s) + 1 /\ r[Len(s) + 1] = e /\ \A j \in 1..Len(s) : r[j] = s[j]
  BY <1>5, AppendProperties
<1>7. /\ Size(t)' = top /\ Sp(t, top)' = m /\ Wr(t, top)' = {}
      /\ \A j \in 1..Size(t) : Sp(t, j)' = Sp(t, j) /\ Wr(t, j)' = Wr(t, j)
  BY <1>4, <1>5, <1>6 DEF Size, Sp, Wr
<1> QED
  BY <1>3, <1>4, <1>7 DEF Savepoint

\* RELEASE SAVEPOINT x and ROLLBACK TO SAVEPOINT x find x above the first layer.
LEMMA FindsSavepoint ==
    ASSUME DbTypeOK, NEW t \in Node, NEW x, Sp(t, 1) # x
    PROVE  \A b \in At(t, x) : /\ b \in 2..Size(t) /\ Sp(t, b) = x
                               /\ session[t].layers \in Seq(Layer) /\ b \in 1..Size(t)
<1> SUFFICES ASSUME NEW b \in At(t, x)
             PROVE  b \in 2..Size(t) /\ Sp(t, b) = x
  BY LayerFacts
<1>1. b \in 1..Size(t) /\ Sp(t, b) = x /\ Size(t) \in Nat
  BY LayerFacts DEF At, Sp
<1>2. b # 1
  BY <1>1
<1> QED
  BY <1>1, <1>2

LEMMA ReleaseMerges ==
    ASSUME DbTypeOK, NEW t \in Node, NEW x, Sp(t, 1) # x, Release(t, x)
    PROVE  /\ \E a \in 2..Size(t) : Sp(t, a) = x /\ Merges(t, a)
           /\ session[t].state = "open" /\ session'[t].state = "open" /\ durable' = durable
           /\ \A u \in Node \ {t} : session'[u] = session[u]
<1>1. PICK a \in At(t, x) : session' = [session EXCEPT ![t].layers = MergeDown(@, a)]
  BY DEF Release
<1>2. /\ a \in 2..Size(t) /\ Sp(t, a) = x
      /\ session[t].layers \in Seq(Layer) /\ a \in 1..Size(t) /\ Size(t) \in Nat
  BY FindsSavepoint, LayerFacts
<1>3. session \in [Node -> Session] /\ session[t] \in Session
  BY DEF DbTypeOK
<1>4. /\ session'[t].layers = MergeDown(session[t].layers, a)
      /\ session'[t].state = session[t].state
      /\ \A u \in Node \ {t} : session'[u] = session[u]
  BY <1>1, <1>3 DEF Session
<1>5. Merges(t, a)
  <2> DEFINE s == session[t].layers
             r == MergeDown(s, a)
  <2>1. /\ Len(r) = a - 1
        /\ \A j \in 1..(a - 1) :
              /\ r[j].sp = s[j].sp
              /\ r[j].writes = IF j = a - 1 THEN UNION {s[k].writes : k \in (a - 1)..Len(s)}
                               ELSE s[j].writes
    <3>1. s \in Seq(Layer) /\ a \in 2..Len(s)
      BY <1>2 DEF Size
    <3> HIDE DEF s
    <3> QED
      BY <3>1, MergeAfter
  <2> QED
    BY <1>4, <2>1 DEF Merges, Size, Sp, Wr
<1> QED
  BY <1>2, <1>4, <1>5 DEF Release

LEMMA MergeMoves ==
    ASSUME DbTypeOK, NEW t \in Node, NEW a \in 2..Size(t), Merges(t, a)
    PROVE  /\ Cuts(t) /\ \A j \in 1..(a - 1) : \A w \in Wr(t, j)' : Moves(t, w, j)
           /\ \A k \in 1..Size(t) : \A w \in Wr(t, k) : \E j \in 1..(a - 1) : w \in Wr(t, j)'
<1>1. /\ Size(t)' = a - 1 /\ Size(t) \in Nat
      /\ \A j \in 1..(a - 1) :
           /\ j \in 1..Size(t) /\ j # a /\ Sp(t, j)' = Sp(t, j)
           /\ Wr(t, j)' = IF j = a - 1 THEN UNION {Wr(t, k) : k \in (a - 1)..Size(t)} ELSE Wr(t, j)
  <2>1. Size(t) \in Nat
    BY LayerFacts
  <2>2. \A j \in 1..(a - 1) : j \in 1..Size(t) /\ j # a
    BY <2>1
  <2> QED
    BY <2>1, <2>2 DEF Merges
<1>2. a - 1 \in Nat /\ a - 1 \in 1..Size(t) /\ a - 1 \in 1..(a - 1) /\ \A j \in 1..(a - 1) : j <= j
  BY <1>1
<1>3. ASSUME NEW j \in 1..(a - 1), NEW w \in Wr(t, j)'
      PROVE  Moves(t, w, j)
  <2>1. CASE j = a - 1
    <3> DEFINE W == UNION {Wr(t, k) : k \in (a - 1)..Size(t)}
    <3>1. w \in W
      BY <1>1, <2>1
    <3>2. PICK k \in (a - 1)..Size(t) : w \in Wr(t, k)
      BY <3>1
    <3>3. k \in 1..Size(t) /\ j <= k
      BY <1>1, <2>1
    <3> QED
      BY <1>1, <2>1, <3>2, <3>3 DEF Moves
  <2>2. CASE j # a - 1
    BY <1>1, <1>2, <2>2 DEF Moves
  <2> QED
    BY <2>1, <2>2
<1>4. ASSUME NEW k \in 1..Size(t), NEW w \in Wr(t, k)
      PROVE  \E j \in 1..(a - 1) : w \in Wr(t, j)'
  <2>1. CASE k \in (a - 1)..Size(t)
    <3> DEFINE W == UNION {Wr(t, l) : l \in (a - 1)..Size(t)}
    <3>1. w \in W
      BY <2>1
    <3>2. Wr(t, a - 1)' = W
      BY <1>1, <1>2
    <3> QED
      BY <1>2, <3>1, <3>2
  <2>2. CASE k \notin (a - 1)..Size(t)
    <3>1. k \in 1..(a - 1) /\ k # a - 1
      BY <1>1, <2>2
    <3> QED
      BY <1>1, <3>1
  <2> QED
    BY <2>1, <2>2
<1>5. Cuts(t)
  BY <1>1, <1>2 DEF Cuts
<1> QED
  BY <1>3, <1>4, <1>5

LEMMA RollbackResets ==
    ASSUME DbTypeOK, NEW t \in Node, NEW x, Sp(t, 1) # x, RollbackTo(t, x)
    PROVE  /\ \E a \in 2..Size(t) : Sp(t, a) = x /\ Resets(t, a)
           /\ session[t].state \in {"open", "aborted"} /\ session'[t].state = "open"
           /\ durable' = durable /\ \A u \in Node \ {t} : session'[u] = session[u]
<1>1. PICK a \in At(t, x) :
          session' = [session EXCEPT ![t] = [state |-> "open", layers |-> ResetTo(@.layers, a)]]
  BY DEF RollbackTo
<1>2. /\ a \in 2..Size(t) /\ Sp(t, a) = x
      /\ session[t].layers \in Seq(Layer) /\ a \in 1..Size(t) /\ Size(t) \in Nat
  BY FindsSavepoint, LayerFacts
<1>3. /\ session'[t].layers = ResetTo(session[t].layers, a)
      /\ session'[t].state = "open"
      /\ \A u \in Node \ {t} : session'[u] = session[u]
  BY <1>1 DEF DbTypeOK
<1>4. Resets(t, a)
  <2> DEFINE s == session[t].layers
             r == ResetTo(s, a)
  <2>1. /\ Len(r) = a
        /\ \A j \in 1..a : /\ r[j].sp = s[j].sp
                           /\ r[j].writes = IF j = a THEN {} ELSE s[j].writes
    <3>1. s \in Seq(Layer) /\ a \in 1..Len(s)
      BY <1>2 DEF Size
    <3> HIDE DEF s
    <3> QED
      BY <3>1, ResetAfter
  <2> QED
    BY <1>3, <2>1 DEF Resets, Size, Sp, Wr
<1> QED
  BY <1>2, <1>3, <1>4 DEF RollbackTo

LEMMA ResetMoves ==
    ASSUME DbTypeOK, NEW t \in Node, NEW a \in 2..Size(t), Resets(t, a)
    PROVE  /\ Cuts(t) /\ \A j \in 1..a : \A w \in Wr(t, j)' : Moves(t, w, j)
           /\ \A j \in 1..a : j \in 1..Size(t) /\ (j = a \/ j < a)
<1>1. Size(t) \in Nat
  BY LayerFacts
<1>2. \A j \in 1..a : j \in 1..Size(t) /\ (j = a \/ j < a) /\ j <= j
  BY <1>1
<1> QED
  BY <1>1, <1>2 DEF Resets, Cuts, Moves

LEMMA SameMoves ==
    ASSUME DbTypeOK, NEW t \in Node, 1 \in 1..Size(t), SameStack(t)
    PROVE  /\ Size(t)' = Size(t) /\ Cuts(t)
           /\ \A j \in 1..Size(t) : /\ Sp(t, j)' = Sp(t, j) /\ Wr(t, j)' = Wr(t, j)
                                    /\ \A w \in Wr(t, j)' : Moves(t, w, j)
<1>1. /\ Size(t)' = Size(t)
      /\ \A j : Sp(t, j)' = Sp(t, j) /\ Wr(t, j)' = Wr(t, j)
  BY DEF SameStack, Size, Sp, Wr
<1>2. Size(t) \in Nat /\ Size(t) \in 1..Size(t)
  BY LayerFacts
<1> QED
  BY <1>1, <1>2 DEF Cuts, Moves

\* Statements that fail and ends of a session leave every stack.
LEMMA OpsKeepStacks ==
    ASSUME DbTypeOK, NEW t \in Node, NEW u \in Node,
           \/ Refuse(t) \/ CommitTx(t) \/ CommitTxFails(t)
           \/ RollbackTx(t) \/ RollbackTxFails(t) \/ ContextDone(t)
    PROVE  SameStack(u) /\ (u # t => session'[u] = session[u])
BY DEF DbTypeOK, Session, Refuse, CommitTx, CommitTxFails, RollbackTx, RollbackTxFails,
       ContextDone, SameStack
=============================================================================
