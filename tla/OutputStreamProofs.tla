------------------------- MODULE OutputStreamProofs -------------------------
(***************************************************************************)
(* For any number of panes, any output and any buffer limit: the protocol   *)
(* keeps its types, and while the service only ends through its shutdown    *)
(* handler no attached pane misses output and no ended pane misses the log. *)
(***************************************************************************)
EXTENDS OutputStream, SubsequenceFacts

(***************************** Ordering a list ****************************)

\* p lists 1..n in the order of their keys.
Sorts(p, key, n) ==
    /\ p \in [1..n -> 1..n]
    /\ \A i, j \in 1..n : p[i] = p[j] => i = j
    /\ \A k \in 1..n : \E i \in 1..n : p[i] = k
    /\ \A i, j \in 1..n : i < j => key[p[i]] <= key[p[j]]

\* Any finite list can be ordered: the last element is put in its place among
\* the others.
LEMMA SortExists ==
    ASSUME NEW n \in Nat, NEW key \in [1..n -> Nat]
    PROVE  \E p : Sorts(p, key, n)
<1> DEFINE Good == {m \in Nat : \E p : Sorts(p, key, m)}
<1>1. 0 \in Good
  <2> DEFINE p == [i \in 1..0 |-> 0]
  <2>1. Sorts(p, key, 0)
    BY DEF Sorts
  <2> HIDE DEF p
  <2> QED BY <2>1
<1>2. ASSUME NEW m \in 1..n, m - 1 \in Good PROVE m \in Good
  <2>1. PICK p : Sorts(p, key, m - 1)
    BY <1>2
  <2>2. /\ p \in [1..(m - 1) -> 1..(m - 1)]
        /\ \A i, j \in 1..(m - 1) : p[i] = p[j] => i = j
        /\ \A k \in 1..(m - 1) : \E i \in 1..(m - 1) : p[i] = k
        /\ \A i, j \in 1..(m - 1) : i < j => key[p[i]] <= key[p[j]]
    BY <2>1 DEF Sorts
  <2> DEFINE N == {j \in 1..m : j = m \/ key[p[j]] > key[m]}
  <2>3. PICK at \in N : \A j \in N : at <= j
    <3>1. N \in SUBSET Nat /\ m \in N
      OBVIOUS
    <3> HIDE DEF N
    <3> QED BY <3>1, LeastNumber
  <2>4. at \in 1..m /\ key[m] \in Nat /\ \A i \in 1..(m - 1) : key[p[i]] \in Nat
    <3>1. \A i \in 1..(m - 1) : p[i] \in 1..n
      BY <2>2
    <3>2. at \in 1..m
      BY <2>3
    <3> QED BY <3>1, <3>2
  <2>5. \A i \in 1..m : i < at => i \in 1..(m - 1) /\ key[p[i]] <= key[m]
    <3> SUFFICES ASSUME NEW i \in 1..m, i < at
                 PROVE  i \in 1..(m - 1) /\ key[p[i]] <= key[m]
      OBVIOUS
    <3>1. i \notin N /\ i \in 1..(m - 1)
      BY <2>3, <2>4
    <3>2. ~(key[p[i]] > key[m])
      BY <3>1
    <3> QED BY <2>4, <3>1, <3>2
  <2>6. \A i \in 1..m : i > at => i - 1 \in 1..(m - 1) /\ key[m] <= key[p[i - 1]]
    <3> SUFFICES ASSUME NEW i \in 1..m, i > at
                 PROVE  i - 1 \in 1..(m - 1) /\ key[m] <= key[p[i - 1]]
      OBVIOUS
    <3>1. i - 1 \in 1..(m - 1) /\ at \in 1..(m - 1) /\ at <= i - 1
      BY <2>4
    <3>2. key[p[at]] > key[m]
      BY <2>3, <3>1
    <3>3. key[p[at]] <= key[p[i - 1]]
      <4>1. CASE at = i - 1
        BY <4>1, <3>1, <2>4
      <4>2. CASE at # i - 1
        <5>1. at < i - 1
          BY <3>1, <4>2
        <5> QED BY <5>1, <3>1, <2>2
      <4> QED BY <4>1, <4>2
    <3> QED BY <2>4, <3>1, <3>2, <3>3
  <2> HIDE DEF N
  <2> DEFINE q == [i \in 1..m |-> IF i < at THEN p[i] ELSE IF i = at THEN m ELSE p[i - 1]]
  <2>7. /\ \A i \in 1..m : i < at => q[i] = p[i]
        /\ q[at] = m
        /\ \A i \in 1..m : i > at => q[i] = p[i - 1]
    BY <2>4
  <2>8. q \in [1..m -> 1..m] /\ \A i \in 1..m : i # at => q[i] \in 1..(m - 1)
    <3>1. ASSUME NEW i \in 1..m, i # at PROVE q[i] \in 1..(m - 1)
      <4>1. CASE i < at
        BY <4>1, <2>2, <2>5
      <4>2. CASE i > at
        <5>1. q[i] = p[i - 1] /\ i - 1 \in 1..(m - 1)
          BY <4>2, <2>4, <2>6
        <5> QED BY <5>1, <2>2
      <4> QED BY <3>1, <4>1, <4>2, <2>4
    <3>2. \A i \in 1..m : q[i] \in 1..m
      BY <3>1, <2>7
    <3> QED BY <3>1, <3>2
  <2> HIDE DEF q
  <2>9. \A i, j \in 1..m : q[i] = q[j] => i = j
    <3> SUFFICES ASSUME NEW i \in 1..m, NEW j \in 1..m, i < j PROVE q[i] # q[j]
      BY <2>4
    <3>1. CASE i = at \/ j = at
      <4>1. \A k \in 1..m : k # at => q[k] # m
        BY <2>8
      <4> QED BY <4>1, <3>1, <2>7
    <3>2. CASE i < at /\ j < at
      BY <3>2, <2>2, <2>5, <2>7
    <3>3. CASE i < at /\ j > at
      <4>1. i \in 1..(m - 1) /\ j - 1 \in 1..(m - 1) /\ i # j - 1
        BY <3>3, <2>4, <2>5, <2>6
      <4> QED BY <4>1, <3>3, <2>2, <2>7
    <3>4. CASE i > at
      <4>1. i - 1 \in 1..(m - 1) /\ j - 1 \in 1..(m - 1) /\ i - 1 # j - 1 /\ j > at
        BY <3>4, <2>4, <2>6
      <4> QED BY <4>1, <3>4, <2>2, <2>7
    <3> QED BY <3>1, <3>2, <3>3, <3>4, <2>4
  <2>10. \A k \in 1..m : \E i \in 1..m : q[i] = k
    <3> SUFFICES ASSUME NEW k \in 1..m PROVE \E i \in 1..m : q[i] = k
      OBVIOUS
    <3>1. CASE k = m
      BY <3>1, <2>4, <2>7
    <3>2. CASE k # m
      <4>1. PICK i \in 1..(m - 1) : p[i] = k
        BY <3>2, <2>2
      <4>2. CASE i < at
        BY <4>1, <4>2, <2>7
      <4>3. CASE i >= at
        <5>1. i + 1 \in 1..m /\ i + 1 > at /\ (i + 1) - 1 = i
          BY <4>3, <2>4
        <5>2. q[i + 1] = p[i]
          BY <5>1, <2>7
        <5> QED BY <4>1, <5>1, <5>2
      <4> QED BY <4>2, <4>3, <2>4
    <3> QED BY <3>1, <3>2
  <2>11. \A i, j \in 1..m : i < j => key[q[i]] <= key[q[j]]
    <3> SUFFICES ASSUME NEW i \in 1..m, NEW j \in 1..m, i < j PROVE key[q[i]] <= key[q[j]]
      OBVIOUS
    <3>1. CASE j < at
      <4>1. i < at /\ i \in 1..(m - 1) /\ j \in 1..(m - 1)
        BY <3>1, <2>4, <2>5
      <4> QED BY <4>1, <3>1, <2>2, <2>7
    <3>2. CASE j = at
      BY <3>2, <2>5, <2>7
    <3>3. CASE j > at /\ i < at
      <4>1. i \in 1..(m - 1) /\ j - 1 \in 1..(m - 1) /\ key[p[i]] <= key[m] /\ key[m] <= key[p[j - 1]]
        BY <3>3, <2>5, <2>6
      <4>2. q[i] = p[i] /\ q[j] = p[j - 1]
        BY <3>3, <2>7
      <4>3. key[p[i]] \in Nat /\ key[m] \in Nat /\ key[p[j - 1]] \in Nat
        BY <4>1, <2>2, <2>4
      <4>4. \A a, b, c \in Nat : a <= b /\ b <= c => a <= c
        OBVIOUS
      <4>5. key[p[i]] <= key[p[j - 1]]
        BY <4>1, <4>3, <4>4
      <4> QED BY <4>2, <4>5
    <3>4. CASE j > at /\ i = at
      BY <3>4, <2>6, <2>7
    <3>5. CASE j > at /\ i > at
      <4>1. i - 1 \in 1..(m - 1) /\ j - 1 \in 1..(m - 1) /\ i - 1 < j - 1
        BY <3>5, <2>4, <2>6
      <4> QED BY <4>1, <3>5, <2>2, <2>7
    <3> QED BY <3>1, <3>2, <3>3, <3>4, <3>5, <2>4
  <2>12. Sorts(q, key, m)
    BY <2>8, <2>9, <2>10, <2>11 DEF Sorts
  <2> QED BY <2>12
<1> HIDE DEF Good
<1>3. \A k \in 0..n : k \in Good
  BY <1>1, <1>2, Induction
<1>4. n \in Good
  BY <1>3
<1> QED BY <1>4 DEF Good

\* Reloading the buffer keeps its messages, all of them, in their order.
LEMMA BySeqOrders ==
    ASSUME NEW sq \in Seq(Numbered)
    PROVE  /\ BySeq(sq) \in Seq(Numbered) /\ Len(BySeq(sq)) = Len(sq)
           /\ \A i \in 1..Len(sq) : \E k \in 1..Len(sq) : BySeq(sq)[i] = sq[k]
           /\ \A k \in 1..Len(sq) : \E i \in 1..Len(sq) : BySeq(sq)[i] = sq[k]
           /\ \A i, j \in 1..Len(sq) : i < j => BySeq(sq)[i].seq <= BySeq(sq)[j].seq
<1> DEFINE n == Len(sq)
           key == [i \in 1..n |-> sq[i].seq]
           Ordered(p) == \A i, j \in 1..n : i < j => sq[p[i]].seq <= sq[p[j]].seq
           p == CHOOSE p \in Bijection(1..n, 1..n) : Ordered(p)
<1>1. n \in Nat /\ \A i \in 1..n : sq[i] \in Numbered
  OBVIOUS
<1>2. key \in [1..n -> Nat] /\ \A i \in 1..n : key[i] = sq[i].seq
  BY <1>1 DEF Numbered
<1>3. BySeq(sq) = [i \in 1..n |-> sq[p[i]]]
  BY DEF BySeq
<1> HIDE DEF n, key, p
<1>4. \E q \in Bijection(1..n, 1..n) : Ordered(q)
  <2>1. PICK q : Sorts(q, key, n)
    BY <1>1, <1>2, SortExists
  <2>2. q \in Bijection(1..n, 1..n)
    BY <2>1 DEF Sorts, Bijection, Injection, Surjection, IsInjective
  <2>3. Ordered(q)
    <3> SUFFICES ASSUME NEW i \in 1..n, NEW j \in 1..n, i < j
                 PROVE  sq[q[i]].seq <= sq[q[j]].seq
      OBVIOUS
    <3>1. q[i] \in 1..n /\ q[j] \in 1..n /\ key[q[i]] <= key[q[j]]
      BY <2>1 DEF Sorts
    <3> QED BY <3>1, <1>2
  <2> HIDE DEF Ordered
  <2> QED BY <2>2, <2>3
<1>5. p \in Bijection(1..n, 1..n) /\ Ordered(p)
  <2> HIDE DEF Ordered
  <2> QED BY <1>4 DEF p
<1>6. p \in [1..n -> 1..n] /\ \A k \in 1..n : \E i \in 1..n : p[i] = k
  BY <1>5 DEF Bijection, Injection, Surjection
<1> DEFINE t == [i \in 1..n |-> sq[p[i]]]
<1>7. \A i \in 1..n : t[i] = sq[p[i]] /\ p[i] \in 1..n
  BY <1>6
<1>8. t \in Seq(Numbered) /\ Len(t) = n
  BY <1>1, <1>7
<1> HIDE DEF t
<1>9. \A i \in 1..n : \E k \in 1..n : t[i] = sq[k]
  BY <1>7
<1>10. \A k \in 1..n : \E i \in 1..n : t[i] = sq[k]
  <2> SUFFICES ASSUME NEW k \in 1..n PROVE \E i \in 1..n : t[i] = sq[k]
    OBVIOUS
  <2>1. PICK i \in 1..n : p[i] = k
    BY <1>6
  <2>2. t[i] = sq[k]
    BY <2>1, <1>7
  <2> QED BY <2>2
<1>11. \A i, j \in 1..n : i < j => t[i].seq <= t[j].seq
  BY <1>5, <1>7
<1> QED BY <1>3, <1>8, <1>9, <1>10, <1>11 DEF n, t

(********************************** Types *********************************)

\* A message is appended within the limit.
LEMMA BufferedType ==
    ASSUME NEW m \in Numbered, buffer \in Seq(Numbered), Len(buffer) <= Cap
    PROVE  /\ Buffered(m) \in Seq(Numbered) /\ Len(Buffered(m)) <= Cap
           /\ Buffered(m) # <<>> /\ Last(Buffered(m)) = m
           /\ \A i \in 1..Len(Buffered(m)) :
                  Buffered(m)[i] = m \/ \E k \in 1..Len(buffer) : Buffered(m)[i] = buffer[k]
<1> DEFINE kept == IF Len(buffer) >= Cap THEN Tail(buffer) ELSE buffer
<1>1. kept \in Seq(Numbered) /\ Len(kept) < Cap
  BY SizeAssumption
<1>2. \A i \in 1..Len(kept) : \E k \in 1..Len(buffer) : kept[i] = buffer[k]
  <2>1. CASE Len(buffer) >= Cap
    <3>1. Len(kept) = Len(buffer) - 1 /\ \A i \in 1..Len(kept) : kept[i] = buffer[i + 1]
      BY <2>1, SizeAssumption
    <3> HIDE DEF kept
    <3> QED BY <3>1
  <2>2. CASE ~(Len(buffer) >= Cap)
    BY <2>2
  <2> QED BY <2>1, <2>2
<1>3. Buffered(m) = Append(kept, m)
  BY DEF Buffered
<1> HIDE DEF kept
<1>4. /\ Append(kept, m) \in Seq(Numbered) /\ Len(Append(kept, m)) = Len(kept) + 1
      /\ Append(kept, m)[Len(kept) + 1] = m
      /\ \A i \in 1..Len(kept) : Append(kept, m)[i] = kept[i]
  BY <1>1
<1>5. Len(kept) + 1 <= Cap /\ Append(kept, m) # <<>>
  BY <1>1, SizeAssumption
<1>6. \A i \in 1..(Len(kept) + 1) : i = Len(kept) + 1 \/ i \in 1..Len(kept)
  BY <1>1
<1>7. \A i \in 1..Len(Append(kept, m)) :
          Append(kept, m)[i] = m \/ \E k \in 1..Len(buffer) : Append(kept, m)[i] = buffer[k]
  BY <1>2, <1>4, <1>6
<1> QED BY <1>3, <1>4, <1>5, <1>7 DEF Last

\* A numbered message reaches the buffer and the attached panes.
LEMMA SentTypes ==
    ASSUME TypeOK, NEW c \in 0..MaxOut, SendSequenced(c)
    PROVE  /\ seq' \in Nat /\ down' \in [Viewers -> Seq(Down)]
           /\ buffer' \in Seq(Numbered) /\ Len(buffer') <= Cap
<1> DEFINE m == Sequenced(seq + 1, c)
<1>1. seq \in Nat /\ buffer \in Seq(Numbered) /\ Len(buffer) <= Cap
      /\ down \in [Viewers -> Seq(Down)]
  BY DEF TypeOK
<1>2. m \in Numbered /\ m \in Down
  BY <1>1 DEF Sequenced, Numbered, Down
<1>3. /\ seq' = seq + 1 /\ buffer' = Buffered(m)
      /\ down' = [v \in Viewers |-> IF v \in fed THEN Append(down[v], m) ELSE down[v]]
  BY DEF SendSequenced
<1> HIDE DEF m
<1>4. \A v \in Viewers : Append(down[v], m) \in Seq(Down) /\ down[v] \in Seq(Down)
  BY <1>1, <1>2
<1> QED BY <1>1, <1>2, <1>3, <1>4, BufferedType

\* What is kept of the buffer is a buffer, and fits a pane's channel.
LEMMA KeptTypes ==
    ASSUME TypeOK, NEW T
    PROVE  /\ Kept(buffer, T) \in Seq(Numbered) /\ Len(Kept(buffer, T)) <= Cap
           /\ \A v \in Viewers : down[v] \o Kept(buffer, T) \in Seq(Down)
<1> DEFINE t == Kept(buffer, T)
<1>1. buffer \in Seq(Numbered) /\ Len(buffer) \in Nat /\ Len(buffer) <= Cap
      /\ down \in [Viewers -> Seq(Down)]
  BY DEF TypeOK
<1>2. t \in Seq(Numbered) /\ Len(t) <= Len(buffer)
  BY <1>1, KeptPicks, KeptLength
<1> HIDE DEF t
<1>3. Len(t) <= Cap
  BY <1>1, <1>2, SizeAssumption
<1>4. t \in Seq(Down)
  BY <1>2 DEF Down
<1>5. \A v \in Viewers : down[v] \o t \in Seq(Down)
  BY <1>1, <1>4
<1> QED BY <1>2, <1>3, <1>5 DEF t

\* Every step of the service keeps the types.
LEMMA ServiceTypes ==
    ASSUME TypeOK, Output \/ Redraw \/ Flush \/ Exit \/ Expire
    PROVE  TypeOK'
<1>1. CASE Output
  <2>1. out + 1 \in 0..MaxOut /\ SendSequenced(out + 1)
    BY <1>1, SizeAssumption DEF Output, TypeOK
  <2> QED BY <1>1, <2>1, SentTypes DEF Output, TypeOK, clientVars
<1>2. CASE Redraw
  <2>1. out \in 0..MaxOut /\ redraw' = FALSE
    BY <1>2 DEF Redraw, TypeOK
  <2>2. CASE SendSequenced(out)
    BY <1>2, <2>1, <2>2, SentTypes DEF Redraw, TypeOK, clientVars
  <2>3. CASE UNCHANGED <<seq, buffer, down>>
    BY <1>2, <2>1, <2>3 DEF Redraw, TypeOK, clientVars
  <2> QED BY <1>2, <2>2, <2>3 DEF Redraw
<1>3. CASE Flush
  BY <1>3 DEF Flush, TypeOK, clientVars
<1>4. CASE Exit
  <2>1. 0 \in 0..MaxOut /\ SendSequenced(0)
    BY <1>4, SizeAssumption DEF Exit, ExitChunk
  <2>2. seq' \in Nat /\ down' \in [Viewers -> Seq(Down)]
        /\ buffer' \in Seq(Numbered) /\ Len(buffer') <= Cap
    BY <2>1, SentTypes
  <2>3. saved' \in [seq : Nat, out : 0..MaxOut]
    BY <1>4, <2>2 DEF Exit, TypeOK
  <2> QED BY <1>4, <2>2, <2>3 DEF Exit, TypeOK, clientVars
<1>5. CASE Expire
  <2>1. buffer' \in Seq(Numbered) /\ Len(buffer') <= Cap
    BY <1>5, SizeAssumption DEF Expire, TypeOK
  <2> QED BY <1>5, <2>1 DEF Expire, TypeOK, clientVars
<1> QED BY <1>1, <1>2, <1>3, <1>4, <1>5

\* So does a restart, ...
LEMMA RestartTypes ==
    ASSUME TypeOK, NEW flushed \in BOOLEAN, NEW missed \in BOOLEAN, NEW dies \in BOOLEAN,
           SvcRestart(flushed, missed, dies)
    PROVE  TypeOK'
<1>1. buffer' \in Seq(Numbered) /\ Len(buffer') <= Cap
  BY BySeqOrders DEF SvcRestart, TypeOK
<1>2. out' \in 0..MaxOut /\ live' \in BOOLEAN /\ redraw' \in BOOLEAN
  BY SizeAssumption DEF SvcRestart, TypeOK
<1>3. saved' \in [seq : Nat, out : 0..MaxOut]
  BY DEF SvcRestart, TypeOK
<1>4. seq' \in Nat
  BY <1>3 DEF SvcRestart
<1>5. down' \in [Viewers -> Seq(Down)] /\ up' \in [Viewers -> Seq(Up)]
  BY DEF SvcRestart
<1>6. restarts' \in 0..MaxRestarts /\ fed' = {} /\ conn' = {}
  BY SizeAssumption DEF SvcRestart, TypeOK
<1> QED BY <1>1, <1>2, <1>3, <1>4, <1>5, <1>6 DEF SvcRestart, TypeOK, clientVars

\* ... the handling of a pane's message ...
LEMMA HandleTypes ==
    ASSUME TypeOK, NEW v \in Viewers, Handle(v)
    PROVE  TypeOK'
<1>1. up' \in [Viewers -> Seq(Up)]
  BY DEF Handle, TypeOK
<1>2. /\ buffer' = buffer \/ \E T : buffer' = Kept(buffer, T)
      /\ down' = down \/ \E T : down' = [down EXCEPT ![v] = @ \o Kept(buffer, T)]
  BY DEF Handle
<1>3. buffer' \in Seq(Numbered) /\ Len(buffer') <= Cap
  BY <1>2, KeptTypes DEF TypeOK
<1>4. down' \in [Viewers -> Seq(Down)]
  <2>1. CASE down' = down
    BY <2>1 DEF TypeOK
  <2>2. ASSUME NEW T, down' = [down EXCEPT ![v] = @ \o Kept(buffer, T)]
        PROVE  down' \in [Viewers -> Seq(Down)]
    <3>1. down[v] \o Kept(buffer, T) \in Seq(Down) /\ down \in [Viewers -> Seq(Down)]
      BY KeptTypes DEF TypeOK
    <3> QED BY <2>2, <3>1
  <2> QED BY <1>2, <2>1, <2>2
<1> QED BY <1>1, <1>3, <1>4 DEF Handle, TypeOK, clientVars

\* ... a connection made or lost ...
LEMMA ConnectionTypes ==
    ASSUME TypeOK, NEW v \in Viewers,
           Drop(v) \/ \E bridged \in BOOLEAN : Connect(v, bridged)
    PROVE  TypeOK'
<1>1. CASE Drop(v)
  <2>1. down' \in [Viewers -> Seq(Down)] /\ up' \in [Viewers -> Seq(Up)]
    BY <1>1 DEF Drop, TypeOK
  <2>2. drops' \in 0..MaxDrops /\ fed' \subseteq conn' /\ conn' \subseteq Viewers
    BY <1>1, SizeAssumption DEF Drop, TypeOK
  <2> QED BY <1>1, <2>1, <2>2 DEF Drop, TypeOK, clientVars
<1>2. ASSUME NEW bridged \in BOOLEAN, Connect(v, bridged) PROVE TypeOK'
  <2>1. /\ History(out) \in Down /\ History(saved.out) \in Down /\ LegacyExit \in Down
        /\ Replay(last[v]) \in Up
    BY DEF TypeOK, Down, Up, History, LegacyExit, Replay
  <2>2. /\ <<History(out)>> \in Seq(Down) /\ <<History(saved.out), LegacyExit>> \in Seq(Down)
        /\ <<Replay(last[v])>> \in Seq(Up) /\ <<>> \in Seq(Up)
    BY <2>1
  <2>3. down' \in [Viewers -> Seq(Down)]
    <3>1. \E q \in Seq(Down) : down' = [down EXCEPT ![v] = q]
      BY <1>2, <2>2 DEF Connect
    <3> QED BY <3>1 DEF TypeOK
  <2>4. up' \in [Viewers -> Seq(Up)]
    <3>1. \E q \in Seq(Up) : up' = [up EXCEPT ![v] = q]
      BY <1>2, <2>2 DEF Connect
    <3> QED BY <3>1 DEF TypeOK
  <2>5. fed' \subseteq conn' /\ conn' \subseteq Viewers /\ redraw' \in BOOLEAN
    BY <1>2, SwitchAssumption DEF Connect, TypeOK
  <2> QED BY <1>2, <2>3, <2>4, <2>5 DEF Connect, TypeOK, clientVars
<1> QED BY <1>1, <1>2

\* ... and what a pane does with a message.
LEMMA ReceiveTypes ==
    ASSUME TypeOK, NEW v \in Viewers, Receive(v)
    PROVE  TypeOK'
<1> DEFINE m == Head(down[v])
<1>1. m \in Down /\ down' \in [Viewers -> Seq(Down)]
  BY DEF Receive, TypeOK
<1>2. \/ m.type = "history" /\ Snapshot(v, m.upto)
      \/ m.type = "sequenced_output" /\ TakeSequenced(v, m)
      \/ m.type = "exit" /\ exited' = exited \cup {v} /\ UNCHANGED <<last, screen, up>>
  BY DEF Receive
<1>3. UNCHANGED <<svcVars, conn, drops, restarts>>
  BY DEF Receive
<1> HIDE DEF m
<1>4. CASE m.type = "history" /\ Snapshot(v, m.upto)
  <2>1. m.upto \in 0..MaxOut
    BY <1>1, <1>4 DEF Down, Numbered, LegacyExit
  <2>2. [i \in 1..m.upto |-> i] \in Seq(1..MaxOut)
    BY <2>1, SizeAssumption
  <2>3. screen' \in [Viewers -> Seq(1..MaxOut)]
    BY <1>4, <2>2 DEF Snapshot, TypeOK
  <2> QED BY <1>1, <1>3, <1>4, <2>3 DEF Snapshot, TypeOK, svcVars
<1>5. CASE m.type = "sequenced_output" /\ TakeSequenced(v, m)
  <2>1. m.seq \in Nat /\ m.chunk \in 0..MaxOut
    BY <1>1, <1>5 DEF Down, Numbered, LegacyExit
  <2>2. OutputAck(m.seq) \in Up
    BY <2>1 DEF OutputAck, Up
  <2>3. up' \in [Viewers -> Seq(Up)]
    <3>1. up' = up \/ up' = [up EXCEPT ![v] = Append(@, OutputAck(m.seq))]
      BY <1>5 DEF TakeSequenced
    <3>2. up \in [Viewers -> Seq(Up)] /\ Append(up[v], OutputAck(m.seq)) \in Seq(Up)
      BY <2>2 DEF TypeOK
    <3> QED BY <3>1, <3>2
  <2>4. last' \in [Viewers -> Nat] /\ exited' \subseteq Viewers
    BY <1>5, <2>1 DEF TakeSequenced, TypeOK, clientVars
  <2>5. screen' \in [Viewers -> Seq(1..MaxOut)]
    <3>1. m.chunk # ExitChunk => m.chunk \in 1..MaxOut
      BY <2>1 DEF ExitChunk
    <3>2. \/ screen' = screen
          \/ screen' = [screen EXCEPT ![v] = Append(@, m.chunk)] /\ m.chunk # ExitChunk
      BY <1>5 DEF TakeSequenced, clientVars
    <3>3. CASE m.chunk # ExitChunk
      <4>1. screen \in [Viewers -> Seq(1..MaxOut)] /\ Append(screen[v], m.chunk) \in Seq(1..MaxOut)
        BY <3>1, <3>3 DEF TypeOK
      <4> QED BY <3>2, <4>1
    <3>4. CASE m.chunk = ExitChunk
      BY <3>2, <3>4 DEF TypeOK
    <3> QED BY <3>3, <3>4
  <2> QED BY <1>1, <1>3, <2>3, <2>4, <2>5 DEF TypeOK, svcVars
<1>6. CASE m.type = "exit" /\ exited' = exited \cup {v} /\ UNCHANGED <<last, screen, up>>
  BY <1>1, <1>3, <1>6 DEF TypeOK, svcVars
<1> QED BY <1>2, <1>4, <1>5, <1>6

LEMMA TypesStep == TypeOK /\ [Next]_vars => TypeOK'
<1> SUFFICES ASSUME TypeOK, [Next]_vars PROVE TypeOK'
  OBVIOUS
<1>1. CASE UNCHANGED vars
  BY <1>1 DEF vars, svcVars, clientVars, TypeOK
<1> QED BY <1>1, ServiceTypes, RestartTypes, HandleTypes, ConnectionTypes, ReceiveTypes DEF Next

LEMMA InitTypes == Init => TypeOK
<1> SUFFICES ASSUME Init PROVE TypeOK
  OBVIOUS
<1>1. 0 \in 0..MaxOut /\ 0 \in 0..MaxDrops /\ 0 \in 0..MaxRestarts
  BY SizeAssumption
<1>2. saved \in [seq : Nat, out : 0..MaxOut]
  BY <1>1 DEF Init
<1>3. buffer \in Seq(Numbered) /\ Len(buffer) <= Cap
  BY SizeAssumption DEF Init
<1>4. down \in [Viewers -> Seq(Down)] /\ up \in [Viewers -> Seq(Up)]
      /\ screen \in [Viewers -> Seq(1..MaxOut)]
  BY DEF Init
<1> QED BY <1>1, <1>2, <1>3, <1>4 DEF Init, TypeOK

\* Every message is numbered, the buffer keeps its limit, whatever the service
\* and the connections go through, a crash included.
THEOREM StreamTypes == Spec => []TypeOK
BY InitTypes, TypesStep, PTL DEF Spec

(******************** What a pane is about to show ************************)
(* d is what is on its way to a pane, l the last number it took, s its      *)
(* screen.                                                                  *)

Numbers(m) == m.type = "sequenced_output"
Ends(m)    == m.type = "exit" \/ (Numbers(m) /\ m.chunk = ExitChunk)

\* The pane will not take message i of d for a duplicate.
Fresh(d, l, i) ==
    /\ Numbers(d[i]) /\ d[i].seq > l
    /\ \A j \in 1..(i - 1) : Numbers(d[j]) => d[j].seq < d[i].seq

\* A snapshot comes first or not at all.
HistoryFirst(d) == \A i \in 1..Len(d) : d[i].type = "history" => i = 1

\* The screen will show chunk c once the first k messages of d are read.
Covered(d, l, s, c, k) ==
    \/ (k >= 1 => d[1].type # "history") /\ \E i \in 1..Len(s) : s[i] = c
    \/ k >= 1 /\ d[1].type = "history" /\ c <= d[1].upto
    \/ \E i \in 1..k : Fresh(d, l, i) /\ d[i].chunk = c

\* All n chunks will be shown when all of d is read, and before any exit is.
Caught(d, l, s, n) ==
    /\ \A c \in 1..n : Covered(d, l, s, c, Len(d))
    /\ \A i \in 1..Len(d) : Ends(d[i]) => \A c \in 1..n : Covered(d, l, s, c, i - 1)

\* How reading the first message of d changes l and s.
Reads(d, l, s, l2, s2) ==
    LET m == d[1] IN
    \/ /\ m.type = "history" /\ l2 = l
       /\ s2 = IF m.upto = 0 THEN s ELSE [i \in 1..m.upto |-> i]
    \/ Numbers(m) /\ m.seq <= l /\ l2 = l /\ s2 = s
    \/ Numbers(m) /\ m.seq > l /\ l2 = m.seq /\ m.chunk = ExitChunk /\ s2 = s
    \/ Numbers(m) /\ m.seq > l /\ l2 = m.seq /\ m.chunk # ExitChunk /\ s2 = Append(s, m.chunk)
    \/ m.type = "exit" /\ l2 = l /\ s2 = s

\* What is promised after k messages is promised of any longer list that
\* starts with them.
LEMMA CoveredByStart ==
    ASSUME NEW d, NEW e, NEW l, NEW s, NEW c, NEW k \in Nat,
           \A i \in 1..k : e[i] = d[i],
           Covered(d, l, s, c, k)
    PROVE  Covered(e, l, s, c, k)
<1>1. k >= 1 => e[1] = d[1]
  OBVIOUS
<1>2. \A i \in 1..k : Fresh(d, l, i) => Fresh(e, l, i) /\ e[i].chunk = d[i].chunk
  <2> SUFFICES ASSUME NEW i \in 1..k, Fresh(d, l, i)
               PROVE  Fresh(e, l, i) /\ e[i].chunk = d[i].chunk
    OBVIOUS
  <2>1. e[i] = d[i] /\ \A j \in 1..(i - 1) : e[j] = d[j]
    OBVIOUS
  <2> QED BY <2>1 DEF Fresh, Numbers
<1> QED BY <1>1, <1>2 DEF Covered

\* Reading on loses nothing, as only the first message is a snapshot.
LEMMA CoveredLater ==
    ASSUME NEW d, NEW l, NEW s, NEW c, NEW k \in Nat, NEW n \in Nat, k <= n,
           k = 0 /\ n >= 1 => d[1].type # "history",
           Covered(d, l, s, c, k)
    PROVE  Covered(d, l, s, c, n)
<1>1. CASE \E i \in 1..k : Fresh(d, l, i) /\ d[i].chunk = c
  <2>1. \A i \in 1..k : i \in 1..n
    OBVIOUS
  <2> QED BY <1>1, <2>1 DEF Covered
<1>2. CASE ~\E i \in 1..k : Fresh(d, l, i) /\ d[i].chunk = c
  BY <1>2 DEF Covered
<1> QED BY <1>1, <1>2

\* More numbered messages disturb nothing that was promised.
LEMMA CaughtGrows ==
    ASSUME NEW d \in Seq(Down), NEW x \in Seq(Numbered), HistoryFirst(d),
           NEW l, NEW s, NEW n, Caught(d, l, s, n)
    PROVE  Caught(d \o x, l, s, n) /\ HistoryFirst(d \o x)
<1> DEFINE e == d \o x
<1>1. /\ Len(d) \in Nat /\ Len(x) \in Nat /\ Len(e) = Len(d) + Len(x)
      /\ \A i \in 1..Len(d) : e[i] = d[i]
      /\ \A i \in 1..Len(x) : e[Len(d) + i] = x[i]
  BY DEF Down
<1> HIDE DEF e
<1>2. \A i \in 1..Len(e) : i \in 1..Len(d) \/ Numbers(e[i])
  <2> SUFFICES ASSUME NEW i \in 1..Len(e), i > Len(d) PROVE Numbers(e[i])
    BY <1>1
  <2>1. i - Len(d) \in 1..Len(x) /\ Len(d) + (i - Len(d)) = i
    BY <1>1
  <2>2. e[i] = x[i - Len(d)]
    BY <1>1, <2>1
  <2>3. x[i - Len(d)] \in Numbered
    BY <2>1
  <2> QED BY <2>2, <2>3 DEF Numbers, Numbered
<1>3. HistoryFirst(e)
  BY <1>1, <1>2 DEF HistoryFirst, Numbers
<1>4. ASSUME NEW c \in 1..n, NEW k \in Len(d)..Len(e) PROVE Covered(e, l, s, c, k)
  <2>1. Covered(d, l, s, c, Len(d))
    BY DEF Caught
  <2>2. Covered(e, l, s, c, Len(d))
    BY <1>1, <2>1, CoveredByStart
  <2>3. Len(d) = 0 /\ k >= 1 => e[1].type # "history"
    <3>1. Len(d) = 0 /\ k >= 1 => 1 \in 1..Len(e) /\ 1 \notin 1..Len(d)
      BY <1>1
    <3> QED BY <3>1, <1>2 DEF Numbers
  <2>4. k \in Nat /\ Len(d) <= k
    BY <1>1
  <2> QED BY <1>1, <2>2, <2>3, <2>4, CoveredLater
<1>5. \A c \in 1..n : Covered(e, l, s, c, Len(e))
  <2>1. Len(e) \in Len(d)..Len(e)
    BY <1>1
  <2> QED BY <1>4, <2>1
<1>6. ASSUME NEW i \in 1..Len(e), Ends(e[i]), NEW c \in 1..n PROVE Covered(e, l, s, c, i - 1)
  <2>1. CASE i \in 1..Len(d)
    <3>1. e[i] = d[i] /\ Covered(d, l, s, c, i - 1)
      BY <1>1, <1>6, <2>1 DEF Caught
    <3>2. i - 1 \in Nat /\ \A j \in 1..(i - 1) : e[j] = d[j]
      BY <1>1, <2>1
    <3> QED BY <3>1, <3>2, CoveredByStart
  <2>2. CASE i \notin 1..Len(d)
    <3>1. i - 1 \in Len(d)..Len(e)
      BY <1>1, <2>2
    <3> QED BY <3>1, <1>4
  <2> QED BY <2>1, <2>2
<1> QED BY <1>3, <1>5, <1>6 DEF Caught, e

\* A message numbered past all others will be shown.
LEMMA NewCovered ==
    ASSUME NEW d \in Seq(Down), NEW m \in Numbered, NEW l, NEW s, m.seq > l,
           \A i \in 1..Len(d) : Numbers(d[i]) => d[i].seq < m.seq
    PROVE  Covered(Append(d, m), l, s, m.chunk, Len(d) + 1)
<1>1. /\ Append(d, m)[Len(d) + 1] = m /\ Len(d) \in Nat
      /\ \A i \in 1..Len(d) : Append(d, m)[i] = d[i]
  BY DEF Down
<1>2. Fresh(Append(d, m), l, Len(d) + 1)
  <2>1. \A j \in 1..((Len(d) + 1) - 1) : j \in 1..Len(d)
    BY <1>1
  <2> QED BY <1>1, <2>1 DEF Fresh, Numbers, Numbered
<1>3. Len(d) + 1 \in 1..(Len(d) + 1)
  BY <1>1
<1> QED BY <1>1, <1>2, <1>3 DEF Covered

\* Reading a message keeps what was promised after it.
LEMMA CoveredRead ==
    ASSUME NEW d \in Seq(Down), d # <<>>, HistoryFirst(d),
           NEW l \in Nat, NEW s \in Seq(1..MaxOut), NEW l2, NEW s2, Reads(d, l, s, l2, s2),
           NEW c \in Nat \ {0}, NEW k \in 1..Len(d), Covered(d, l, s, c, k)
    PROVE  Covered(Tail(d), l2, s2, c, k - 1)
<1> DEFINE t == Tail(d)
           m == d[1]
<1>1. /\ Len(d) \in Nat /\ Len(t) = Len(d) - 1 /\ m \in Down
      /\ \A i \in 1..Len(t) : t[i] = d[i + 1]
  BY DEF Down
<1> HIDE DEF t, m
<1>2. k - 1 >= 1 => t[1].type # "history"
  <2>1. k - 1 >= 1 => 1 \in 1..Len(t) /\ 2 \in 1..Len(d) /\ t[1] = d[2]
    BY <1>1
  <2> QED BY <2>1 DEF HistoryFirst
<1>3. ASSUME NEW i \in 2..k, Fresh(d, l, i)
      PROVE  i - 1 \in 1..(k - 1) /\ Fresh(t, l2, i - 1) /\ t[i - 1] = d[i]
  <2>1. i - 1 \in 1..(k - 1) /\ i - 1 \in 1..Len(t) /\ t[i - 1] = d[i]
    BY <1>1
  <2>2. \A j \in 1..((i - 1) - 1) : t[j] = d[j + 1] /\ j + 1 \in 1..(i - 1)
    BY <1>1, <2>1
  <2>3. d[i].seq > l2
    <3>1. 1 \in 1..(i - 1)
      OBVIOUS
    <3>2. Numbers(m) => m.seq < d[i].seq
      BY <1>3, <3>1 DEF Fresh, m
    <3>3. d[i].seq > l
      BY <1>3 DEF Fresh
    <3> QED BY <3>2, <3>3 DEF Reads, m, Numbers
  <2> QED BY <1>3, <2>1, <2>2, <2>3 DEF Fresh
<1>4. CASE \E i \in 2..k : Fresh(d, l, i) /\ d[i].chunk = c
  <2>1. PICK i \in 2..k : Fresh(d, l, i) /\ d[i].chunk = c
    BY <1>4
  <2>2. i - 1 \in 1..(k - 1) /\ Fresh(t, l2, i - 1) /\ t[i - 1].chunk = c
    BY <1>3, <2>1
  <2> QED BY <2>2 DEF Covered, t
<1>5. CASE Fresh(d, l, 1) /\ d[1].chunk = c
  <2>1. s2 = Append(s, c)
    BY <1>5, <1>1 DEF Reads, Fresh, Numbers, ExitChunk, m, Down, Numbered, LegacyExit
  <2>2. Len(s) + 1 \in 1..Len(s2) /\ s2[Len(s) + 1] = c
    BY <2>1
  <2> QED BY <1>2, <2>2 DEF Covered, t
<1>6. CASE d[1].type = "history" /\ c <= d[1].upto
  <2>1. d[1].upto \in Nat
    BY <1>6, <1>1 DEF m, Down, Numbered, LegacyExit
  <2>2. s2 = [i \in 1..d[1].upto |-> i]
    BY <1>6, <2>1 DEF Reads, Numbers
  <2>3. c \in 1..Len(s2) /\ s2[c] = c
    BY <2>1, <2>2, <1>6
  <2> QED BY <1>2, <2>3 DEF Covered, t
<1>7. CASE d[1].type # "history" /\ \E i \in 1..Len(s) : s[i] = c
  <2>1. s2 = s \/ \E a : s2 = Append(s, a)
    BY <1>7 DEF Reads
  <2>2. \E i \in 1..Len(s2) : s2[i] = c
    <3>1. PICK i \in 1..Len(s) : s[i] = c
      BY <1>7
    <3>2. CASE s2 = s
      BY <3>1, <3>2
    <3>3. ASSUME NEW a, s2 = Append(s, a) PROVE i \in 1..Len(s2) /\ s2[i] = c
      BY <3>1, <3>3
    <3> QED BY <2>1, <3>1, <3>2, <3>3
  <2> QED BY <1>2, <2>2 DEF Covered, t
<1>8. \A i \in 1..k : i = 1 \/ i \in 2..k
  OBVIOUS
<1> QED BY <1>4, <1>5, <1>6, <1>7, <1>8 DEF Covered

LEMMA CaughtRead ==
    ASSUME NEW d \in Seq(Down), d # <<>>, HistoryFirst(d),
           NEW l \in Nat, NEW s \in Seq(1..MaxOut), NEW l2, NEW s2, Reads(d, l, s, l2, s2),
           NEW n \in Nat, Caught(d, l, s, n)
    PROVE  Caught(Tail(d), l2, s2, n)
<1> DEFINE t == Tail(d)
<1>1. /\ Len(d) \in Nat \ {0} /\ Len(t) = Len(d) - 1
      /\ \A i \in 1..Len(t) : t[i] = d[i + 1]
  BY DEF Down
<1>2. ASSUME NEW c \in 1..n, NEW k \in 1..Len(d), Covered(d, l, s, c, k)
      PROVE  Covered(t, l2, s2, c, k - 1)
  <2>1. c \in Nat \ {0}
    OBVIOUS
  <2> QED BY <1>2, <2>1, CoveredRead
<1> HIDE DEF t
<1>3. ASSUME NEW c \in 1..n PROVE Covered(t, l2, s2, c, Len(t))
  <2>1. Covered(d, l, s, c, Len(d)) /\ Len(d) \in 1..Len(d)
    BY <1>1 DEF Caught
  <2> QED BY <1>1, <1>2, <2>1
<1>4. ASSUME NEW i \in 1..Len(t), Ends(t[i]), NEW c \in 1..n PROVE Covered(t, l2, s2, c, i - 1)
  <2>1. i + 1 \in 1..Len(d) /\ i \in 1..Len(d) /\ t[i] = d[i + 1] /\ (i + 1) - 1 = i
    BY <1>1
  <2>2. Covered(d, l, s, c, i)
    BY <1>4, <2>1 DEF Caught
  <2> QED BY <1>2, <2>1, <2>2
<1> QED BY <1>3, <1>4 DEF Caught, t

\* Behind the first message there is no snapshot.
LEMMA HistoryRead ==
    ASSUME NEW d \in Seq(Down), d # <<>>, HistoryFirst(d)
    PROVE  \A i \in 1..Len(Tail(d)) : Tail(d)[i].type # "history"
<1>1. \A i \in 1..Len(Tail(d)) : i + 1 \in 1..Len(d) /\ i + 1 # 1 /\ Tail(d)[i] = d[i + 1]
  BY DEF Down
<1> QED BY <1>1 DEF HistoryFirst

\* A pane that has ended shows all n chunks, and no snapshot comes.
Ended(d, s, n) ==
    /\ \A i \in 1..Len(d) : d[i].type # "history"
    /\ \A c \in 1..n : \E i \in 1..Len(s) : s[i] = c

\* When the exit is read all that was printed is shown.
LEMMA EndedByRead ==
    ASSUME NEW d \in Seq(Down), d # <<>>, HistoryFirst(d), Ends(d[1]),
           NEW l, NEW s, NEW l2, NEW s2, Reads(d, l, s, l2, s2),
           NEW n, Caught(d, l, s, n)
    PROVE  Ended(Tail(d), s2, n)
<1>1. s2 = s
  BY DEF Reads, Ends, Numbers
<1>2. 1 \in 1..Len(d) /\ 1 - 1 = 0
  BY DEF Down
<1>3. \A c \in 1..n : Covered(d, l, s, c, 0)
  BY <1>2 DEF Caught
<1>4. \A c \in 1..n : \E i \in 1..Len(s) : s[i] = c
  BY <1>3 DEF Covered
<1> QED BY <1>1, <1>4, HistoryRead DEF Ended

\* The screen of an ended pane loses nothing more.
LEMMA EndedRead ==
    ASSUME NEW d \in Seq(Down), d # <<>>,
           NEW l, NEW s \in Seq(1..MaxOut), NEW l2, NEW s2, Reads(d, l, s, l2, s2),
           NEW n, Ended(d, s, n)
    PROVE  Ended(Tail(d), s2, n)
<1>1. d[1].type # "history"
  BY DEF Ended, Down
<1>2. s2 = s \/ \E a : s2 = Append(s, a)
  BY <1>1 DEF Reads
<1>3. \A c : (\E i \in 1..Len(s) : s[i] = c) => \E i \in 1..Len(s2) : s2[i] = c
  <2> SUFFICES ASSUME NEW c, NEW i \in 1..Len(s), s[i] = c
               PROVE  \E j \in 1..Len(s2) : s2[j] = c
    OBVIOUS
  <2>1. CASE s2 = s
    BY <2>1
  <2>2. ASSUME NEW a, s2 = Append(s, a) PROVE i \in 1..Len(s2) /\ s2[i] = c
    BY <2>2
  <2> QED BY <1>2, <2>1, <2>2
<1>4. \A i \in 1..Len(Tail(d)) : Tail(d)[i].type # "history"
  <2>1. \A i \in 1..Len(Tail(d)) : i + 1 \in 1..Len(d) /\ Tail(d)[i] = d[i + 1]
    BY DEF Down
  <2> QED BY <2>1 DEF Ended
<1> QED BY <1>3, <1>4 DEF Ended

LEMMA EndedGrows ==
    ASSUME NEW d \in Seq(Down), NEW x \in Seq(Numbered), NEW s, NEW n, Ended(d, s, n)
    PROVE  Ended(d \o x, s, n)
<1>1. \A i \in 1..Len(d \o x) :
         \/ i \in 1..Len(d) /\ (d \o x)[i] = d[i]
         \/ i - Len(d) \in 1..Len(x) /\ (d \o x)[i] = x[i - Len(d)]
  BY DEF Down
<1>2. \A i \in 1..Len(x) : x[i] \in Numbered
  OBVIOUS
<1>3. \A i \in 1..Len(x) : x[i].type # "history"
  BY <1>2 DEF Numbered
<1> QED BY <1>1, <1>3 DEF Ended

(************************ The bottom of the screen ************************)

\* Once all of d is read the screen ends with chunk o: message n, the newest
\* there is, is still to come, or nothing but duplicates follows the snapshot or
\* the screen.
AtBottom(d, l, s, n, o) ==
    \/ \E i \in 1..Len(d) : Fresh(d, l, i) /\ d[i].seq = n
    \/ /\ \A i \in 1..Len(d) : Numbers(d[i]) => d[i].seq <= l
       /\ IF Len(d) >= 1 /\ d[1].type = "history" THEN d[1].upto = o ELSE Last(s) = o

\* The newest message carries the chunk o.
Newest(d, n, o) ==
    \A i \in 1..Len(d) : Numbers(d[i]) => d[i].seq <= n /\ (d[i].seq = n => d[i].chunk = o)

LEMMA BottomRead ==
    ASSUME NEW d \in Seq(Down), d # <<>>, HistoryFirst(d),
           NEW l \in Nat, NEW s \in Seq(1..MaxOut), NEW l2, NEW s2, Reads(d, l, s, l2, s2),
           NEW n \in Nat, NEW o \in 1..MaxOut, Newest(d, n, o), AtBottom(d, l, s, n, o)
    PROVE  AtBottom(Tail(d), l2, s2, n, o)
<1> DEFINE t == Tail(d)
           m == d[1]
<1>1. /\ Len(d) \in Nat \ {0} /\ Len(t) = Len(d) - 1 /\ m \in Down
      /\ \A i \in 1..Len(t) : t[i] = d[i + 1] /\ i + 1 \in 1..Len(d)
  BY DEF Down
<1>2. \A i \in 1..Len(t) : t[i].type # "history"
  BY HistoryRead
<1>3. 1 \in 1..Len(d)
  BY <1>1
<1> HIDE DEF t, m
<1>4. Len(t) >= 1 => t[1].type # "history"
  BY <1>1, <1>2
<1>5. ASSUME NEW i \in 2..Len(d), Fresh(d, l, i), d[i].seq = n
      PROVE  i - 1 \in 1..Len(t) /\ Fresh(t, l2, i - 1) /\ t[i - 1].seq = n
  <2>1. i - 1 \in 1..Len(t) /\ t[i - 1] = d[i]
    BY <1>1
  <2>2. \A j \in 1..((i - 1) - 1) : t[j] = d[j + 1] /\ j + 1 \in 1..(i - 1)
    BY <1>1, <2>1
  <2>3. d[i].seq > l2
    <3>1. 1 \in 1..(i - 1)
      OBVIOUS
    <3>2. Numbers(m) => m.seq < d[i].seq
      BY <1>5, <3>1 DEF Fresh, m
    <3>3. d[i].seq > l
      BY <1>5 DEF Fresh
    <3> QED BY <3>2, <3>3 DEF Reads, m, Numbers
  <2> QED BY <1>5, <2>1, <2>2, <2>3 DEF Fresh
<1>6. CASE \E i \in 2..Len(d) : Fresh(d, l, i) /\ d[i].seq = n
  BY <1>5, <1>6 DEF AtBottom, t
<1>7. CASE Fresh(d, l, 1) /\ d[1].seq = n
  <2>1. m.chunk = o /\ Numbers(m)
    BY <1>3, <1>7 DEF Newest, Fresh, m
  <2>2. l2 = n /\ s2 = Append(s, o)
    BY <2>1, <1>7 DEF Reads, Fresh, ExitChunk, m, Numbers
  <2>3. Last(s2) = o
    BY <2>2 DEF Last
  <2>4. \A i \in 1..Len(t) : Numbers(t[i]) => t[i].seq <= l2
    BY <1>1, <2>2 DEF Newest
  <2> QED BY <1>4, <2>3, <2>4 DEF AtBottom, t
<1>8. CASE /\ \A i \in 1..Len(d) : Numbers(d[i]) => d[i].seq <= l
           /\ IF m.type = "history" THEN m.upto = o ELSE Last(s) = o
  <2>1. CASE m.type = "history"
    <3>1. s2 = [i \in 1..o |-> i] /\ l2 = l
      BY <1>8, <2>1 DEF Reads, Numbers, m
    <3>2. Last(s2) = o
      BY <3>1 DEF Last
    <3> QED BY <1>1, <1>4, <1>8, <3>1, <3>2 DEF AtBottom, t
  <2>2. CASE m.type # "history"
    <3>1. Numbers(m) => m.seq <= l /\ m.seq \in Nat
      BY <1>1, <1>3, <1>8 DEF m, Down, Numbered, LegacyExit, Numbers
    <3>2. s2 = s /\ l2 = l
      BY <2>2, <3>1 DEF Reads, Numbers, m
    <3> QED BY <1>1, <1>4, <1>8, <2>2, <3>2 DEF AtBottom, t
  <2> QED BY <2>1, <2>2
<1>9. \A i \in 1..Len(d) : i = 1 \/ i \in 2..Len(d)
  BY <1>1
<1> QED BY <1>1, <1>6, <1>7, <1>8, <1>9 DEF AtBottom, m

\* A replay brings duplicates, or the newest message after older ones.
LEMMA BottomGrows ==
    ASSUME NEW d \in Seq(Down), NEW x \in Seq(Numbered),
           NEW l \in Nat, NEW s, NEW n \in Nat, NEW o, l <= n,
           \A i \in 1..Len(x) : x[i].seq <= n,
           x # <<>> => \E i \in 1..Len(x) : x[i].seq = n,
           AtBottom(d, l, s, n, o)
    PROVE  AtBottom(d \o x, l, s, n, o)
<1> DEFINE e == d \o x
<1>1. /\ Len(d) \in Nat /\ Len(x) \in Nat /\ Len(e) = Len(d) + Len(x)
      /\ \A i \in 1..Len(d) : e[i] = d[i] /\ i \in 1..Len(e)
      /\ \A i \in 1..Len(x) : e[Len(d) + i] = x[i] /\ Len(d) + i \in 1..Len(e)
  BY DEF Down
<1>2. \A i \in 1..Len(e) : i \in 1..Len(d) \/ (i - Len(d) \in 1..Len(x) /\ e[i] = x[i - Len(d)])
  BY DEF Down
<1>3. \A i \in 1..Len(x) : x[i] \in Numbered
  OBVIOUS
<1>4. x = <<>> => e = d
  BY DEF Down
<1> HIDE DEF e
<1>5. CASE \E i \in 1..Len(d) : Fresh(d, l, i) /\ d[i].seq = n
  <2>1. PICK i \in 1..Len(d) : Fresh(d, l, i) /\ d[i].seq = n
    BY <1>5
  <2>2. e[i] = d[i] /\ i \in 1..Len(e) /\ \A j \in 1..(i - 1) : e[j] = d[j]
    <3>1. \A j \in 1..(i - 1) : j \in 1..Len(d)
      OBVIOUS
    <3> QED BY <1>1, <3>1
  <2>3. Fresh(e, l, i) /\ e[i].seq = n
    BY <2>1, <2>2 DEF Fresh
  <2> QED BY <2>2, <2>3 DEF AtBottom, e
<1>6. CASE /\ \A i \in 1..Len(d) : Numbers(d[i]) => d[i].seq <= l
           /\ IF Len(d) >= 1 /\ d[1].type = "history" THEN d[1].upto = o ELSE Last(s) = o
  <2>1. CASE x = <<>>
    BY <1>4, <2>1 DEF e
  <2>2. CASE x # <<>> /\ l = n
    <3>1. \A i \in 1..Len(e) : Numbers(e[i]) => e[i].seq <= l
      BY <1>1, <1>2, <1>6, <2>2
    <3>2. Len(d) >= 1 => e[1] = d[1] /\ Len(e) >= 1
      BY <1>1
    <3>3. Len(d) = 0 /\ Len(e) >= 1 => e[1].type # "history"
      <4>1. Len(d) = 0 /\ Len(e) >= 1 => 1 \in 1..Len(x) /\ e[1] = x[1]
        BY <1>1
      <4> QED BY <4>1, <1>3 DEF Numbered
    <3>4. IF Len(e) >= 1 /\ e[1].type = "history" THEN e[1].upto = o ELSE Last(s) = o
      BY <1>1, <1>6, <3>2, <3>3
    <3> QED BY <3>1, <3>4 DEF AtBottom, e
  <2>3. CASE x # <<>> /\ l < n
    <3> DEFINE N == {i \in 1..Len(e) : Numbers(e[i]) /\ e[i].seq = n}
    <3>1. N # {}
      <4>1. PICK i \in 1..Len(x) : x[i].seq = n
        BY <2>3
      <4>2. Numbers(x[i])
        BY <1>3 DEF Numbers, Numbered
      <4>3. Len(d) + i \in N
        BY <1>1, <4>1, <4>2
      <4> QED BY <4>3
    <3>2. PICK i \in N : \A j \in N : i <= j
      <4>1. N \in SUBSET Nat
        BY <1>1
      <4> HIDE DEF N
      <4> QED BY <3>1, <4>1, LeastNumber
    <3>3. \A j \in 1..Len(e) : Numbers(e[j]) => e[j].seq \in Nat /\ e[j].seq <= n
      <4>1. \A j \in 1..Len(d) : d[j] \in Down
        OBVIOUS
      <4>4. \A m \in Down : Numbers(m) => m.seq \in Nat
        BY DEF Down, Numbered, LegacyExit, Numbers
      <4>2. \A j \in 1..Len(d) : Numbers(d[j]) => d[j].seq \in Nat /\ d[j].seq <= n
        BY <4>1, <4>4, <1>6, <2>3
      <4>3. \A j \in 1..Len(x) : x[j].seq \in Nat /\ x[j].seq <= n
        BY <1>3 DEF Numbered
      <4> QED BY <1>1, <1>2, <4>2, <4>3
    <3>4. ASSUME NEW j \in 1..(i - 1), Numbers(e[j]) PROVE e[j].seq < n
      <4>1. j \in 1..Len(e) /\ j \notin N
        BY <3>2
      <4> QED BY <3>3, <3>4, <4>1
    <3>5. Fresh(e, l, i) /\ i \in 1..Len(e) /\ e[i].seq = n
      BY <2>3, <3>2, <3>4 DEF Fresh
    <3> QED BY <3>5 DEF AtBottom, e
  <2> QED BY <2>1, <2>2, <2>3
<1> QED BY <1>5, <1>6 DEF AtBottom

(***************************** The invariant ******************************)

\* What the row's log holds or will hold.
Logged == IF live THEN out ELSE saved.out

\* Only connected panes have messages on their way; all of them are fed while
\* the session lives.
Attached ==
    /\ \A v \in Viewers \ conn : down[v] = <<>> /\ up[v] = <<>>
    /\ fed = IF live THEN conn ELSE {}

\* No number is past the service's, and the newest message in the buffer has it.
Bounds ==
    /\ \A v \in Viewers : /\ last[v] <= seq
                          /\ \A i \in 1..Len(down[v]) : Numbers(down[v][i]) => down[v][i].seq <= seq
    /\ \A i \in 1..Len(buffer) : buffer[i].seq <= seq
    /\ buffer # <<>> => Last(buffer).seq = seq

\* Nothing tells of an end before it.
NoEnd ==
    live => /\ exited = {}
            /\ \A v \in Viewers : \A i \in 1..Len(down[v]) : ~Ends(down[v][i])
            /\ \A i \in 1..Len(buffer) : ~Ends(buffer[i])

\* Every connected pane will show all there is, an ended one does.
Promised ==
    /\ \A v \in Viewers : HistoryFirst(down[v])
    /\ \A v \in conn : Caught(down[v], last[v], screen[v], Logged)
    /\ \A v \in exited : Ended(down[v], screen[v], Logged)

\* Unless tmux is about to repaint, the newest message carries the newest chunk
\* and every attached screen will end with it.
Repainted ==
    live /\ ~redraw /\ out > 0 =>
        /\ \A v \in Viewers : Newest(down[v], seq, out)
        /\ Newest(buffer, seq, out)
        /\ \A v \in fed : AtBottom(down[v], last[v], screen[v], seq, out)

Safe == Attached /\ Bounds /\ NoEnd /\ Promised /\ Repainted

IInv == TypeOK /\ Safe

\* What a numbered message does to what is on its way to an attached pane.
LEMMA SentToPane ==
    ASSUME NEW d \in Seq(Down), NEW m \in Numbered, HistoryFirst(d),
           NEW l \in Nat, NEW s, l < m.seq,
           \A i \in 1..Len(d) : Numbers(d[i]) => d[i].seq < m.seq
    PROVE  /\ HistoryFirst(Append(d, m))
           /\ Covered(Append(d, m), l, s, m.chunk, Len(Append(d, m)))
           /\ \A n : Caught(d, l, s, n) => Caught(Append(d, m), l, s, n)
           /\ \A o : AtBottom(Append(d, m), l, s, m.seq, o)
           /\ Newest(Append(d, m), m.seq, m.chunk)
<1> DEFINE e == Append(d, m)
<1>1. /\ e = d \o <<m>> /\ <<m>> \in Seq(Numbered)
      /\ Len(d) \in Nat /\ Len(e) = Len(d) + 1 /\ e[Len(d) + 1] = m
      /\ \A i \in 1..Len(d) : e[i] = d[i]
  BY DEF Down
<1>2. \A n : Caught(d, l, s, n) => Caught(e, l, s, n)
  BY <1>1, CaughtGrows
<1>3. Covered(e, l, s, m.chunk, Len(e))
  BY <1>1, NewCovered
<1> HIDE DEF e
<1>4. \A i \in 1..Len(e) : i = Len(e) \/ i \in 1..Len(d)
  BY <1>1
<1>5. Numbers(m) /\ m.seq \in Nat
  BY DEF Numbers, Numbered
<1>6. HistoryFirst(e)
  BY <1>1, <1>4, <1>5 DEF HistoryFirst, Numbers
<1>7. \A i \in 1..Len(d) : d[i] \in Down
  OBVIOUS
<1>10. \A a \in Down : Numbers(a) => a.seq \in Nat
  BY DEF Down, Numbered, LegacyExit, Numbers
<1>8. Newest(e, m.seq, m.chunk)
  BY <1>1, <1>4, <1>5, <1>7, <1>10 DEF Newest
<1>9. Fresh(e, l, Len(e)) /\ e[Len(e)].seq = m.seq /\ Len(e) \in 1..Len(e)
  <2>1. \A j \in 1..(Len(e) - 1) : j \in 1..Len(d)
    BY <1>1
  <2> QED BY <1>1, <1>5, <2>1 DEF Fresh
<1> QED BY <1>2, <1>3, <1>6, <1>8, <1>9 DEF e, AtBottom

\* What sending a numbered message keeps, and what it brings.
LEMMA Sent ==
    ASSUME IInv, live, NEW c \in 0..MaxOut, SendSequenced(c),
           UNCHANGED <<conn, up, clientVars>>
    PROVE  /\ Bounds'
           /\ \A v \in Viewers \ conn : down'[v] = <<>> /\ up'[v] = <<>>
           /\ \A v \in Viewers : HistoryFirst(down'[v])
           /\ \A v \in conn : /\ Caught(down'[v], last[v], screen[v], out)
                              /\ Covered(down'[v], last[v], screen[v], c, Len(down'[v]))
                              /\ \A o : AtBottom(down'[v], last[v], screen[v], seq', o)
           /\ \A v \in Viewers : Newest(down'[v], seq', c)
           /\ Newest(buffer', seq', c)
           /\ c # ExitChunk => /\ \A v \in Viewers : \A i \in 1..Len(down'[v]) : ~Ends(down'[v][i])
                               /\ \A i \in 1..Len(buffer') : ~Ends(buffer'[i])
<1> DEFINE m == Sequenced(seq + 1, c)
<1>1. /\ seq \in Nat /\ buffer \in Seq(Numbered) /\ Len(buffer) <= Cap
      /\ down \in [Viewers -> Seq(Down)] /\ last \in [Viewers -> Nat] /\ conn \subseteq Viewers
  BY DEF IInv, TypeOK
<1>2. /\ m \in Numbered /\ m.seq = seq + 1 /\ m.chunk = c /\ Numbers(m) /\ m.type # "exit"
  BY <1>1 DEF Sequenced, Numbered, Numbers
<1>3. /\ seq' = seq + 1 /\ buffer' = Buffered(m) /\ fed = conn
      /\ \A v \in conn : down'[v] = Append(down[v], m)
      /\ \A v \in Viewers \ conn : down'[v] = <<>> /\ down[v] = <<>> /\ up[v] = <<>>
  BY <1>1 DEF SendSequenced, IInv, Safe, Attached
<1> HIDE DEF m
<1>4. /\ Buffered(m) # <<>> /\ Last(Buffered(m)) = m
      /\ \A i \in 1..Len(buffer') : buffer'[i] = m \/ \E k \in 1..Len(buffer) : buffer'[i] = buffer[k]
  BY <1>1, <1>2, <1>3, BufferedType
<1>5. /\ \A v \in Viewers : last[v] <= seq
      /\ \A v \in Viewers : \A i \in 1..Len(down[v]) : Numbers(down[v][i]) => down[v][i].seq <= seq
      /\ \A k \in 1..Len(buffer) : buffer[k].seq <= seq
  BY DEF IInv, Safe, Bounds
<1>13. \A i \in 1..Len(buffer') : buffer'[i] = m \/ (buffer'[i].seq <= seq /\ buffer'[i].seq \in Nat)
  <2>1. \A k \in 1..Len(buffer) : buffer[k] \in Numbered
    BY <1>1
  <2>2. \A k \in 1..Len(buffer) : buffer[k].seq \in Nat
    BY <2>1 DEF Numbered
  <2> QED BY <1>4, <1>5, <2>2
<1>12. \A v \in Viewers : \A i \in 1..Len(down[v]) : Numbers(down[v][i]) => down[v][i].seq \in Nat
  <2>1. \A a \in Down : Numbers(a) => a.seq \in Nat
    BY DEF Down, Numbered, LegacyExit, Numbers
  <2>2. \A v \in Viewers : \A i \in 1..Len(down[v]) : down[v][i] \in Down
    BY <1>1
  <2> QED BY <2>1, <2>2
<1>6. ASSUME NEW v \in conn
      PROVE  /\ HistoryFirst(down'[v])
             /\ Covered(down'[v], last[v], screen[v], c, Len(down'[v]))
             /\ Caught(down'[v], last[v], screen[v], out)
             /\ \A o : AtBottom(down'[v], last[v], screen[v], seq', o)
             /\ Newest(down'[v], seq', c)
  <2> DEFINE d == down[v]
  <2>1. d \in Seq(Down) /\ HistoryFirst(d) /\ last[v] \in Nat /\ last[v] < m.seq
    BY <1>1, <1>2, <1>5 DEF IInv, Safe, Promised
  <2>2. \A i \in 1..Len(d) : Numbers(d[i]) => d[i].seq < m.seq
    BY <1>1, <1>2, <1>5, <1>12
  <2>3. Caught(d, last[v], screen[v], out)
    BY DEF IInv, Safe, Promised, Logged
  <2>4. down'[v] = Append(d, m)
    BY <1>3
  <2> HIDE DEF d
  <2> QED BY <1>2, <1>3, <2>1, <2>2, <2>3, <2>4, SentToPane
<1>7. \A v \in Viewers \ conn : HistoryFirst(down'[v]) /\ Newest(down'[v], seq', c)
  BY <1>3 DEF HistoryFirst, Newest
<1>8. Newest(buffer', seq', c)
  BY <1>1, <1>2, <1>3, <1>13 DEF Newest
<1>9. Bounds'
  <2>1. \A i \in 1..Len(buffer') : buffer'[i].seq <= seq'
    BY <1>1, <1>2, <1>3, <1>13
  <2>2. \A v \in Viewers : \A i \in 1..Len(down'[v]) : Numbers(down'[v][i]) => down'[v][i].seq <= seq'
    BY <1>6, <1>7 DEF Newest
  <2>3. Last(buffer').seq = seq'
    BY <1>2, <1>3, <1>4
  <2>4. \A v \in Viewers : last'[v] <= seq'
    BY <1>1, <1>3, <1>5 DEF clientVars
  <2> QED BY <2>1, <2>2, <2>3, <2>4 DEF Bounds
<1>10. ASSUME c # ExitChunk, NEW v \in Viewers, NEW i \in 1..Len(down'[v])
       PROVE  ~Ends(down'[v][i])
  <2>1. v \in conn
    BY <1>3
  <2>2. down'[v][i] = m \/ (i \in 1..Len(down[v]) /\ down'[v][i] = down[v][i])
    <3> DEFINE d == down[v]
    <3>1. d \in Seq(Down) /\ down'[v] = Append(d, m)
      BY <1>1, <1>3, <2>1
    <3> HIDE DEF d
    <3>2. i \in 1..Len(Append(d, m))
      BY <3>1
    <3>3. Append(d, m)[i] = m \/ (i \in 1..Len(d) /\ Append(d, m)[i] = d[i])
      BY <3>1, <3>2 DEF Down
    <3> QED BY <3>1, <3>3 DEF d
  <2> QED BY <1>2, <1>10, <2>2 DEF IInv, Safe, NoEnd, Ends
<1>11. ASSUME c # ExitChunk, NEW i \in 1..Len(buffer') PROVE ~Ends(buffer'[i])
  BY <1>2, <1>4, <1>11 DEF IInv, Safe, NoEnd, Ends
<1> QED BY <1>3, <1>6, <1>7, <1>8, <1>9, <1>10, <1>11

\* The agent prints: the chunk is on its way to every attached pane.
LEMMA OutputKeeps == IInv /\ Output => Safe'
<1> SUFFICES ASSUME IInv, Output PROVE Safe'
  OBVIOUS
<1>1. /\ live /\ out \in Nat /\ out + 1 \in 0..MaxOut /\ SendSequenced(out + 1)
      /\ out' = out + 1 /\ out + 1 # ExitChunk
      /\ UNCHANGED <<live, saved, redraw, fed, up, conn, clientVars>>
  BY SizeAssumption DEF Output, IInv, TypeOK, ExitChunk
<1>2. /\ Bounds'
      /\ \A v \in Viewers \ conn : down'[v] = <<>> /\ up'[v] = <<>>
      /\ \A v \in Viewers : HistoryFirst(down'[v])
      /\ \A v \in conn : /\ Caught(down'[v], last[v], screen[v], out)
                         /\ Covered(down'[v], last[v], screen[v], out + 1, Len(down'[v]))
                         /\ \A o : AtBottom(down'[v], last[v], screen[v], seq', o)
      /\ \A v \in Viewers : Newest(down'[v], seq', out + 1)
      /\ Newest(buffer', seq', out + 1)
      /\ \A v \in Viewers : \A i \in 1..Len(down'[v]) : ~Ends(down'[v][i])
      /\ \A i \in 1..Len(buffer') : ~Ends(buffer'[i])
  BY <1>1, Sent
<1>3. /\ exited' = {} /\ exited = {} /\ conn' = conn /\ fed' = conn /\ conn \subseteq Viewers
      /\ last' = last /\ screen' = screen /\ live' /\ Logged' = out + 1
  BY <1>1 DEF IInv, TypeOK, Safe, NoEnd, Attached, clientVars, Logged
<1>4. ASSUME NEW v \in conn PROVE Caught(down'[v], last[v], screen[v], out + 1)
  <2>1. \A c \in 1..(out + 1) : c = out + 1 \/ c \in 1..out
    BY <1>1
  <2> QED BY <1>2, <1>3, <2>1 DEF Caught
<1>5. Attached'
  BY <1>2, <1>3 DEF Attached
<1>6. NoEnd'
  BY <1>2, <1>3 DEF NoEnd
<1>7. Promised'
  BY <1>2, <1>3, <1>4 DEF Promised
<1>8. Repainted'
  BY <1>1, <1>2, <1>3 DEF Repainted
<1> QED BY <1>2, <1>5, <1>6, <1>7, <1>8 DEF Safe

\* tmux repaints: the newest chunk comes again, under the newest number.
LEMMA RedrawKeeps == IInv /\ Redraw => Safe'
<1> SUFFICES ASSUME IInv, Redraw PROVE Safe'
  OBVIOUS
<1>1. /\ live /\ out \in 0..MaxOut /\ redraw' = FALSE
      /\ UNCHANGED <<out, live, saved, fed, up, conn, clientVars>>
  BY DEF Redraw, IInv, TypeOK
<1>3. /\ exited' = {} /\ exited = {} /\ conn' = conn /\ fed' = conn /\ conn \subseteq Viewers
      /\ last' = last /\ screen' = screen /\ live' /\ Logged' = out /\ Logged = out
      /\ out' = out /\ up' = up
  BY <1>1 DEF IInv, TypeOK, Safe, NoEnd, Attached, clientVars, Logged
<1>4. CASE out = 0
  <2>1. UNCHANGED <<seq, buffer, down>>
    BY <1>4 DEF Redraw
  <2>4. Attached'
    BY <1>3, <2>1 DEF IInv, Safe, Attached
  <2>5. Bounds' /\ NoEnd'
    <3>1. Bounds /\ NoEnd /\ live
      BY <1>1 DEF IInv, Safe
    <3>2. Bounds'
      BY <1>3, <2>1, <3>1 DEF Bounds
    <3>3. NoEnd'
      BY <1>3, <2>1, <3>1 DEF NoEnd
    <3> QED BY <3>2, <3>3
  <2>6. Promised'
    BY <1>3, <2>1 DEF IInv, Safe, Promised
  <2>2. Attached' /\ Bounds' /\ NoEnd' /\ Promised'
    BY <2>4, <2>5, <2>6
  <2>3. Repainted'
    BY <1>3, <1>4 DEF Repainted
  <2> QED BY <2>2, <2>3 DEF Safe
<1>5. CASE out # 0
  <2>1. SendSequenced(out) /\ out # ExitChunk
    BY <1>5 DEF Redraw, ExitChunk
  <2>2. /\ Bounds'
        /\ \A v \in Viewers \ conn : down'[v] = <<>> /\ up'[v] = <<>>
        /\ \A v \in Viewers : HistoryFirst(down'[v])
        /\ \A v \in conn : /\ Caught(down'[v], last[v], screen[v], out)
                           /\ \A o : AtBottom(down'[v], last[v], screen[v], seq', o)
        /\ \A v \in Viewers : Newest(down'[v], seq', out)
        /\ Newest(buffer', seq', out)
        /\ \A v \in Viewers : \A i \in 1..Len(down'[v]) : ~Ends(down'[v][i])
        /\ \A i \in 1..Len(buffer') : ~Ends(buffer'[i])
    BY <1>1, <2>1, Sent
  <2>3. Attached' /\ NoEnd'
    BY <2>2, <1>3 DEF Attached, NoEnd
  <2>4. Promised'
    BY <2>2, <1>3 DEF Promised
  <2>5. Repainted'
    BY <2>2, <1>3 DEF Repainted
  <2> QED BY <2>2, <2>3, <2>4, <2>5 DEF Safe
<1> QED BY <1>4, <1>5

\* The agent exits: the exit follows everything it printed.
LEMMA ExitKeeps == IInv /\ Exit => Safe'
<1> SUFFICES ASSUME IInv, Exit PROVE Safe'
  OBVIOUS
<1>1. /\ live /\ 0 \in 0..MaxOut /\ SendSequenced(0)
      /\ ~live' /\ fed' = {} /\ saved'.out = out
      /\ UNCHANGED <<up, conn, clientVars>>
  BY SizeAssumption DEF Exit, ExitChunk
<1>2. /\ Bounds'
      /\ \A v \in Viewers \ conn : down'[v] = <<>> /\ up'[v] = <<>>
      /\ \A v \in Viewers : HistoryFirst(down'[v])
      /\ \A v \in conn : Caught(down'[v], last[v], screen[v], out)
  BY <1>1, Sent
<1>3. /\ exited' = {} /\ conn' = conn /\ last' = last /\ screen' = screen /\ Logged' = out
  BY <1>1 DEF IInv, Safe, NoEnd, clientVars, Logged
<1>4. Attached' /\ NoEnd' /\ Repainted'
  BY <1>1, <1>2, <1>3 DEF Attached, NoEnd, Repainted
<1>5. Promised'
  BY <1>2, <1>3 DEF Promised
<1> QED BY <1>2, <1>4, <1>5 DEF Safe

\* The row is written while the session lives: what there is stays the same.
LEMMA FlushKeeps == IInv /\ Flush => Safe'
<1> SUFFICES ASSUME IInv, Flush PROVE Safe'
  OBVIOUS
<1>1. /\ live' = live /\ live /\ out' = out /\ seq' = seq /\ redraw' = redraw /\ buffer' = buffer
      /\ fed' = fed /\ down' = down /\ up' = up /\ conn' = conn /\ last' = last
      /\ screen' = screen /\ exited' = exited
  BY DEF Flush, clientVars
<1>2. Attached /\ Bounds /\ NoEnd /\ Promised /\ Repainted
  BY DEF IInv, Safe
<1>3. Attached'
  BY <1>1, <1>2 DEF Attached
<1>4. Bounds'
  BY <1>1, <1>2 DEF Bounds
<1>5. NoEnd'
  BY <1>1, <1>2 DEF NoEnd
<1>6. Promised'
  <2>1. Logged' = Logged
    BY <1>1 DEF Logged
  <2> QED BY <1>1, <1>2, <2>1 DEF Promised
<1>7. Repainted'
  BY <1>1, <1>2 DEF Repainted
<1> QED BY <1>3, <1>4, <1>5, <1>6, <1>7 DEF Safe

\* The panes and what is on its way to them are untouched, and the buffer has
\* lost messages, but not its newest unless it is empty.
LEMMA BufferShrinks ==
    ASSUME IInv,
           UNCHANGED <<out, live, seq, saved, redraw, fed, down, conn, clientVars>>,
           \A v \in Viewers \ conn : up'[v] = <<>>,
           buffer' \in Seq(Numbered),
           \A i \in 1..Len(buffer') : \E k \in 1..Len(buffer) : buffer'[i] = buffer[k],
           buffer' # <<>> => Last(buffer') = Last(buffer) /\ buffer # <<>>
    PROVE  Safe'
<1>1. /\ live' = live /\ out' = out /\ seq' = seq /\ redraw' = redraw
      /\ fed' = fed /\ down' = down /\ conn' = conn /\ last' = last
      /\ screen' = screen /\ exited' = exited /\ saved' = saved
  BY DEF clientVars
<1>2. Attached /\ Bounds /\ NoEnd /\ Promised /\ Repainted
  BY DEF IInv, Safe
<1>3. Attached'
  BY <1>1, <1>2 DEF Attached
<1>4. Bounds'
  BY <1>1, <1>2 DEF Bounds
<1>5. NoEnd'
  BY <1>1, <1>2 DEF NoEnd
<1>6. Promised'
  <2>1. Logged' = Logged
    BY <1>1 DEF Logged
  <2> QED BY <1>1, <1>2, <2>1 DEF Promised
<1>7. Repainted'
  <2>1. Newest(buffer, seq, out) => Newest(buffer', seq, out)
    BY DEF Newest
  <2> QED BY <1>1, <1>2, <2>1 DEF Repainted
<1> QED BY <1>3, <1>4, <1>5, <1>6, <1>7 DEF Safe

\* The oldest message expires.
LEMMA ExpireKeeps == IInv /\ Expire => Safe'
<1> SUFFICES ASSUME IInv, Expire PROVE Safe'
  OBVIOUS
<1>1. buffer \in Seq(Numbered) /\ buffer # <<>> /\ buffer' = Tail(buffer)
      /\ UNCHANGED <<out, live, seq, saved, redraw, fed, down, up, conn, clientVars>>
  BY DEF Expire, IInv, TypeOK
<1>2. /\ Tail(buffer) \in Seq(Numbered) /\ Len(Tail(buffer)) = Len(buffer) - 1
      /\ \A i \in 1..Len(Tail(buffer)) : Tail(buffer)[i] = buffer[i + 1] /\ i + 1 \in 1..Len(buffer)
  BY <1>1
<1>3. Tail(buffer) # <<>> => Last(Tail(buffer)) = Last(buffer)
  BY <1>1, <1>2 DEF Last
<1>4. \A v \in Viewers \ conn : up'[v] = <<>>
  BY <1>1 DEF IInv, Safe, Attached
<1>5. \A i \in 1..Len(Tail(buffer)) : \E k \in 1..Len(buffer) : Tail(buffer)[i] = buffer[k]
  BY <1>2
<1> QED BY <1>1, <1>2, <1>3, <1>4, <1>5, BufferShrinks

\* What is kept of the messages past a number: the newest, or nothing.
LEMMA KeptMessages ==
    ASSUME TypeOK, Bounds, NEW T,
           \A i, k \in 1..Len(buffer) :
               buffer[i] \in T /\ buffer[i].seq <= buffer[k].seq => buffer[k] \in T
    PROVE  /\ Kept(buffer, T) \in Seq(Numbered)
           /\ \A i \in 1..Len(Kept(buffer, T)) : \E k \in 1..Len(buffer) : Kept(buffer, T)[i] = buffer[k]
           /\ Kept(buffer, T) # <<>> => buffer # <<>> /\ Last(Kept(buffer, T)) = Last(buffer)
<1> DEFINE t == Kept(buffer, T)
<1>1. buffer \in Seq(Numbered)
  BY DEF TypeOK
<1>2. /\ t \in Seq(Numbered)
      /\ \A i \in 1..Len(t) : t[i] \in T /\ \E k \in 1..Len(buffer) : t[i] = buffer[k]
  BY <1>1, KeptElements
<1>3. buffer # <<>> /\ buffer[Len(buffer)] \in T => t # <<>> /\ t[Len(t)] = buffer[Len(buffer)]
  BY <1>1, KeptLast
<1> HIDE DEF t
<1>4. ASSUME t # <<>> PROVE buffer # <<>> /\ Last(t) = Last(buffer)
  <2>1. 1 \in 1..Len(t)
    BY <1>2, <1>4
  <2>2. PICK k \in 1..Len(buffer) : buffer[k] \in T
    BY <1>2, <2>1
  <2>3. Len(buffer) \in 1..Len(buffer) /\ buffer # <<>>
    BY <1>1, <2>2
  <2>4. buffer[k].seq <= buffer[Len(buffer)].seq
    BY <2>2, <2>3 DEF Bounds, Last
  <2>5. buffer[Len(buffer)] \in T
    BY <2>2, <2>3, <2>4
  <2> QED BY <1>3, <2>3, <2>5 DEF Last
<1> QED BY <1>2, <1>4 DEF t

\* An orderly restart numbers on from where it was; nobody is attached yet.
LEMMA RestartKeeps ==
    ASSUME ~MayCrash, IInv, NEW flushed \in BOOLEAN, NEW missed \in BOOLEAN, NEW dies \in BOOLEAN,
           SvcRestart(flushed, missed, dies)
    PROVE  Safe'
<1>1. /\ live /\ live' = ~dies /\ redraw' = live' /\ seq' = seq /\ buffer' = BySeq(buffer)
      /\ fed' = {} /\ conn' = {} /\ last' = last /\ exited' = exited
      /\ down' = [v \in Viewers |-> <<>>] /\ up' = [v \in Viewers |-> <<>>]
  BY DEF SvcRestart, clientVars
<1>2. /\ buffer \in Seq(Numbered) /\ Attached /\ Bounds /\ NoEnd /\ exited = {}
  BY <1>1 DEF IInv, TypeOK, Safe, NoEnd
<1>3. /\ buffer' \in Seq(Numbered) /\ Len(buffer') = Len(buffer)
      /\ \A i \in 1..Len(buffer) : \E k \in 1..Len(buffer) : buffer'[i] = buffer[k]
      /\ \A k \in 1..Len(buffer) : \E i \in 1..Len(buffer) : buffer'[i] = buffer[k]
      /\ \A i, j \in 1..Len(buffer) : i < j => buffer'[i].seq <= buffer'[j].seq
  BY <1>1, <1>2, BySeqOrders
<1>4. Attached' /\ Repainted'
  BY <1>1 DEF Attached, Repainted
<1>5. \A i \in 1..Len(buffer') : buffer'[i].seq <= seq'
  BY <1>1, <1>2, <1>3 DEF Bounds
<1>6. ASSUME buffer' # <<>> PROVE Last(buffer').seq = seq'
  <2> DEFINE n == Len(buffer)
  <2>1. n \in 1..n /\ Len(buffer') = n /\ buffer # <<>>
    BY <1>2, <1>3, <1>6
  <2> HIDE DEF n
  <2>2. PICK i \in 1..n : buffer'[i] = buffer[n]
    BY <1>3, <2>1 DEF n
  <2>3. buffer[n].seq = seq /\ seq \in Nat
    BY <1>2, <2>1 DEF Bounds, Last, n, IInv, TypeOK
  <2>4. i = n \/ buffer'[i].seq <= buffer'[n].seq
    <3>1. i = n \/ i < n
      BY <2>1
    <3>2. \A j, k \in 1..n : j < k => buffer'[j].seq <= buffer'[k].seq
      BY <1>3 DEF n
    <3> QED BY <2>1, <3>1, <3>2
  <2>5. buffer'[n].seq <= seq
    BY <1>1, <1>5, <2>1
  <2>6. buffer'[n].seq \in Nat
    <3>1. buffer'[n] \in Numbered
      BY <1>3, <2>1
    <3> QED BY <3>1 DEF Numbered
  <2>7. buffer'[n].seq = seq
    BY <2>2, <2>3, <2>4, <2>5, <2>6
  <2> QED BY <1>1, <2>1, <2>7 DEF Last
<1>7. Bounds'
  <2>1. \A v \in Viewers : last'[v] <= seq' /\ Len(down'[v]) = 0
    BY <1>1, <1>2 DEF Bounds
  <2> QED BY <1>5, <1>6, <2>1 DEF Bounds
<1>8. NoEnd'
  BY <1>1, <1>2, <1>3 DEF NoEnd
<1>9. Promised'
  BY <1>1, <1>2 DEF Promised, HistoryFirst
<1> QED BY <1>4, <1>7, <1>8, <1>9 DEF Safe

\* A snapshot promises all it holds.
LEMMA SnapshotCaught ==
    ASSUME NEW o \in 0..MaxOut, NEW l, NEW s, NEW d,
           d = <<History(o)>> \/ d = <<History(o), LegacyExit>>
    PROVE  HistoryFirst(d) /\ Caught(d, l, s, o)
<1>1. /\ Len(d) \in {1, 2} /\ d[1] = History(o) /\ (Len(d) = 2 => d[2] = LegacyExit)
  OBVIOUS
<1>2. d[1].type = "history" /\ d[1].upto = o /\ (Len(d) = 2 => d[2].type # "history")
  BY <1>1 DEF History, LegacyExit
<1>3. ~Ends(d[1])
  BY <1>2 DEF Ends, Numbers
<1>4. \A i \in 1..Len(d) : i = 1 \/ (i = 2 /\ Len(d) = 2)
  <2>1. CASE Len(d) = 1
    BY <2>1
  <2>2. CASE Len(d) = 2
    BY <2>2
  <2> QED BY <1>1, <2>1, <2>2
<1>5. \A c \in 1..o : Covered(d, l, s, c, 1) /\ Covered(d, l, s, c, Len(d))
  BY <1>1, <1>2 DEF Covered
<1>6. HistoryFirst(d)
  BY <1>2, <1>4 DEF HistoryFirst
<1>7. ASSUME NEW i \in 1..Len(d), Ends(d[i]), NEW c \in 1..o PROVE Covered(d, l, s, c, i - 1)
  <2>1. i - 1 = 1
    BY <1>3, <1>4, <1>7
  <2> QED BY <1>5, <2>1
<1> QED BY <1>5, <1>6, <1>7 DEF Caught

\* A pane that connects is sent all there is.
LEMMA ConnectKeeps ==
    ASSUME IInv, NEW v \in Viewers, NEW bridged \in BOOLEAN, Connect(v, bridged)
    PROVE  Safe'
<1>1. /\ out' = out /\ live' = live /\ seq' = seq /\ saved' = saved /\ buffer' = buffer
      /\ last' = last /\ screen' = screen /\ exited' = exited /\ conn' = conn \cup {v}
      /\ v \notin conn /\ v \notin exited /\ Logged' = Logged
  BY DEF Connect, clientVars, Logged
<1>2. /\ Attached /\ Bounds /\ NoEnd /\ Promised /\ Repainted
      /\ down \in [Viewers -> Seq(Down)] /\ up \in [Viewers -> Seq(Up)]
      /\ conn \subseteq Viewers /\ exited \subseteq Viewers
      /\ out \in 0..MaxOut /\ saved.out \in 0..MaxOut /\ Logged \in 0..MaxOut
  BY DEF IInv, TypeOK, Safe, Logged
<1>3. /\ \A w \in Viewers \ {v} : down'[w] = down[w] /\ up'[w] = up[w]
      /\ down'[v] = IF live THEN <<History(out)>> ELSE <<History(saved.out), LegacyExit>>
      /\ fed' = (IF live THEN fed \cup {v} ELSE fed) /\ (~redraw' => ~redraw)
  BY <1>2 DEF Connect
<1>4. HistoryFirst(down'[v]) /\ Caught(down'[v], last[v], screen[v], Logged)
  BY <1>2, <1>3, SnapshotCaught DEF Logged
<1>5. \A i \in 1..Len(down'[v]) : ~Numbers(down'[v][i]) /\ (live => ~Ends(down'[v][i]))
  BY <1>3 DEF Numbers, Ends, History, LegacyExit
<1>6. Attached'
  BY <1>1, <1>2, <1>3 DEF Attached
<1>7. Bounds'
  <2>1. \A w \in Viewers : \A i \in 1..Len(down'[w]) : Numbers(down'[w][i]) => down'[w][i].seq <= seq
    BY <1>2, <1>3, <1>5 DEF Bounds
  <2> QED BY <1>1, <1>2, <2>1 DEF Bounds
<1>8. NoEnd'
  BY <1>1, <1>2, <1>3, <1>5 DEF NoEnd
<1>9. Promised'
  BY <1>1, <1>2, <1>3, <1>4 DEF Promised
<1>10. Repainted'
  <2> SUFFICES ASSUME live, ~redraw', out > 0
               PROVE  /\ \A w \in Viewers : Newest(down'[w], seq, out)
                      /\ Newest(buffer, seq, out)
                      /\ \A w \in fed' : AtBottom(down'[w], last[w], screen[w], seq, out)
    BY <1>1 DEF Repainted
  <2>1. /\ \A w \in Viewers : Newest(down[w], seq, out)
        /\ Newest(buffer, seq, out)
        /\ \A w \in fed : AtBottom(down[w], last[w], screen[w], seq, out)
    BY <1>2, <1>3 DEF Repainted
  <2>2. Newest(down'[v], seq, out)
    BY <1>5 DEF Newest
  <2>3. AtBottom(down'[v], last[v], screen[v], seq, out)
    <3>1. Len(down'[v]) = 1 /\ down'[v][1].type = "history" /\ down'[v][1].upto = out
      BY <1>3 DEF History
    <3> QED BY <1>5, <3>1 DEF AtBottom
  <2>4. fed \subseteq conn
    BY DEF IInv, TypeOK
  <2> QED BY <1>1, <1>2, <1>3, <2>1, <2>2, <2>3, <2>4
<1> QED BY <1>6, <1>7, <1>8, <1>9, <1>10 DEF Safe

\* A connection is lost with what it carried; the screen stays.
LEMMA DropKeeps ==
    ASSUME IInv, NEW v \in Viewers, Drop(v)
    PROVE  Safe'
<1>1. /\ out' = out /\ live' = live /\ seq' = seq /\ saved' = saved /\ buffer' = buffer
      /\ last' = last /\ screen' = screen /\ exited' = exited /\ redraw' = redraw
      /\ conn' = conn \ {v} /\ fed' = fed \ {v} /\ Logged' = Logged
  BY DEF Drop, clientVars, Logged
<1>2. /\ Attached /\ Bounds /\ NoEnd /\ Promised /\ Repainted
      /\ down \in [Viewers -> Seq(Down)] /\ up \in [Viewers -> Seq(Up)]
      /\ conn \subseteq Viewers /\ exited \subseteq Viewers /\ fed \subseteq conn
  BY DEF IInv, TypeOK, Safe
<1>3. /\ \A w \in Viewers \ {v} : down'[w] = down[w] /\ up'[w] = up[w]
      /\ down'[v] = <<>> /\ up'[v] = <<>>
  BY <1>2 DEF Drop
<1>9. \A w \in Viewers : down'[w] = down[w] \/ \A i \in 1..Len(down'[w]) : FALSE
  <2>1. \A i \in 1..Len(down'[v]) : FALSE
    BY <1>3
  <2> QED BY <1>3, <2>1
<1>4. Attached'
  BY <1>1, <1>2, <1>3 DEF Attached
<1>5. Bounds'
  <2>1. \A w \in Viewers : \A i \in 1..Len(down'[w]) : Numbers(down'[w][i]) => down'[w][i].seq <= seq
    BY <1>2, <1>9 DEF Bounds
  <2> QED BY <1>1, <1>2, <2>1 DEF Bounds
<1>6. NoEnd'
  BY <1>1, <1>2, <1>9 DEF NoEnd
<1>7. Promised'
  <2>1. \A w \in Viewers : HistoryFirst(down'[w])
    BY <1>2, <1>9 DEF Promised, HistoryFirst
  <2>2. \A w \in conn \ {v} : Caught(down'[w], last[w], screen[w], Logged)
    BY <1>2, <1>3 DEF Promised
  <2>3. \A w \in exited : Ended(down'[w], screen[w], Logged)
    <3>1. ASSUME NEW w \in exited PROVE Ended(down'[w], screen[w], Logged)
      <4>1. Ended(down[w], screen[w], Logged) /\ w \in Viewers
        BY <1>2 DEF Promised
      <4> QED BY <1>9, <4>1 DEF Ended
    <3> QED BY <3>1
  <2> QED BY <1>1, <2>1, <2>2, <2>3 DEF Promised
<1>8. Repainted'
  <2>1. Newest(<<>>, seq, out)
    BY DEF Newest
  <2> QED BY <1>1, <1>2, <1>3, <2>1 DEF Repainted
<1> QED BY <1>4, <1>5, <1>6, <1>7, <1>8 DEF Safe

\* An acknowledgement releases the oldest messages; a replay sends the newest
\* again, after what is on its way already.
LEMMA HandleKeeps ==
    ASSUME IInv, NEW v \in Viewers, Handle(v)
    PROVE  Safe'
<1> DEFINE m == Head(up[v])
<1>1. /\ Attached /\ Bounds /\ NoEnd /\ Promised /\ Repainted /\ TypeOK
      /\ down \in [Viewers -> Seq(Down)] /\ up \in [Viewers -> Seq(Up)]
      /\ conn \subseteq Viewers /\ exited \subseteq Viewers /\ fed \subseteq conn
      /\ buffer \in Seq(Numbered) /\ seq \in Nat /\ last \in [Viewers -> Nat]
  BY DEF IInv, TypeOK, Safe
<1>2. m \in Up /\ m.seq \in Nat /\ up[v] # <<>> /\ v \in conn
  <2>1. up[v] # <<>> /\ up[v] \in Seq(Up)
    BY <1>1 DEF Handle
  <2>2. m \in Up
    BY <2>1
  <2>3. v \in conn
    BY <1>1, <2>1 DEF Attached
  <2>4. m.seq \in Nat
    BY <2>2 DEF Up
  <2> QED BY <2>1, <2>2, <2>3, <2>4
<1>3. /\ out' = out /\ live' = live /\ seq' = seq /\ saved' = saved /\ redraw' = redraw
      /\ last' = last /\ screen' = screen /\ exited' = exited
      /\ conn' = conn /\ fed' = fed /\ Logged' = Logged
      /\ \A w \in Viewers \ {v} : up'[w] = up[w]
  BY <1>1 DEF Handle, clientVars, Logged
<1>4. \/ buffer' = Kept(buffer, {e \in Range(buffer) : e.seq > m.seq}) /\ down' = down
      \/ /\ buffer' = buffer
         /\ down' = [down EXCEPT ![v] = @ \o Kept(buffer, {e \in Range(buffer) : e.seq >= m.seq})]
  BY DEF Handle
<1> HIDE DEF m
<1>5. \A i \in 1..Len(buffer) : buffer[i].seq \in Nat /\ buffer[i] \in Range(buffer)
  <2>1. \A i \in 1..Len(buffer) : buffer[i] \in Numbered
    BY <1>1
  <2> QED BY <1>1, <2>1 DEF Numbered, Range
<1>6. ASSUME buffer' = Kept(buffer, {e \in Range(buffer) : e.seq > m.seq}), down' = down
      PROVE  Safe'
  <2> DEFINE T == {e \in Range(buffer) : e.seq > m.seq}
  <2>1. \A i, k \in 1..Len(buffer) :
            buffer[i] \in T /\ buffer[i].seq <= buffer[k].seq => buffer[k] \in T
    BY <1>2, <1>5
  <2> HIDE DEF T
  <2>2. /\ buffer' \in Seq(Numbered)
        /\ \A i \in 1..Len(buffer') : \E k \in 1..Len(buffer) : buffer'[i] = buffer[k]
        /\ buffer' # <<>> => buffer # <<>> /\ Last(buffer') = Last(buffer)
    BY <1>1, <1>6, <2>1, KeptMessages DEF T
  <2>3. \A w \in Viewers \ conn : up'[w] = <<>>
    BY <1>1, <1>2, <1>3 DEF Attached
  <2>4. UNCHANGED <<out, live, seq, saved, redraw, fed, down, conn, clientVars>>
    BY <1>3, <1>6 DEF clientVars
  <2> QED BY <2>2, <2>3, <2>4, BufferShrinks
<1>7. ASSUME buffer' = buffer,
             down' = [down EXCEPT ![v] = @ \o Kept(buffer, {e \in Range(buffer) : e.seq >= m.seq})]
      PROVE  Safe'
  <2> DEFINE T == {e \in Range(buffer) : e.seq >= m.seq}
             x == Kept(buffer, T)
             d == down[v]
  <2>1. \A i, k \in 1..Len(buffer) :
            buffer[i] \in T /\ buffer[i].seq <= buffer[k].seq => buffer[k] \in T
    BY <1>2, <1>5
  <2>2. d \in Seq(Down) /\ down'[v] = d \o x /\ \A w \in Viewers \ {v} : down'[w] = down[w]
    BY <1>1, <1>7
  <2> HIDE DEF T
  <2>3. /\ x \in Seq(Numbered)
        /\ \A i \in 1..Len(x) : \E k \in 1..Len(buffer) : x[i] = buffer[k]
        /\ x # <<>> => buffer # <<>> /\ Last(x) = Last(buffer)
    BY <1>1, <2>1, KeptMessages
  <2> HIDE DEF x, d
  <2>4. \A i \in 1..Len(d \o x) :
           \/ i \in 1..Len(d) /\ (d \o x)[i] = d[i]
           \/ \E k \in 1..Len(buffer) : (d \o x)[i] = buffer[k]
    <3>1. \A i \in 1..Len(d \o x) :
             \/ i \in 1..Len(d) /\ (d \o x)[i] = d[i]
             \/ i - Len(d) \in 1..Len(x) /\ (d \o x)[i] = x[i - Len(d)]
      BY <2>2, <2>3 DEF Down
    <3> QED BY <2>3, <3>1
  <2>5. Attached'
    BY <1>1, <1>2, <1>3, <2>2 DEF Attached
  <2>6. Bounds'
    <3>1. \A i \in 1..Len(d \o x) : Numbers((d \o x)[i]) => (d \o x)[i].seq <= seq
      BY <1>1, <2>4 DEF Bounds, d
    <3>2. \A w \in Viewers : \A i \in 1..Len(down'[w]) : Numbers(down'[w][i]) => down'[w][i].seq <= seq
      BY <1>1, <2>2, <3>1 DEF Bounds
    <3> QED BY <1>1, <1>3, <1>7, <3>2 DEF Bounds
  <2>7. NoEnd'
    <3>1. live => \A i \in 1..Len(d \o x) : ~Ends((d \o x)[i])
      BY <1>1, <2>4 DEF NoEnd, d
    <3> QED BY <1>1, <1>3, <1>7, <2>2, <3>1 DEF NoEnd
  <2>8. Promised'
    <3>1. HistoryFirst(d) /\ Caught(d, last[v], screen[v], Logged)
      BY <1>1, <1>2 DEF Promised, d
    <3>2. HistoryFirst(d \o x) /\ Caught(d \o x, last[v], screen[v], Logged)
      BY <2>2, <2>3, <3>1, CaughtGrows
    <3>3. v \in exited => Ended(d \o x, screen[v], Logged)
      BY <1>1, <2>2, <2>3, EndedGrows DEF Promised, d
    <3> QED BY <1>1, <1>3, <2>2, <3>2, <3>3 DEF Promised
  <2>9. Repainted'
    <3> SUFFICES ASSUME live, ~redraw, out > 0
                 PROVE  /\ \A w \in Viewers : Newest(down'[w], seq, out)
                        /\ Newest(buffer, seq, out)
                        /\ \A w \in fed : AtBottom(down'[w], last[w], screen[w], seq, out)
      BY <1>3, <1>7 DEF Repainted
    <3>1. /\ \A w \in Viewers : Newest(down[w], seq, out)
          /\ Newest(buffer, seq, out)
          /\ \A w \in fed : AtBottom(down[w], last[w], screen[w], seq, out)
      BY <1>1 DEF Repainted
    <3>2. Newest(d \o x, seq, out)
      <4>1. \A k \in 1..Len(buffer) : Numbers(buffer[k])
        <5>1. \A k \in 1..Len(buffer) : buffer[k] \in Numbered
          BY <1>1
        <5> QED BY <5>1 DEF Numbered, Numbers
      <4> QED BY <2>4, <3>1, <4>1 DEF Newest, d
    <3>3. v \in fed => AtBottom(d \o x, last[v], screen[v], seq, out)
      <4>1. v \in fed => AtBottom(d, last[v], screen[v], seq, out)
        BY <3>1 DEF d
      <4>2. \A i \in 1..Len(x) : x[i].seq <= seq
        BY <1>1, <2>3 DEF Bounds
      <4>3. x # <<>> => \E i \in 1..Len(x) : x[i].seq = seq
        <5>1. x # <<>> => Len(x) \in 1..Len(x) /\ x[Len(x)].seq = seq
          BY <1>1, <2>3 DEF Bounds, Last
        <5> QED BY <5>1
      <4>4. last[v] \in Nat /\ last[v] <= seq
        BY <1>1 DEF Bounds
      <4> QED BY <1>1, <2>2, <2>3, <4>1, <4>2, <4>3, <4>4, BottomGrows
    <3> QED BY <1>1, <2>2, <3>1, <3>2, <3>3
  <2> QED BY <2>5, <2>6, <2>7, <2>8, <2>9 DEF Safe
<1> QED BY <1>4, <1>6, <1>7

\* What a pane reads it was promised, ...
LEMMA ReceiveReads ==
    ASSUME TypeOK, NEW v \in Viewers, Receive(v)
    PROVE  /\ Reads(down[v], last[v], screen[v], last'[v], screen'[v])
           /\ \A w \in Viewers \ {v} : /\ last'[w] = last[w] /\ screen'[w] = screen[w]
                                       /\ down'[w] = down[w] /\ up'[w] = up[w]
           /\ down[v] # <<>> /\ down'[v] = Tail(down[v])
           /\ exited' \in {exited, exited \cup {v}}
           /\ exited' # exited => Ends(down[v][1])
<1> DEFINE m == down[v][1]
<1>1. /\ down \in [Viewers -> Seq(Down)] /\ up \in [Viewers -> Seq(Up)]
      /\ last \in [Viewers -> Nat] /\ screen \in [Viewers -> Seq(1..MaxOut)]
  BY DEF TypeOK
<1>2. /\ down[v] # <<>> /\ down' = [down EXCEPT ![v] = Tail(@)] /\ Head(down[v]) = m
  BY <1>1 DEF Receive
<1>3. m \in Down
  BY <1>1, <1>2
<1>4. \/ m.type = "history" /\ Snapshot(v, m.upto)
      \/ m.type = "sequenced_output" /\ TakeSequenced(v, m)
      \/ m.type = "exit" /\ exited' = exited \cup {v} /\ UNCHANGED <<last, screen, up>>
  BY <1>2 DEF Receive
<1>5. \A w \in Viewers \ {v} : down'[w] = down[w]
  BY <1>1, <1>2
<1>6. down'[v] = Tail(down[v])
  BY <1>1, <1>2
<1> HIDE DEF m
<1>7. CASE m.type = "history" /\ Snapshot(v, m.upto)
  <2>1. /\ last' = last /\ exited' = exited /\ up' = up
        /\ screen'[v] = IF m.upto = 0 THEN screen[v] ELSE [i \in 1..m.upto |-> i]
        /\ \A w \in Viewers \ {v} : screen'[w] = screen[w]
    BY <1>1, <1>7 DEF Snapshot
  <2>2. Reads(down[v], last[v], screen[v], last'[v], screen'[v])
    BY <1>7, <2>1 DEF Reads, m
  <2> QED BY <1>2, <1>5, <1>6, <2>1, <2>2
<1>8. CASE m.type = "sequenced_output" /\ TakeSequenced(v, m)
  <2>1. m.seq \in Nat /\ last[v] \in Nat /\ Numbers(m)
    BY <1>1, <1>3, <1>8 DEF Down, Numbered, LegacyExit, Numbers
  <2>2. CASE m.seq <= last[v]
    <3>1. last' = last /\ screen' = screen /\ exited' = exited /\ up' = up
      BY <1>8, <2>2 DEF TakeSequenced, clientVars
    <3>2. Reads(down[v], last[v], screen[v], last'[v], screen'[v])
      BY <2>1, <2>2, <3>1 DEF Reads, m
    <3> QED BY <1>2, <1>5, <1>6, <3>1, <3>2
  <2>3. CASE m.seq > last[v]
    <3>1. /\ last' = [last EXCEPT ![v] = m.seq]
          /\ up' = [up EXCEPT ![v] = Append(@, OutputAck(m.seq))]
          /\ \/ m.chunk = ExitChunk /\ exited' = exited \cup {v} /\ screen' = screen
             \/ /\ m.chunk # ExitChunk /\ exited' = exited
                /\ screen' = [screen EXCEPT ![v] = Append(@, m.chunk)]
      BY <1>8, <2>1, <2>3 DEF TakeSequenced
    <3>2. /\ last'[v] = m.seq
          /\ \A w \in Viewers \ {v} : last'[w] = last[w] /\ screen'[w] = screen[w] /\ up'[w] = up[w]
          /\ \/ m.chunk = ExitChunk /\ screen'[v] = screen[v]
             \/ m.chunk # ExitChunk /\ screen'[v] = Append(screen[v], m.chunk)
      BY <1>1, <3>1
    <3>3. Reads(down[v], last[v], screen[v], last'[v], screen'[v])
      BY <2>1, <2>3, <3>2 DEF Reads, m
    <3>4. exited' # exited => Ends(down[v][1])
      BY <2>1, <3>1 DEF Ends, m
    <3> QED BY <1>2, <1>5, <1>6, <3>1, <3>2, <3>3, <3>4
  <2> QED BY <2>1, <2>2, <2>3
<1>9. CASE m.type = "exit" /\ exited' = exited \cup {v} /\ UNCHANGED <<last, screen, up>>
  <2>1. Reads(down[v], last[v], screen[v], last'[v], screen'[v]) /\ Ends(down[v][1])
    BY <1>9 DEF Reads, Ends, m
  <2> QED BY <1>2, <1>5, <1>6, <1>9, <2>1
<1> QED BY <1>4, <1>7, <1>8, <1>9

\* ... and what it was promised it still is.
LEMMA ReceiveKeeps ==
    ASSUME IInv, NEW v \in Viewers, Receive(v)
    PROVE  Safe'
<1> DEFINE d == down[v]
           l == last[v]
           s == screen[v]
           l2 == last'[v]
           s2 == screen'[v]
<1>1. /\ Attached /\ Bounds /\ NoEnd /\ Promised /\ Repainted /\ TypeOK
      /\ conn \subseteq Viewers /\ exited \subseteq Viewers /\ fed \subseteq conn
      /\ buffer \in Seq(Numbered) /\ seq \in Nat /\ out \in 0..MaxOut /\ Logged \in Nat
      /\ d \in Seq(Down) /\ l \in Nat /\ s \in Seq(1..MaxOut)
  BY DEF IInv, TypeOK, Safe, Logged
<1>2. /\ out' = out /\ live' = live /\ seq' = seq /\ saved' = saved /\ redraw' = redraw
      /\ buffer' = buffer /\ fed' = fed /\ conn' = conn /\ Logged' = Logged
  BY DEF Receive, svcVars, Logged
<1>3. /\ Reads(d, l, s, l2, s2)
      /\ \A w \in Viewers \ {v} : /\ last'[w] = last[w] /\ screen'[w] = screen[w]
                                  /\ down'[w] = down[w] /\ up'[w] = up[w]
      /\ d # <<>> /\ down'[v] = Tail(d)
      /\ exited' \in {exited, exited \cup {v}}
      /\ exited' # exited => Ends(d[1])
  BY <1>1, ReceiveReads
<1>4. v \in conn
  BY <1>1, <1>3 DEF Attached
<1>5. HistoryFirst(d) /\ Caught(d, l, s, Logged)
  BY <1>1, <1>4 DEF Promised
<1>6. /\ \A i \in 1..Len(d) : Numbers(d[i]) => d[i].seq <= seq
      /\ l <= seq
      /\ live => \A i \in 1..Len(d) : ~Ends(d[i])
      /\ v \in exited => Ended(d, s, Logged)
      /\ live /\ ~redraw /\ out > 0 /\ v \in fed => AtBottom(d, l, s, seq, out) /\ Newest(d, seq, out)
  BY <1>1 DEF Bounds, NoEnd, Promised, Repainted
<1> HIDE DEF d, l, s, l2, s2
<1>7. 1 \in 1..Len(d) /\ \A i \in 1..Len(Tail(d)) : i + 1 \in 1..Len(d) /\ Tail(d)[i] = d[i + 1]
  BY <1>1, <1>3 DEF Down
<1>8. live => exited' = {}
  BY <1>1, <1>3, <1>6, <1>7 DEF NoEnd
<1>9. Attached'
  BY <1>1, <1>2, <1>3, <1>4 DEF Attached
<1>10. Bounds'
  <2>1. l2 \in {l} \cup {d[i].seq : i \in {j \in 1..Len(d) : Numbers(d[j])}}
    BY <1>3, <1>7 DEF Reads
  <2>2. l2 <= seq
    BY <1>6, <2>1
  <2>3. \A i \in 1..Len(Tail(d)) : Numbers(Tail(d)[i]) => Tail(d)[i].seq <= seq
    BY <1>6, <1>7
  <2>4. \A w \in Viewers : last'[w] <= seq
    BY <1>1, <1>3, <2>2 DEF Bounds, l2
  <2>5. \A w \in Viewers : \A i \in 1..Len(down'[w]) : Numbers(down'[w][i]) => down'[w][i].seq <= seq
    BY <1>1, <1>3, <2>3 DEF Bounds
  <2> QED BY <1>1, <1>2, <2>4, <2>5 DEF Bounds
<1>11. NoEnd'
  <2>1. live => \A i \in 1..Len(Tail(d)) : ~Ends(Tail(d)[i])
    BY <1>6, <1>7
  <2> QED BY <1>1, <1>2, <1>3, <1>8, <2>1 DEF NoEnd
<1>12. Promised'
  <2>1. Caught(Tail(d), l2, s2, Logged)
    BY <1>1, <1>3, <1>5, CaughtRead
  <2>2. HistoryFirst(Tail(d))
    <3>1. \A i \in 1..Len(Tail(d)) : Tail(d)[i].type # "history"
      BY <1>1, <1>3, <1>5, HistoryRead
    <3> QED BY <3>1 DEF HistoryFirst
  <2>3. v \in exited' => Ended(Tail(d), s2, Logged)
    <3>1. CASE v \in exited
      BY <1>1, <1>3, <1>6, <3>1, EndedRead
    <3>2. CASE v \notin exited /\ v \in exited'
      <4>1. Ends(d[1])
        BY <1>3, <3>2
      <4> QED BY <1>1, <1>3, <1>5, <4>1, EndedByRead
    <3> QED BY <3>1, <3>2
  <2>4. \A w \in Viewers : HistoryFirst(down'[w])
    BY <1>1, <1>3, <2>2 DEF Promised
  <2>5. \A w \in conn : Caught(down'[w], last'[w], screen'[w], Logged)
    BY <1>1, <1>3, <2>1 DEF Promised, l2, s2
  <2>6. \A w \in exited' : Ended(down'[w], screen'[w], Logged)
    <3> SUFFICES ASSUME NEW w \in exited' PROVE Ended(down'[w], screen'[w], Logged)
      OBVIOUS
    <3>1. CASE w = v
      BY <1>3, <2>3, <3>1 DEF s2
    <3>2. CASE w # v
      <4>1. w \in exited /\ w \in Viewers \ {v}
        BY <1>1, <1>3, <3>2
      <4> QED BY <1>1, <1>3, <4>1 DEF Promised
    <3> QED BY <3>1, <3>2
  <2> QED BY <1>2, <2>4, <2>5, <2>6 DEF Promised
<1>13. Repainted'
  <2> SUFFICES ASSUME live, ~redraw, out > 0
               PROVE  /\ \A w \in Viewers : Newest(down'[w], seq, out)
                      /\ Newest(buffer, seq, out)
                      /\ \A w \in fed : AtBottom(down'[w], last'[w], screen'[w], seq, out)
    BY <1>2 DEF Repainted
  <2>1. /\ \A w \in Viewers : Newest(down[w], seq, out)
        /\ Newest(buffer, seq, out)
        /\ \A w \in fed : AtBottom(down[w], last[w], screen[w], seq, out)
    BY <1>1 DEF Repainted
  <2>2. v \in fed /\ Newest(d, seq, out) /\ AtBottom(d, l, s, seq, out)
    BY <1>1, <1>4, <1>6 DEF Attached
  <2>3. Newest(Tail(d), seq, out)
    BY <1>7, <2>2 DEF Newest
  <2>4. AtBottom(Tail(d), l2, s2, seq, out)
    <3>1. out \in 1..MaxOut
      BY <1>1
    <3> QED BY <1>1, <1>3, <1>5, <2>2, <3>1, BottomRead
  <2>5. \A w \in Viewers : Newest(down'[w], seq, out)
    BY <1>3, <2>1, <2>3
  <2>6. \A w \in fed : AtBottom(down'[w], last'[w], screen'[w], seq, out)
    BY <1>1, <1>3, <2>1, <2>4 DEF l2, s2
  <2> QED BY <2>1, <2>5, <2>6
<1> QED BY <1>9, <1>10, <1>11, <1>12, <1>13 DEF Safe

LEMMA StreamStep ==
    ASSUME ~MayCrash
    PROVE  IInv /\ [Next]_vars => IInv'
<1> SUFFICES ASSUME IInv, [Next]_vars PROVE IInv'
  OBVIOUS
<1>1. TypeOK'
  BY TypesStep DEF IInv
<1>2. CASE UNCHANGED vars
  <2>1. UNCHANGED <<out, live, seq, saved, redraw, fed, down, up, conn, clientVars, buffer>>
    BY <1>2 DEF vars, svcVars
  <2>2. \A w \in Viewers \ conn : up'[w] = <<>>
    BY <2>1 DEF IInv, Safe, Attached
  <2>3. buffer' \in Seq(Numbered)
    BY <2>1 DEF IInv, TypeOK
  <2>4. Safe'
    BY <2>1, <2>2, <2>3, BufferShrinks
  <2> QED BY <1>1, <2>4 DEF IInv
<1>3. CASE Next
  <2>1. Safe'
    BY <1>3, OutputKeeps, RedrawKeeps, FlushKeeps, ExitKeeps, ExpireKeeps, RestartKeeps,
       HandleKeeps, ReceiveKeeps, DropKeeps, ConnectKeeps DEF Next
  <2> QED BY <1>1, <2>1 DEF IInv
<1> QED BY <1>2, <1>3

LEMMA StreamStarts == Init => IInv
<1> SUFFICES ASSUME Init PROVE IInv
  OBVIOUS
<1>1. TypeOK
  BY InitTypes
<1>2. /\ \A v \in Viewers : down[v] = <<>> /\ up[v] = <<>> /\ last[v] = 0
      /\ conn = {} /\ fed = {} /\ exited = {} /\ out = 0 /\ buffer = <<>> /\ seq = 0
  BY DEF Init
<1>3. Attached /\ Repainted
  BY <1>2 DEF Attached, Repainted
<1>4. Bounds /\ NoEnd
  BY <1>2 DEF Bounds, NoEnd
<1>5. Promised
  BY <1>2 DEF Promised, HistoryFirst
<1> QED BY <1>1, <1>3, <1>4, <1>5 DEF IInv, Safe

\* While the service ends only through its shutdown handler, a pane that is
\* attached and has read everything misses nothing the agent printed and has
\* the newest last.
THEOREM NothingMissed ==
    ASSUME ~MayCrash
    PROVE  Spec => []OutputComplete
<1>1. IInv => OutputComplete
  <2> SUFFICES ASSUME IInv, NEW v \in fed, down[v] = <<>>
               PROVE  /\ \A c \in 1..out : Contains(screen[v], c)
                      /\ out > 0 /\ ~redraw => Last(screen[v]) = out
    BY DEF OutputComplete
  <2>1. live /\ v \in conn /\ Logged = out
    BY DEF IInv, Safe, Attached, Logged
  <2>2. Caught(<<>>, last[v], screen[v], out)
    BY <2>1 DEF IInv, Safe, Promised
  <2>3. \A c \in 1..out : Contains(screen[v], c)
    BY <2>2 DEF Caught, Covered, Contains
  <2>4. ASSUME out > 0, ~redraw PROVE Last(screen[v]) = out
    <3>1. AtBottom(<<>>, last[v], screen[v], seq, out)
      BY <2>1, <2>4 DEF IInv, Safe, Repainted
    <3> QED BY <3>1 DEF AtBottom
  <2> QED BY <2>3, <2>4
<1>2. QED
  BY <1>1, StreamStarts, StreamStep, PTL DEF Spec

\* So does a pane that shows the exit: it has all the row's log holds.
THEOREM EndMissesNothing ==
    ASSUME ~MayCrash
    PROVE  Spec => []EndComplete
<1>1. IInv => EndComplete
  <2> SUFFICES ASSUME IInv, NEW v \in exited, down[v] = <<>>
               PROVE  \A c \in 1..saved.out : Contains(screen[v], c)
    BY DEF EndComplete
  <2>1. Ended(down[v], screen[v], saved.out)
    BY DEF IInv, Safe, Promised, NoEnd, Logged
  <2> QED BY <2>1 DEF Ended, Contains
<1>2. QED
  BY <1>1, StreamStarts, StreamStep, PTL DEF Spec
=============================================================================
