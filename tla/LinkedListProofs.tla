-------------------------- MODULE LinkedListProofs --------------------------
(***************************************************************************)
(* core.List is a double-ended queue, for any heap and any values.         *)
(***************************************************************************)
EXTENDS LinkedList, SequenceTheorems, TLAPS

(***************************************************************************)
(* The inductive invariant: a push links a cell that nothing points to and *)
(* that points to nothing, which takes Untouched; the rest of WellFormed   *)
(* says where every pointer of the list leads, so what a step rewrites.    *)
(***************************************************************************)
IInv == TypeOK /\ WellFormed /\ Untouched

LEMMA InitInvariant == Init => IInv
  BY DEF Init, IInv, TypeOK, WellFormed, Untouched

\* The cells of the list to the right of a new leftmost one.
LEMMA LeftPushed ==
  ASSUME NEW S, NEW s \in Seq(S), NEW e \in S
  PROVE  /\ <<e>> \o s \in Seq(S)
         /\ Len(<<e>> \o s) = Len(s) + 1
         /\ (<<e>> \o s)[1] = e
         /\ \A i \in 1 .. Len(s) : (<<e>> \o s)[i + 1] = s[i]
  OBVIOUS

LEMMA RightPushed ==
  ASSUME NEW S, NEW s \in Seq(S), NEW e \in S
  PROVE  /\ Append(s, e) \in Seq(S)
         /\ Len(Append(s, e)) = Len(s) + 1
         /\ Append(s, e)[Len(s) + 1] = e
         /\ \A i \in 1 .. Len(s) : Append(s, e)[i] = s[i]
  OBVIOUS

LEMMA LeftPopped ==
  ASSUME NEW S, NEW s \in Seq(S), s # <<>>
  PROVE  /\ Tail(s) \in Seq(S)
         /\ Len(Tail(s)) = Len(s) - 1
         /\ \A i \in 1 .. Len(s) - 1 : Tail(s)[i] = s[i + 1]
  OBVIOUS

LEMMA RightPopped ==
  ASSUME NEW S, NEW s \in Seq(S), s # <<>>
  PROVE  /\ SubSeq(s, 1, Len(s) - 1) \in Seq(S)
         /\ Len(SubSeq(s, 1, Len(s) - 1)) = Len(s) - 1
         /\ \A i \in 1 .. Len(s) - 1 : SubSeq(s, 1, Len(s) - 1)[i] = s[i]
<1>1. Len(s) \in Nat /\ Len(s) > 0 /\ \A i \in 1 .. Len(s) - 1 : s[i] \in S
  OBVIOUS
<1> DEFINE last == Len(s) - 1
           front == SubSeq(s, 1, last)
<1>2. /\ front \in Seq(S)
      /\ Len(front) = IF 1 <= last THEN last - 1 + 1 ELSE 0
      /\ \A i \in 1 .. last - 1 + 1 : front[i] = s[1 + i - 1]
  <2>1. 1 \in Int /\ last \in Int /\ \A i \in 1 .. last : s[i] \in S
    BY <1>1
  <2> HIDE DEF last
  <2> QED
    BY <2>1, SubSeqProperties
<1> HIDE DEF front
<1>3. Len(front) = last
  <2>1. Len(front) = IF 1 <= last THEN last - 1 + 1 ELSE 0
    BY <1>2
  <2>2. last \in Nat
    BY <1>1
  <2> HIDE DEF last
  <2>3. CASE 1 <= last
    BY <2>1, <2>2, <2>3
  <2>4. CASE last = 0
    BY <2>1, <2>4
  <2> QED
    BY <2>2, <2>3, <2>4
<1>4. \A i \in 1 .. last : front[i] = s[i]
  BY <1>1, <1>2
<1> QED
  BY <1>2, <1>3, <1>4 DEF front

-----------------------------------------------------------------------------
\* What the invariant says of the cells, in the form the steps use.
LEMMA CellFacts ==
  ASSUME IInv
  PROVE  /\ length = Len(chain) /\ length \in Nat
         /\ chain \in Seq(Nodes)
         /\ DOMAIN chain = 1 .. length
         /\ \A i \in 1 .. length : chain[i] \in made /\ chain[i] # Nil
         /\ \A n \in Nodes \ made : \A i \in 1 .. length : chain[i] # n
<1>1. chain \in Seq(made) /\ made \subseteq Nodes /\ length = Len(chain)
  BY DEF IInv, TypeOK, WellFormed
<1>2. chain \in Seq(Nodes) /\ DOMAIN chain = 1 .. length /\ length \in Nat
  BY <1>1
<1>3. \A i \in 1 .. length : chain[i] \in made
  BY <1>1
<1> QED
  BY <1>1, <1>2, <1>3, NodesAssumption

LEMMA LPushInvariant ==
  ASSUME IInv, NEW n \in Nodes, NEW v \in Values, LPush(n, v)
  PROVE  IInv'
<1> USE DEF IInv
<1>1. /\ n \notin made
      /\ made' = made \cup {n}
      /\ value' = [value EXCEPT ![n] = v]
      /\ got' = None
      /\ length' = length + 1
      /\ head' = n
      /\ chain' = <<n>> \o chain
  BY DEF LPush, New
<1>2. /\ length = Len(chain) /\ length \in Nat
      /\ \A i \in 1 .. length : chain[i] \in Nodes /\ chain[i] # n
  BY <1>1, CellFacts
<1>3. /\ chain' \in Seq(made')
      /\ Len(chain') = length'
      /\ chain'[1] = n
      /\ \A i \in 1 .. length : chain'[i + 1] = chain[i]
  <2>1. chain \in Seq(made') /\ n \in made'
    BY <1>1 DEF TypeOK
  <2> QED
    BY <1>1, <1>2, <2>1, LeftPushed
<1>4. DOMAIN chain' = 1 .. length + 1
  BY <1>1, <1>2, <1>3
<1>5. \A i \in 2 .. length + 1 : chain'[i] = chain[i - 1] /\ i - 1 \in 1 .. length
  BY <1>2, <1>3
<1>6. prev[n] = Nil /\ next[n] = Nil
  BY <1>1 DEF Untouched
<1>7. CASE length = 0
  <2>1. tail' = n /\ UNCHANGED <<prev, next>>
    BY <1>7 DEF LPush
  <2>2. TypeOK'
    BY <1>1, <1>2, <1>3, <2>1 DEF TypeOK
  <2>3. WellFormed'
    BY <1>1, <1>2, <1>3, <1>4, <1>6, <1>7, <2>1 DEF WellFormed
  <2>4. Untouched'
    BY <1>1, <2>1 DEF Untouched
  <2> QED
    BY <2>2, <2>3, <2>4
<1>8. CASE length # 0
  <2>1. /\ next' = [next EXCEPT ![n] = head]
        /\ prev' = [prev EXCEPT ![head] = n]
        /\ UNCHANGED tail
    BY <1>8 DEF LPush
  <2>2. /\ head = chain[1] /\ tail = chain[length]
        /\ prev[chain[1]] = Nil /\ next[chain[length]] = Nil
        /\ length > 0
    BY <1>2, <1>8 DEF WellFormed
  <2>3. head \in Nodes /\ head # n /\ head \in made
    BY <1>2, <2>2, CellFacts
  <2>4. TypeOK'
    BY <1>1, <1>2, <1>3, <2>1, <2>3 DEF TypeOK
  <2>5. \A i, j \in DOMAIN chain' : chain'[i] = chain'[j] => i = j
    <3>1. \A i, j \in 2 .. length + 1 : chain'[i] = chain'[j] => i = j
      BY <1>2, <1>5 DEF WellFormed
    <3>2. \A i \in 2 .. length + 1 : chain'[i] # chain'[1]
      BY <1>2, <1>3, <1>5
    <3> QED
      BY <1>2, <1>4, <3>1, <3>2
  <2>6. head' = chain'[1] /\ tail' = chain'[length']
    BY <1>1, <1>2, <1>3, <2>1, <2>2
  <2>7. prev'[chain'[1]] = Nil /\ next'[chain'[length']] = Nil
    BY <1>1, <1>2, <1>3, <1>6, <2>1, <2>2, <2>3 DEF TypeOK
  <2>8. \A i \in 1 .. length' - 1 : /\ next'[chain'[i]] = chain'[i + 1]
                                     /\ prev'[chain'[i + 1]] = chain'[i]
    <3>1. next'[chain'[1]] = chain'[1 + 1] /\ prev'[chain'[1 + 1]] = chain'[1]
      BY <1>2, <1>3, <2>1, <2>2, <2>3 DEF TypeOK
    <3>2. ASSUME NEW i \in 2 .. length
          PROVE  /\ next'[chain'[i]] = chain'[i + 1]
                 /\ prev'[chain'[i + 1]] = chain'[i]
      <4>1. /\ i - 1 \in 1 .. length - 1 /\ i \in 1 .. length
            /\ chain'[i] = chain[i - 1] /\ chain'[i + 1] = chain[i]
        BY <1>2, <1>3, <1>5
      <4>2. next[chain[i - 1]] = chain[i] /\ prev[chain[i]] = chain[i - 1]
        BY <4>1, <1>2 DEF WellFormed
      <4>3. chain[i] # head /\ chain[i - 1] # n
        BY <1>2, <2>2, <4>1 DEF WellFormed
      <4> QED
        BY <1>2, <2>1, <4>1, <4>2, <4>3 DEF TypeOK
    <3>3. \A i \in 1 .. length' - 1 : i = 1 \/ i \in 2 .. length
      BY <1>1, <1>2
    <3> QED
      BY <3>1, <3>2, <3>3
  <2>9. WellFormed'
    BY <1>1, <1>2, <1>3, <2>5, <2>6, <2>7, <2>8 DEF WellFormed
  <2>10. Untouched'
    BY <1>1, <2>1, <2>3 DEF Untouched, TypeOK
  <2> QED
    BY <2>4, <2>9, <2>10
<1> QED
  BY <1>7, <1>8

LEMMA RPushInvariant ==
  ASSUME IInv, NEW n \in Nodes, NEW v \in Values, RPush(n, v)
  PROVE  IInv'
<1> USE DEF IInv
<1>1. /\ n \notin made
      /\ made' = made \cup {n}
      /\ value' = [value EXCEPT ![n] = v]
      /\ got' = None
      /\ length' = length + 1
      /\ tail' = n
      /\ chain' = Append(chain, n)
  BY DEF RPush, New
<1>2. /\ length = Len(chain) /\ length \in Nat
      /\ \A i \in 1 .. length : chain[i] \in Nodes /\ chain[i] # n
  BY <1>1, CellFacts
<1>3. /\ chain' \in Seq(made')
      /\ Len(chain') = length'
      /\ chain'[length + 1] = n
      /\ \A i \in 1 .. length : chain'[i] = chain[i]
  <2>1. chain \in Seq(made') /\ n \in made'
    BY <1>1 DEF TypeOK
  <2> QED
    BY <1>1, <1>2, <2>1, RightPushed
<1>4. DOMAIN chain' = 1 .. length + 1
  BY <1>1, <1>2, <1>3
<1>5. prev[n] = Nil /\ next[n] = Nil
  BY <1>1 DEF Untouched
<1>6. CASE length = 0
  <2>1. head' = n /\ UNCHANGED <<prev, next>>
    BY <1>6 DEF RPush
  <2>2. TypeOK'
    BY <1>1, <1>2, <1>3, <2>1 DEF TypeOK
  <2>3. WellFormed'
    BY <1>1, <1>2, <1>3, <1>4, <1>5, <1>6, <2>1 DEF WellFormed
  <2>4. Untouched'
    BY <1>1, <2>1 DEF Untouched
  <2> QED
    BY <2>2, <2>3, <2>4
<1>7. CASE length # 0
  <2>1. /\ prev' = [prev EXCEPT ![n] = tail]
        /\ next' = [next EXCEPT ![tail] = n]
        /\ UNCHANGED head
    BY <1>7 DEF RPush
  <2>2. /\ head = chain[1] /\ tail = chain[length]
        /\ prev[chain[1]] = Nil /\ next[chain[length]] = Nil
        /\ length > 0
    BY <1>2, <1>7 DEF WellFormed
  <2>3. tail \in Nodes /\ tail # n /\ tail \in made
    BY <1>2, <2>2, CellFacts
  <2>4. TypeOK'
    BY <1>1, <1>2, <1>3, <2>1, <2>3 DEF TypeOK
  <2>5. \A i, j \in DOMAIN chain' : chain'[i] = chain'[j] => i = j
    <3>1. \A i, j \in 1 .. length : chain'[i] = chain'[j] => i = j
      BY <1>2, <1>3 DEF WellFormed
    <3>2. \A i \in 1 .. length : chain'[i] # chain'[length + 1]
      BY <1>2, <1>3
    <3> QED
      BY <1>2, <1>4, <3>1, <3>2
  <2>6. head' = chain'[1] /\ tail' = chain'[length']
    BY <1>1, <1>2, <1>3, <2>1, <2>2
  <2>7. prev'[chain'[1]] = Nil /\ next'[chain'[length']] = Nil
    BY <1>1, <1>2, <1>3, <1>5, <2>1, <2>2, <2>3 DEF TypeOK
  <2>8. \A i \in 1 .. length' - 1 : /\ next'[chain'[i]] = chain'[i + 1]
                                     /\ prev'[chain'[i + 1]] = chain'[i]
    <3>1. /\ next'[chain'[length]] = chain'[length + 1]
          /\ prev'[chain'[length + 1]] = chain'[length]
      BY <1>2, <1>3, <2>1, <2>2, <2>3 DEF TypeOK
    <3>2. ASSUME NEW i \in 1 .. length - 1
          PROVE  /\ next'[chain'[i]] = chain'[i + 1]
                 /\ prev'[chain'[i + 1]] = chain'[i]
      <4>1. /\ i \in 1 .. length /\ i + 1 \in 1 .. length /\ i # length
            /\ chain'[i] = chain[i] /\ chain'[i + 1] = chain[i + 1]
        BY <1>2, <1>3
      <4>2. /\ next[chain[i]] = chain[i + 1]
            /\ prev[chain[i + 1]] = chain[i]
        BY <1>2 DEF WellFormed
      <4>3. chain[i] # tail /\ chain[i + 1] # n
        BY <1>2, <2>2, <4>1 DEF WellFormed
      <4> QED
        BY <1>2, <2>1, <4>1, <4>2, <4>3 DEF TypeOK
    <3>3. \A i \in 1 .. length' - 1 : i = length \/ i \in 1 .. length - 1
      BY <1>1, <1>2
    <3> QED
      BY <3>1, <3>2, <3>3
  <2>9. WellFormed'
    BY <1>1, <1>2, <1>3, <2>5, <2>6, <2>7, <2>8 DEF WellFormed
  <2>10. Untouched'
    BY <1>1, <2>1, <2>3 DEF Untouched, TypeOK
  <2> QED
    BY <2>4, <2>9, <2>10
<1> QED
  BY <1>6, <1>7

LEMMA LPopInvariant ==
  ASSUME IInv, LPop
  PROVE  IInv'
<1> USE DEF IInv
<1>1. /\ got' = value[head]
      /\ length' = length - 1
      /\ chain' = Tail(chain)
      /\ UNCHANGED <<value, next, made>>
  BY DEF LPop
<1>2. /\ length = Len(chain) /\ length \in Nat /\ length > 0
      /\ chain \in Seq(made)
      /\ \A i \in 1 .. length : chain[i] \in Nodes /\ chain[i] \in made
  BY CellFacts DEF LPop, TypeOK
<1>3. /\ head = chain[1] /\ tail = chain[length]
      /\ prev[chain[1]] = Nil /\ next[chain[length]] = Nil
  BY <1>2 DEF WellFormed
<1>4. /\ chain' \in Seq(made')
      /\ Len(chain') = length' /\ length' \in Nat
      /\ DOMAIN chain' = 1 .. length'
      /\ \A i \in 1 .. length' : chain'[i] = chain[i + 1]
  <2>1. chain # <<>>
    BY <1>2
  <2> QED
    BY <1>1, <1>2, <2>1, LeftPopped
<1>5. \A i, j \in DOMAIN chain' : chain'[i] = chain'[j] => i = j
  BY <1>1, <1>2, <1>4 DEF WellFormed
<1>6. CASE length = 1
  <2>1. head' = Nil /\ tail' = Nil /\ UNCHANGED prev
    BY <1>6 DEF LPop
  <2>2. TypeOK'
    BY <1>1, <1>2, <1>3, <1>4, <2>1 DEF TypeOK
  <2>3. WellFormed'
    BY <1>1, <1>2, <1>4, <1>5, <1>6, <2>1 DEF WellFormed
  <2>4. Untouched'
    BY <1>1, <2>1 DEF Untouched
  <2> QED
    BY <2>2, <2>3, <2>4
<1>7. CASE length # 1
  <2>1. next[head] = chain[2] /\ chain[2] \in Nodes /\ chain[2] \in made
    <3>1. 1 \in 1 .. length - 1 /\ 2 \in 1 .. length
      BY <1>2, <1>7
    <3>2. next[chain[1]] = chain[1 + 1]
      BY <3>1 DEF WellFormed
    <3> QED
      BY <1>2, <1>3, <3>1, <3>2
  <2>2. /\ head' = chain[2]
        /\ prev' = [prev EXCEPT ![chain[2]] = Nil]
        /\ UNCHANGED tail
    BY <1>7, <2>1 DEF LPop
  <2>3. TypeOK'
    BY <1>1, <1>2, <1>3, <1>4, <2>1, <2>2 DEF TypeOK
  <2>4. head' = chain'[1] /\ tail' = chain'[length']
    BY <1>1, <1>2, <1>3, <1>4, <1>7, <2>2
  <2>5. prev'[chain'[1]] = Nil /\ next'[chain'[length']] = Nil
    BY <1>1, <1>3, <2>1, <2>2, <2>4 DEF TypeOK
  <2>6. ASSUME NEW i \in 1 .. length' - 1
        PROVE  /\ next'[chain'[i]] = chain'[i + 1]
               /\ prev'[chain'[i + 1]] = chain'[i]
    <3>1. /\ chain'[i] = chain[i + 1] /\ chain'[i + 1] = chain[i + 1 + 1]
          /\ i + 1 \in 1 .. length - 1 /\ i + 1 + 1 \in 1 .. length
          /\ i + 1 + 1 # 2 /\ 2 \in 1 .. length
      BY <1>1, <1>2, <1>4
    <3>2. /\ next[chain[i + 1]] = chain[i + 1 + 1]
          /\ prev[chain[i + 1 + 1]] = chain[i + 1]
      BY <3>1 DEF WellFormed
    <3>3. chain[i + 1 + 1] # chain[2]
      BY <1>2, <3>1 DEF WellFormed
    <3> QED
      BY <1>1, <1>2, <2>2, <3>1, <3>2, <3>3 DEF TypeOK
  <2>7. WellFormed'
    BY <1>1, <1>2, <1>4, <1>5, <1>7, <2>4, <2>5, <2>6 DEF WellFormed
  <2>8. Untouched'
    BY <1>1, <2>1, <2>2 DEF Untouched, TypeOK
  <2> QED
    BY <2>3, <2>7, <2>8
<1> QED
  BY <1>6, <1>7

LEMMA RPopInvariant ==
  ASSUME IInv, RPop
  PROVE  IInv'
<1> USE DEF IInv
<1>1. /\ got' = value[tail]
      /\ length' = length - 1
      /\ chain' = SubSeq(chain, 1, Len(chain) - 1)
      /\ UNCHANGED <<value, prev, made>>
  BY DEF RPop
<1>2. /\ length = Len(chain) /\ length \in Nat /\ length > 0
      /\ chain \in Seq(made)
      /\ \A i \in 1 .. length : chain[i] \in Nodes /\ chain[i] \in made
  BY CellFacts DEF RPop, TypeOK
<1>3. /\ head = chain[1] /\ tail = chain[length]
      /\ prev[chain[1]] = Nil /\ next[chain[length]] = Nil
  BY <1>2 DEF WellFormed
<1>4. /\ chain' \in Seq(made')
      /\ Len(chain') = length' /\ length' \in Nat
      /\ DOMAIN chain' = 1 .. length'
      /\ \A i \in 1 .. length' : chain'[i] = chain[i]
  <2>1. chain # <<>>
    BY <1>2
  <2>2. /\ chain' \in Seq(made) /\ Len(chain') = length - 1
        /\ \A i \in 1 .. length - 1 : chain'[i] = chain[i]
    BY <1>1, <1>2, <2>1, RightPopped
  <2> QED
    BY <1>1, <1>2, <2>2
<1>5. \A i, j \in DOMAIN chain' : chain'[i] = chain'[j] => i = j
  BY <1>1, <1>2, <1>4 DEF WellFormed
<1>6. CASE length = 1
  <2>1. head' = Nil /\ tail' = Nil /\ UNCHANGED next
    BY <1>6 DEF RPop
  <2>2. TypeOK'
    BY <1>1, <1>2, <1>3, <1>4, <2>1 DEF TypeOK
  <2>3. WellFormed'
    BY <1>1, <1>2, <1>4, <1>5, <1>6, <2>1 DEF WellFormed
  <2>4. Untouched'
    BY <1>1, <2>1 DEF Untouched
  <2> QED
    BY <2>2, <2>3, <2>4
<1>7. CASE length # 1
  <2> DEFINE k == length - 1
  <2>1. /\ k \in 1 .. length - 1 /\ k \in 1 .. length
        /\ length \in 1 .. length /\ k # length /\ k + 1 = length
        /\ length' = k
    BY <1>1, <1>2, <1>7
  <2> HIDE DEF k
  <2>2. prev[tail] = chain[k] /\ chain[k] \in Nodes /\ chain[k] \in made
    <3>1. prev[chain[k + 1]] = chain[k]
      BY <2>1 DEF WellFormed
    <3> QED
      BY <1>2, <1>3, <2>1, <3>1
  <2>3. /\ tail' = chain[k]
        /\ next' = [next EXCEPT ![chain[k]] = Nil]
        /\ UNCHANGED head
    BY <1>7, <2>2 DEF RPop
  <2>4. TypeOK'
    BY <1>1, <1>2, <1>3, <1>4, <2>2, <2>3 DEF TypeOK
  <2>5. head' = chain'[1] /\ tail' = chain'[length']
    BY <1>2, <1>3, <1>4, <2>1, <2>3
  <2>6. prev'[chain'[1]] = Nil /\ next'[chain'[length']] = Nil
    BY <1>1, <1>3, <2>2, <2>3, <2>5 DEF TypeOK
  <2>7. ASSUME NEW i \in 1 .. length' - 1
        PROVE  /\ next'[chain'[i]] = chain'[i + 1]
               /\ prev'[chain'[i + 1]] = chain'[i]
    <3>1. /\ chain'[i] = chain[i] /\ chain'[i + 1] = chain[i + 1]
          /\ i \in 1 .. length - 1 /\ i \in 1 .. length /\ i # k
      BY <1>2, <1>4, <2>1
    <3>2. next[chain[i]] = chain[i + 1] /\ prev[chain[i + 1]] = chain[i]
      BY <3>1 DEF WellFormed
    <3>3. chain[i] # chain[k]
      BY <1>2, <2>1, <3>1 DEF WellFormed
    <3> QED
      BY <1>1, <1>2, <2>3, <3>1, <3>2, <3>3 DEF TypeOK
  <2>8. WellFormed'
    BY <1>2, <1>4, <1>5, <2>1, <2>5, <2>6, <2>7 DEF WellFormed
  <2>9. Untouched'
    BY <1>1, <2>2, <2>3 DEF Untouched, TypeOK
  <2> QED
    BY <2>4, <2>8, <2>9
<1> QED
  BY <1>6, <1>7

LEMMA NextInvariant == IInv /\ [Next]_vars => IInv'
<1> SUFFICES ASSUME IInv, [Next]_vars PROVE IInv'
  OBVIOUS
<1>1. ASSUME NEW n \in Nodes, NEW v \in Values, LPush(n, v)
      PROVE  IInv'
  BY <1>1, LPushInvariant
<1>2. ASSUME NEW n \in Nodes, NEW v \in Values, RPush(n, v)
      PROVE  IInv'
  BY <1>2, RPushInvariant
<1>3. CASE PopEmpty
  BY <1>3 DEF PopEmpty, IInv, TypeOK, WellFormed, Untouched, fields, cells
<1>4. CASE LPop
  BY <1>4, LPopInvariant
<1>5. CASE RPop
  BY <1>5, RPopInvariant
<1>6. CASE Clear
  BY <1>6 DEF Clear, IInv, TypeOK, WellFormed, Untouched, cells
<1>7. CASE UNCHANGED vars
  BY <1>7 DEF vars, IInv, TypeOK, WellFormed, Untouched
<1> QED
  BY <1>1, <1>2, <1>3, <1>4, <1>5, <1>6, <1>7 DEF Next

LEMMA Invariance == Spec => []IInv
<1>1. Init => IInv
  BY InitInvariant
<1>2. IInv /\ [Next]_vars => IInv'
  BY NextInvariant
<1> QED
  BY <1>1, <1>2, PTL DEF Spec

(***************************************************************************)
(* After any operations the cells are chained in both directions from head *)
(* to tail, without a cycle, and length counts them: no operation follows  *)
(* a nil pointer, and no popped cell stays in reach.                       *)
(***************************************************************************)
THEOREM AlwaysWellFormed == Spec => [](TypeOK /\ WellFormed)
<1>1. IInv => TypeOK /\ WellFormed
  BY DEF IInv
<1> QED
  BY <1>1, Invariance, PTL

(***************************************************************************)
(* The counter of a list, its two ends and the pointers of its cells keep  *)
(* their types: pops never take length below zero, and what a push makes   *)
(* or a pop hands on is a cell or nil.                                     *)
(***************************************************************************)
THEOREM TypesHold == Spec => []TypeOK
<1>1. IInv => TypeOK
  BY DEF IInv
<1> QED
  BY <1>1, Invariance, PTL

-----------------------------------------------------------------------------
(***************************************************************************)
(* Refinement: under the mapping Contents, an operation on the cells is    *)
(* the operation of the same name on the sequence.                         *)
(***************************************************************************)
ContentsShape ==
  /\ Contents \in Seq(Values \cup {None})
  /\ Len(Contents) = length
  /\ \A i \in 1 .. length : Contents[i] = value[chain[i]]

LEMMA ContentsFacts == IInv => ContentsShape
<1> SUFFICES ASSUME IInv PROVE ContentsShape
  OBVIOUS
<1>1. /\ length \in Nat /\ DOMAIN chain = 1 .. length
      /\ \A i \in 1 .. length : chain[i] \in Nodes
  BY CellFacts
<1>2. Contents = [i \in 1 .. length |-> value[chain[i]]]
  BY <1>1 DEF Contents
<1>3. \A i \in 1 .. length : value[chain[i]] \in Values \cup {None}
  BY <1>1 DEF IInv, TypeOK
<1>4. Contents \in [1 .. length -> Values \cup {None}]
  BY <1>2, <1>3
<1>5. Contents \in Seq(Values \cup {None})
  BY <1>1, <1>4
<1>6. Len(Contents) = length
  BY <1>1, <1>2, <1>5
<1> QED
  BY <1>2, <1>5, <1>6 DEF ContentsShape

LEMMA ContentsFactsNext ==
  ASSUME IInv'
  PROVE  ContentsShape'
  BY ContentsFacts, PTL

\* Sequences with the same elements at the same places are the same.
LEMMA SameSequence ==
  ASSUME NEW S, NEW s \in Seq(S), NEW t \in Seq(S), Len(s) = Len(t),
         \A i \in 1 .. Len(s) : s[i] = t[i]
  PROVE  s = t
  BY SeqEqual

LEMMA InitRefines == Init => Queue!Init
  BY DEF Init, Queue!Init, Contents

LEMMA LPushRefines ==
  ASSUME IInv, IInv', NEW n \in Nodes, NEW v \in Values, LPush(n, v)
  PROVE  Queue!Prepend(v)
<1> DEFINE new == <<v>> \o Contents
           S == Values \cup {None}
<1>1. /\ n \notin made /\ value' = [value EXCEPT ![n] = v] /\ got' = None
      /\ length' = length + 1 /\ chain' = <<n>> \o chain
  BY DEF LPush, New
<1>2. /\ length = Len(chain) /\ length \in Nat /\ chain \in Seq(Nodes)
      /\ \A i \in 1 .. length : chain[i] \in Nodes /\ chain[i] # n
  BY <1>1, CellFacts
<1>3. chain'[1] = n /\ \A i \in 1 .. length : chain'[i + 1] = chain[i]
  BY <1>1, <1>2, LeftPushed
<1>4. /\ Contents \in Seq(S) /\ Len(Contents) = length
      /\ \A i \in 1 .. length : Contents[i] = value[chain[i]]
  BY ContentsFacts DEF ContentsShape
<1>5. /\ Contents' \in Seq(S) /\ Len(Contents') = length'
      /\ \A i \in 1 .. length' : Contents'[i] = value'[chain'[i]]
  BY ContentsFactsNext DEF ContentsShape
<1>6. /\ new \in Seq(S) /\ Len(new) = length + 1
      /\ new[1] = v /\ \A i \in 1 .. length : new[i + 1] = Contents[i]
  BY <1>4, LeftPushed
<1>7. \A i \in 1 .. length' : Contents'[i] = new[i]
  <2>1. Contents'[1] = new[1]
    BY <1>1, <1>2, <1>3, <1>5, <1>6 DEF IInv, TypeOK
  <2>2. ASSUME NEW i \in 1 .. length
        PROVE  Contents'[i + 1] = new[i + 1]
    <3>1. i + 1 \in 1 .. length'
      BY <1>1, <1>2
    <3>2. Contents'[i + 1] = value'[chain[i]]
      BY <1>3, <1>5, <3>1
    <3>3. value'[chain[i]] = value[chain[i]]
      BY <1>1, <1>2 DEF IInv, TypeOK
    <3> QED
      BY <1>4, <1>6, <3>2, <3>3
  <2>3. \A i \in 1 .. length' : i = 1 \/ (i - 1 \in 1 .. length /\ i = (i - 1) + 1)
    BY <1>1, <1>2
  <2> HIDE DEF new
  <2> QED
    BY <2>1, <2>2, <2>3
<1>8. Contents' = new
  BY <1>1, <1>5, <1>6, <1>7, SameSequence
<1> QED
  BY <1>1, <1>8 DEF Queue!Prepend

LEMMA RPushRefines ==
  ASSUME IInv, IInv', NEW n \in Nodes, NEW v \in Values, RPush(n, v)
  PROVE  Queue!Postpend(v)
<1> DEFINE new == Append(Contents, v)
           S == Values \cup {None}
<1>1. /\ n \notin made /\ value' = [value EXCEPT ![n] = v] /\ got' = None
      /\ length' = length + 1 /\ chain' = Append(chain, n)
  BY DEF RPush, New
<1>2. /\ length = Len(chain) /\ length \in Nat /\ chain \in Seq(Nodes)
      /\ \A i \in 1 .. length : chain[i] \in Nodes /\ chain[i] # n
  BY <1>1, CellFacts
<1>3. /\ chain'[length + 1] = n
      /\ \A i \in 1 .. length : chain'[i] = chain[i]
  BY <1>1, <1>2, RightPushed
<1>4. /\ Contents \in Seq(S) /\ Len(Contents) = length
      /\ \A i \in 1 .. length : Contents[i] = value[chain[i]]
  BY ContentsFacts DEF ContentsShape
<1>5. /\ Contents' \in Seq(S) /\ Len(Contents') = length'
      /\ \A i \in 1 .. length' : Contents'[i] = value'[chain'[i]]
  BY ContentsFactsNext DEF ContentsShape
<1>6. /\ new \in Seq(S) /\ Len(new) = length + 1
      /\ new[length + 1] = v /\ \A i \in 1 .. length : new[i] = Contents[i]
  BY <1>4, RightPushed
<1>7. \A i \in 1 .. length' : Contents'[i] = new[i]
  <2>1. Contents'[length + 1] = new[length + 1]
    BY <1>1, <1>2, <1>3, <1>5, <1>6 DEF IInv, TypeOK
  <2>2. ASSUME NEW i \in 1 .. length
        PROVE  Contents'[i] = new[i]
    <3>1. i \in 1 .. length'
      BY <1>1, <1>2
    <3>2. Contents'[i] = value'[chain[i]]
      BY <1>3, <1>5, <3>1
    <3>3. value'[chain[i]] = value[chain[i]]
      BY <1>1, <1>2 DEF IInv, TypeOK
    <3> QED
      BY <1>4, <1>6, <3>2, <3>3
  <2>3. \A i \in 1 .. length' : i = length + 1 \/ i \in 1 .. length
    BY <1>1, <1>2
  <2> HIDE DEF new
  <2> QED
    BY <2>1, <2>2, <2>3
<1>8. Contents' = new
  BY <1>1, <1>5, <1>6, <1>7, SameSequence
<1> QED
  BY <1>1, <1>8 DEF Queue!Postpend

LEMMA LPopRefines ==
  ASSUME IInv, IInv', LPop
  PROVE  Queue!TakeFirst
<1> DEFINE new == Tail(Contents)
           S == Values \cup {None}
<1>1. /\ got' = value[head] /\ value' = value
      /\ length' = length - 1 /\ chain' = Tail(chain)
  BY DEF LPop
<1>2. /\ length = Len(chain) /\ length \in Nat /\ length > 0
      /\ chain \in Seq(Nodes) /\ chain # <<>>
  BY CellFacts DEF LPop
<1>3. \A i \in 1 .. length - 1 : chain'[i] = chain[i + 1]
  BY <1>1, <1>2, LeftPopped
<1>4. /\ Contents \in Seq(S) /\ Len(Contents) = length /\ Contents # <<>>
      /\ \A i \in 1 .. length : Contents[i] = value[chain[i]]
  BY <1>2, ContentsFacts DEF ContentsShape
<1>5. /\ Contents' \in Seq(S) /\ Len(Contents') = length'
      /\ \A i \in 1 .. length' : Contents'[i] = value'[chain'[i]]
  BY ContentsFactsNext DEF ContentsShape
<1>6. /\ new \in Seq(S) /\ Len(new) = length - 1
      /\ \A i \in 1 .. length - 1 : new[i] = Contents[i + 1]
  BY <1>4, LeftPopped
<1>7. \A i \in 1 .. length' : Contents'[i] = new[i]
  <2> SUFFICES ASSUME NEW i \in 1 .. length'
               PROVE  Contents'[i] = new[i]
    OBVIOUS
  <2>1. i \in 1 .. length - 1 /\ i + 1 \in 1 .. length
    BY <1>1, <1>2
  <2>2. Contents'[i] = value[chain[i + 1]]
    BY <1>1, <1>3, <1>5, <2>1
  <2>3. Contents[i + 1] = value[chain[i + 1]]
    BY <1>4, <2>1
  <2> HIDE DEF new
  <2> QED
    BY <1>6, <2>1, <2>2, <2>3
<1>8. Contents' = new
  BY <1>1, <1>5, <1>6, <1>7, SameSequence
<1>9. got' = Head(Contents)
  <2>1. Head(Contents) = Contents[1]
    BY <1>4
  <2>2. head = chain[1]
    BY <1>2 DEF IInv, WellFormed
  <2> QED
    BY <1>1, <1>2, <1>4, <2>1, <2>2
<1> QED
  BY <1>4, <1>8, <1>9 DEF Queue!TakeFirst

LEMMA RPopRefines ==
  ASSUME IInv, IInv', RPop
  PROVE  Queue!TakeLast
<1> DEFINE new == SubSeq(Contents, 1, Len(Contents) - 1)
           S == Values \cup {None}
<1>1. /\ got' = value[tail] /\ value' = value
      /\ length' = length - 1 /\ chain' = SubSeq(chain, 1, Len(chain) - 1)
  BY DEF RPop
<1>2. /\ length = Len(chain) /\ length \in Nat /\ length > 0
      /\ chain \in Seq(Nodes) /\ chain # <<>>
  BY CellFacts DEF RPop
<1>3. \A i \in 1 .. length - 1 : chain'[i] = chain[i]
  BY <1>1, <1>2, RightPopped
<1>4. /\ Contents \in Seq(S) /\ Len(Contents) = length /\ Contents # <<>>
      /\ \A i \in 1 .. length : Contents[i] = value[chain[i]]
  BY <1>2, ContentsFacts DEF ContentsShape
<1>5. /\ Contents' \in Seq(S) /\ Len(Contents') = length'
      /\ \A i \in 1 .. length' : Contents'[i] = value'[chain'[i]]
  BY ContentsFactsNext DEF ContentsShape
<1>6. /\ new \in Seq(S) /\ Len(new) = length - 1
      /\ \A i \in 1 .. length - 1 : new[i] = Contents[i]
  BY <1>4, RightPopped
<1>7. \A i \in 1 .. length' : Contents'[i] = new[i]
  <2> SUFFICES ASSUME NEW i \in 1 .. length'
               PROVE  Contents'[i] = new[i]
    OBVIOUS
  <2>1. i \in 1 .. length - 1 /\ i \in 1 .. length
    BY <1>1, <1>2
  <2>2. Contents'[i] = value[chain[i]]
    BY <1>1, <1>3, <1>5, <2>1
  <2>3. Contents[i] = value[chain[i]]
    BY <1>4, <2>1
  <2> HIDE DEF new
  <2> QED
    BY <1>6, <2>1, <2>2, <2>3
<1>8. Contents' = new
  BY <1>1, <1>5, <1>6, <1>7, SameSequence
<1>9. got' = Contents[Len(Contents)]
  <2>1. tail = chain[length]
    BY <1>2 DEF IInv, WellFormed
  <2> QED
    BY <1>1, <1>2, <1>4, <2>1
<1> QED
  BY <1>4, <1>8, <1>9 DEF Queue!TakeLast

LEMMA PopEmptyRefines ==
  ASSUME IInv, PopEmpty
  PROVE  Queue!TakeNothing
<1>1. Contents \in Seq(Values \cup {None}) /\ Len(Contents) = 0
  BY ContentsFacts DEF ContentsShape, PopEmpty
<1>2. Contents = <<>>
  BY <1>1
<1>3. Contents' = Contents
  BY DEF PopEmpty, Contents, cells
<1> QED
  BY <1>2, <1>3 DEF PopEmpty, Queue!TakeNothing

LEMMA NextRefines ==
  ASSUME IInv, IInv', [Next]_vars
  PROVE  [Queue!Next]_(Queue!vars)
<1>1. ASSUME NEW n \in Nodes, NEW v \in Values, LPush(n, v)
      PROVE  Queue!Next
  BY <1>1, LPushRefines DEF Queue!Next
<1>2. ASSUME NEW n \in Nodes, NEW v \in Values, RPush(n, v)
      PROVE  Queue!Next
  BY <1>2, RPushRefines DEF Queue!Next
<1>3. PopEmpty => Queue!Next
  BY PopEmptyRefines DEF Queue!Next
<1>4. LPop => Queue!Next
  BY LPopRefines DEF Queue!Next
<1>5. RPop => Queue!Next
  BY RPopRefines DEF Queue!Next
<1>6. Clear => Queue!Next
  BY DEF Clear, Contents, cells, Queue!Next, Queue!Empty
<1>7. UNCHANGED vars => UNCHANGED Queue!vars
  BY DEF vars, Contents, Queue!vars
<1> QED
  BY <1>1, <1>2, <1>3, <1>4, <1>5, <1>6, <1>7 DEF Next

(***************************************************************************)
(* List implements the double-ended queue, for every heap and every value: *)
(* what Storage says of a list as a sequence is what the cells do.         *)
(***************************************************************************)
THEOREM ListIsDeque == Spec => ImplementsDeque
<1>1. Init => Queue!Init
  BY InitRefines
<1>2. IInv /\ IInv' /\ [Next]_vars => [Queue!Next]_(Queue!vars)
  BY NextRefines
<1> QED
  BY <1>1, <1>2, Invariance, PTL DEF Spec, ImplementsDeque, Queue!Spec
=============================================================================
