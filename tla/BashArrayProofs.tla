--------------------------- MODULE BashArrayProofs ---------------------------
(***************************************************************************)
(* For any arrays, words and memory: when the builtins are called in the   *)
(* orders of the program's own scripts, no link, roving pointer or cursor  *)
(* ever leads to freed memory or into another array, and a trap is found   *)
(* where it was laid until it is removed.                                  *)
(*                                                                         *)
(* The links alone are not inductive: what ab_remove_args frees is out of  *)
(* the ring only if next and prev mirror each other and no cells form a    *)
(* ring of their own, which holds of every array nothing was pushed to,    *)
(* with its trap left aside.                                               *)
(***************************************************************************)
EXTENDS BashArray, FiniteSetTheorems, SequenceTheorems, WellFoundedInduction, TLAPS

IsTrap(n) == n \in Cells /\ value[n] = Trap

\* m is a node of the ring of the array that n belongs to.
SameRing(m, n) == m \in Nodes /\ At(m) = At(n) /\ ~IsTrap(m)

Forward == \A n \in Nodes : At(n) # Null => SameRing(next[n], n)

\* next and prev mirror each other, unless the plugin pushed.
Mirrored ==
    \A n \in Nodes : At(n) # Null /\ ~IsTrap(n) /\ stage[At(n)] # "pushed" =>
        SameRing(prev[n], n) /\ prev[next[n]] = n /\ next[prev[n]] = n

\* The cells of such an array can be numbered along next, so that all are reached.
Ranked(r) ==
    \A n \in Nodes : At(n) # Null /\ ~IsTrap(n) /\ stage[At(n)] # "pushed" /\ next[n] \in Cells =>
        r[n] < r[next[n]]

Numbered == \E r \in [Nodes -> Nat] : Ranked(r)

Ends == \A a \in Arrays :
    /\ prev[a] \in Nodes /\ At(prev[a]) = a
    /\ lastref[a] # Null => At(lastref[a]) = a

Traps ==
    /\ \A c \in Cells : IsTrap(c) =>
          At(c) # Null /\ stage[At(c)] = "mined" /\ lastref[At(c)] = c
    /\ \A a \in Arrays : stage[a] = "mined" => lastref[a] \in Cells /\ IsTrap(lastref[a])

FreeIsUnlinked == \A c \in Cells : owner[c] = Null => next[c] = Null

RingInv == Forward /\ Mirrored /\ Numbered /\ Ends /\ Traps /\ FreeIsUnlinked

\* Where the call that runs stands.
CallInv ==
    /\ pc = "filter" => stage[dst] = "roved" /\ SameRing(ae, dst)
    /\ pc \in {"concat", "listing"} => stage[dst] = "pushed"
    /\ pc = "split" => stage[dst] = "fresh"
    /\ pc = "concat" => SameRing(ae, src)

IInv == TypeOK /\ RingInv /\ CallInv

RingType ==
    /\ next \in [Nodes -> Nodes \cup {Null}] /\ prev \in [Nodes -> Nodes \cup {Null}]
    /\ value \in [Cells -> Words \cup {Trap, Null}]
    /\ owner \in [Cells -> Arrays \cup {Null}]
    /\ lastref \in [Arrays -> Nodes \cup {Null}]
    /\ num_elements \in [Arrays -> Int]

\* Memory that is not full has a free cell.
LEMMA FreeCell ==
  ASSUME Live # Cells
  PROVE  New \in Cells /\ owner[New] = Null
BY DEF Live, New

LEMMA InitInv == Init => IInv
<1> SUFFICES ASSUME Init PROVE IInv
  OBVIOUS
<1>1. Numbered
  <2>1. Ranked([n \in Nodes |-> 0])
    BY ArrayAssumption DEF Init, Ranked, At, Nodes
  <2> QED BY <2>1 DEF Numbered
<1> QED
  BY <1>1, ArrayAssumption DEF Init, IInv, TypeOK, RingInv, Forward, Mirrored, Ends, Traps, FreeIsUnlinked,
     CallInv, SameRing, IsTrap, At, Nodes, Stages

LEMMA Consequences == IInv => NoDangling /\ TrapIsSet
<1> SUFFICES ASSUME IInv PROVE NoDangling /\ TrapIsSet
  OBVIOUS
<1> USE ArrayAssumption DEF IInv, RingInv
<1>1. NoDangling
  BY DEF NoDangling, Forward, Ends, CallInv, SameRing, At, Live, Nodes, TypeOK
<1>2. TrapIsSet
  BY DEF TrapIsSet, Forward, Traps, FreeIsUnlinked, SameRing, IsTrap, At, Live, Nodes, TypeOK
<1> QED BY <1>1, <1>2

\* The plugin's append keeps the rings of an array that only it appends to.
LEMMA PushStep ==
  ASSUME RingType, RingInv, NEW a \in Arrays, NEW w \in Words \cup {Null}, Live # Cells,
         stage \in [Arrays -> Stages], stage[a] = "pushed", stage' = stage, bash_array_push(a, w)
  PROVE  /\ RingType' /\ RingInv'
         /\ \A m, n \in Nodes : At(n) # Null /\ SameRing(m, n) => At(n)' # Null /\ SameRing(m, n)'
<1> DEFINE c == New
           last == lastref[a]
<1>1. c \in Cells /\ owner[c] = Null
  BY FreeCell
<1> HIDE DEF c
<1>2. /\ value' = [value EXCEPT ![c] = w]
      /\ owner' = [owner EXCEPT ![c] = a]
      /\ prev' = [prev EXCEPT ![c] = last]
      /\ next' = IF last # Null THEN [next EXCEPT ![c] = next[last], ![last] = c]
                 ELSE [next EXCEPT ![a] = c, ![c] = a]
      /\ lastref' = [lastref EXCEPT ![a] = c]
      /\ num_elements' = [num_elements EXCEPT ![a] = @ + 1]
  BY DEF bash_array_push, Create, c
<1>3. w # Trap /\ c \notin Arrays /\ a \notin Cells /\ Null \notin Nodes
  BY <1>1, ArrayAssumption DEF Nodes
<1>4. last # Null => last \in Nodes /\ At(last) = a /\ last # c /\ ~IsTrap(last)
  BY <1>1, <1>3, ArrayAssumption DEF RingType, RingInv, Ends, Traps, At, IsTrap, Nodes
<1>5. RingType'
  BY <1>1, <1>2, <1>4 DEF RingType, Nodes
<1> DEFINE at(n) == IF n \in Arrays THEN n ELSE owner'[n]
           trap(n) == n \in Cells /\ value'[n] = Trap
<1>6. \A n \in Nodes : /\ at(n) = IF n = c THEN a ELSE At(n)
                       /\ trap(n) <=> IsTrap(n) /\ n # c
  BY <1>1, <1>2, <1>3 DEF RingType, At, IsTrap, Nodes
<1>7. Forward'
  <2> SUFFICES ASSUME NEW n \in Nodes, at(n) # Null
               PROVE  next'[n] \in Nodes /\ at(next'[n]) = at(n) /\ ~trap(next'[n])
    BY DEF Forward, SameRing, At, IsTrap
  <2> HIDE DEF at, trap
  <2>1. CASE n = c
    <3>1. next'[n] = IF last # Null THEN next[last] ELSE a
      BY <1>1, <1>2, <1>3, <1>4, <2>1 DEF RingType, Nodes
    <3>2. next'[n] \in Nodes /\ next'[n] # c /\ At(next'[n]) = a /\ ~IsTrap(next'[n])
      BY <1>1, <1>3, <1>4, <3>1, ArrayAssumption DEF RingInv, Forward, SameRing, At, Nodes, IsTrap
    <3> QED BY <1>6, <2>1, <3>2
  <2>2. CASE n # c /\ next'[n] = c
    <3>1. At(n) = a
      BY <1>1, <1>2, <1>3, <1>4, <2>2 DEF RingType, RingInv, Forward, SameRing, FreeIsUnlinked, At, Nodes
    <3> QED BY <1>1, <1>6, <2>2, <3>1 DEF Nodes
  <2>3. CASE n # c /\ next'[n] # c
    <3>1. At(n) # Null /\ next'[n] = next[n]
      BY <1>1, <1>2, <1>3, <1>4, <1>6, <2>3 DEF RingType, Nodes
    <3> QED BY <1>6, <2>3, <3>1 DEF RingInv, Forward, SameRing
  <2> QED BY <2>1, <2>2, <2>3
<1>8. Mirrored'
  BY <1>1, <1>2, <1>3, <1>4, <1>6 DEF RingType, RingInv, Forward, Mirrored, SameRing, At, IsTrap, Nodes
<1>13. Numbered'
  <2>1. PICK r \in [Nodes -> Nat] : Ranked(r)
    BY DEF RingInv, Numbered
  <2>2. Ranked(r)'
    <3> SUFFICES ASSUME NEW n \in Nodes, at(n) # Null, ~trap(n), stage[at(n)] # "pushed",
                        next'[n] \in Cells
                 PROVE  r[n] < r[next'[n]]
      BY DEF Ranked, At, IsTrap
    <3> HIDE DEF at, trap
    <3>1. n # c /\ At(n) = at(n) /\ At(n) # a /\ ~IsTrap(n)
      BY <1>6
    <3>2. next'[n] = next[n]
      BY <1>1, <1>2, <1>3, <1>4, <3>1, ArrayAssumption DEF RingType, Nodes, At
    <3> QED BY <2>1, <3>1, <3>2 DEF Ranked
  <2> QED BY <2>1, <2>2 DEF Numbered
<1>9. Ends'
  <2> SUFFICES ASSUME NEW b \in Arrays
               PROVE  /\ prev'[b] \in Nodes /\ at(prev'[b]) = b
                      /\ lastref'[b] # Null => at(lastref'[b]) = b
    BY DEF Ends, At
  <2> HIDE DEF at, trap
  <2>1. prev'[b] = prev[b] /\ prev[b] \in Nodes /\ At(prev[b]) = b
    BY <1>1, <1>2, <1>3 DEF RingType, RingInv, Ends, Nodes
  <2>2. at(prev'[b]) = b
    BY <1>1, <1>3, <1>6, <2>1, ArrayAssumption DEF At
  <2>3. CASE b = a
    BY <1>1, <1>2, <1>6, <2>1, <2>2, <2>3 DEF RingType, Nodes
  <2>4. CASE b # a
    <3>1. lastref'[b] = lastref[b] /\ (lastref[b] # Null => lastref[b] \in Nodes /\ At(lastref[b]) = b)
      BY <1>2, <2>4 DEF RingType, RingInv, Ends
    <3> QED BY <1>1, <1>3, <1>6, <2>1, <2>2, <2>4, <3>1, ArrayAssumption DEF At
  <2> QED BY <2>3, <2>4
<1>10. Traps'
  BY <1>1, <1>2, <1>3, <1>4, <1>6 DEF RingType, RingInv, Traps, At, IsTrap, Nodes
<1>11. FreeIsUnlinked'
  BY <1>1, <1>2, <1>3, <1>4 DEF RingType, RingInv, FreeIsUnlinked, At, Nodes
<1>12. \A m, n \in Nodes : At(n) # Null /\ SameRing(m, n) =>
          at(n) # Null /\ at(m) = at(n) /\ ~trap(m)
  BY <1>1, <1>3, <1>6, ArrayAssumption DEF SameRing, At, Nodes
<1> QED BY <1>5, <1>7, <1>8, <1>9, <1>10, <1>11, <1>12, <1>13 DEF RingInv, SameRing, At, IsTrap

\* bash's own append keeps the rings of an array nothing was pushed to.
LEMMA InsertStep ==
  ASSUME RingType, RingInv, NEW a \in Arrays, NEW w \in Words, Live # Cells,
         stage \in [Arrays -> Stages], stage[a] \notin {"pushed", "mined"},
         stage' = [stage EXCEPT ![a] = "fresh"], array_insert(a, w)
  PROVE  RingType' /\ RingInv'
<1> DEFINE c == New
           p == prev[a]
<1>1. c \in Cells /\ owner[c] = Null
  BY FreeCell
<1> HIDE DEF c
<1>2. /\ value' = [value EXCEPT ![c] = w]
      /\ owner' = [owner EXCEPT ![c] = a]
      /\ prev' = [prev EXCEPT ![c] = p, ![a] = c]
      /\ next' = [next EXCEPT ![c] = a, ![p] = c]
      /\ lastref' = [lastref EXCEPT ![a] = c]
      /\ num_elements' = [num_elements EXCEPT ![a] = @ + 1]
  BY DEF array_insert, Create, c
<1>3. w # Trap /\ c \notin Arrays /\ a \notin Cells /\ Null \notin Nodes
  BY <1>1, ArrayAssumption DEF Nodes
<1>4. p \in Nodes /\ At(p) = a /\ p # c /\ ~IsTrap(p) /\ next[p] = a /\ p = prev[a] /\ ~IsTrap(a) /\ At(a) = a
  <2>1. a \in Nodes /\ At(a) = a /\ a # Null /\ ~IsTrap(a)
    BY <1>3 DEF At, IsTrap, Nodes
  <2>2. SameRing(p, a) /\ next[p] = a
    BY <2>1 DEF RingInv, Mirrored
  <2> QED BY <1>1, <1>3, <2>1, <2>2 DEF SameRing, At
<1> HIDE DEF p
<1>5. RingType'
  BY <1>1, <1>2, <1>4 DEF RingType, Nodes
<1> DEFINE at(n) == IF n \in Arrays THEN n ELSE owner'[n]
           trap(n) == n \in Cells /\ value'[n] = Trap
<1>6. \A n \in Nodes : /\ at(n) = IF n = c THEN a ELSE At(n)
                       /\ trap(n) <=> IsTrap(n) /\ n # c
  BY <1>1, <1>2, <1>3 DEF RingType, At, IsTrap, Nodes
<1>7. \A n \in Nodes : /\ next'[n] = IF n = c THEN a ELSE IF n = p THEN c ELSE next[n]
                       /\ prev'[n] = IF n = c THEN p ELSE IF n = a THEN c ELSE prev[n]
  BY <1>1, <1>2, <1>3, <1>4 DEF RingType, Nodes
<1>8. \A n \in Nodes : At(n) \in Arrays \cup {Null}
  BY DEF At, RingType, Nodes
<1>9. Forward'
  <2> SUFFICES ASSUME NEW n \in Nodes, at(n) # Null
               PROVE  next'[n] \in Nodes /\ at(next'[n]) = at(n) /\ ~trap(next'[n])
    BY DEF Forward, SameRing, At, IsTrap
  <2> HIDE DEF at, trap
  <2>1. CASE n \in {c, p}
    BY <1>1, <1>3, <1>4, <1>6, <1>7, <2>1 DEF Nodes
  <2>2. CASE n \notin {c, p}
    <3>1. /\ At(n) # Null /\ next'[n] = next[n]
          /\ next[n] \in Nodes /\ At(next[n]) = At(n) /\ ~IsTrap(next[n])
      BY <1>6, <1>7, <2>2 DEF RingInv, Forward, SameRing
    <3>2. next[n] # c
      BY <1>1, <1>3, <3>1 DEF At
    <3> QED BY <1>6, <2>2, <3>1, <3>2
  <2> QED BY <2>1, <2>2
<1>10. Mirrored'
  <2> SUFFICES ASSUME NEW n \in Nodes, at(n) # Null, ~trap(n), stage'[at(n)] # "pushed"
               PROVE  /\ prev'[n] \in Nodes /\ at(prev'[n]) = at(n) /\ ~trap(prev'[n])
                      /\ prev'[next'[n]] = n /\ next'[prev'[n]] = n
    BY DEF Mirrored, SameRing, At, IsTrap
  <2> HIDE DEF at, trap
  <2>1. CASE n = c
    BY <1>1, <1>3, <1>4, <1>6, <1>7, <2>1 DEF Nodes
  <2>2. CASE n # c
    <3>1. At(n) \in Arrays /\ ~IsTrap(n) /\ at(n) = At(n)
      BY <1>6, <1>8, <2>2
    <3>4. stage[At(n)] # "pushed"
      BY <3>1
    <3>2. /\ prev[n] \in Nodes /\ At(prev[n]) = At(n) /\ ~IsTrap(prev[n])
          /\ next[n] \in Nodes /\ At(next[n]) = At(n) /\ ~IsTrap(next[n])
          /\ prev[next[n]] = n /\ next[prev[n]] = n
      BY <1>3, <3>1, <3>4, ArrayAssumption DEF RingInv, Forward, Mirrored, SameRing, Nodes
    <3>3. prev[n] # c /\ next[n] # c
      BY <1>1, <1>3, <3>1, <3>2, ArrayAssumption DEF At, Nodes
    <3> QED BY <1>1, <1>3, <1>4, <1>6, <1>7, <2>2, <3>2, <3>3 DEF Nodes
  <2> QED BY <2>1, <2>2
<1>14. Numbered'
  <2>1. PICK r \in [Nodes -> Nat] : Ranked(r)
    BY DEF RingInv, Numbered
  <2>2. PICK s \in [Nodes -> Nat] : s[c] = r[p] + 1 /\ \A n \in Nodes : n # c => s[n] = r[n]
    <3> DEFINE s == [n \in Nodes |-> IF n = c THEN r[p] + 1 ELSE r[n]]
    <3>1. c \in Nodes /\ p \in Nodes
      BY <1>1, <1>4 DEF Nodes
    <3>2. r[p] + 1 \in Nat
      BY <2>1, <3>1
    <3>3. s \in [Nodes -> Nat] /\ s[c] = r[p] + 1 /\ \A n \in Nodes : n # c => s[n] = r[n]
      BY <2>1, <3>1, <3>2
    <3> QED BY <3>3
  <2>3. Ranked(s)'
    <3> SUFFICES ASSUME NEW n \in Nodes, at(n) # Null, ~trap(n), stage'[at(n)] # "pushed",
                        next'[n] \in Cells
                 PROVE  s[n] < s[next'[n]]
      BY DEF Ranked, At, IsTrap
    <3> HIDE DEF at, trap
    <3>1. CASE n \in {c, p}
      BY <1>3, <1>4, <1>7, <2>1, <2>2, <3>1
    <3>2. CASE n \notin {c, p}
      <4>1. at(n) = At(n) /\ ~IsTrap(n) /\ next'[n] = next[n]
        BY <1>6, <1>7, <3>2
      <4>2. stage[At(n)] # "pushed"
        BY <1>8, <4>1
      <4>3. next[n] \in Nodes /\ At(next[n]) = At(n) /\ next[n] # c
        BY <1>1, <1>3, <4>1 DEF RingInv, Forward, SameRing, At
      <4> QED BY <2>1, <2>2, <3>2, <4>1, <4>2, <4>3 DEF Ranked
    <3> QED BY <3>1, <3>2
  <2> QED BY <2>2, <2>3 DEF Numbered
<1>11. Ends'
  <2> SUFFICES ASSUME NEW b \in Arrays
               PROVE  /\ prev'[b] \in Nodes /\ at(prev'[b]) = b
                      /\ lastref'[b] # Null => at(lastref'[b]) = b
    BY DEF Ends, At
  <2> HIDE DEF at, trap
  <2>1. CASE b = a
    BY <1>1, <1>2, <1>3, <1>6, <1>7, <2>1 DEF RingType, Nodes
  <2>2. CASE b # a
    <3>1. /\ lastref'[b] = lastref[b] /\ (lastref[b] # Null => lastref[b] \in Nodes /\ At(lastref[b]) = b)
          /\ prev'[b] = prev[b] /\ prev[b] \in Nodes /\ At(prev[b]) = b
      BY <1>1, <1>2, <1>3, <1>7, <2>2 DEF RingType, RingInv, Ends, Nodes
    <3> QED BY <1>1, <1>3, <1>6, <2>2, <3>1, ArrayAssumption DEF At
  <2> QED BY <2>1, <2>2
<1>12. Traps'
  BY <1>1, <1>2, <1>3, <1>4, <1>6 DEF RingType, RingInv, Traps, At, IsTrap, Nodes
<1>13. FreeIsUnlinked'
  BY <1>1, <1>2, <1>3, <1>4, <1>7 DEF RingType, RingInv, FreeIsUnlinked, At, Nodes
<1> QED BY <1>5, <1>9, <1>10, <1>11, <1>12, <1>13, <1>14 DEF RingInv

\* What ab_remove_args frees is in no ring any more, and lastref is not on it.
LEMMA UnlinkStep ==
  ASSUME RingType, RingInv, NEW a \in Arrays, NEW c \in Cells, At(c) = a, ~IsTrap(c),
         stage \in [Arrays -> Stages], stage[a] = "roved", stage' = stage,
         Unlink(c, a)
  PROVE  /\ RingType' /\ RingInv'
         /\ next[c] \in Nodes /\ (\A m \in Nodes : m = next[c] => SameRing(m, a)')
<1> DEFINE p == prev[c]
           q == next[c]
<1>1. c \notin Arrays /\ a \notin Cells /\ Null \notin Nodes /\ owner[c] = a /\ c \in Nodes /\ a \in Nodes
  BY ArrayAssumption DEF Nodes, At
<1>2. /\ p \in Nodes /\ At(p) = a /\ ~IsTrap(p) /\ next[p] = c
      /\ q \in Nodes /\ At(q) = a /\ ~IsTrap(q) /\ prev[q] = c
      /\ p = prev[c] /\ q = next[c]
  BY <1>1 DEF RingInv, Forward, Mirrored, SameRing
<1>3. /\ next' = [next EXCEPT ![p] = q, ![c] = Null]
      /\ prev' = [prev EXCEPT ![q] = p, ![c] = Null]
      /\ lastref' = [lastref EXCEPT ![a] = IF q # a THEN q ELSE IF p # a THEN p ELSE Null]
      /\ value' = [value EXCEPT ![c] = Null]
      /\ owner' = [owner EXCEPT ![c] = Null]
      /\ num_elements' = [num_elements EXCEPT ![a] = @ - 1]
  BY DEF Unlink, Dispose
<1> HIDE DEF p, q
<1>4. p # c /\ q # c
  <2>1. PICK r \in [Nodes -> Nat] : Ranked(r)
    BY DEF RingInv, Numbered
  <2>2. CASE q = c
    <3>1. r[c] < r[c] /\ r[c] \in Nat
      BY <1>1, <1>2, <2>1, <2>2 DEF Ranked
    <3> QED BY <3>1
  <2>3. CASE p = c
    BY <1>2, <2>2, <2>3
  <2> QED BY <2>2, <2>3
<1>5. RingType'
  BY <1>1, <1>2, <1>3 DEF RingType, Nodes
<1> DEFINE at(n) == IF n \in Arrays THEN n ELSE owner'[n]
           trap(n) == n \in Cells /\ value'[n] = Trap
<1>6. \A n \in Nodes : /\ at(n) = IF n = c THEN Null ELSE At(n)
                       /\ trap(n) <=> IsTrap(n)
  BY <1>1, <1>3, ArrayAssumption DEF RingType, At, IsTrap, Nodes
<1>7. \A n \in Nodes : /\ next'[n] = IF n = c THEN Null ELSE IF n = p THEN q ELSE next[n]
                       /\ prev'[n] = IF n = c THEN Null ELSE IF n = q THEN p ELSE prev[n]
  BY <1>1, <1>2, <1>3, <1>4 DEF RingType, Nodes
<1>8. \A n \in Nodes : At(n) \in Arrays \cup {Null}
  BY DEF At, RingType, Nodes
<1>9. \A n \in Nodes : At(n) # Null /\ n # c /\ n # p => next[n] # c
  <2> SUFFICES ASSUME NEW n \in Nodes, At(n) # Null, n # c, next[n] = c PROVE n = p
    OBVIOUS
  <2>1. At(n) = a
    BY <1>1 DEF RingInv, Forward, SameRing
  <2>2. ~IsTrap(n)
    BY <1>1, <2>1 DEF RingInv, Traps, IsTrap
  <2> QED BY <1>2, <2>1, <2>2, <1>1 DEF RingInv, Mirrored
<1>10. Forward'
  <2> SUFFICES ASSUME NEW n \in Nodes, at(n) # Null
               PROVE  next'[n] \in Nodes /\ at(next'[n]) = at(n) /\ ~trap(next'[n])
    BY DEF Forward, SameRing, At, IsTrap
  <2> HIDE DEF at, trap
  <2>1. n # c /\ at(n) = At(n) /\ At(n) # Null
    BY <1>6
  <2>2. CASE n = p
    BY <1>2, <1>4, <1>6, <1>7, <2>1, <2>2
  <2>3. CASE n # p
    BY <1>6, <1>7, <1>9, <2>1, <2>3 DEF RingInv, Forward, SameRing
  <2> QED BY <2>2, <2>3
<1>11. Mirrored'
  <2> SUFFICES ASSUME NEW n \in Nodes, at(n) # Null, ~trap(n), stage[at(n)] # "pushed"
               PROVE  /\ prev'[n] \in Nodes /\ at(prev'[n]) = at(n) /\ ~trap(prev'[n])
                      /\ prev'[next'[n]] = n /\ next'[prev'[n]] = n
    BY DEF Mirrored, SameRing, At, IsTrap
  <2> HIDE DEF at, trap
  <2>1. n # c /\ at(n) = At(n) /\ At(n) # Null /\ ~IsTrap(n)
    BY <1>6
  <2>2. /\ prev[n] \in Nodes /\ At(prev[n]) = At(n) /\ ~IsTrap(prev[n])
        /\ next[n] \in Nodes /\ At(next[n]) = At(n) /\ ~IsTrap(next[n])
        /\ prev[next[n]] = n /\ next[prev[n]] = n
    BY <2>1 DEF RingInv, Forward, Mirrored, SameRing
  <2>3. prev[n] = c <=> n = q
    BY <1>2, <2>2
  <2>4. next[n] = c <=> n = p
    BY <1>2, <2>2
  <2>5. prev'[n] \in Nodes /\ at(prev'[n]) = at(n) /\ ~trap(prev'[n])
    BY <1>2, <1>4, <1>6, <1>7, <2>1, <2>2, <2>3
  <2>6. prev'[next'[n]] = n
    BY <1>2, <1>4, <1>7, <2>1, <2>2, <2>4
  <2>7. next'[prev'[n]] = n
    BY <1>2, <1>4, <1>7, <2>1, <2>2, <2>3
  <2> QED BY <2>5, <2>6, <2>7
<1>12. Numbered'
  <2>1. PICK r \in [Nodes -> Nat] : Ranked(r)
    BY DEF RingInv, Numbered
  <2>2. Ranked(r)'
    <3> SUFFICES ASSUME NEW n \in Nodes, at(n) # Null, ~trap(n), stage[at(n)] # "pushed",
                        next'[n] \in Cells
                 PROVE  r[n] < r[next'[n]]
      BY DEF Ranked, At, IsTrap
    <3> HIDE DEF at, trap
    <3>1. n # c /\ At(n) = at(n) /\ ~IsTrap(n)
      BY <1>6
    <3>2. CASE n # p
      BY <1>7, <2>1, <3>1, <3>2 DEF Ranked
    <3>3. CASE n = p
      <4>1. r[p] < r[c] /\ next'[p] = q /\ q \in Cells
        BY <1>1, <1>2, <1>7, <2>1, <3>1, <3>3 DEF Ranked
      <4>2. r[c] < r[q]
        BY <1>1, <1>2, <2>1, <4>1 DEF Ranked
      <4> QED BY <1>1, <1>2, <2>1, <3>3, <4>1, <4>2
    <3> QED BY <3>2, <3>3
  <2> QED BY <2>1, <2>2 DEF Numbered
<1>13. Ends'
  <2> SUFFICES ASSUME NEW b \in Arrays
               PROVE  /\ prev'[b] \in Nodes /\ at(prev'[b]) = b
                      /\ lastref'[b] # Null => at(lastref'[b]) = b
    BY DEF Ends, At
  <2> HIDE DEF at, trap
  <2>1. b # c /\ At(b) = b /\ b \in Nodes /\ prev[b] \in Nodes /\ At(prev[b]) = b /\ ~IsTrap(b)
    BY <1>1, ArrayAssumption DEF At, RingInv, Ends, Nodes, IsTrap
  <2>2. prev'[b] \in Nodes /\ at(prev'[b]) = b
    <3>1. CASE b = q
      BY <1>2, <1>4, <1>6, <1>7, <2>1, <3>1
    <3>2. CASE b # q
      <4>1. prev'[b] = prev[b]
        BY <1>7, <2>1, <3>2
      <4>2. prev[b] # c
        <5>1. CASE b = a
          <6>1. next[prev[b]] = b
            BY <1>1, <2>1, <5>1 DEF RingInv, Mirrored
          <6> QED BY <1>2, <3>2, <6>1
        <5>2. CASE b # a
          BY <1>1, <2>1, <5>2 DEF At
        <5> QED BY <5>1, <5>2
      <4> QED BY <1>6, <2>1, <4>1, <4>2
    <3> QED BY <3>1, <3>2
  <2>3. lastref'[b] # Null => at(lastref'[b]) = b
    <3>1. CASE b = a
      BY <1>2, <1>3, <1>4, <1>6, <3>1 DEF RingType
    <3>2. CASE b # a
      <4>1. lastref'[b] = lastref[b] /\ (lastref[b] # Null => lastref[b] \in Nodes /\ At(lastref[b]) = b)
        BY <1>3, <3>2 DEF RingType, RingInv, Ends
      <4> QED BY <1>1, <1>6, <3>2, <4>1 DEF At
    <3> QED BY <3>1, <3>2
  <2> QED BY <2>2, <2>3
<1>14. Traps'
  BY <1>1, <1>3, <1>6 DEF RingType, RingInv, Traps, At, IsTrap, Nodes
<1>15. FreeIsUnlinked'
  BY <1>1, <1>2, <1>3, <1>7, ArrayAssumption DEF RingType, RingInv, FreeIsUnlinked, At, Nodes
<1>16. q \in Nodes /\ at(q) = at(a) /\ ~trap(q)
  BY <1>1, <1>2, <1>4, <1>6, ArrayAssumption DEF At
<1>17. \A m \in Nodes : m = next[c] => SameRing(m, a)'
  <2> SUFFICES ASSUME NEW m \in Nodes, m = next[c]
               PROVE  at(m) = at(a) /\ ~trap(m)
    BY DEF SameRing, At, IsTrap
  <2> QED BY <1>2, <1>16
<1>18. next[c] \in Nodes
  BY <1>2
<1> QED BY <1>5, <1>10, <1>11, <1>12, <1>13, <1>14, <1>15, <1>17, <1>18 DEF RingInv

CallType ==
    /\ stage \in [Arrays -> Stages]
    /\ pc \in {"idle", "concat", "filter", "listing", "split", "dead"}
    /\ ae \in Nodes \cup {Null}
    /\ pc \notin {"idle", "dead"} => dst \in Arrays
    /\ pc = "concat" => src \in Arrays
    /\ to_remove \subseteq Words /\ lines \in Seq(Words \cup {Comment})

LEMMA TypeParts == TypeOK <=> RingType /\ CallType
BY DEF TypeOK, RingType, CallType

\* A script that goes on to the next stage leaves the rings as they are; the roving pointer of
\* its array may go to another element.
LEMMA StageStep ==
  ASSUME RingType, RingInv, stage \in [Arrays -> Stages], NEW a \in Arrays, NEW s \in Stages,
         stage[a] # "mined", s # "mined", stage[a] = "pushed" => s = "pushed",
         stage' = [stage EXCEPT ![a] = s], UNCHANGED <<next, prev, value, owner, num_elements>>,
         lastref' \in [Arrays -> Nodes \cup {Null}],
         \A b \in Arrays : b # a => lastref'[b] = lastref[b],
         lastref'[a] # Null => At(lastref'[a]) = a
  PROVE  RingType' /\ RingInv' /\ (\A m, n \in Nodes : SameRing(m, n) => SameRing(m, n)')
<1>1. /\ next' = next /\ prev' = prev /\ value' = value /\ owner' = owner
      /\ num_elements' = num_elements
  OBVIOUS
<1>2. RingType'
  BY <1>1 DEF RingType
<1>3. \A n \in Nodes : At(n) \in Arrays \cup {Null}
  BY DEF At, RingType, Nodes
<1>4. \A b \in Arrays : stage[b] = "pushed" => stage'[b] = "pushed"
  OBVIOUS
<1>5. \A b \in Arrays : stage[b] = "mined" <=> stage'[b] = "mined"
  OBVIOUS
<1>6. Forward' /\ Ends' /\ FreeIsUnlinked'
  BY <1>1 DEF RingInv, Forward, Ends, FreeIsUnlinked, SameRing, At, IsTrap
<1>7. Mirrored'
  <2> SUFFICES ASSUME NEW n \in Nodes, At(n) # Null, ~IsTrap(n), stage'[At(n)] # "pushed"
               PROVE  SameRing(prev[n], n) /\ prev[next[n]] = n /\ next[prev[n]] = n
    BY <1>1 DEF Mirrored, SameRing, At, IsTrap
  <2> QED BY <1>3, <1>4, ArrayAssumption DEF RingInv, Mirrored
<1>8. Numbered'
  <2>1. PICK r \in [Nodes -> Nat] : Ranked(r)
    BY DEF RingInv, Numbered
  <2>2. Ranked(r)'
    <3> SUFFICES ASSUME NEW n \in Nodes, At(n) # Null, ~IsTrap(n), stage'[At(n)] # "pushed",
                        next[n] \in Cells
                 PROVE  r[n] < r[next[n]]
      BY <1>1 DEF Ranked, At, IsTrap
    <3> QED BY <1>3, <1>4, <2>1, ArrayAssumption DEF Ranked
  <2> QED BY <2>1, <2>2 DEF Numbered
<1>9. Traps'
  <2>1. \A c \in Cells : IsTrap(c) => At(c) \in Arrays
    BY <1>3 DEF RingInv, Traps, Nodes
  <2> QED BY <1>1, <1>5, <2>1 DEF RingInv, Traps, At, IsTrap
<1>10. \A m, n \in Nodes : SameRing(m, n) => SameRing(m, n)'
  BY <1>1 DEF SameRing, At, IsTrap
<1> QED BY <1>2, <1>6, <1>7, <1>8, <1>9, <1>10 DEF RingInv

\* An element found in the ring is an element of the array.
LEMMA ReachedInRing ==
  ASSUME RingType, RingInv, NEW a \in Arrays, NEW c \in Reached(a)
  PROVE  c \in Cells /\ SameRing(c, a)
<1> DEFINE S == {n \in Nodes : SameRing(n, a)}
<1>1. a \in S /\ S \in SUBSET Nodes
  BY ArrayAssumption DEF SameRing, At, IsTrap, Nodes
<1>2. \A n \in S : next[n] \in S
  BY ArrayAssumption DEF RingInv, Forward, SameRing, At
<1>3. {next[n] : n \in S} \subseteq S \cup {Null}
  BY <1>2
<1> HIDE DEF S
<1>4. c \in Cells /\ c \in S
  BY <1>1, <1>3 DEF Reached
<1> QED BY <1>4 DEF S

\* A trap is a cell of its own, found at lastref and in no ring.
LEMMA MineStep ==
  ASSUME RingType, RingInv, NEW a \in Arrays, stage \in [Arrays -> Stages],
         stage[a] \in {"fresh", "roved"}, Live # Cells, abmm_array_mine(a)
  PROVE  RingType' /\ RingInv'
<1> DEFINE c == New
<1>1. c \in Cells /\ owner[c] = Null
  BY FreeCell
<1> HIDE DEF c
<1>2. /\ value' = [value EXCEPT ![c] = Trap]
      /\ owner' = [owner EXCEPT ![c] = a]
      /\ next' = [next EXCEPT ![c] = a]
      /\ lastref' = [lastref EXCEPT ![a] = c]
      /\ prev' = prev /\ num_elements' = num_elements
      /\ stage' = [stage EXCEPT ![a] = "mined"]
  BY DEF abmm_array_mine, Create, Staged, c
<1>3. c \notin Arrays /\ a \notin Cells /\ Null \notin Nodes /\ c \in Nodes /\ a \in Nodes
  BY <1>1, ArrayAssumption DEF Nodes
<1>4. At(a) = a /\ ~IsTrap(a)
  BY <1>3 DEF At, IsTrap
<1>5. RingType'
  BY <1>1, <1>2, <1>3 DEF RingType, Nodes
<1> DEFINE at(n) == IF n \in Arrays THEN n ELSE owner'[n]
           trap(n) == n \in Cells /\ value'[n] = Trap
<1>6. \A n \in Nodes : /\ at(n) = IF n = c THEN a ELSE At(n)
                       /\ trap(n) <=> IsTrap(n) \/ n = c
                       /\ next'[n] = IF n = c THEN a ELSE next[n]
  BY <1>1, <1>2, <1>3 DEF RingType, At, IsTrap, Nodes
<1>7. \A n \in Nodes : At(n) \in Arrays \cup {Null}
  BY DEF At, RingType, Nodes
<1>8. At(c) = Null
  BY <1>1, <1>3 DEF At
<1>9. Forward'
  <2> SUFFICES ASSUME NEW n \in Nodes, at(n) # Null
               PROVE  next'[n] \in Nodes /\ at(next'[n]) = at(n) /\ ~trap(next'[n])
    BY DEF Forward, SameRing, At, IsTrap
  <2> HIDE DEF at, trap
  <2>1. CASE n = c
    BY <1>3, <1>4, <1>6, <2>1
  <2>2. CASE n # c
    BY <1>6, <1>8, <2>2 DEF RingInv, Forward, SameRing
  <2> QED BY <2>1, <2>2
<1>10. \A n \in Nodes : at(n) # Null /\ ~trap(n) /\ stage'[at(n)] # "pushed" =>
          n # c /\ at(n) = At(n) /\ ~IsTrap(n) /\ stage[At(n)] # "pushed"
  <2> HIDE DEF at, trap
  <2> QED BY <1>2, <1>6, <1>7
<1>11. Mirrored'
  <2> SUFFICES ASSUME NEW n \in Nodes, at(n) # Null, ~trap(n), stage'[at(n)] # "pushed"
               PROVE  /\ prev'[n] \in Nodes /\ at(prev'[n]) = at(n) /\ ~trap(prev'[n])
                      /\ prev'[next'[n]] = n /\ next'[prev'[n]] = n
    BY DEF Mirrored, SameRing, At, IsTrap
  <2> HIDE DEF at, trap
  <2>1. n # c /\ at(n) = At(n) /\ ~IsTrap(n) /\ stage[At(n)] # "pushed"
    BY <1>10
  <2>2. SameRing(prev[n], n) /\ prev[next[n]] = n /\ next[prev[n]] = n
    BY <2>1 DEF RingInv, Mirrored
  <2>3. prev[n] # c
    BY <1>8, <2>1, <2>2 DEF SameRing
  <2> QED BY <1>2, <1>6, <2>1, <2>2, <2>3 DEF SameRing
<1>12. Numbered'
  <2>1. PICK r \in [Nodes -> Nat] : Ranked(r)
    BY DEF RingInv, Numbered
  <2>2. Ranked(r)'
    <3> SUFFICES ASSUME NEW n \in Nodes, at(n) # Null, ~trap(n), stage'[at(n)] # "pushed",
                        next'[n] \in Cells
                 PROVE  r[n] < r[next'[n]]
      BY DEF Ranked, At, IsTrap
    <3> HIDE DEF at, trap
    <3>1. n # c /\ at(n) = At(n) /\ ~IsTrap(n) /\ stage[At(n)] # "pushed"
      BY <1>10
    <3> QED BY <1>6, <2>1, <3>1 DEF Ranked
  <2> QED BY <2>1, <2>2 DEF Numbered
<1>13. Ends'
  <2> SUFFICES ASSUME NEW b \in Arrays
               PROVE  /\ prev'[b] \in Nodes /\ at(prev'[b]) = b
                      /\ lastref'[b] # Null => at(lastref'[b]) = b
    BY DEF Ends, At
  <2> HIDE DEF at, trap
  <2>1. prev[b] \in Nodes /\ At(prev[b]) = b /\ b # Null
    BY <1>3 DEF RingInv, Ends, Nodes
  <2>2. prev'[b] \in Nodes /\ at(prev'[b]) = b
    BY <1>2, <1>6, <1>8, <2>1
  <2>3. lastref'[b] # Null => at(lastref'[b]) = b
    <3>1. CASE b = a
      BY <1>2, <1>3, <1>6, <3>1 DEF RingType
    <3>2. CASE b # a
      <4>1. lastref'[b] = lastref[b] /\ (lastref[b] # Null => lastref[b] \in Nodes /\ At(lastref[b]) = b)
        BY <1>2, <3>2 DEF RingType, RingInv, Ends
      <4> QED BY <1>6, <1>8, <2>1, <4>1
    <3> QED BY <3>1, <3>2
  <2> QED BY <2>2, <2>3
<1>14. Traps'
  <2>1. \A d \in Cells : trap(d) => at(d) # Null /\ stage'[at(d)] = "mined" /\ lastref'[at(d)] = d
    <3> SUFFICES ASSUME NEW d \in Cells, trap(d)
                 PROVE  at(d) # Null /\ stage'[at(d)] = "mined" /\ lastref'[at(d)] = d
      OBVIOUS
    <3> HIDE DEF at, trap
    <3>0. d \in Nodes
      BY DEF Nodes
    <3>1. CASE d = c
      BY <1>2, <1>3, <1>6, <3>0, <3>1 DEF RingType
    <3>2. CASE d # c
      <4>1. IsTrap(d) /\ at(d) = At(d)
        BY <1>6, <3>0, <3>2
      <4>2. At(d) # Null /\ stage[At(d)] = "mined" /\ lastref[At(d)] = d /\ At(d) \in Arrays
        BY <1>7, <3>0, <4>1 DEF RingInv, Traps
      <4> QED BY <1>2, <4>1, <4>2 DEF RingType
    <3> QED BY <3>1, <3>2
  <2>2. \A b \in Arrays : stage'[b] = "mined" => lastref'[b] \in Cells /\ trap(lastref'[b])
    <3> SUFFICES ASSUME NEW b \in Arrays, stage'[b] = "mined"
                 PROVE  lastref'[b] \in Cells /\ trap(lastref'[b])
      OBVIOUS
    <3> HIDE DEF at, trap
    <3>1. CASE b = a
      BY <1>1, <1>2, <1>3, <1>6, <3>1 DEF RingType
    <3>2. CASE b # a
      <4>1. lastref'[b] = lastref[b] /\ stage[b] = "mined"
        BY <1>2, <3>2 DEF RingType
      <4> QED BY <1>6, <4>1 DEF RingInv, Traps, Nodes
    <3> QED BY <3>1, <3>2
  <2> QED BY <2>1, <2>2 DEF Traps, At, IsTrap
<1>15. FreeIsUnlinked'
  BY <1>1, <1>2, <1>3 DEF RingType, RingInv, FreeIsUnlinked, Nodes
<1> QED BY <1>5, <1>9, <1>11, <1>12, <1>13, <1>14, <1>15 DEF RingInv

\* Removing a trap frees the one cell no ring holds.
LEMMA MineRemoveStep ==
  ASSUME RingType, RingInv, NEW a \in Arrays, stage \in [Arrays -> Stages],
         stage[a] = "mined", abmm_array_mine_remove(a), lastref[a] \in Live
  PROVE  RingType' /\ RingInv'
<1> DEFINE c == lastref[a]
<1>1. c \in Cells /\ owner[c] = a /\ IsTrap(c) /\ c \notin Arrays /\ a \notin Cells /\ Null \notin Nodes
      /\ c \in Nodes /\ a \in Nodes /\ At(c) = a /\ At(a) = a
  BY ArrayAssumption DEF RingInv, Traps, Ends, Live, At, Nodes
<1>2. next[c] \in Nodes /\ At(next[c]) = a /\ next[c] # c
  BY <1>1 DEF RingInv, Forward, SameRing
<1>3. /\ next' = [next EXCEPT ![c] = Null]
      /\ prev' = [prev EXCEPT ![c] = Null]
      /\ lastref' = [lastref EXCEPT ![a] = next[c]]
      /\ value' = [value EXCEPT ![c] = Null]
      /\ owner' = [owner EXCEPT ![c] = Null]
      /\ stage' = [stage EXCEPT ![a] = "cleared"]
      /\ num_elements' = num_elements
  BY DEF abmm_array_mine_remove, Dispose, Staged
<1> DEFINE at(n) == IF n \in Arrays THEN n ELSE owner'[n]
           trap(n) == n \in Cells /\ value'[n] = Trap
<1> HIDE DEF c
<1>5. RingType'
  BY <1>1, <1>2, <1>3 DEF RingType, Nodes
<1>6. \A n \in Nodes : /\ at(n) = IF n = c THEN Null ELSE At(n)
                       /\ trap(n) <=> IsTrap(n) /\ n # c
                       /\ next'[n] = IF n = c THEN Null ELSE next[n]
                       /\ prev'[n] = IF n = c THEN Null ELSE prev[n]
  BY <1>1, <1>3, ArrayAssumption DEF RingType, At, IsTrap, Nodes
<1>7. \A n \in Nodes : At(n) \in Arrays \cup {Null}
  BY DEF At, RingType, Nodes
<1>8. \A n \in Nodes : at(n) # Null => n # c /\ at(n) = At(n) /\ next[n] # c /\ SameRing(next[n], n)
  <2> HIDE DEF at
  <2> QED BY <1>1, <1>6 DEF RingInv, Forward, SameRing
<1>9. Forward'
  <2> SUFFICES ASSUME NEW n \in Nodes, at(n) # Null
               PROVE  next'[n] \in Nodes /\ at(next'[n]) = at(n) /\ ~trap(next'[n])
    BY DEF Forward, SameRing, At, IsTrap
  <2> HIDE DEF at, trap
  <2> QED BY <1>6, <1>8 DEF SameRing
<1>10. \A n \in Nodes : at(n) # Null /\ ~trap(n) /\ stage'[at(n)] # "pushed" =>
          n # c /\ at(n) = At(n) /\ ~IsTrap(n) /\ stage[At(n)] # "pushed"
  <2> HIDE DEF at, trap
  <2> QED BY <1>3, <1>6, <1>7, <1>8
<1>11. Mirrored'
  <2> SUFFICES ASSUME NEW n \in Nodes, at(n) # Null, ~trap(n), stage'[at(n)] # "pushed"
               PROVE  /\ prev'[n] \in Nodes /\ at(prev'[n]) = at(n) /\ ~trap(prev'[n])
                      /\ prev'[next'[n]] = n /\ next'[prev'[n]] = n
    BY DEF Mirrored, SameRing, At, IsTrap
  <2> HIDE DEF at, trap
  <2>1. n # c /\ at(n) = At(n) /\ ~IsTrap(n) /\ stage[At(n)] # "pushed" /\ next[n] # c /\ next[n] \in Nodes
    BY <1>8, <1>10 DEF SameRing
  <2>2. SameRing(prev[n], n) /\ prev[next[n]] = n /\ next[prev[n]] = n
    BY <2>1 DEF RingInv, Mirrored
  <2>3. prev[n] # c
    BY <1>1, <2>2 DEF SameRing
  <2> QED BY <1>6, <2>1, <2>2, <2>3 DEF SameRing
<1>12. Numbered'
  <2>1. PICK r \in [Nodes -> Nat] : Ranked(r)
    BY DEF RingInv, Numbered
  <2>2. Ranked(r)'
    <3> SUFFICES ASSUME NEW n \in Nodes, at(n) # Null, ~trap(n), stage'[at(n)] # "pushed",
                        next'[n] \in Cells
                 PROVE  r[n] < r[next'[n]]
      BY DEF Ranked, At, IsTrap
    <3> HIDE DEF at, trap
    <3>1. n # c /\ at(n) = At(n) /\ ~IsTrap(n) /\ stage[At(n)] # "pushed"
      BY <1>10
    <3> QED BY <1>6, <2>1, <3>1 DEF Ranked
  <2> QED BY <2>1, <2>2 DEF Numbered
<1>13. Ends'
  <2> SUFFICES ASSUME NEW b \in Arrays
               PROVE  /\ prev'[b] \in Nodes /\ at(prev'[b]) = b
                      /\ lastref'[b] # Null => at(lastref'[b]) = b
    BY DEF Ends, At
  <2> HIDE DEF at, trap
  <2>1. b \in Nodes /\ b # c /\ prev[b] \in Nodes /\ At(prev[b]) = b /\ b # Null /\ At(b) = b /\ ~IsTrap(b)
    BY <1>1, ArrayAssumption DEF RingInv, Ends, Nodes, At, IsTrap
  <2>2. prev[b] # c
    <3>1. CASE b = a
      BY <1>1, <2>1, <3>1 DEF RingInv, Mirrored, SameRing
    <3>2. CASE b # a
      BY <1>1, <2>1, <3>2
    <3> QED BY <3>1, <3>2
  <2>3. prev'[b] \in Nodes /\ at(prev'[b]) = b
    BY <1>6, <2>1, <2>2
  <2>4. lastref'[b] # Null => at(lastref'[b]) = b
    <3>1. CASE b = a
      <4>1. lastref'[b] = next[c]
        BY <1>3, <3>1 DEF RingType
      <4> QED BY <1>2, <1>6, <3>1, <4>1
    <3>2. CASE b # a
      <4>1. lastref'[b] = lastref[b] /\ (lastref[b] # Null => lastref[b] \in Nodes /\ At(lastref[b]) = b)
        BY <1>3, <3>2 DEF RingType, RingInv, Ends
      <4> QED BY <1>1, <1>6, <3>2, <4>1
    <3> QED BY <3>1, <3>2
  <2> QED BY <2>3, <2>4
<1>14. Traps'
  <2>1. \A d \in Cells : trap(d) => at(d) # Null /\ stage'[at(d)] = "mined" /\ lastref'[at(d)] = d
    <3> SUFFICES ASSUME NEW d \in Cells, trap(d)
                 PROVE  at(d) # Null /\ stage'[at(d)] = "mined" /\ lastref'[at(d)] = d
      OBVIOUS
    <3> HIDE DEF at, trap
    <3>0. d \in Nodes
      BY DEF Nodes
    <3>1. d # c /\ IsTrap(d) /\ at(d) = At(d)
      BY <1>6, <3>0
    <3>2. At(d) # Null /\ stage[At(d)] = "mined" /\ lastref[At(d)] = d /\ At(d) \in Arrays /\ At(d) # a
      BY <1>7, <3>0, <3>1 DEF RingInv, Traps, c
    <3> QED BY <1>3, <3>1, <3>2 DEF RingType
  <2>2. \A b \in Arrays : stage'[b] = "mined" => lastref'[b] \in Cells /\ trap(lastref'[b])
    <3> SUFFICES ASSUME NEW b \in Arrays, stage'[b] = "mined"
                 PROVE  lastref'[b] \in Cells /\ trap(lastref'[b])
      OBVIOUS
    <3> HIDE DEF at, trap
    <3>1. b # a /\ stage[b] = "mined" /\ lastref'[b] = lastref[b]
      BY <1>3 DEF RingType
    <3>2. lastref[b] \in Cells /\ IsTrap(lastref[b]) /\ At(lastref[b]) = b
      BY <3>1, ArrayAssumption DEF RingInv, Traps, Ends, Nodes
    <3> QED BY <1>1, <1>6, <3>1, <3>2 DEF Nodes
  <2> QED BY <2>1, <2>2 DEF Traps, At, IsTrap
<1>15. FreeIsUnlinked'
  BY <1>1, <1>3 DEF RingType, RingInv, FreeIsUnlinked, Nodes
<1> QED BY <1>5, <1>9, <1>11, <1>12, <1>13, <1>14, <1>15 DEF RingInv

\* The steps of a script that start no call.
LEMMA IdleStep ==
  ASSUME IInv, NEW a \in Arrays, OwnScripts,
         \/ \E w \in Words : AppendWord(a, w)
         \/ Subscript(a) \/ abmm_array_mine(a) \/ abmm_array_mine_remove(a)
  PROVE  IInv'
<1> USE DEF IInv
<1>1. RingType /\ CallType /\ RingInv /\ stage \in [Arrays -> Stages]
  BY TypeParts DEF CallType
<1>2. SUFFICES RingType' /\ RingInv' /\ CallType' /\ CallInv'
  BY DEF TypeOK, RingType, CallType
<1>3. CASE \E w \in Words : AppendWord(a, w)
  <2>1. PICK w \in Words : AppendWord(a, w)
    BY <1>3
  <2>2. /\ Live # Cells /\ stage[a] \notin {"pushed", "mined"} /\ array_insert(a, w)
        /\ stage' = [stage EXCEPT ![a] = "fresh"] /\ pc = "idle" /\ UNCHANGED <<pc, call>>
    BY <2>1 DEF AppendWord, May, Staged
  <2>3. RingType' /\ RingInv'
    BY <1>1, <2>2, InsertStep
  <2> QED BY <1>1, <2>2, <2>3 DEF CallType, CallInv, call, Stages
<1>4. CASE Subscript(a)
  <2>1. PICK c \in Reached(a) : lastref' = [lastref EXCEPT ![a] = c]
    BY <1>4 DEF Subscript
  <2>2. c \in Cells /\ SameRing(c, a) /\ At(c) = a
    BY <1>1, <2>1, ReachedInRing DEF SameRing, At
  <2>3. /\ UNCHANGED <<next, prev, value, owner, num_elements>> /\ UNCHANGED call /\ pc' = pc
        /\ stage' = [stage EXCEPT ![a] = "roved"] /\ stage[a] \in {"fresh", "roved"} /\ pc = "idle"
    BY <1>4 DEF Subscript, Staged, May
  <2>4. /\ lastref' \in [Arrays -> Nodes \cup {Null}] /\ lastref'[a] = c
        /\ \A b \in Arrays : b # a => lastref'[b] = lastref[b]
    BY <1>1, <2>1, <2>2 DEF RingType, Nodes
  <2>5. "roved" \in Stages
    BY DEF Stages
  <2>6. RingType' /\ RingInv'
    BY <1>1, <2>2, <2>3, <2>4, <2>5, StageStep
  <2> QED BY <1>1, <2>3, <2>6 DEF CallType, CallInv, call, Stages
<1>5. CASE abmm_array_mine(a)
  <2>1. /\ Live # Cells /\ stage[a] \in {"fresh", "roved"} /\ pc = "idle" /\ UNCHANGED <<pc, call>>
        /\ stage' = [stage EXCEPT ![a] = "mined"]
    BY <1>5 DEF abmm_array_mine, May, Staged
  <2>2. RingType' /\ RingInv'
    BY <1>1, <1>5, <2>1, MineStep
  <2> QED BY <1>1, <2>1, <2>2 DEF CallType, CallInv, call, Stages
<1>6. CASE abmm_array_mine_remove(a)
  <2>1. stage[a] = "mined" /\ pc = "idle" /\ lastref[a] \in Live
    BY <1>1, <1>6, ArrayAssumption DEF abmm_array_mine_remove, May, RingInv, Traps, Live, At
  <2>2. UNCHANGED <<pc, call>> /\ stage' = [stage EXCEPT ![a] = "cleared"]
    BY <1>6, <2>1 DEF abmm_array_mine_remove, Staged
  <2>3. RingType' /\ RingInv'
    BY <1>1, <1>6, <2>1, MineRemoveStep
  <2> QED BY <1>1, <2>1, <2>2, <2>3 DEF CallType, CallInv, call, Stages
<1> QED BY <1>3, <1>4, <1>5, <1>6

\* The start of a call.
LEMMA StartStep ==
  ASSUME IInv, NEW a \in Arrays, OwnScripts,
         \/ \E b \in Arrays : ab_concatarray(a, b)
         \/ \E R \in SUBSET Words : ab_filter_args(a, R)
         \/ \E f \in Files : ab_read_listing_file(a, f) \/ ab_tostringarray(a, f)
  PROVE  IInv'
<1> USE DEF IInv
<1>1. RingType /\ CallType /\ RingInv /\ stage \in [Arrays -> Stages]
  BY TypeParts DEF CallType
<1>2. SUFFICES RingType' /\ RingInv' /\ CallType' /\ CallInv'
  BY DEF TypeOK, RingType, CallType
<1>3. ASSUME NEW s \in Stages, UNCHANGED ring, stage' = [stage EXCEPT ![a] = s], s # "mined",
             stage[a] # "mined", stage[a] = "pushed" => s = "pushed"
      PROVE  RingType' /\ RingInv' /\ (\A m, n \in Nodes : SameRing(m, n) => SameRing(m, n)')
             /\ stage' \in [Arrays -> Stages] /\ stage'[a] = s
  <2>1. UNCHANGED <<next, prev, value, owner, num_elements>> /\ lastref' = lastref
    BY <1>3 DEF ring
  <2>2. /\ lastref' \in [Arrays -> Nodes \cup {Null}] /\ (lastref'[a] # Null => At(lastref'[a]) = a)
        /\ \A b \in Arrays : b # a => lastref'[b] = lastref[b]
    BY <1>1, <2>1 DEF RingType, RingInv, Ends
  <2> QED BY <1>1, <1>3, <2>1, <2>2, StageStep
<1>4. \A b \in Arrays : next[b] \in Nodes /\ b \in Nodes /\ SameRing(next[b], b)
  BY ArrayAssumption DEF RingInv, Forward, SameRing, At, Nodes
<1>5. CASE \E b \in Arrays : ab_concatarray(a, b)
  <2>1. PICK b \in Arrays : ab_concatarray(a, b)
    BY <1>5
  <2>2. /\ UNCHANGED ring /\ stage' = [stage EXCEPT ![a] = "pushed"] /\ stage[a] \in {"fresh", "pushed"}
        /\ pc' = "concat" /\ dst' = a /\ src' = b /\ ae' = next[b] /\ UNCHANGED <<to_remove, lines>>
    BY <2>1 DEF ab_concatarray, May, Staged, Start
  <2>3. RingType' /\ RingInv' /\ stage' \in [Arrays -> Stages] /\ stage'[a] = "pushed"
        /\ SameRing(next[b], b)'
    <3>1. "pushed" \in Stages
      BY DEF Stages
    <3>2. next[b] \in Nodes /\ b \in Nodes /\ SameRing(next[b], b)
      BY <1>4
    <3>3. next' = next
      BY <2>2 DEF ring
    <3>4. /\ RingType' /\ RingInv' /\ stage' \in [Arrays -> Stages] /\ stage'[a] = "pushed"
          /\ \A m, n \in Nodes : SameRing(m, n) => SameRing(m, n)'
      BY <1>3, <2>2, <3>1
    <3>5. \A m \in Nodes : m = next[b] => SameRing(m, b)'
      BY <3>2, <3>4
    <3>6. SameRing(next[b], b)'
      <4>1. \A m \in Nodes : m = next'[b] => SameRing(m, b)'
        BY <3>3, <3>5
      <4>2. next'[b] \in Nodes
        BY <3>2, <3>3
      <4> QED BY <4>1, <4>2 DEF SameRing, At, IsTrap
    <3> QED BY <3>4, <3>6
  <2>4. SameRing(ae, src)'
    <3>1. ae' = next'[b]
      BY <2>2 DEF ring
    <3> QED BY <2>2, <2>3, <3>1 DEF SameRing, At, IsTrap
  <2>5. CallType'
    BY <1>1, <1>4, <2>2, <2>3 DEF CallType
  <2> QED BY <2>2, <2>3, <2>4, <2>5 DEF CallInv
<1>6. CASE \E R \in SUBSET Words : ab_filter_args(a, R)
  <2>1. PICK R \in SUBSET Words : ab_filter_args(a, R)
    BY <1>6
  <2>2. /\ UNCHANGED ring /\ stage' = [stage EXCEPT ![a] = "roved"] /\ stage[a] \in {"fresh", "roved"}
        /\ pc' = "filter" /\ dst' = a /\ ae' = next[a] /\ to_remove' = R /\ UNCHANGED <<src, lines>>
    BY <2>1 DEF ab_filter_args, May, Staged, Start
  <2>3. RingType' /\ RingInv' /\ stage' \in [Arrays -> Stages] /\ stage'[a] = "roved"
    BY <1>3, <2>2 DEF Stages
  <2>4. SameRing(ae, dst)'
    <3>1. ae' = next'[a] /\ dst' = a
      BY <2>2 DEF ring
    <3>2. next'[a] = next[a] /\ owner' = owner /\ value' = value
      BY <2>2 DEF ring
    <3> QED BY <1>4, <3>1, <3>2 DEF SameRing, At, IsTrap
  <2>5. CallType'
    BY <1>1, <1>4, <2>2, <2>3 DEF CallType
  <2> QED BY <2>2, <2>3, <2>4, <2>5 DEF CallInv
<1>7. CASE \E f \in Files : ab_read_listing_file(a, f) \/ ab_tostringarray(a, f)
  <2>1. PICK f \in Files : ab_read_listing_file(a, f) \/ ab_tostringarray(a, f)
    BY <1>7
  <2>2. PICK s \in {"pushed", "fresh"} :
          /\ UNCHANGED ring /\ stage' = [stage EXCEPT ![a] = s] /\ stage[a] = "unset"
          /\ pc' = IF s = "pushed" THEN "listing" ELSE "split"
          /\ dst' = a /\ lines' = f /\ UNCHANGED <<ae, src, to_remove>>
    BY <2>1 DEF ab_read_listing_file, ab_tostringarray, Staged, Start
  <2>3. RingType' /\ RingInv' /\ stage' \in [Arrays -> Stages] /\ stage'[a] = s
    BY <1>3, <2>2 DEF Stages
  <2>4. CallType'
    BY <1>1, <2>2, <2>3, ArrayAssumption DEF CallType
  <2> QED BY <2>2, <2>3, <2>4 DEF CallInv
<1> QED BY <1>5, <1>6, <1>7

\* A turn of a call.
LEMMA TurnStep ==
  ASSUME IInv, OwnScripts, Turn
  PROVE  IInv'
<1> USE DEF IInv
<1>1. RingType /\ CallType /\ RingInv /\ stage \in [Arrays -> Stages]
  BY TypeParts DEF CallType
<1>2. SUFFICES RingType' /\ RingInv' /\ CallType' /\ CallInv'
  BY DEF TypeOK, RingType, CallType
<1>3. CASE Dies \/ Return
  <2>1. UNCHANGED <<ring, stage>>
    BY <1>3 DEF Dies, Return
  <2>2. RingType' /\ RingInv'
    BY <1>1, <2>1 DEF RingType, RingInv, Forward, Mirrored, Numbered, Ranked, Ends, Traps, FreeIsUnlinked,
       SameRing, At, IsTrap, ring
  <2>3. /\ pc' \in {"idle", "dead"} /\ ae' \in {ae, Null} /\ to_remove' \in {to_remove, {}}
        /\ lines' \in {lines, <<>>} /\ stage' = stage
    BY <1>3 DEF Dies, Return, call
  <2>4. lines' \in Seq(Words \cup {Comment})
    <3>1. lines \in Seq(Words \cup {Comment}) /\ <<>> \in Seq(Words \cup {Comment})
      BY <1>1 DEF CallType
    <3> QED BY <2>3, <3>1
  <2>5. CallType'
    BY <1>1, <2>3, <2>4 DEF CallType
  <2> QED BY <2>2, <2>3, <2>5 DEF CallInv
<1>4. CASE ConcatTurn /\ ~Dies /\ ~Return
  <2>1. /\ pc = "concat" /\ ae \in Live /\ Live # Cells /\ bash_array_push(dst, value[ae])
        /\ ae' = next'[ae] /\ UNCHANGED <<stage, pc, dst, src, to_remove, lines>>
    BY <1>4 DEF ConcatTurn
  <2>2. dst \in Arrays /\ src \in Arrays /\ stage[dst] = "pushed" /\ SameRing(ae, src)
    BY <1>1, <2>1 DEF CallType, CallInv
  <2>3. ae \in Nodes /\ ae \in Cells /\ src \in Nodes /\ At(src) = src /\ src # Null
    BY <2>1, <2>2, ArrayAssumption DEF Live, Nodes, At
  <2>4. value[ae] \in Words \cup {Null}
    BY <1>1, <2>2, <2>3 DEF RingType, SameRing, IsTrap
  <2>5. /\ RingType' /\ RingInv'
        /\ \A m, n \in Nodes : At(n) # Null /\ SameRing(m, n) => At(n)' # Null /\ SameRing(m, n)'
    BY <1>1, <2>1, <2>2, <2>4, PushStep
  <2> DEFINE at(n) == IF n \in Arrays THEN n ELSE owner'[n]
             trap(n) == n \in Cells /\ value'[n] = Trap
  <2>6. at(src) = src /\ at(ae) = src
    <3>1. \A m, n \in Nodes : At(n) # Null /\ SameRing(m, n) => at(n) # Null /\ at(m) = at(n)
      BY <2>5 DEF SameRing, At, IsTrap
    <3> HIDE DEF at
    <3>2. at(ae) = at(src)
      BY <2>2, <2>3, <3>1
    <3> QED BY <2>2, <3>2 DEF at
  <2>7. next'[ae] \in Nodes /\ at(next'[ae]) = at(ae) /\ ~trap(next'[ae])
    <3>1. \A n \in Nodes : at(n) # Null => next'[n] \in Nodes /\ at(next'[n]) = at(n) /\ ~trap(next'[n])
      BY <2>5 DEF RingInv, Forward, SameRing, At, IsTrap
    <3> HIDE DEF at, trap
    <3> QED BY <2>3, <2>6, <3>1
  <2>8. ae' \in Nodes /\ at(ae') = at(src') /\ ~trap(ae')
    <3> HIDE DEF at, trap
    <3> QED BY <2>1, <2>6, <2>7
  <2>9. SameRing(ae, src)'
    BY <2>8 DEF SameRing, At, IsTrap
  <2>10. CallType'
    BY <1>1, <2>1, <2>8 DEF CallType
  <2> QED BY <1>1, <2>1, <2>2, <2>5, <2>9, <2>10 DEF CallInv
<1>5. CASE FillTurn /\ ~Dies /\ ~Return
  <2>1. pc \in {"listing", "split"} /\ lines # <<>> /\ lines \in Seq(Words \cup {Comment}) /\ dst \in Arrays
    BY <1>1, <1>5 DEF FillTurn, CallType
  <2>2. lines' = Tail(lines) /\ UNCHANGED <<stage, pc, ae, dst, src, to_remove>>
    BY <1>5, <2>1 DEF FillTurn
  <2>3. lines' \in Seq(Words \cup {Comment}) /\ Head(lines) \in Words \cup {Comment}
    BY <2>1, <2>2
  <2>4. RingType' /\ RingInv'
    <3>1. CASE Head(lines) = Comment
      <4>1. UNCHANGED <<ring, stage>>
        BY <1>5, <2>1, <3>1 DEF FillTurn
      <4> QED BY <1>1, <4>1 DEF RingType, RingInv, Forward, Mirrored, Numbered, Ranked, Ends, Traps,
            FreeIsUnlinked, SameRing, At, IsTrap, ring
    <3>2. CASE Head(lines) # Comment /\ pc = "listing"
      <4>1. Live # Cells /\ bash_array_push(dst, Head(lines))
        BY <1>5, <2>1, <3>2 DEF FillTurn
      <4> QED BY <1>1, <2>1, <2>2, <2>3, <3>2, <4>1, PushStep DEF CallInv
    <3>3. CASE Head(lines) # Comment /\ pc = "split"
      <4>1. Live # Cells /\ array_insert(dst, Head(lines))
        BY <1>5, <2>1, <3>3 DEF FillTurn
      <4>2. stage[dst] = "fresh" /\ stage' = [stage EXCEPT ![dst] = "fresh"]
        BY <1>1, <2>1, <2>2, <3>3 DEF CallInv
      <4> QED BY <1>1, <2>1, <2>3, <3>3, <4>1, <4>2, InsertStep
    <3> QED BY <2>1, <3>1, <3>2, <3>3
  <2>5. CallType'
    BY <1>1, <2>1, <2>2, <2>3 DEF CallType
  <2> QED BY <2>1, <2>2, <2>4, <2>5 DEF CallInv
<1>6. CASE FilterTurn /\ ~Dies /\ ~Return
  <2>1. /\ pc = "filter" /\ ae \in Live /\ ae' = next[ae]
        /\ UNCHANGED <<stage, pc, dst, src, to_remove, lines>>
        /\ UNCHANGED ring \/ Unlink(ae, dst)
    BY <1>6 DEF FilterTurn
  <2>2. dst \in Arrays /\ stage[dst] = "roved" /\ SameRing(ae, dst)
    BY <1>1, <2>1 DEF CallType, CallInv
  <2>3. ae \in Cells /\ ae \in Nodes /\ dst \in Nodes /\ At(ae) = dst /\ dst # Null /\ ~IsTrap(ae)
    BY <2>1, <2>2, ArrayAssumption DEF Live, SameRing, At, Nodes
  <2>4. SameRing(next[ae], dst)
    BY <2>2, <2>3 DEF RingInv, Forward, SameRing
  <2> DEFINE at(n) == IF n \in Arrays THEN n ELSE owner'[n]
             trap(n) == n \in Cells /\ value'[n] = Trap
  <2>5. /\ RingType' /\ RingInv'
        /\ next[ae] \in Nodes /\ at(next[ae]) = at(dst) /\ ~trap(next[ae])
    <3>1. CASE UNCHANGED ring
      BY <1>1, <2>1, <2>4, <3>1 DEF RingType, RingInv, Forward, Mirrored, Numbered, Ranked, Ends, Traps,
         FreeIsUnlinked, SameRing, At, IsTrap, ring
    <3>2. CASE Unlink(ae, dst)
      <4>1. /\ RingType' /\ RingInv' /\ next[ae] \in Nodes
            /\ \A m \in Nodes : m = next[ae] => SameRing(m, dst)'
        BY <1>1, <2>1, <2>2, <2>3, <3>2, UnlinkStep
      <4>2. \A m \in Nodes : m = next[ae] => at(m) = at(dst') /\ ~trap(m)
        BY <4>1 DEF SameRing, At, IsTrap
      <4> QED BY <2>1, <4>1, <4>2
    <3> QED BY <2>1, <3>1, <3>2
  <2>6. ae' \in Nodes /\ at(ae') = at(dst') /\ ~trap(ae')
    <3> HIDE DEF at, trap
    <3> QED BY <2>1, <2>5
  <2>7. SameRing(ae, dst)'
    BY <2>6 DEF SameRing, At, IsTrap
  <2>8. CallType'
    BY <1>1, <2>1, <2>6 DEF CallType
  <2> QED BY <1>1, <2>1, <2>2, <2>5, <2>7, <2>8 DEF CallInv
<1> QED BY <1>3, <1>4, <1>5, <1>6 DEF Turn

LEMMA InductiveStep == OwnScripts /\ IInv /\ [Next]_vars => IInv'
<1> SUFFICES ASSUME OwnScripts, IInv, [Next]_vars PROVE IInv'
  OBVIOUS
<1>1. CASE Script
  <2>1. PICK a \in Arrays :
          \/ \E w \in Words : AppendWord(a, w)
          \/ Subscript(a)
          \/ \E b \in Arrays : ab_concatarray(a, b)
          \/ \E R \in SUBSET Words : ab_filter_args(a, R)
          \/ \E f \in Files : ab_read_listing_file(a, f) \/ ab_tostringarray(a, f)
          \/ abmm_array_mine(a)
          \/ abmm_array_mine_remove(a)
    BY <1>1 DEF Script
  <2> QED BY <2>1, IdleStep, StartStep
<1>2. CASE Turn
  BY <1>2, TurnStep
<1>3. CASE UNCHANGED vars
  BY <1>3 DEF IInv, TypeOK, RingInv, Forward, Mirrored, Numbered, Ranked, Ends, Traps, FreeIsUnlinked, CallInv,
     SameRing, At, IsTrap, vars, ring, call
<1> QED BY <1>1, <1>2, <1>3 DEF Next

\* The invariant of every execution of the program's own scripts.
THEOREM RingsHold == ASSUME OwnScripts PROVE Spec => []IInv
<1>1. Init => IInv
  BY InitInv
<1>2. IInv /\ [Next]_vars => IInv'
  BY InductiveStep
<1> QED BY <1>1, <1>2, PTL DEF Spec

\* The types of heads, cells and cursors, whatever the arrays, the words and the memory.
THEOREM TypeCorrect == ASSUME OwnScripts PROVE Spec => []TypeOK
<1>1. IInv => TypeOK
  BY DEF IInv
<1> QED BY RingsHold, <1>1, PTL

\* What the plugin frees (abnativefunctions.cpp:306, 1194) nobody points to any more.
THEOREM FreedIsForgotten == ASSUME OwnScripts PROVE Spec => []NoDangling
<1>1. IInv => NoDangling
  BY Consequences
<1> QED BY RingsHold, <1>1, PTL

\* A trap set by abmm_array_mine stays at lastref, out of the words, until it is removed.
THEOREM TrapsStaySet == ASSUME OwnScripts PROVE Spec => []TrapIsSet
<1>1. IInv => TrapIsSet
  BY Consequences
<1> QED BY RingsHold, <1>1, PTL

-----------------------------------------------------------------------------
(* The lists.  Induction is over sets of numbers.                          *)

LEMMA UpTo ==
  ASSUME NEW n \in Nat, NEW S, 0 \in S, \A k \in 0..(n - 1) : k \in S => k + 1 \in S
  PROVE  \A k \in 0..n : k \in S
<1> SUFFICES ASSUME NEW j \in 0..n, j \notin S PROVE FALSE
  OBVIOUS
<1> DEFINE R == {ss \in Nat \X Nat : ss[1] < ss[2]}
           T == {k \in 0..n : k \notin S}
<1>1. T \in SUBSET Nat /\ T # {}
  OBVIOUS
<1>2. IsWellFoundedOn(R, Nat)
  BY NatLessThanWellFounded DEF OpToRel
<1> HIDE DEF R, T
<1>3. PICK x \in T : \A y \in T : ~(<<y, x>> \in R)
  BY <1>1, <1>2, WFMin
<1>4. x # 0 /\ x \in 0..n
  BY <1>3 DEF T
<1>5. x - 1 \in 0..(n - 1) /\ (x - 1) + 1 = x
  BY <1>4
<1>6. x - 1 \notin T
  <2>1. x - 1 \in Nat /\ x \in Nat /\ x - 1 < x
    BY <1>4, <1>5
  <2>2. <<x - 1, x>> \in R
    BY <2>1 DEF R
  <2> QED BY <1>3, <2>2
<1>7. x - 1 \in S
  BY <1>5, <1>6 DEF T
<1>8. x \in S
  BY <1>5, <1>7
<1> QED BY <1>3, <1>8 DEF T

\* The k-th node of the ring of a when its cells are s: 0 and what follows s is the head.
Around(a, s, k) == IF k \in 1..Len(s) THEN s[k] ELSE a

\* The cells s, each once, are the ring of a.
Chain(link, a, s) ==
    /\ s \in Seq(Cells)
    /\ \A i, j \in 1..Len(s) : s[i] = s[j] => i = j
    /\ \A k \in 0..Len(s) : link[Around(a, s, k)] = Around(a, s, k + 1)

\* The walk from a head finds the chain of its cells.
LEMMA WalkIs ==
  ASSUME NEW link, NEW a \in Arrays, NEW s, Chain(link, a, s)
  PROVE  Walk(link, a) = s
<1> DEFINE n == Len(s)
           N == Cardinality(Cells)
<1>1. /\ s \in [1..n -> Cells] /\ n \in Nat /\ \A i, j \in 1..n : s[i] = s[j] => i = j
      /\ \A k \in 0..n : link[Around(a, s, k)] = Around(a, s, k + 1)
      /\ a \notin Cells /\ IsFiniteSet(Cells)
  BY ArrayAssumption DEF Chain
<1>2. n <= N /\ N \in Nat
  <2>1. s \in Injection(1..n, Cells)
    BY <1>1 DEF Injection, IsInjective
  <2>2. Cardinality(1..n) <= Cardinality(Cells)
    BY <1>1, <2>1, FS_Injection
  <2>3. Cardinality(1..n) = IF 1 > n THEN 0 ELSE n - 1 + 1
    BY <1>1, FS_Interval
  <2>4. N \in Nat
    BY <1>1, FS_CardinalityType
  <2> HIDE DEF n, N
  <2> QED BY <1>1, <2>2, <2>3, <2>4 DEF N
<1> HIDE DEF N
<1> DEFINE step(f, k) == IF k = 0 THEN link[a] ELSE IF f[k - 1] \in Cells THEN link[f[k - 1]] ELSE f[k - 1]
           at == CHOOSE f : f = [k \in 0..N |-> step(f, k)]
           g == [k \in 0..N |-> Around(a, s, k + 1)]
<1>3. \A k \in 0..n : /\ k + 1 \in 1..n <=> k < n
                      /\ Around(a, s, k + 1) = IF k < n THEN s[k + 1] ELSE a
  BY <1>1 DEF Around
<1>4. \A k \in 0..N : g[k] = step(g, k)
  <2> SUFFICES ASSUME NEW k \in 0..N PROVE g[k] = step(g, k)
    OBVIOUS
  <2>1. CASE k = 0
    <3>1. 0 \in 0..n /\ Around(a, s, 0) = a /\ 0 + 1 = 1
      BY <1>1 DEF Around
    <3>2. g[0] = Around(a, s, 1) /\ Around(a, s, 1) = link[a]
      BY <1>1, <1>2, <3>1
    <3> QED BY <2>1, <3>2
  <2>2. CASE k # 0 /\ k <= n
    <3>1. k \in 1..n /\ k \in 0..n /\ k - 1 \in 0..N /\ (k - 1) + 1 = k
      BY <1>1, <1>2, <2>2
    <3>2. g[k - 1] = s[k] /\ s[k] \in Cells /\ Around(a, s, k) = s[k]
      BY <1>1, <3>1 DEF Around
    <3>3. g[k] = link[s[k]]
      BY <1>1, <3>1, <3>2
    <3> QED BY <2>2, <3>2, <3>3
  <2>3. CASE k > n
    <3>1. k - 1 \in 0..N /\ k # 0 /\ k \notin 1..n /\ k + 1 \notin 1..n /\ (k - 1) + 1 = k
      BY <1>1, <1>2, <2>3
    <3>2. g[k - 1] = a /\ g[k] = a
      BY <1>1, <3>1 DEF Around
    <3> QED BY <1>1, <3>1, <3>2
  <2> QED BY <1>1, <1>2, <2>1, <2>2, <2>3
<1>5. g = [k \in 0..N |-> step(g, k)]
  BY <1>4
<1>6. at = [k \in 0..N |-> step(at, k)]
  <2> HIDE DEF g, step
  <2> QED BY <1>5
<1> HIDE DEF at
<1>7. \A k \in 0..N : at[k] = step(at, k)
  BY <1>6
<1>8. \A k \in 0..N : at[k] = g[k]
  <2> DEFINE S == {k \in 0..N : at[k] = g[k]}
  <2>1. 0 \in S
    <3>1. 0 \in 0..N
      BY <1>2
    <3>2. at[0] = step(at, 0) /\ g[0] = step(g, 0)
      BY <1>4, <1>7, <3>1
    <3> HIDE DEF g
    <3>3. at[0] = link[a] /\ g[0] = link[a]
      BY <3>2
    <3> QED BY <3>1, <3>3
  <2>2. ASSUME NEW k \in 0..(N - 1), k \in S PROVE k + 1 \in S
    <3>1. k + 1 \in 0..N /\ k + 1 # 0 /\ (k + 1) - 1 = k
      BY <1>2
    <3>2. at[k + 1] = step(at, k + 1) /\ g[k + 1] = step(g, k + 1)
      BY <1>4, <1>7, <3>1
    <3>3. at[k] = g[k]
      BY <2>2
    <3> HIDE DEF g
    <3>4. at[(k + 1) - 1] = g[(k + 1) - 1]
      BY <3>1, <3>3
    <3>5. step(at, k + 1) = step(g, k + 1)
      BY <3>4
    <3> QED BY <3>1, <3>2, <3>5
  <2> HIDE DEF S
  <2>3. \A k \in 0..(N - 1) : k \in S => k + 1 \in S
    BY <2>2
  <2>4. \A k \in 0..N : k \in S
    BY <1>2, <2>1, <2>3, UpTo
  <2> QED BY <2>4 DEF S
<1>9. {j \in 0..N : at[j] \in Cells} = 0..(n - 1)
  <2>1. ASSUME NEW j \in 0..N PROVE at[j] \in Cells <=> j < n
    <3>1. at[j] = Around(a, s, j + 1)
      BY <1>8
    <3>2. j + 1 \in 1..n <=> j < n
      BY <1>1, <1>2
    <3> QED BY <1>1, <3>1, <3>2 DEF Around
  <2> HIDE DEF n
  <2> QED BY <1>1, <1>2, <2>1
<1>10. Cardinality({j \in 0..N : at[j] \in Cells}) = n
  <2>1. Cardinality(0..(n - 1)) = IF 0 > n - 1 THEN 0 ELSE (n - 1) - 0 + 1
    BY <1>1, FS_Interval
  <2>2. Cardinality(0..(n - 1)) = n
    <3> HIDE DEF n
    <3> QED BY <1>1, <2>1
  <2> QED BY <1>9, <2>2
<1>11. Walk(link, a) = [k \in 1..Cardinality({j \in 0..N : at[j] \in Cells}) |-> at[k - 1]]
  BY DEF Walk, at, N
<1>12. Walk(link, a) = [k \in 1..n |-> at[k - 1]]
  BY <1>10, <1>11
<1>13. \A k \in 1..n : at[k - 1] = s[k]
  <2> SUFFICES ASSUME NEW k \in 1..n PROVE at[k - 1] = s[k]
    OBVIOUS
  <2>1. k - 1 \in 0..N /\ (k - 1) + 1 = k
    BY <1>1, <1>2
  <2>2. at[k - 1] = g[k - 1] /\ g[k - 1] = Around(a, s, (k - 1) + 1)
    BY <1>8, <2>1
  <2>3. at[k - 1] = Around(a, s, k)
    BY <2>1, <2>2
  <2> QED BY <2>3 DEF Around
<1>14. s = [k \in 1..n |-> s[k]]
  BY <1>1
<1> QED BY <1>12, <1>13, <1>14

\* A ring is untouched when the links of its nodes are.
LEMMA ChainKept ==
  ASSUME NEW link, NEW new, NEW a \in Arrays, NEW s, Chain(link, a, s),
         new[a] = link[a], \A i \in 1..Len(s) : new[s[i]] = link[s[i]]
  PROVE  Chain(new, a, s)
<1>1. \A k \in 0..Len(s) : new[Around(a, s, k)] = link[Around(a, s, k)]
  BY DEF Around
<1> QED BY <1>1 DEF Chain

\* A cell linked in behind the last node is the last of the chain.
LEMMA ChainGrows ==
  ASSUME NEW link \in [Nodes -> Nodes \cup {Null}], NEW a \in Arrays, NEW s, Chain(link, a, s),
         NEW c \in Cells, \A i \in 1..Len(s) : s[i] # c,
         NEW last, last = Around(a, s, Len(s)),
         NEW new, new = [link EXCEPT ![c] = a, ![last] = c]
  PROVE  Chain(new, a, Append(s, c))
<1> DEFINE n == Len(s)
           t == Append(s, c)
<1>1. /\ s \in Seq(Cells) /\ n \in Nat /\ a \notin Cells /\ c # a /\ c \in Nodes /\ a \in Nodes
      /\ \A i \in 1..n : s[i] \in Cells
      /\ \A i, j \in 1..n : s[i] = s[j] => i = j
      /\ \A k \in 0..n : link[Around(a, s, k)] = Around(a, s, k + 1)
  BY ArrayAssumption DEF Chain, Nodes
<1>2. /\ t \in Seq(Cells) /\ Len(t) = n + 1 /\ t[n + 1] = c /\ \A i \in 1..n : t[i] = s[i] /\ t[i] \in Cells
  BY <1>1
<1> HIDE DEF n, t
<1>3. \A i, j \in 1..(n + 1) : t[i] = t[j] => i = j
  <2>1. \A i \in 1..(n + 1) : i \in 1..n \/ i = n + 1
    BY <1>1
  <2>2. \A i \in 1..n : t[i] # c
    BY <1>2 DEF n
  <2> QED BY <1>1, <1>2, <2>1, <2>2
<1>4. last \in Nodes /\ last # c
  BY <1>1 DEF Around, n, Nodes
<1>5. \A m \in Nodes : new[m] = IF m = last THEN c ELSE IF m = c THEN a ELSE link[m]
  BY <1>1, <1>4
<1>6. ASSUME NEW k \in 0..(n + 1) PROVE new[Around(a, t, k)] = Around(a, t, k + 1)
  <2>1. CASE k = n + 1
    <3>1. Around(a, t, k) = c /\ Around(a, t, k + 1) = a
      BY <1>1, <1>2, <2>1 DEF Around
    <3> QED BY <1>1, <1>4, <1>5, <3>1
  <2>2. CASE k = n
    <3>1. Around(a, t, k) = last /\ Around(a, t, k + 1) = c
      BY <1>1, <1>2, <2>2 DEF Around, n
    <3> QED BY <1>1, <1>4, <1>5, <3>1
  <2>3. CASE k < n
    <3>0. k \in 0..n /\ k + 1 \in 1..n /\ k + 1 \in 1..(n + 1)
      BY <1>1, <2>3
    <3>1. Around(a, t, k) = Around(a, s, k) /\ Around(a, t, k + 1) = s[k + 1] /\ Around(a, s, k + 1) = s[k + 1]
      BY <1>1, <1>2, <3>0 DEF Around, n
    <3>2. Around(a, s, k) # last
      <4>1. CASE n = 0
        BY <1>1, <2>3, <4>1
      <4>2. CASE n # 0
        <5>1. last = s[n] /\ n \in 1..n
          BY <1>1, <4>2 DEF Around, n
        <5>2. k \in 1..n => s[k] # s[n]
          BY <1>1, <2>3, <5>1
        <5>3. last # a
          BY <1>1, <5>1
        <5> QED BY <5>1, <5>2, <5>3 DEF Around, n
      <4> QED BY <4>1, <4>2
    <3>3. Around(a, s, k) \in Nodes /\ Around(a, s, k) # c
      BY <1>1 DEF Around, n, Nodes
    <3> QED BY <1>1, <1>5, <3>0, <3>1, <3>2, <3>3
  <2> QED BY <1>1, <2>1, <2>2, <2>3
<1> QED BY <1>2, <1>3, <1>6 DEF Chain, t

\* s without its k-th element
Drop(s, k) == [i \in 1..(Len(s) - 1) |-> IF i < k THEN s[i] ELSE s[i + 1]]

\* A cell that its neighbours leave out is out of the chain.
LEMMA ChainShrinks ==
  ASSUME NEW link \in [Nodes -> Nodes \cup {Null}], NEW a \in Arrays, NEW s, Chain(link, a, s),
         NEW k \in 1..Len(s),
         NEW new, new = [link EXCEPT ![Around(a, s, k - 1)] = Around(a, s, k + 1), ![s[k]] = Null]
  PROVE  Chain(new, a, Drop(s, k))
<1> DEFINE n == Len(s)
           t == Drop(s, k)
           c == s[k]
           p == Around(a, s, k - 1)
<1>1. /\ s \in Seq(Cells) /\ n \in Nat /\ a \notin Cells /\ a \in Nodes /\ k \in 1..n
      /\ \A i \in 1..n : s[i] \in Cells
      /\ \A i, j \in 1..n : s[i] = s[j] => i = j
      /\ \A i \in 0..n : link[Around(a, s, i)] = Around(a, s, i + 1)
  BY ArrayAssumption DEF Chain, Nodes
<1>2. /\ Len(t) = n - 1 /\ \A i \in 1..(n - 1) : t[i] = IF i < k THEN s[i] ELSE s[i + 1]
      /\ \A i \in 1..(n - 1) : i \in 1..n /\ i + 1 \in 1..n
  BY <1>1 DEF Drop
<1>3. t \in Seq(Cells)
  BY <1>1, <1>2 DEF Drop
<1> HIDE DEF n, t
<1>4. \A i, j \in 1..(n - 1) : t[i] = t[j] => i = j
  <2> SUFFICES ASSUME NEW i \in 1..(n - 1), NEW j \in 1..(n - 1), t[i] = t[j] PROVE i = j
    OBVIOUS
  <2> DEFINE u == IF i < k THEN i ELSE i + 1
             v == IF j < k THEN j ELSE j + 1
  <2>1. u \in 1..n /\ v \in 1..n /\ s[u] = s[v]
    BY <1>2
  <2>2. u = v
    BY <1>1, <2>1
  <2> QED BY <1>1, <2>2
<1>5. c \in Cells /\ p \in Nodes /\ p # c /\ c # a /\ c \in Nodes
  <2>1. k - 1 \in 1..n => s[k - 1] # s[k] /\ s[k - 1] \in Cells
    BY <1>1
  <2> QED BY <1>1, <2>1 DEF Around, n, Nodes
<1>6. \A m \in Nodes : new[m] = IF m = c THEN Null ELSE IF m = p THEN Around(a, s, k + 1) ELSE link[m]
  BY <1>1, <1>5
<1> HIDE DEF c, p
<1>7. ASSUME NEW i \in 0..(n - 1) PROVE new[Around(a, t, i)] = Around(a, t, i + 1)
  <2>1. \A j \in 0..n : Around(a, t, j) = IF j < k THEN Around(a, s, j) ELSE Around(a, s, j + 1)
    BY <1>1, <1>2 DEF Around, n
  <2>2. \A j \in 0..n : Around(a, s, j) \in Nodes /\ (Around(a, s, j) = c <=> j = k)
    BY <1>1, <1>5 DEF Around, n, c, Nodes
  <2>3. \A j \in 0..n : Around(a, s, j) = p <=> j = k - 1
    <3> SUFFICES ASSUME NEW j \in 0..n PROVE Around(a, s, j) = p <=> j = k - 1
      OBVIOUS
    <3>1. CASE k = 1
      <4>1. p = a
        BY <1>1, <3>1 DEF p, Around, n
      <4> QED BY <1>1, <3>1, <4>1 DEF Around, n
    <3>2. CASE k # 1
      <4>1. k - 1 \in 1..n /\ p = s[k - 1] /\ p # a
        BY <1>1, <3>2 DEF p, Around, n
      <4> QED BY <1>1, <4>1 DEF Around, n
    <3> QED BY <3>1, <3>2
  <2>4. CASE i < k - 1
    <3>1. i \in 0..n /\ i + 1 \in 0..n /\ i < k /\ i + 1 < k /\ i # k /\ i # k - 1
      BY <1>1, <2>4
    <3> QED BY <1>1, <1>6, <2>1, <2>2, <2>3, <3>1
  <2>5. CASE i = k - 1
    <3>1. i \in 0..n /\ i + 1 \in 0..n /\ i < k /\ ~(i + 1 < k) /\ i # k /\ (i + 1) + 1 = k + 1
      BY <1>1, <2>5
    <3>2. Around(a, t, i) = p /\ Around(a, t, i + 1) = Around(a, s, k + 1)
      BY <2>1, <2>3, <2>5, <3>1
    <3> QED BY <1>5, <1>6, <3>2
  <2>6. CASE i > k - 1
    <3>1. i \in 0..n /\ i + 1 \in 0..n /\ ~(i < k) /\ ~(i + 1 < k) /\ i + 1 # k /\ i + 1 # k - 1
      BY <1>1, <2>6
    <3> QED BY <1>1, <1>6, <2>1, <2>2, <2>3, <3>1
  <2> QED BY <1>1, <2>4, <2>5, <2>6
<1> QED BY <1>2, <1>3, <1>4, <1>7 DEF Chain, t

\* Taking words out, word after word, is well defined.
LEMMA KeptSteps ==
  ASSUME NEW V, NEW s \in Seq(V), NEW R
  PROVE  /\ SL!Kept(s, R)[0] = <<>>
         /\ \A k \in 0..Len(s) : SL!Kept(s, R)[k] \in Seq(V)
         /\ \A k \in 0..(Len(s) - 1) : SL!Kept(s, R)[k + 1] =
              IF s[k + 1] \in R THEN SL!Kept(s, R)[k] ELSE Append(SL!Kept(s, R)[k], s[k + 1])
<1> DEFINE n == Len(s)
           more(left, k) == IF s[k] \in R THEN left ELSE Append(left, s[k])
           IsRun(f, m) == /\ f \in [0..m -> Seq(V)] /\ f[0] = <<>>
                          /\ \A k \in 1..m : f[k] = more(f[k - 1], k)
           S == {m \in 0..n : \E f \in [0..m -> Seq(V)] : IsRun(f, m)}
<1>1. n \in Nat /\ \A k \in 1..n : s[k] \in V
  OBVIOUS
<1>0. \A left \in Seq(V), k \in 1..n : more(left, k) \in Seq(V)
  BY <1>1
<1> HIDE DEF n, more
<1>2. 0 \in S
  <2> DEFINE f == [k \in 0..0 |-> <<>>]
  <2>1. <<>> \in Seq(V)
    OBVIOUS
  <2>2. f \in [0..0 -> Seq(V)] /\ IsRun(f, 0)
    BY <1>1, <2>1
  <2> HIDE DEF f
  <2> QED BY <1>1, <2>2
<1>3. ASSUME NEW m \in 0..(n - 1), m \in S PROVE m + 1 \in S
  <2>1. PICK f \in [0..m -> Seq(V)] : IsRun(f, m)
    BY <1>3
  <2> DEFINE g == [k \in 0..(m + 1) |-> IF k <= m THEN f[k] ELSE more(f[m], m + 1)]
  <2>2. more(f[m], m + 1) \in Seq(V) /\ m + 1 \in 0..n /\ m \in Nat
    <3>1. m + 1 \in 1..n /\ m \in 0..m
      BY <1>1
    <3> QED BY <1>0, <2>1, <3>1
  <2>3. g \in [0..(m + 1) -> Seq(V)]
    BY <2>1, <2>2
  <2>4. g[0] = <<>> /\ \A k \in 1..(m + 1) : g[k] = more(g[k - 1], k)
    <3>1. g[0] = <<>>
      BY <2>1, <2>2
    <3>2. ASSUME NEW k \in 1..m PROVE g[k] = more(g[k - 1], k)
      <4>1. g[k] = f[k] /\ g[k - 1] = f[k - 1]
        BY <2>2
      <4> QED BY <2>1, <4>1
    <3>3. g[m + 1] = more(g[m], m + 1)
      <4>1. g[m + 1] = more(f[m], m + 1) /\ g[m] = f[m]
        BY <2>2
      <4> QED BY <4>1
    <3> HIDE DEF g
    <3>4. \A k \in 1..(m + 1) : k \in 1..m \/ (k = m + 1 /\ k - 1 = m)
      BY <2>2
    <3> QED BY <3>1, <3>2, <3>3, <3>4
  <2> HIDE DEF g
  <2> QED BY <2>2, <2>3, <2>4
<1> HIDE DEF S
<1>4. \A m \in 0..(n - 1) : m \in S => m + 1 \in S
  BY <1>3
<1>5. \A m \in 0..n : m \in S
  BY <1>1, <1>2, <1>4, UpTo
<1>6. n \in S
  BY <1>1, <1>5
<1>7. PICK f \in [0..n -> Seq(V)] : IsRun(f, n)
  BY <1>6 DEF S
<1> DEFINE rec(h, k) == IF k = 0 THEN <<>> ELSE more(h[k - 1], k)
           K == SL!Kept(s, R)
<1>8. f = [k \in 0..n |-> rec(f, k)]
  <2>1. \A k \in 0..n : f[k] = rec(f, k)
    BY <1>1, <1>7
  <2> HIDE DEF rec
  <2> QED BY <1>7, <2>1
<1>9. K = CHOOSE h : h = [k \in 0..n |-> rec(h, k)]
  BY DEF SL!Kept, n, more
<1> HIDE DEF rec, K
<1>10. K = [k \in 0..n |-> rec(K, k)]
  BY <1>8, <1>9
<1>11. \A k \in 0..n : K[k] = rec(K, k)
  BY <1>10
<1>12. K[0] = <<>> /\ \A k \in 0..(n - 1) : K[k + 1] = more(K[k], k + 1)
  <2>1. K[0] = <<>>
    <3>1. 0 \in 0..n
      BY <1>1
    <3> QED BY <1>11, <3>1 DEF rec
  <2>2. ASSUME NEW k \in 0..(n - 1) PROVE K[k + 1] = more(K[k], k + 1)
    <3>1. k + 1 \in 0..n /\ k + 1 # 0 /\ (k + 1) - 1 = k
      BY <1>1
    <3>2. K[k + 1] = rec(K, k + 1)
      BY <1>11, <3>1
    <3>3. rec(K, k + 1) = more(K[(k + 1) - 1], k + 1)
      BY <3>1 DEF rec
    <3> QED BY <3>1, <3>2, <3>3
  <2> QED BY <2>1, <2>2
<1>13. \A k \in 0..n : K[k] \in Seq(V)
  <2> DEFINE T == {k \in 0..n : K[k] \in Seq(V)}
  <2>1. 0 \in T
    <3>1. <<>> \in Seq(V) /\ 0 \in 0..n
      BY <1>1
    <3> QED BY <1>12, <3>1
  <2>2. \A k \in 0..(n - 1) : k \in T => k + 1 \in T
    <3>1. \A k \in 0..(n - 1) : k + 1 \in 1..n /\ k + 1 \in 0..n
      BY <1>1
    <3> QED BY <1>0, <1>12, <3>1
  <2> HIDE DEF T
  <2>3. \A k \in 0..n : k \in T
    BY <1>1, <2>1, <2>2, UpTo
  <2> QED BY <2>3 DEF T
<1> QED BY <1>12, <1>13 DEF n, K, more

\* The array a has the cells s, and lastref is at its end where the scripts append there.
Holds(a, s) ==
    /\ Chain(next, a, s)
    /\ \A i \in 1..Len(s) : owner[s[i]] = a /\ value[s[i]] \in Words
    /\ num_elements[a] = Len(s)
    /\ stage[a] \in {"unset", "fresh", "pushed"} =>
          lastref[a] = IF Len(s) = 0 THEN Null ELSE s[Len(s)]
    /\ stage[a] = "unset" => Len(s) = 0

Rings(cells) == \A a \in Arrays : Holds(a, cells[a])

\* The words in the cells s.
Read(val, s) == [i \in 1..Len(s) |-> val[s[i]]]

LEMMA ListIs ==
  ASSUME NEW a \in Arrays, NEW cells
  PROVE  /\ Chain(next, a, cells[a]) => List(a) = Read(value, cells[a])
         /\ Chain(next', a, cells[a]) => List(a)' = Read(value', cells[a])
<1>1. ASSUME Chain(next, a, cells[a]) PROVE List(a) = Read(value, cells[a])
  <2>1. Walk(next, a) = cells[a] /\ DOMAIN cells[a] = 1..Len(cells[a])
    BY <1>1, WalkIs DEF Chain
  <2> QED BY <2>1 DEF List, Read
<1>2. ASSUME Chain(next', a, cells[a]) PROVE List(a)' = Read(value', cells[a])
  <2>1. Walk(next', a) = cells[a] /\ DOMAIN cells[a] = 1..Len(cells[a])
    BY <1>2, WalkIs DEF Chain
  <2> QED BY <2>1 DEF List, Read
<1> QED BY <1>1, <1>2

\* A word more, in a cell behind the last one.
LEMMA GrowStep ==
  ASSUME RingType, NEW cells \in [Arrays -> Seq(Cells)], Rings(cells),
         NEW a \in Arrays, NEW w \in Words, NEW c \in Cells, owner[c] = Null,
         NEW last, last = Around(a, cells[a], Len(cells[a])),
         next' = [next EXCEPT ![c] = a, ![last] = c],
         value' = [value EXCEPT ![c] = w], owner' = [owner EXCEPT ![c] = a],
         lastref' = [lastref EXCEPT ![a] = c], num_elements' = [num_elements EXCEPT ![a] = @ + 1],
         stage'[a] # "unset", \A b \in Arrays : b # a => stage'[b] = stage[b]
  PROVE  /\ Rings([cells EXCEPT ![a] = Append(@, c)])'
         /\ Read(value', Append(cells[a], c)) = Append(Read(value, cells[a]), w)
         /\ \A b \in Arrays : b # a => Read(value', cells[b]) = Read(value, cells[b])
<1> DEFINE s == cells[a]
           n == Len(s)
           t == Append(s, c)
           new == [cells EXCEPT ![a] = t]
<1>1. /\ s \in Seq(Cells) /\ n \in Nat /\ a \notin Cells /\ c # a /\ c \in Nodes /\ a \in Nodes
      /\ \A i \in 1..n : s[i] \in Cells /\ owner[s[i]] = a /\ value[s[i]] \in Words
      /\ c \notin Arrays /\ Null \notin Arrays /\ Arrays \cap Cells = {}
  <2>1. /\ s \in Seq(Cells)
        /\ \A i \in 1..n : owner[s[i]] = a /\ value[s[i]] \in Words
    BY DEF Rings, Holds
  <2>2. n \in Nat /\ \A i \in 1..n : s[i] \in Cells
    BY <2>1
  <2> QED BY <2>1, <2>2, ArrayAssumption DEF Nodes
<1>2. /\ t \in Seq(Cells) /\ Len(t) = n + 1 /\ t[n + 1] = c
      /\ \A i \in 1..n : t[i] = s[i]
      /\ new \in [Arrays -> Seq(Cells)] /\ new[a] = t /\ \A b \in Arrays : b # a => new[b] = cells[b]
      /\ \A i \in 1..(n + 1) : i \in 1..n \/ i = n + 1
  <2>1. t \in Seq(Cells) /\ Len(t) = n + 1 /\ t[n + 1] = c /\ \A i \in 1..n : t[i] = s[i]
    BY <1>1
  <2> HIDE DEF t
  <2>2. \A i \in 1..(n + 1) : i \in 1..n \/ i = n + 1
    BY <1>1
  <2> QED BY <2>1, <2>2
<1>3. \A i \in 1..n : s[i] # c
  BY <1>1
<1>4. last \in Nodes /\ last # c /\ (last \in Cells => owner[last] = a) /\ (last \in Arrays => last = a)
  BY <1>1 DEF Around, Nodes
<1>5. \A m \in Nodes : next'[m] = IF m = last THEN c ELSE IF m = c THEN a ELSE next[m]
  BY <1>1, <1>4 DEF RingType
<1>6. /\ \A m \in Cells : m # c => owner'[m] = owner[m] /\ value'[m] = value[m]
      /\ owner'[c] = a /\ value'[c] = w
  BY <1>1 DEF RingType
<1>7. Chain(next', a, t)
  <2>1. Chain(next, a, s) /\ next \in [Nodes -> Nodes \cup {Null}]
    BY DEF Rings, Holds, RingType
  <2> QED BY <1>3, <2>1, ChainGrows
<1> HIDE DEF t, new, n
<1>8. Holds(a, t)'
  <2>1. \A i \in 1..Len(t) : owner'[t[i]] = a /\ value'[t[i]] \in Words
    <3>1. \A i \in 1..n : owner'[s[i]] = a /\ value'[s[i]] \in Words
      BY <1>1, <1>3, <1>6
    <3>2. owner'[t[n + 1]] = a /\ value'[t[n + 1]] \in Words
      BY <1>2, <1>6
    <3> SUFFICES ASSUME NEW i \in 1..Len(t) PROVE owner'[t[i]] = a /\ value'[t[i]] \in Words
      OBVIOUS
    <3>3. i \in 1..n \/ i = n + 1
      BY <1>2
    <3>4. CASE i \in 1..n
      <4>1. t[i] = s[i]
        BY <1>2, <3>4
      <4> QED BY <3>1, <3>4, <4>1
    <3>5. CASE i = n + 1
      BY <3>2, <3>5
    <3> QED BY <3>3, <3>4, <3>5
  <2>2. num_elements'[a] = Len(t)
    <3>1. num_elements[a] = n
      BY DEF Rings, Holds, n
    <3> QED BY <1>2, <3>1 DEF RingType
  <2>3. lastref'[a] = t[Len(t)] /\ Len(t) # 0
    BY <1>1, <1>2 DEF RingType
  <2> QED BY <1>7, <2>1, <2>2, <2>3 DEF Holds
<1>9. ASSUME NEW b \in Arrays, b # a
      PROVE  /\ Holds(b, cells[b])'
             /\ \A i \in 1..Len(cells[b]) : value'[cells[b][i]] = value[cells[b][i]]
  <2>1. /\ Chain(next, b, cells[b]) /\ b \in Nodes
        /\ \A i \in 1..Len(cells[b]) : cells[b][i] \in Cells /\ owner[cells[b][i]] = b /\ cells[b][i] \in Nodes
    BY DEF Rings, Holds, Chain, Nodes
  <2>2. b # last /\ b # c /\ \A i \in 1..Len(cells[b]) : cells[b][i] # last /\ cells[b][i] # c
    BY <1>1, <1>4, <1>9, <2>1
  <2>3. Chain(next', b, cells[b])
    <3>1. next'[b] = next[b] /\ \A i \in 1..Len(cells[b]) : next'[cells[b][i]] = next[cells[b][i]]
      BY <1>5, <2>1, <2>2
    <3>2. Chain(next, b, cells[b])
      BY <2>1
    <3>3. \A links : links[b] = next[b] /\ (\A i \in 1..Len(cells[b]) : links[cells[b][i]] = next[cells[b][i]])
                   => Chain(links, b, cells[b])
      BY <3>2, ChainKept
    <3> QED BY <3>1, <3>3
  <2>4. /\ stage'[b] = stage[b] /\ lastref'[b] = lastref[b] /\ num_elements'[b] = num_elements[b]
        /\ \A i \in 1..Len(cells[b]) : owner'[cells[b][i]] = owner[cells[b][i]] /\ value'[cells[b][i]] = value[cells[b][i]]
    BY <1>6, <1>9, <2>1, <2>2 DEF RingType
  <2> QED BY <2>1, <2>3, <2>4 DEF Rings, Holds
<1>10. Rings(new)'
  <2> SUFFICES ASSUME NEW b \in Arrays PROVE Holds(b, new[b])'
    BY DEF Rings
  <2> QED BY <1>2, <1>8, <1>9
<1>11. Read(value', t) = Append(Read(value, cells[a]), w)
  <2>1. Read(value', t) = [i \in 1..(n + 1) |-> value'[t[i]]]
    BY <1>2 DEF Read
  <2>2. Read(value, cells[a]) \in Seq(Words) /\ Len(Read(value, cells[a])) = n /\ \A i \in 1..n : Read(value, cells[a])[i] = value[s[i]]
    BY <1>1 DEF Read, n
  <2>3. \A i \in 1..(n + 1) : value'[t[i]] = IF i = n + 1 THEN w ELSE Read(value, cells[a])[i]
    BY <1>1, <1>2, <1>3, <1>6, <2>2
  <2> DEFINE r == Read(value, cells[a])
             u == Append(r, w)
  <2>4. u \in Seq(Words) /\ Len(u) = n + 1 /\ \A i \in 1..(n + 1) : u[i] = IF i = n + 1 THEN w ELSE r[i]
    <3>1. \A q \in Seq(Words) :
             /\ Append(q, w) \in Seq(Words) /\ Len(Append(q, w)) = Len(q) + 1
             /\ \A i \in 1..(Len(q) + 1) : Append(q, w)[i] = IF i = Len(q) + 1 THEN w ELSE q[i]
      OBVIOUS
    <3> HIDE DEF r
    <3> QED BY <2>2, <3>1 DEF r
  <2> HIDE DEF u, r
  <2>5. u = [i \in 1..(n + 1) |-> u[i]]
    BY <2>4
  <2>6. \A i \in 1..(n + 1) : value'[t[i]] = u[i]
    BY <2>3, <2>4 DEF r
  <2> QED BY <2>1, <2>5, <2>6 DEF u, r
<1>12. ASSUME NEW b \in Arrays, b # a PROVE Read(value', cells[b]) = Read(value, cells[b])
  BY <1>9, <1>12 DEF Read
<1> QED BY <1>10, <1>11, <1>12 DEF new, t

\* Nothing but the free memory, a trap, lastref or the stage is touched.
LEMMA StayStep ==
  ASSUME RingType, NEW cells \in [Arrays -> Seq(Cells)], Rings(cells),
         num_elements' = num_elements,
         \A n \in Nodes : At(n) # Null /\ ~IsTrap(n) => next'[n] = next[n],
         \A c \in Cells : owner[c] # Null /\ ~IsTrap(c) => owner'[c] = owner[c] /\ value'[c] = value[c],
         \A a \in Arrays : stage'[a] \in {"unset", "fresh", "pushed"} =>
             /\ stage[a] \in {"unset", "fresh", "pushed"} /\ lastref'[a] = lastref[a]
             /\ stage'[a] = "unset" => stage[a] = "unset"
  PROVE  Rings(cells)' /\ \A b \in Arrays : Read(value', cells[b]) = Read(value, cells[b])
<1> SUFFICES ASSUME NEW b \in Arrays
             PROVE  /\ Holds(b, cells[b])'
                    /\ \A i \in 1..Len(cells[b]) : value'[cells[b][i]] = value[cells[b][i]]
  BY DEF Rings, Read
<1>1. /\ Chain(next, b, cells[b]) /\ b \in Nodes /\ At(b) = b /\ b # Null /\ ~IsTrap(b)
      /\ \A i \in 1..Len(cells[b]) : /\ cells[b][i] \in Cells /\ cells[b][i] \in Nodes
                                     /\ owner[cells[b][i]] = b /\ value[cells[b][i]] # Trap
  BY ArrayAssumption DEF Rings, Holds, Chain, Nodes, At, IsTrap
<1>2. \A i \in 1..Len(cells[b]) : At(cells[b][i]) = b /\ ~IsTrap(cells[b][i])
  BY <1>1, ArrayAssumption DEF At, IsTrap
<1>3. next'[b] = next[b] /\ \A i \in 1..Len(cells[b]) : next'[cells[b][i]] = next[cells[b][i]]
  BY <1>1, <1>2
<1>4. Chain(next', b, cells[b])
  BY <1>1, <1>3, ChainKept
<1>5. \A i \in 1..Len(cells[b]) : owner'[cells[b][i]] = owner[cells[b][i]] /\ value'[cells[b][i]] = value[cells[b][i]]
  BY <1>1, <1>2
<1> QED BY <1>4, <1>5 DEF Rings, Holds

LEMMA OneTaken ==
  ASSUME NEW V, NEW p \in Seq(V), NEW q \in Seq(V), NEW k \in 0..(Len(q) - 1)
  PROVE  Append(p \o SubSeq(q, 1, k), q[k + 1]) = p \o SubSeq(q, 1, k + 1)
<1>1. /\ k + 1 \in 1..Len(q) /\ 1 \in 1..Len(q) /\ k + 1 \in 1..Len(q) /\ k + 1 - 1 = k /\ k \in Int
      /\ \A i \in 1..k : i \in 1..Len(q)
  OBVIOUS
<1>2. q[k + 1] \in V /\ SubSeq(q, 1, k) \in Seq(V) /\ <<q[k + 1]>> \in Seq(V)
  <2>1. \A i \in 1..k : q[i] \in V
    BY <1>1
  <2> QED BY <1>1, <2>1, SubSeqProperties
<1>3. SubSeq(q, 1, k + 1) = SubSeq(q, 1, k) \o <<q[k + 1]>>
  BY <1>1, SubSeqRecursiveSecond
<1>4. Append(p \o SubSeq(q, 1, k), q[k + 1]) = (p \o SubSeq(q, 1, k)) \o <<q[k + 1]>>
  <2>1. p \o SubSeq(q, 1, k) \in Seq(V)
    BY <1>2, ConcatProperties
  <2> QED BY <1>2, <2>1, AppendIsConcat
<1>5. (p \o SubSeq(q, 1, k)) \o <<q[k + 1]>> = p \o (SubSeq(q, 1, k) \o <<q[k + 1]>>)
  <2>1. \A s, t \in Seq(V) : (p \o s) \o t = p \o (s \o t)
    BY ConcatAssociative
  <2> DEFINE s == SubSeq(q, 1, k)
             t == <<q[k + 1]>>
  <2>2. s \in Seq(V) /\ t \in Seq(V)
    BY <1>2
  <2> HIDE DEF s, t
  <2>3. (p \o s) \o t = p \o (s \o t)
    BY <2>1, <2>2
  <2> QED BY <2>3 DEF s, t
<1> QED BY <1>3, <1>4, <1>5

LEMMA OneKept ==
  ASSUME NEW V, NEW p \in Seq(V), NEW q \in Seq(V), NEW k \in 0..(Len(q) - 1)
  PROVE  p \o SubSeq(q, k + 1, Len(q)) = Append(p, q[k + 1]) \o SubSeq(q, k + 2, Len(q))
<1>1. k + 1 \in 1..Len(q) /\ Len(q) \in (k + 1)..Len(q) /\ (k + 1) + 1 = k + 2 /\ k + 2 \in Int /\ Len(q) \in Int
  OBVIOUS
<1>2. q[k + 1] \in V /\ SubSeq(q, k + 2, Len(q)) \in Seq(V) /\ <<q[k + 1]>> \in Seq(V)
  <2>1. \A i \in (k + 2)..Len(q) : q[i] \in V
    OBVIOUS
  <2> QED BY <1>1, <2>1, SubSeqProperties
<1>3. SubSeq(q, k + 1, Len(q)) = <<q[k + 1]>> \o SubSeq(q, k + 2, Len(q))
  BY <1>1, SubSeqRecursiveFirst
<1>4. (p \o <<q[k + 1]>>) \o SubSeq(q, k + 2, Len(q)) = p \o (<<q[k + 1]>> \o SubSeq(q, k + 2, Len(q)))
  <2>1. \A s, t \in Seq(V) : (p \o s) \o t = p \o (s \o t)
    BY ConcatAssociative
  <2> DEFINE s == <<q[k + 1]>>
             t == SubSeq(q, k + 2, Len(q))
  <2>2. s \in Seq(V) /\ t \in Seq(V)
    BY <1>2
  <2> HIDE DEF s, t
  <2>3. (p \o s) \o t = p \o (s \o t)
    BY <2>1, <2>2
  <2> QED BY <2>3 DEF s, t
<1>5. Append(p, q[k + 1]) = p \o <<q[k + 1]>>
  BY <1>2, AppendIsConcat
<1> QED BY <1>3, <1>4, <1>5

LEMMA OneDropped ==
  ASSUME NEW V, NEW p \in Seq(V), NEW q \in Seq(V), NEW k \in 0..(Len(q) - 1)
  PROVE  Drop(p \o SubSeq(q, k + 1, Len(q)), Len(p) + 1) = p \o SubSeq(q, k + 2, Len(q))
<1> DEFINE n == Len(q)
           m == Len(p)
           r == SubSeq(q, k + 1, n)
           t == SubSeq(q, k + 2, n)
           u == p \o r
           v == p \o t
           d == Drop(u, m + 1)
<1>1. n \in Nat /\ m \in Nat /\ k \in 0..(n - 1) /\ \A i \in 1..n : q[i] \in V
  OBVIOUS
<1>2. r \in Seq(V) /\ Len(r) = n - k /\ \A i \in 1..(n - k) : r[i] = q[k + i]
  <2>1. \A i \in (k + 1)..n : q[i] \in V
    BY <1>1
  <2>2. /\ r \in Seq(V) /\ Len(r) = IF k + 1 <= n THEN n - (k + 1) + 1 ELSE 0
        /\ \A i \in 1..(n - (k + 1) + 1) : r[i] = q[(k + 1) + i - 1]
    BY <1>1, <2>1, SubSeqProperties
  <2> HIDE DEF r, n
  <2>3. n - (k + 1) + 1 = n - k /\ \A i \in 1..(n - k) : (k + 1) + i - 1 = k + i
    BY <1>1
  <2> QED BY <1>1, <2>2, <2>3
<1>3. t \in Seq(V) /\ Len(t) = n - k - 1 /\ \A i \in 1..(n - k - 1) : t[i] = q[k + i + 1]
  <2>1. \A i \in (k + 2)..n : q[i] \in V
    BY <1>1
  <2>2. /\ t \in Seq(V) /\ Len(t) = IF k + 2 <= n THEN n - (k + 2) + 1 ELSE 0
        /\ \A i \in 1..(n - (k + 2) + 1) : t[i] = q[(k + 2) + i - 1]
    BY <1>1, <2>1, SubSeqProperties
  <2> HIDE DEF t, n
  <2>3. n - (k + 2) + 1 = n - k - 1 /\ \A i \in 1..(n - k - 1) : (k + 2) + i - 1 = k + i + 1
    BY <1>1
  <2> QED BY <1>1, <2>2, <2>3
<1> HIDE DEF n, m, r, t
<1>4. /\ u \in Seq(V) /\ Len(u) = m + n - k
      /\ \A i \in 1..(m + n - k) : u[i] = IF i <= m THEN p[i] ELSE r[i - m]
  <2>1. /\ u \in Seq(V) /\ Len(u) = m + Len(r)
        /\ \A i \in 1..(m + Len(r)) : u[i] = IF i <= m THEN p[i] ELSE r[i - m]
    BY <1>2, ConcatProperties DEF m
  <2> HIDE DEF u
  <2> QED BY <1>1, <1>2, <2>1
<1>5. /\ v \in Seq(V) /\ Len(v) = m + n - k - 1
      /\ \A i \in 1..(m + n - k - 1) : v[i] = IF i <= m THEN p[i] ELSE t[i - m]
  <2>1. /\ v \in Seq(V) /\ Len(v) = m + Len(t)
        /\ \A i \in 1..(m + Len(t)) : v[i] = IF i <= m THEN p[i] ELSE t[i - m]
    BY <1>3, ConcatProperties DEF m
  <2> HIDE DEF v
  <2> QED BY <1>1, <1>3, <2>1
<1> HIDE DEF u, v
<1>6. ASSUME NEW i \in 1..(m + n - k - 1) PROVE (IF i < m + 1 THEN u[i] ELSE u[i + 1]) = v[i]
  <2>1. CASE i <= m
    BY <1>1, <1>4, <1>5, <2>1
  <2>2. CASE i > m
    <3>1. i + 1 \in 1..(m + n - k) /\ ~(i + 1 <= m) /\ ~(i < m + 1) /\ i - m \in 1..(n - k - 1)
      BY <1>1, <2>2
    <3>2. u[i + 1] = r[(i + 1) - m] /\ v[i] = t[i - m]
      <4>1. u[i + 1] = r[(i + 1) - m]
        BY <1>4, <3>1
      <4>2. ~(i <= m)
        BY <1>1, <2>2
      <4>3. v[i] = t[i - m]
        BY <1>5, <4>2
      <4> QED BY <4>1, <4>3
    <3>3. (i + 1) - m \in 1..(n - k) /\ k + ((i + 1) - m) = k + (i - m) + 1
      BY <1>1, <2>2
    <3>4. r[(i + 1) - m] = q[k + ((i + 1) - m)] /\ t[i - m] = q[k + (i - m) + 1]
      BY <1>2, <1>3, <3>1, <3>3
    <3> QED BY <3>1, <3>2, <3>3, <3>4
  <2> QED BY <1>1, <2>1, <2>2
<1>7. d = [i \in 1..(m + n - k - 1) |-> v[i]]
  <2>1. d = [i \in 1..(Len(u) - 1) |-> IF i < m + 1 THEN u[i] ELSE u[i + 1]]
    BY DEF Drop
  <2>2. Len(u) - 1 = m + n - k - 1
    BY <1>1, <1>4
  <2> HIDE DEF d
  <2> QED BY <1>6, <2>1, <2>2
<1>8. v = [i \in 1..(m + n - k - 1) |-> v[i]]
  BY <1>5
<1> QED BY <1>7, <1>8 DEF u, v, r, t, n, m

\* A word less: ab_remove_args frees the k-th cell.
LEMMA ShrinkStep ==
  ASSUME RingType, RingInv, stage \in [Arrays -> Stages],
         NEW cells \in [Arrays -> Seq(Cells)], Rings(cells),
         NEW a \in Arrays, NEW k \in 1..Len(cells[a]), NEW c, c = cells[a][k],
         stage[a] = "roved", stage' = stage, Unlink(c, a)
  PROVE  /\ Rings([cells EXCEPT ![a] = Drop(@, k)])'
         /\ Read(value', Drop(cells[a], k)) = Drop(Read(value, cells[a]), k)
         /\ \A b \in Arrays : b # a => Read(value', cells[b]) = Read(value, cells[b])
<1> DEFINE s == cells[a]
           n == Len(s)
           t == Drop(s, k)
           new == [cells EXCEPT ![a] = t]
           p == Around(a, s, k - 1)
           q == Around(a, s, k + 1)
<1>1. /\ s \in Seq(Cells) /\ n \in Nat /\ a \notin Cells /\ c # a /\ c \in Nodes /\ a \in Nodes /\ c \in Cells
      /\ \A i \in 1..n : s[i] \in Cells /\ owner[s[i]] = a /\ value[s[i]] \in Words
      /\ Null \notin Arrays /\ Arrays \cap Cells = {} /\ k \in 1..n /\ At(a) = a /\ ~IsTrap(a)
  <2>1. /\ s \in Seq(Cells)
        /\ \A i \in 1..n : owner[s[i]] = a /\ value[s[i]] \in Words
    BY DEF Rings, Holds
  <2>2. n \in Nat /\ \A i \in 1..n : s[i] \in Cells
    BY <2>1
  <2> QED BY <2>1, <2>2, ArrayAssumption DEF Nodes, At, IsTrap
<1>2. Chain(next, a, s)
  BY DEF Rings, Holds
<1>3. next[c] = q /\ next[p] = c /\ p \in Nodes /\ q \in Nodes /\ At(p) = a /\ ~IsTrap(p)
  <2>1. k - 1 \in 0..n /\ k \in 0..n /\ (k - 1) + 1 = k /\ Around(a, s, k) = c
    BY <1>1 DEF Around
  <2>2. next[p] = Around(a, s, k) /\ next[Around(a, s, k)] = q
    BY <1>1, <1>2, <2>1 DEF Chain
  <2>3. p = a \/ (k - 1 \in 1..n /\ p = s[k - 1])
    BY DEF Around
  <2>4. q = a \/ (k + 1 \in 1..n /\ q = s[k + 1])
    BY DEF Around
  <2> HIDE DEF p, q, n
  <2>5. p \in Nodes /\ At(p) = a /\ ~IsTrap(p)
    BY <1>1, <2>3, ArrayAssumption DEF Nodes, At, IsTrap
  <2> QED BY <1>1, <2>1, <2>2, <2>4, <2>5 DEF Nodes
<1> HIDE DEF p, q
<1>4. prev[c] = p
  <2>1. prev[next[p]] = p
    BY <1>1, <1>3 DEF RingInv, Mirrored
  <2> QED BY <1>3, <2>1
<1>5. /\ next' = [next EXCEPT ![p] = q, ![c] = Null]
      /\ value' = [value EXCEPT ![c] = Null] /\ owner' = [owner EXCEPT ![c] = Null]
      /\ num_elements' = [num_elements EXCEPT ![a] = @ - 1]
      /\ \A b \in Arrays : b # a => lastref'[b] = lastref[b]
  BY <1>3, <1>4 DEF Unlink, Dispose, RingType
<1>6. \A m \in Cells : m # c => owner'[m] = owner[m] /\ value'[m] = value[m]
  BY <1>5 DEF RingType
<1>7. Chain(next', a, t)
  <2>1. next \in [Nodes -> Nodes \cup {Null}] /\ next' = [next EXCEPT ![Around(a, s, k - 1)] = Around(a, s, k + 1), ![s[k]] = Null]
    BY <1>5 DEF RingType, p, q
  <2> QED BY <1>2, <2>1, ChainShrinks
<1>8. /\ Len(t) = n - 1 /\ \A i \in 1..(n - 1) : t[i] = IF i < k THEN s[i] ELSE s[i + 1]
      /\ \A i \in 1..(n - 1) : i \in 1..n /\ i + 1 \in 1..n
      /\ t \in Seq(Cells)
  BY <1>1, <1>7 DEF Drop, Chain
<1>9. new \in [Arrays -> Seq(Cells)] /\ new[a] = t /\ \A b \in Arrays : b # a => new[b] = cells[b]
  BY <1>8
<1> HIDE DEF t, new, n
<1>10. \A i \in 1..(n - 1) : t[i] # c
  <2>1. \A i, j \in 1..n : s[i] = s[j] => i = j
    BY <1>2 DEF Chain, n
  <2> QED BY <1>1, <1>8, <2>1
<1>11. Holds(a, t)'
  <2>1. \A i \in 1..Len(t) : owner'[t[i]] = a /\ value'[t[i]] \in Words
    <3>1. ASSUME NEW i \in 1..(n - 1) PROVE owner'[t[i]] = a /\ value'[t[i]] \in Words
      <4>1. t[i] \in Cells /\ owner[t[i]] = a /\ value[t[i]] \in Words
        BY <1>1, <1>8
      <4> QED BY <1>6, <1>10, <4>1
    <3> QED BY <1>8, <3>1
  <2>2. num_elements'[a] = Len(t)
    <3>1. num_elements[a] = n
      BY DEF Rings, Holds, n
    <3> QED BY <1>5, <1>8, <3>1 DEF RingType
  <2> QED BY <1>7, <2>1, <2>2 DEF Holds
<1>12. ASSUME NEW b \in Arrays, b # a
       PROVE  /\ Holds(b, cells[b])'
              /\ \A i \in 1..Len(cells[b]) : value'[cells[b][i]] = value[cells[b][i]]
  <2>1. /\ Chain(next, b, cells[b]) /\ b \in Nodes
        /\ \A i \in 1..Len(cells[b]) : cells[b][i] \in Cells /\ owner[cells[b][i]] = b /\ cells[b][i] \in Nodes
    BY DEF Rings, Holds, Chain, Nodes
  <2>2. b # p /\ b # c /\ \A i \in 1..Len(cells[b]) : cells[b][i] # p /\ cells[b][i] # c
    BY <1>1, <1>3, <1>12, <2>1, ArrayAssumption DEF At
  <2>3. Chain(next', b, cells[b])
    <3>1. next'[b] = next[b] /\ \A i \in 1..Len(cells[b]) : next'[cells[b][i]] = next[cells[b][i]]
      BY <1>5, <2>1, <2>2 DEF RingType
    <3>2. Chain(next, b, cells[b])
      BY <2>1
    <3>3. \A links : links[b] = next[b] /\ (\A i \in 1..Len(cells[b]) : links[cells[b][i]] = next[cells[b][i]])
                   => Chain(links, b, cells[b])
      BY <3>2, ChainKept
    <3> QED BY <3>1, <3>3
  <2>4. /\ stage'[b] = stage[b] /\ lastref'[b] = lastref[b] /\ num_elements'[b] = num_elements[b]
        /\ \A i \in 1..Len(cells[b]) : owner'[cells[b][i]] = owner[cells[b][i]] /\ value'[cells[b][i]] = value[cells[b][i]]
    BY <1>5, <1>6, <1>12, <2>1, <2>2 DEF RingType
  <2> QED BY <2>1, <2>3, <2>4 DEF Rings, Holds
<1>13. Rings(new)'
  <2> SUFFICES ASSUME NEW b \in Arrays PROVE Holds(b, new[b])'
    BY DEF Rings
  <2> QED BY <1>9, <1>11, <1>12
<1>14. Read(value', t) = Drop(Read(value, cells[a]), k)
  <2>1. Read(value', t) = [i \in 1..(n - 1) |-> value'[t[i]]]
    BY <1>8, <1>9 DEF Read
  <2>2. Len(Read(value, cells[a])) = n /\ \A i \in 1..n : Read(value, cells[a])[i] = value[s[i]]
    BY <1>1 DEF Read, n
  <2>3. ASSUME NEW i \in 1..(n - 1)
        PROVE  value'[t[i]] = IF i < k THEN Read(value, cells[a])[i] ELSE Read(value, cells[a])[i + 1]
    <3>1. t[i] \in Cells /\ value'[t[i]] = value[t[i]]
      BY <1>1, <1>6, <1>8, <1>10
    <3> QED BY <1>8, <2>2, <3>1
  <2>4. Drop(Read(value, cells[a]), k) = [i \in 1..(n - 1) |-> IF i < k THEN Read(value, cells[a])[i] ELSE Read(value, cells[a])[i + 1]]
    BY <2>2 DEF Drop
  <2> QED BY <2>1, <2>3, <2>4
<1>15. ASSUME NEW b \in Arrays, b # a PROVE Read(value', cells[b]) = Read(value, cells[b])
  BY <1>12, <1>15 DEF Read
<1> QED BY <1>13, <1>14, <1>15 DEF new, t

\* The array a has one word more, or as many as before.
Grown(cells, new, a, w) ==
    /\ Read(value', new[a]) = Append(Read(value, cells[a]), w)
    /\ \A b \in Arrays : b # a => new[b] = cells[b] /\ Read(value', cells[b]) = Read(value, cells[b])

LEMMA GrownBy ==
  ASSUME RingType, NEW cells \in [Arrays -> Seq(Cells)], Rings(cells),
         NEW a \in Arrays, NEW w \in Words, NEW c \in Cells, owner[c] = Null,
         next' = [next EXCEPT ![c] = a, ![Around(a, cells[a], Len(cells[a]))] = c],
         value' = [value EXCEPT ![c] = w], owner' = [owner EXCEPT ![c] = a],
         lastref' = [lastref EXCEPT ![a] = c], num_elements' = [num_elements EXCEPT ![a] = @ + 1],
         stage'[a] # "unset", \A b \in Arrays : b # a => stage'[b] = stage[b]
  PROVE  \E new \in [Arrays -> Seq(Cells)] : Rings(new)' /\ Grown(cells, new, a, w)
<1> DEFINE new == [cells EXCEPT ![a] = Append(@, c)]
<1>1. /\ Rings(new)' /\ Read(value', Append(cells[a], c)) = Append(Read(value, cells[a]), w)
      /\ \A b \in Arrays : b # a => Read(value', cells[b]) = Read(value, cells[b])
  BY GrowStep
<1>2. Append(cells[a], c) \in Seq(Cells)
  <2>1. cells[a] \in Seq(Cells)
    OBVIOUS
  <2> QED BY <2>1, AppendProperties
<1>3. /\ new \in [Arrays -> Seq(Cells)] /\ new[a] = Append(cells[a], c)
      /\ \A b \in Arrays : b # a => new[b] = cells[b]
  BY <1>2
<1> HIDE DEF new
<1>4. Grown(cells, new, a, w)
  BY <1>1, <1>3 DEF Grown
<1> QED BY <1>1, <1>3, <1>4

LEMMA PushGrows ==
  ASSUME RingType, NEW cells \in [Arrays -> Seq(Cells)], Rings(cells),
         NEW a \in Arrays, NEW w \in Words, Live # Cells,
         stage[a] = "pushed", stage' = stage, bash_array_push(a, w)
  PROVE  \E new \in [Arrays -> Seq(Cells)] : Rings(new)' /\ Grown(cells, new, a, w)
<1> DEFINE s == cells[a]
           n == Len(s)
<1>1. PICK c \in Cells : c = New /\ owner[c] = Null
  BY FreeCell
<1>2. /\ value' = [value EXCEPT ![c] = w] /\ owner' = [owner EXCEPT ![c] = a]
      /\ next' = IF lastref[a] # Null THEN [next EXCEPT ![c] = next[lastref[a]], ![lastref[a]] = c]
                 ELSE [next EXCEPT ![a] = c, ![c] = a]
      /\ lastref' = [lastref EXCEPT ![a] = c] /\ num_elements' = [num_elements EXCEPT ![a] = @ + 1]
  BY <1>1 DEF bash_array_push, Create
<1>3. /\ Chain(next, a, s) /\ s \in Seq(Cells) /\ n \in Nat
      /\ lastref[a] = IF n = 0 THEN Null ELSE s[n]
      /\ \A i \in 1..n : s[i] \in Cells /\ owner[s[i]] = a
  <2>1. Holds(a, s) /\ s \in Seq(Cells)
    BY DEF Rings
  <2>2. n \in Nat /\ \A i \in 1..n : s[i] \in Cells
    BY <2>1
  <2> QED BY <2>1, <2>2 DEF Holds
<1>4. next' = [next EXCEPT ![c] = a, ![Around(a, s, n)] = c]
  <2>1. CASE n = 0
    <3>1. Around(a, s, n) = a /\ a # c /\ a \in Nodes /\ c \in Nodes
      BY <2>1, ArrayAssumption DEF Around, Nodes
    <3>2. next' = [next EXCEPT ![a] = c, ![c] = a]
      BY <1>2, <1>3, <2>1
    <3> HIDE DEF n, s
    <3> QED BY <3>1, <3>2 DEF RingType
  <2>2. CASE n # 0
    <3>1. n \in 1..n /\ s[n] \in Cells /\ s[n] # Null /\ Around(a, s, n) = s[n]
      BY <1>3, <2>2, ArrayAssumption DEF Around
    <3>2. next[s[n]] = a
      <4>1. n \in 0..n /\ n + 1 \notin 1..n
        BY <1>3
      <4>2. next[Around(a, s, n)] = Around(a, s, n + 1)
        BY <1>3, <4>1 DEF Chain
      <4> QED BY <3>1, <4>1, <4>2 DEF Around
    <3>3. lastref[a] = s[n]
      BY <1>3, <2>2
    <3> HIDE DEF n, s
    <3> QED BY <1>2, <3>1, <3>2, <3>3
  <2> QED BY <2>1, <2>2
<1>5. stage'[a] # "unset" /\ \A b \in Arrays : b # a => stage'[b] = stage[b]
  OBVIOUS
<1> HIDE DEF n, s
<1> QED BY <1>1, <1>2, <1>4, <1>5, GrownBy DEF n, s

LEMMA InsertGrows ==
  ASSUME RingType, RingInv, stage \in [Arrays -> Stages],
         NEW cells \in [Arrays -> Seq(Cells)], Rings(cells),
         NEW a \in Arrays, NEW w \in Words, Live # Cells,
         stage[a] # "pushed", stage' = [stage EXCEPT ![a] = "fresh"], array_insert(a, w)
  PROVE  \E new \in [Arrays -> Seq(Cells)] : Rings(new)' /\ Grown(cells, new, a, w)
<1> DEFINE s == cells[a]
           n == Len(s)
           z == Around(a, s, n)
<1>1. PICK c \in Cells : c = New /\ owner[c] = Null
  BY FreeCell
<1>2. /\ value' = [value EXCEPT ![c] = w] /\ owner' = [owner EXCEPT ![c] = a]
      /\ next' = [next EXCEPT ![c] = a, ![prev[a]] = c]
      /\ lastref' = [lastref EXCEPT ![a] = c] /\ num_elements' = [num_elements EXCEPT ![a] = @ + 1]
  BY <1>1 DEF array_insert, Create
<1>3. /\ Chain(next, a, s) /\ s \in Seq(Cells) /\ n \in Nat
      /\ \A i \in 1..n : s[i] \in Cells /\ owner[s[i]] = a /\ value[s[i]] \in Words
  BY DEF Rings, Holds, Chain
<1>4. z \in Nodes /\ At(z) = a /\ ~IsTrap(z) /\ next[z] = a
  <2>1. z = a \/ (n \in 1..n /\ z = s[n])
    BY DEF Around
  <2>2. n \in 0..n /\ n + 1 \notin 1..n
    BY <1>3
  <2>3. next[z] = Around(a, s, n + 1)
    BY <1>3, <2>2 DEF Chain
  <2>4. next[z] = a
    BY <2>2, <2>3 DEF Around
  <2> HIDE DEF z, n, s
  <2> QED BY <1>3, <2>1, <2>4, ArrayAssumption DEF Nodes, At, IsTrap
<1>5. prev[a] = z
  <2>1. a # Null /\ a \in Nodes
    BY ArrayAssumption DEF Nodes
  <2> HIDE DEF z
  <2>2. prev[next[z]] = z
    BY <1>4, <2>1 DEF RingInv, Mirrored
  <2> QED BY <1>4, <2>2
<1>6. stage'[a] # "unset" /\ \A b \in Arrays : b # a => stage'[b] = stage[b]
  BY DEF Stages
<1>7. next' = [next EXCEPT ![c] = a, ![z] = c]
  BY <1>2, <1>5
<1> HIDE DEF n, s, z
<1> QED BY <1>1, <1>2, <1>6, <1>7, GrownBy DEF n, s, z

\* What a script sees between two calls.
LEMMA ListsAre ==
  ASSUME NEW cells \in [Arrays -> Seq(Cells)]
  PROVE  /\ Rings(cells) => Lists = [a \in Arrays |-> Read(value, cells[a])]
         /\ Rings(cells)' => Lists' = [a \in Arrays |-> Read(value', cells[a])]
<1>1. ASSUME Rings(cells) PROVE Lists = [a \in Arrays |-> Read(value, cells[a])]
  <2>1. \A a \in Arrays : List(a) = Read(value, cells[a])
    BY <1>1, ListIs DEF Rings, Holds
  <2> QED BY <2>1 DEF Lists
<1>2. ASSUME Rings(cells)' PROVE Lists' = [a \in Arrays |-> Read(value', cells[a])]
  <2>1. \A a \in Arrays : List(a)' = Read(value', cells[a])
    BY <1>2, ListIs DEF Rings, Holds
  <2> QED BY <2>1 DEF Lists
<1> QED BY <1>1, <1>2

InCall == pc \in {"concat", "filter", "listing", "split"}

\* How far the call has got: k words of its source are done.
CallAt(cells) ==
    /\ InCall => /\ before \in [Arrays -> Seq(Words)]
                 /\ \A b \in Arrays : b # dst => Read(value, cells[b]) = before[b]
    /\ pc = "concat" => src # dst /\ \E k \in 0..Len(before[src]) :
          /\ ae = Around(src, cells[src], k + 1)
          /\ Read(value, cells[dst]) = before[dst] \o SubSeq(before[src], 1, k)
    /\ pc = "filter" => \E k \in 0..Len(before[dst]) :
          /\ ae = Around(dst, cells[dst], Len(SL!Kept(before[dst], to_remove)[k]) + 1)
          /\ Read(value, cells[dst]) = SL!Kept(before[dst], to_remove)[k]
                                         \o SubSeq(before[dst], k + 1, Len(before[dst]))
    /\ pc \in {"listing", "split"} => before[dst] = <<>> /\ \E f \in Files : \E k \in 0..Len(f) :
          /\ lines = SubSeq(f, k + 1, Len(f))
          /\ Read(value, cells[dst]) = SL!Kept(f, {Comment})[k]

ListInv == \E cells \in [Arrays -> Seq(Cells)] : Rings(cells) /\ CallAt(cells)

\* The lists a script believes in.
Seen == IF pc = "idle" THEN Lists ELSE before

LEMMA ListInit == Init => ListInv /\ SL!Init
<1> SUFFICES ASSUME Init PROVE ListInv /\ SL!Init
  OBVIOUS
<1> DEFINE cells == [a \in Arrays |-> <<>>]
<1>1. \A a \in Arrays : cells[a] \in Seq(Cells) /\ Len(cells[a]) = 0 /\ Chain(next, a, cells[a])
  <2> SUFFICES ASSUME NEW a \in Arrays PROVE Chain(next, a, <<>>)
    OBVIOUS
  <2>1. next[a] = a
    BY DEF Init, Nodes
  <2> QED BY <2>1 DEF Chain, Around
<1>2. cells \in [Arrays -> Seq(Cells)]
  OBVIOUS
<1> HIDE DEF cells
<1>3. Rings(cells)
  BY <1>1 DEF Rings, Holds, Init
<1>4. CallAt(cells)
  BY DEF CallAt, InCall, Init
<1>5. Lists = [a \in Arrays |-> Read(value, cells[a])]
  BY <1>2, <1>3, ListsAre
<1>6. \A a \in Arrays : Read(value, cells[a]) = <<>>
  <2> SUFFICES ASSUME NEW a \in Arrays PROVE Read(value, <<>>) = <<>>
    BY DEF cells
  <2> QED BY DEF Read
<1>7. SL!Init
  BY <1>5, <1>6 DEF SL!Init, Init
<1> QED BY <1>2, <1>3, <1>4, <1>7 DEF ListInv

\* Script steps that start no call.
LEMMA IdleLists ==
  ASSUME IInv, ListInv, NEW a \in Arrays, OwnScripts,
         \/ \E w \in Words : AppendWord(a, w)
         \/ Subscript(a) \/ abmm_array_mine(a) \/ abmm_array_mine_remove(a)
  PROVE  ListInv' /\ (SL!Next \/ Seen' = Seen)
<1> USE DEF IInv
<1>1. PICK cells \in [Arrays -> Seq(Cells)] : Rings(cells) /\ CallAt(cells)
  BY DEF ListInv
<1>2. RingType /\ RingInv /\ stage \in [Arrays -> Stages]
  BY TypeParts DEF CallType
<1>3. pc = "idle" /\ pc' = "idle"
  BY <1>2, ArrayAssumption
     DEF AppendWord, Subscript, abmm_array_mine, abmm_array_mine_remove, May, RingInv, Traps, Live, At
<1>4. SUFFICES \E new \in [Arrays -> Seq(Cells)] : Rings(new)' /\ (SL!Next \/ Seen' = Seen)
  BY <1>3 DEF ListInv, CallAt, InCall
<1>5. Seen = [b \in Arrays |-> Read(value, cells[b])]
  BY <1>1, <1>3, ListsAre DEF Seen
<1>6. CASE \E w \in Words : AppendWord(a, w)
  <2>1. PICK w \in Words : AppendWord(a, w)
    BY <1>6
  <2>2. /\ Live # Cells /\ stage[a] # "pushed" /\ array_insert(a, w) /\ stage' = [stage EXCEPT ![a] = "fresh"]
    BY <2>1 DEF AppendWord, May, Staged
  <2>3. PICK new \in [Arrays -> Seq(Cells)] : Rings(new)' /\ Grown(cells, new, a, w)
    BY <1>1, <1>2, <2>2, InsertGrows
  <2>4. Lists' = [b \in Arrays |-> Read(value', new[b])]
    BY <2>3, ListsAre
  <2>5. Lists' = [Lists EXCEPT ![a] = Append(@, w)]
    BY <1>3, <1>5, <2>3, <2>4 DEF Grown, Seen
  <2>6. SL!AppendWord(a, w)
    BY <1>3, <2>5 DEF SL!AppendWord
  <2> QED BY <2>3, <2>6 DEF SL!Next
<1>7. ASSUME \/ Subscript(a) \/ abmm_array_mine(a) \/ abmm_array_mine_remove(a)
      PROVE  Rings(cells)' /\ Seen' = Seen
  <2>1. num_elements' = num_elements /\ \E s \in {"roved", "mined", "cleared"} : stage' = [stage EXCEPT ![a] = s]
    BY <1>3, <1>7 DEF Subscript, abmm_array_mine, abmm_array_mine_remove, Staged, Dies
  <2>2. \A b \in Arrays : b # a => lastref'[b] = lastref[b]
    BY <1>2, <1>3, <1>7 DEF Subscript, abmm_array_mine, abmm_array_mine_remove, Dies, RingType
  <2>3. /\ \A n \in Nodes : At(n) # Null /\ ~IsTrap(n) => next'[n] = next[n]
        /\ \A c \in Cells : owner[c] # Null /\ ~IsTrap(c) => owner'[c] = owner[c] /\ value'[c] = value[c]
    <3>1. CASE Subscript(a)
      BY <3>1 DEF Subscript
    <3>2. CASE abmm_array_mine(a)
      BY <1>2, <3>2, FreeCell, ArrayAssumption DEF abmm_array_mine, Create, RingType, At, Nodes
    <3>3. CASE abmm_array_mine_remove(a)
      <4>1. IsTrap(lastref[a]) /\ lastref[a] \in Cells
        BY <1>2, <3>3 DEF abmm_array_mine_remove, May, RingInv, Traps
      <4>2. /\ next' = [next EXCEPT ![lastref[a]] = Null]
            /\ owner' = [owner EXCEPT ![lastref[a]] = Null] /\ value' = [value EXCEPT ![lastref[a]] = Null]
        BY <1>3, <3>3 DEF abmm_array_mine_remove, Dies, Dispose
      <4> QED BY <1>2, <4>1, <4>2 DEF RingType
    <3> QED BY <1>7, <3>1, <3>2, <3>3
  <2>4. \A b \in Arrays : stage'[b] \in {"unset", "fresh", "pushed"} =>
             b # a /\ stage'[b] = stage[b] /\ lastref'[b] = lastref[b]
    BY <1>2, <2>1, <2>2
  <2>5. Rings(cells)' /\ \A b \in Arrays : Read(value', cells[b]) = Read(value, cells[b])
    BY <1>1, <1>2, <2>1, <2>3, <2>4, StayStep
  <2>6. Lists' = [b \in Arrays |-> Read(value', cells[b])]
    BY <2>5, ListsAre
  <2> QED BY <1>3, <1>5, <2>5, <2>6 DEF Seen
<1> QED BY <1>6, <1>7

\* What is read of a chain of words, and from where the turns go on.
LEMMA ReadIs ==
  ASSUME NEW cells \in [Arrays -> Seq(Cells)], Rings(cells), NEW a \in Arrays
  PROVE  /\ Read(value, cells[a]) \in Seq(Words) /\ Len(Read(value, cells[a])) = Len(cells[a])
         /\ Len(cells[a]) \in Nat
         /\ \A i \in 1..Len(cells[a]) : /\ Read(value, cells[a])[i] = value[cells[a][i]]
                                        /\ cells[a][i] \in Cells /\ owner[cells[a][i]] = a
         /\ \A k \in 0..Len(cells[a]) : next[Around(a, cells[a], k)] = Around(a, cells[a], k + 1)
         /\ Around(a, cells[a], 0) = a
<1>1. cells[a] \in Seq(Cells) /\ Len(cells[a]) \in Nat
  OBVIOUS
<1>2. \A i \in 1..Len(cells[a]) : /\ owner[cells[a][i]] = a /\ value[cells[a][i]] \in Words
                                  /\ cells[a][i] \in Cells
  BY <1>1 DEF Rings, Holds
<1>3. Read(value, cells[a]) \in Seq(Words) /\ Len(Read(value, cells[a])) = Len(cells[a])
  BY <1>1, <1>2 DEF Read
<1>4. \A k \in 0..Len(cells[a]) : next[Around(a, cells[a], k)] = Around(a, cells[a], k + 1)
  BY DEF Rings, Holds, Chain
<1> QED BY <1>1, <1>2, <1>3, <1>4 DEF Read, Around

LEMMA SubSeqAll ==
  ASSUME NEW V, NEW s \in Seq(V)
  PROVE  /\ SubSeq(s, 1, 0) = <<>> /\ SubSeq(s, 0 + 1, Len(s)) = s /\ SubSeq(s, 1, Len(s)) = s
         /\ SubSeq(s, Len(s) + 1, Len(s)) = <<>>
         /\ \A t \in Seq(V) : t \o <<>> = t /\ <<>> \o t = t
<1>1. SubSeq(s, 1, Len(s)) = s
  BY SubSeqFull
<1>2. SubSeq(s, 1, 0) = <<>> /\ SubSeq(s, Len(s) + 1, Len(s)) = <<>>
  BY SubSeqEmpty
<1>3. \A t \in Seq(V) : t \o <<>> = t /\ <<>> \o t = t
  BY ConcatEmptySeq
<1> QED BY <1>1, <1>2, <1>3

\* The start of a call changes no list.
LEMMA StartLists ==
  ASSUME IInv, ListInv, NEW a \in Arrays, OwnScripts,
         \/ \E b \in Arrays : ab_concatarray(a, b)
         \/ \E R \in SUBSET Words : ab_filter_args(a, R)
         \/ \E f \in Files : ab_read_listing_file(a, f) \/ ab_tostringarray(a, f)
  PROVE  ListInv' /\ Seen' = Seen
<1> USE DEF IInv
<1>1. PICK cells \in [Arrays -> Seq(Cells)] : Rings(cells) /\ CallAt(cells)
  BY DEF ListInv
<1>2. RingType /\ RingInv /\ stage \in [Arrays -> Stages]
  BY TypeParts DEF CallType
<1>3. /\ pc = "idle" /\ pc' \in {"concat", "filter", "listing", "split"} /\ before' = Lists /\ dst' = a
      /\ UNCHANGED <<next, value, owner, lastref, num_elements>>
      /\ \E s \in {"pushed", "roved", "fresh"} : stage' = [stage EXCEPT ![a] = s] /\ s # "unset"
      /\ stage'[a] \in {"pushed", "fresh"} => stage[a] \in {"unset", "fresh", "pushed"}
  BY <1>2 DEF ab_concatarray, ab_filter_args, ab_read_listing_file, ab_tostringarray, May, Start, Staged, ring
<1>4. Lists = [b \in Arrays |-> Read(value, cells[b])]
  BY <1>1, ListsAre
<1>5. Seen' = Seen
  BY <1>3 DEF Seen
<1>6. Rings(cells)'
  <2>1. \A b \in Arrays : stage'[b] \in {"unset", "fresh", "pushed"} =>
             /\ stage[b] \in {"unset", "fresh", "pushed"} /\ lastref'[b] = lastref[b]
             /\ stage'[b] = "unset" => stage[b] = "unset"
    BY <1>2, <1>3
  <2> QED BY <1>1, <1>2, <1>3, <2>1, StayStep
<1>7. before' \in [Arrays -> Seq(Words)] /\ \A b \in Arrays : Read(value', cells[b]) = before'[b]
  BY <1>1, <1>3, <1>4, ReadIs
<1>8. SUFFICES CallAt(cells)'
  BY <1>5, <1>6 DEF ListInv
<1>9. \A b \in Arrays : next[b] = Around(b, cells[b], 0 + 1)
  BY <1>1, ReadIs
<1>10. CASE \E b \in Arrays : ab_concatarray(a, b)
  <2>1. PICK b \in Arrays : ab_concatarray(a, b)
    BY <1>10
  <2>2. pc' = "concat" /\ src' = b /\ b # a /\ ae' = next[b]
    BY <2>1 DEF ab_concatarray, Start
  <2>3. before'[a] = before'[a] \o SubSeq(before'[b], 1, 0)
    <3>1. before'[a] \in Seq(Words) /\ before'[b] \in Seq(Words)
      BY <1>7
    <3> QED BY <3>1, SubSeqAll
  <2>4. 0 \in 0..Len(before'[b])
    BY <1>7
  <2> QED BY <1>3, <1>7, <1>9, <2>2, <2>3, <2>4 DEF CallAt
<1>11. CASE \E R \in SUBSET Words : ab_filter_args(a, R)
  <2>1. PICK R \in SUBSET Words : ab_filter_args(a, R)
    BY <1>11
  <2>2. pc' = "filter" /\ to_remove' = R /\ ae' = next[a]
    BY <2>1 DEF ab_filter_args, Start
  <2>3. before'[a] \in Seq(Words) /\ 0 \in 0..Len(before'[a])
    BY <1>7
  <2>4. SL!Kept(before'[a], R)[0] = <<>> /\ Len(<<>>) = 0
    BY <2>3, KeptSteps
  <2>5. before'[a] = <<>> \o SubSeq(before'[a], 0 + 1, Len(before'[a]))
    BY <2>3, SubSeqAll
  <2> QED BY <1>3, <1>7, <1>9, <2>2, <2>3, <2>4, <2>5 DEF CallAt
<1>12. CASE \E f \in Files : ab_read_listing_file(a, f) \/ ab_tostringarray(a, f)
  <2>1. PICK f \in Files : ab_read_listing_file(a, f) \/ ab_tostringarray(a, f)
    BY <1>12
  <2>2. pc' \in {"listing", "split"} /\ lines' = f /\ stage[a] = "unset"
    BY <2>1 DEF ab_read_listing_file, ab_tostringarray, Start
  <2>3. f \in Seq(Words \cup {Comment}) /\ 0 \in 0..Len(f)
    BY ArrayAssumption
  <2>4. SL!Kept(f, {Comment})[0] = <<>> /\ f = SubSeq(f, 0 + 1, Len(f))
    BY <2>3, KeptSteps, SubSeqAll
  <2>5. before'[a] = <<>>
    <3>1. Len(cells[a]) = 0
      BY <1>1, <2>2 DEF Rings, Holds
    <3>2. Read(value, cells[a]) \in Seq(Words) /\ Len(Read(value, cells[a])) = 0
      BY <1>1, <3>1, ReadIs
    <3> QED BY <1>3, <1>4, <3>2
  <2> QED BY <1>3, <1>7, <2>2, <2>3, <2>4, <2>5 DEF CallAt
<1> QED BY <1>10, <1>11, <1>12

\* Where a turn stands: the arrays that were there, and the one the call works for.
LEMMA CallFacts ==
  ASSUME IInv, NEW cells \in [Arrays -> Seq(Cells)], Rings(cells), CallAt(cells), InCall
  PROVE  /\ RingType /\ RingInv /\ stage \in [Arrays -> Stages] /\ dst \in Arrays
         /\ before \in [Arrays -> Seq(Words)]
         /\ \A b \in Arrays : b # dst => Read(value, cells[b]) = before[b]
         /\ pc \in {"concat", "listing"} => stage[dst] = "pushed"
         /\ pc = "split" => stage[dst] = "fresh"
         /\ pc = "filter" => stage[dst] = "roved"
         /\ pc = "concat" => src \in Arrays
         /\ Seen = before
BY TypeParts DEF IInv, CallType, CallInv, CallAt, InCall, Seen

\* Back in the script, the call has done what it promises.
LEMMA ReturnLists ==
  ASSUME IInv, ListInv, InCall, Return,
         pc = "concat" => ae = src, pc = "filter" => ae = dst,
         pc \in {"listing", "split"} => lines = <<>>
  PROVE  ListInv' /\ SL!Next
<1>1. PICK cells \in [Arrays -> Seq(Cells)] : Rings(cells) /\ CallAt(cells)
  BY DEF ListInv
<1>2. PICK d \in Arrays : d = dst
  BY <1>1, CallFacts
<1>3. /\ RingType /\ before \in [Arrays -> Seq(Words)]
      /\ \A b \in Arrays : b # d => Read(value, cells[b]) = before[b]
  BY <1>1, <1>2, CallFacts
<1>4. pc' = "idle" /\ UNCHANGED <<ring, stage>>
  BY DEF Return
<1>5. Rings(cells)' /\ CallAt(cells)'
  BY <1>1, <1>4 DEF Rings, Holds, CallAt, InCall, ring
<1>6. /\ Lists' = [b \in Arrays |-> Read(value, cells[b])] /\ pc # "idle" /\ before[d] \in Seq(Words)
      /\ Len(before[d]) \in Nat
  BY <1>1, <1>3, <1>4, <1>5, ListsAre DEF ring, InCall
<1>7. \A l : Read(value, cells[d]) = l => Lists' = [before EXCEPT ![d] = l]
  BY <1>3, <1>6
<1>8. \A b \in Arrays, k \in Nat : Around(b, cells[b], k + 1) = b => k >= Len(cells[b])
  <2> SUFFICES ASSUME NEW b \in Arrays, NEW k \in Nat, k < Len(cells[b]) PROVE Around(b, cells[b], k + 1) # b
    BY <1>1, ReadIs
  <2>1. k + 1 \in 1..Len(cells[b]) /\ cells[b][k + 1] \in Cells
    BY <1>1, ReadIs
  <2> QED BY <2>1, ArrayAssumption DEF Around
<1>9. CASE pc = "concat"
  <2>1. PICK s \in Arrays : s = src
    BY <1>1, <1>9, CallFacts DEF InCall
  <2>2. s # d
    BY <1>1, <1>2, <1>9, <2>1 DEF CallAt
  <2>3. PICK k \in 0..Len(before[s]) :
          /\ s = Around(s, cells[s], k + 1)
          /\ Read(value, cells[d]) = before[d] \o SubSeq(before[s], 1, k)
    BY <1>1, <1>2, <1>9, <2>1 DEF CallAt
  <2>4. before[s] \in Seq(Words) /\ Len(before[s]) = Len(cells[s]) /\ Len(before[s]) \in Nat
    <3>1. before[s] = Read(value, cells[s])
      BY <1>3, <2>2
    <3>2. before[s] \in Seq(Words)
      BY <1>3
    <3> QED BY <1>1, <3>1, <3>2, ReadIs
  <2>5. k = Len(before[s])
    BY <1>8, <2>3, <2>4
  <2>6. SubSeq(before[s], 1, k) = before[s]
    BY <2>4, <2>5, SubSeqAll
  <2>7. Lists' = [before EXCEPT ![d] = @ \o before[s]]
    BY <1>7, <2>3, <2>6
  <2>8. SL!Concat(d, s)
    BY <1>4, <1>6, <2>7 DEF SL!Concat
  <2> QED BY <1>5, <2>2, <2>8 DEF SL!Next, ListInv
<1>10. CASE pc = "filter"
  <2>1. to_remove \in SUBSET Words
    BY DEF IInv, TypeOK
  <2> DEFINE B == before[d]
             kept == SL!Kept(B, to_remove)
  <2>2. PICK k \in 0..Len(B) :
          /\ d = Around(d, cells[d], Len(kept[k]) + 1)
          /\ Read(value, cells[d]) = kept[k] \o SubSeq(B, k + 1, Len(B))
    BY <1>1, <1>2, <1>10 DEF CallAt
  <2>3. kept[k] \in Seq(Words) /\ Len(kept[k]) \in Nat /\ B \in Seq(Words)
    BY <1>6, KeptSteps
  <2> HIDE DEF B, kept
  <2>4. Len(kept[k]) >= Len(cells[d])
    BY <1>8, <2>2, <2>3
  <2>5. /\ SubSeq(B, k + 1, Len(B)) \in Seq(Words) /\ Len(SubSeq(B, k + 1, Len(B))) = Len(B) - k
    <3>1. k + 1 \in Int /\ Len(B) \in Int /\ \A i \in (k + 1)..Len(B) : B[i] \in Words
      BY <2>3
    <3>2. /\ SubSeq(B, k + 1, Len(B)) \in Seq(Words)
          /\ Len(SubSeq(B, k + 1, Len(B))) = IF k + 1 <= Len(B) THEN Len(B) - (k + 1) + 1 ELSE 0
      BY <3>1, SubSeqProperties
    <3>3. Len(B) \in Nat
      BY <2>3
    <3> QED BY <3>2, <3>3
  <2>6. Len(kept[k] \o SubSeq(B, k + 1, Len(B))) = Len(kept[k]) + Len(SubSeq(B, k + 1, Len(B)))
    BY <2>3, <2>5, ConcatProperties
  <2>7. Len(cells[d]) = Len(kept[k]) + Len(B) - k
    <3>1. Len(Read(value, cells[d])) = Len(cells[d])
      BY <1>1, ReadIs
    <3>2. Len(B) \in Nat
      BY <2>3
    <3> QED BY <2>2, <2>3, <2>5, <2>6, <3>1, <3>2
  <2>8. k = Len(B)
    <3>1. Len(B) \in Nat
      BY <2>3
    <3> QED BY <2>3, <2>4, <2>7, <3>1
  <2>9. Read(value, cells[d]) = kept[Len(B)]
    <3>1. SubSeq(B, Len(B) + 1, Len(B)) = <<>> /\ kept[k] \o <<>> = kept[k]
      BY <2>3, SubSeqAll
    <3> QED BY <2>2, <2>8, <3>1
  <2>10. Lists' = [before EXCEPT ![d] = SL!Without(@, to_remove)]
    BY <1>7, <2>9 DEF SL!Without, B, kept
  <2>11. SL!Remove(d, to_remove)
    BY <1>4, <1>6, <2>10 DEF SL!Remove
  <2> QED BY <1>5, <2>1, <2>11 DEF SL!Next, ListInv
<1>11. CASE pc \in {"listing", "split"}
  <2>1. before[d] = <<>>
    BY <1>1, <1>2, <1>11 DEF CallAt
  <2>2. PICK f \in Files : \E k \in 0..Len(f) :
          <<>> = SubSeq(f, k + 1, Len(f)) /\ Read(value, cells[d]) = SL!Kept(f, {Comment})[k]
    BY <1>1, <1>2, <1>11 DEF CallAt
  <2>3. PICK k \in 0..Len(f) :
          <<>> = SubSeq(f, k + 1, Len(f)) /\ Read(value, cells[d]) = SL!Kept(f, {Comment})[k]
    BY <2>2
  <2>4. k = Len(f)
    <3>1. f \in Seq(Words \cup {Comment}) /\ Len(f) \in Nat
      BY ArrayAssumption
    <3>2. k + 1 \in Int /\ Len(f) \in Int /\ \A i \in (k + 1)..Len(f) : f[i] \in Words \cup {Comment}
      BY <3>1
    <3>3. Len(SubSeq(f, k + 1, Len(f))) = IF k + 1 <= Len(f) THEN Len(f) - (k + 1) + 1 ELSE 0
      BY <3>2, SubSeqProperties
    <3>4. Len(SubSeq(f, k + 1, Len(f))) = 0
      <4>1. \A x : <<>> = x => Len(x) = 0
        OBVIOUS
      <4> QED BY <2>3, <4>1
    <3>5. ~(k + 1 <= Len(f))
      BY <3>1, <3>3, <3>4
    <3> QED BY <3>1, <3>5
  <2>5. Lists' = [before EXCEPT ![d] = SL!Without(f, {Comment})]
    BY <1>7, <2>3, <2>4 DEF SL!Without
  <2>6. SL!Fill(d, f)
    BY <1>4, <1>6, <2>1, <2>5 DEF SL!Fill
  <2> QED BY <1>5, <2>6 DEF SL!Next, ListInv
<1> QED BY <1>9, <1>10, <1>11 DEF InCall

\* A word of the source goes to the end of the destination.
LEMMA ConcatLists ==
  ASSUME IInv, ListInv, ConcatTurn, ~Return, ~Dies
  PROVE  ListInv' /\ Seen' = Seen
<1>1. PICK cells \in [Arrays -> Seq(Cells)] : Rings(cells) /\ CallAt(cells)
  BY DEF ListInv
<1>2. pc = "concat" /\ InCall
  BY DEF ConcatTurn, InCall
<1>3. PICK d \in Arrays : d = dst
  BY <1>1, <1>2, CallFacts
<1>4. PICK s \in Arrays : s = src
  BY <1>1, <1>2, CallFacts
<1>5. /\ RingType /\ before \in [Arrays -> Seq(Words)] /\ stage[d] = "pushed" /\ Seen = before
      /\ \A b \in Arrays : b # d => Read(value, cells[b]) = before[b]
  BY <1>1, <1>2, <1>3, CallFacts
<1>6. /\ ae # s /\ Live # Cells /\ bash_array_push(d, value[ae]) /\ ae' = next'[ae]
      /\ UNCHANGED <<stage, pc, dst, src, to_remove, lines, before>>
  BY <1>2, <1>3, <1>4 DEF ConcatTurn
<1> DEFINE A == before[d]
           B == before[s]
<1>7. s # d
  BY <1>1, <1>2, <1>3, <1>4 DEF CallAt
<1>8. PICK k \in 0..Len(B) :
        ae = Around(s, cells[s], k + 1) /\ Read(value, cells[d]) = A \o SubSeq(B, 1, k)
  BY <1>1, <1>2, <1>3, <1>4 DEF CallAt
<1>9. /\ Read(value, cells[s]) = B /\ A \in Seq(Words) /\ B \in Seq(Words) /\ Len(B) \in Nat
      /\ Len(cells[s]) = Len(B)
  <2>1. Read(value, cells[s]) = B /\ A \in Seq(Words) /\ B \in Seq(Words)
    BY <1>5, <1>7
  <2> QED BY <1>1, <2>1, ReadIs
<1> HIDE DEF A, B
<1>10. k + 1 \in 1..Len(cells[s]) /\ k \in 0..(Len(B) - 1)
  <2>1. k + 1 \in 1..Len(cells[s])
    BY <1>6, <1>8 DEF Around
  <2> QED BY <1>9, <2>1
<1>11. ae = cells[s][k + 1] /\ value[ae] = B[k + 1] /\ B[k + 1] \in Words
  <2>1. ae = cells[s][k + 1]
    BY <1>8, <1>10 DEF Around
  <2>2. Read(value, cells[s])[k + 1] = value[cells[s][k + 1]]
    BY <1>1, <1>10, ReadIs
  <2>3. B[k + 1] \in Words
    BY <1>9, <1>10, ElementOfSeq
  <2> QED BY <1>9, <2>1, <2>2, <2>3
<1>12. PICK new \in [Arrays -> Seq(Cells)] : Rings(new)' /\ Grown(cells, new, d, B[k + 1])
  <2>1. stage' = stage /\ bash_array_push(d, B[k + 1])
    BY <1>6, <1>11
  <2> QED BY <1>1, <1>5, <1>6, <1>11, <2>1, PushGrows
<1>13. ae' = Around(s, new[s], (k + 1) + 1)
  <2>1. new[s] = cells[s]
    BY <1>7, <1>12 DEF Grown
  <2>2. next'[Around(s, new[s], k + 1)] = Around(s, new[s], (k + 1) + 1)
    <3>1. k + 1 \in 0..Len(new[s])
      BY <1>10, <2>1
    <3>2. Chain(next', s, new[s])
      BY <1>12 DEF Rings, Holds
    <3> QED BY <3>1, <3>2 DEF Chain
  <2> QED BY <1>6, <1>8, <2>1, <2>2
<1>14. Read(value', new[d]) = A \o SubSeq(B, 1, k + 1)
  <2>1. Read(value', new[d]) = Append(A \o SubSeq(B, 1, k), B[k + 1])
    BY <1>8, <1>12 DEF Grown
  <2>2. Append(A \o SubSeq(B, 1, k), B[k + 1]) = A \o SubSeq(B, 1, k + 1)
    BY <1>9, <1>10, OneTaken
  <2> QED BY <2>1, <2>2
<1>15. \A b \in Arrays : b # d => Read(value', new[b]) = before[b]
  BY <1>5, <1>12 DEF Grown
<1>16. k + 1 \in 0..Len(B)
  BY <1>9, <1>10
<1>17. CallAt(new)'
  <2>1. pc' = "concat" /\ dst' = d /\ src' = s /\ before' = before
    BY <1>2, <1>3, <1>4, <1>6
  <2> QED BY <1>5, <1>7, <1>13, <1>14, <1>15, <1>16, <2>1 DEF CallAt, A, B
<1>18. Seen' = Seen
  BY <1>2, <1>5, <1>6 DEF Seen
<1> QED BY <1>12, <1>17, <1>18 DEF ListInv

\* A line of the file goes to the end of the destination, unless it is a comment.
LEMMA FillLists ==
  ASSUME IInv, ListInv, FillTurn, ~Return, ~Dies
  PROVE  ListInv' /\ Seen' = Seen
<1>1. PICK cells \in [Arrays -> Seq(Cells)] : Rings(cells) /\ CallAt(cells)
  BY DEF ListInv
<1>2. pc \in {"listing", "split"} /\ InCall
  BY DEF FillTurn, InCall
<1>3. PICK d \in Arrays : d = dst
  BY <1>1, <1>2, CallFacts
<1>4. /\ RingType /\ RingInv /\ stage \in [Arrays -> Stages] /\ before \in [Arrays -> Seq(Words)] /\ Seen = before
      /\ pc = "listing" => stage[d] = "pushed"
      /\ pc = "split" => stage[d] = "fresh"
      /\ \A b \in Arrays : b # d => Read(value, cells[b]) = before[b]
  BY <1>1, <1>2, <1>3, CallFacts
<1>5. /\ lines # <<>> /\ lines' = Tail(lines)
      /\ UNCHANGED <<stage, pc, ae, dst, src, to_remove, before>>
      /\ Head(lines) = Comment => UNCHANGED ring
      /\ Head(lines) # Comment => Live # Cells
      /\ Head(lines) # Comment /\ pc = "listing" => bash_array_push(d, Head(lines))
      /\ Head(lines) # Comment /\ pc = "split" => array_insert(d, Head(lines))
  BY <1>2, <1>3 DEF FillTurn
<1>6. before[d] = <<>>
  BY <1>1, <1>2, <1>3 DEF CallAt
<1>7. PICK f \in Files : \E k \in 0..Len(f) :
        lines = SubSeq(f, k + 1, Len(f)) /\ Read(value, cells[d]) = SL!Kept(f, {Comment})[k]
  BY <1>1, <1>2, <1>3 DEF CallAt
<1>8. PICK k \in 0..Len(f) :
        lines = SubSeq(f, k + 1, Len(f)) /\ Read(value, cells[d]) = SL!Kept(f, {Comment})[k]
  BY <1>7
<1> DEFINE V == Words \cup {Comment}
           kept == SL!Kept(f, {Comment})
<1>9. f \in Seq(V) /\ Len(f) \in Nat
  BY ArrayAssumption
<1> HIDE DEF V, kept
<1>10. k + 1 \in 1..Len(f) /\ k \in 0..(Len(f) - 1) /\ k + 1 \in 0..Len(f)
  <2>1. k # Len(f)
    <3>1. SubSeq(f, Len(f) + 1, Len(f)) = <<>>
      BY <1>9, SubSeqAll
    <3> QED BY <1>5, <1>8, <3>1
  <2> QED BY <1>9, <2>1
<1>11. Head(lines) = f[k + 1] /\ Tail(lines) = SubSeq(f, (k + 1) + 1, Len(f)) /\ f[k + 1] \in V
  <2>1. Len(f) \in (k + 1)..Len(f)
    BY <1>9, <1>10
  <2>2. Head(SubSeq(f, k + 1, Len(f))) = f[k + 1] /\ Tail(SubSeq(f, k + 1, Len(f))) = SubSeq(f, (k + 1) + 1, Len(f))
    BY <1>9, <1>10, <2>1, HeadTailOfSubSeq
  <2>3. f[k + 1] \in V
    BY <1>9, <1>10, ElementOfSeq
  <2> QED BY <1>8, <2>2, <2>3
<1>12. kept[k + 1] = IF f[k + 1] = Comment THEN kept[k] ELSE Append(kept[k], f[k + 1])
  <2>1. kept[k + 1] = IF f[k + 1] \in {Comment} THEN kept[k] ELSE Append(kept[k], f[k + 1])
    BY <1>9, <1>10, KeptSteps DEF kept
  <2> QED BY <2>1
<1>13. \E new \in [Arrays -> Seq(Cells)] :
         /\ Rings(new)' /\ Read(value', new[d]) = kept[k + 1]
         /\ \A b \in Arrays : b # d => Read(value', new[b]) = Read(value, cells[b])
  <2>1. CASE Head(lines) = Comment
    <3>1. Rings(cells)' /\ value' = value
      BY <1>1, <1>5, <2>1 DEF Rings, Holds, ring
    <3> QED BY <1>8, <1>11, <1>12, <2>1, <3>1 DEF kept
  <2>2. CASE Head(lines) # Comment
    <3>1. Head(lines) \in Words /\ Live # Cells
      BY <1>5, <1>11, <2>2 DEF V
    <3>2. \E new \in [Arrays -> Seq(Cells)] : Rings(new)' /\ Grown(cells, new, d, Head(lines))
      <4>1. CASE pc = "listing"
        <5>1. stage' = stage /\ bash_array_push(d, Head(lines)) /\ stage[d] = "pushed"
          BY <1>4, <1>5, <2>2, <4>1
        <5> QED BY <1>1, <1>4, <3>1, <5>1, PushGrows
      <4>2. CASE pc = "split"
        <5>1. stage' = [stage EXCEPT ![d] = "fresh"] /\ array_insert(d, Head(lines)) /\ stage[d] # "pushed"
          BY <1>4, <1>5, <2>2, <4>2
        <5> QED BY <1>1, <1>4, <3>1, <5>1, InsertGrows
      <4> QED BY <1>2, <4>1, <4>2
    <3>3. PICK new \in [Arrays -> Seq(Cells)] : Rings(new)' /\ Grown(cells, new, d, Head(lines))
      BY <3>2
    <3>4. /\ Read(value', new[d]) = kept[k + 1]
          /\ \A b \in Arrays : b # d => Read(value', new[b]) = Read(value, cells[b])
      BY <1>8, <1>11, <1>12, <2>2, <3>3 DEF Grown, kept
    <3> QED BY <3>3, <3>4
  <2> QED BY <2>1, <2>2
<1>14. PICK new \in [Arrays -> Seq(Cells)] :
         /\ Rings(new)' /\ Read(value', new[d]) = kept[k + 1]
         /\ \A b \in Arrays : b # d => Read(value', new[b]) = Read(value, cells[b])
  BY <1>13
<1>15. CallAt(new)'
  <2>1. pc' \in {"listing", "split"} /\ dst' = d /\ before' = before /\ lines' = SubSeq(f, (k + 1) + 1, Len(f))
    BY <1>2, <1>3, <1>5, <1>11
  <2>2. \A b \in Arrays : b # d => Read(value', new[b]) = before[b]
    BY <1>4, <1>14
  <2> QED BY <1>4, <1>6, <1>10, <1>14, <2>1, <2>2 DEF CallAt, kept
<1>16. Seen' = Seen
  BY <1>2, <1>4, <1>5 DEF Seen
<1> QED BY <1>14, <1>15, <1>16 DEF ListInv

\* A word is kept, or its cell is freed and the word after it comes next.
LEMMA FilterLists ==
  ASSUME IInv, ListInv, FilterTurn, ~Return, ~Dies
  PROVE  ListInv' /\ Seen' = Seen
<1>1. PICK cells \in [Arrays -> Seq(Cells)] : Rings(cells) /\ CallAt(cells)
  BY DEF ListInv
<1>2. pc = "filter" /\ InCall
  BY DEF FilterTurn, InCall
<1>3. PICK d \in Arrays : d = dst
  BY <1>1, <1>2, CallFacts
<1>4. PICK R \in SUBSET Words : R = to_remove
  BY DEF IInv, TypeOK
<1>5. /\ RingType /\ RingInv /\ stage \in [Arrays -> Stages] /\ before \in [Arrays -> Seq(Words)] /\ Seen = before
      /\ stage[d] = "roved" /\ \A b \in Arrays : b # d => Read(value, cells[b]) = before[b]
  BY <1>1, <1>2, <1>3, CallFacts
<1>6. /\ ae # d /\ ae' = next[ae] /\ UNCHANGED <<stage, pc, dst, src, to_remove, lines, before>>
      /\ value[ae] \notin R => UNCHANGED ring
      /\ value[ae] \in R => Unlink(ae, d)
  BY <1>2, <1>3, <1>4 DEF FilterTurn
<1> DEFINE B == before[d]
           kept == SL!Kept(B, R)
<1>7. PICK k \in 0..Len(B) :
        /\ ae = Around(d, cells[d], Len(kept[k]) + 1)
        /\ Read(value, cells[d]) = kept[k] \o SubSeq(B, k + 1, Len(B))
  BY <1>1, <1>2, <1>3, <1>4 DEF CallAt
<1> DEFINE p == kept[k]
           m == Len(p)
           n == Len(cells[d])
<1>8. B \in Seq(Words) /\ Len(B) \in Nat
  BY <1>5
<1>9. p \in Seq(Words) /\ m \in Nat
  <2>1. p \in Seq(Words)
    BY <1>8, KeptSteps
  <2> HIDE DEF p
  <2> QED BY <2>1
<1>10. /\ n \in Nat /\ \A i \in 1..n : Read(value, cells[d])[i] = value[cells[d][i]]
       /\ \A i \in 0..n : next[Around(d, cells[d], i)] = Around(d, cells[d], i + 1)
       /\ Len(Read(value, cells[d])) = n
  BY <1>1, ReadIs
<1> HIDE DEF B, kept, p, m, n
<1>11. m + 1 \in 1..n /\ ae = cells[d][m + 1]
  BY <1>6, <1>7 DEF Around, n, m, p
<1>12. n = m + Len(B) - k
  <2>1. SubSeq(B, k + 1, Len(B)) \in Seq(Words) /\ Len(SubSeq(B, k + 1, Len(B))) = Len(B) - k
    <3>1. k + 1 \in Int /\ Len(B) \in Int /\ \A i \in (k + 1)..Len(B) : B[i] \in Words
      BY <1>8
    <3>2. /\ SubSeq(B, k + 1, Len(B)) \in Seq(Words)
          /\ Len(SubSeq(B, k + 1, Len(B))) = IF k + 1 <= Len(B) THEN Len(B) - (k + 1) + 1 ELSE 0
      BY <3>1, SubSeqProperties
    <3> QED BY <1>8, <3>2
  <2>2. Len(p \o SubSeq(B, k + 1, Len(B))) = m + Len(SubSeq(B, k + 1, Len(B)))
    BY <1>9, <2>1, ConcatProperties DEF m
  <2>3. n = Len(p \o SubSeq(B, k + 1, Len(B)))
    BY <1>7, <1>10 DEF p
  <2> QED BY <1>8, <1>9, <2>1, <2>2, <2>3
<1>13. k \in 0..(Len(B) - 1) /\ k + 1 \in 0..Len(B) /\ k + 1 \in 1..Len(B) /\ (k + 1) + 1 = k + 2
  BY <1>8, <1>9, <1>11, <1>12
<1>14. B[k + 1] \in Words /\ Append(p, B[k + 1]) \in Seq(Words) /\ Len(Append(p, B[k + 1])) = m + 1
       /\ Append(p, B[k + 1])[m + 1] = B[k + 1]
  <2>1. B[k + 1] \in Words
    BY <1>8, <1>13, ElementOfSeq
  <2> QED BY <1>9, <2>1, AppendProperties DEF m
<1>15. p \o SubSeq(B, k + 1, Len(B)) = Append(p, B[k + 1]) \o SubSeq(B, k + 2, Len(B))
  BY <1>8, <1>9, <1>13, OneKept
<1>16. value[ae] = B[k + 1]
  <2>1. value[ae] = (p \o SubSeq(B, k + 1, Len(B)))[m + 1]
    BY <1>7, <1>10, <1>11 DEF p
  <2>2. SubSeq(B, k + 2, Len(B)) \in Seq(Words)
    <3>1. k + 2 \in Int /\ Len(B) \in Int /\ \A i \in (k + 2)..Len(B) : B[i] \in Words
      BY <1>8
    <3> QED BY <3>1, SubSeqProperties
  <2>3. \A s, t \in Seq(Words) : \A i \in 1..Len(s) : (s \o t)[i] = s[i]
    <3> SUFFICES ASSUME NEW s \in Seq(Words), NEW t \in Seq(Words), NEW i \in 1..Len(s)
                 PROVE  (s \o t)[i] = s[i]
      OBVIOUS
    <3>1. i \in 1..(Len(s) + Len(t)) /\ i <= Len(s)
      OBVIOUS
    <3> QED BY <3>1, ConcatProperties
  <2>4. m + 1 \in 1..Len(Append(p, B[k + 1]))
    BY <1>9, <1>14
  <2>5. (Append(p, B[k + 1]) \o SubSeq(B, k + 2, Len(B)))[m + 1] = B[k + 1]
    BY <1>14, <2>2, <2>3, <2>4
  <2> QED BY <1>15, <2>1, <2>5
<1>17. kept[k + 1] = IF B[k + 1] \in R THEN p ELSE Append(p, B[k + 1])
  BY <1>8, <1>13, KeptSteps DEF kept, p
<1>18. ae' = Around(d, cells[d], m + 2)
  <2>1. m + 1 \in 0..n /\ Around(d, cells[d], m + 1) = ae /\ (m + 1) + 1 = m + 2
    BY <1>9, <1>10, <1>11 DEF Around, n
  <2> QED BY <1>6, <1>10, <2>1
<1>19. \E rows \in [Arrays -> Seq(Cells)] :
         /\ Rings(rows)' /\ ae' = Around(d, rows[d], Len(kept[k + 1]) + 1)
         /\ Read(value', rows[d]) = kept[k + 1] \o SubSeq(B, k + 2, Len(B))
         /\ \A b \in Arrays : b # d => Read(value', rows[b]) = Read(value, cells[b])
  <2>1. CASE value[ae] \notin R
    <3>1. Rings(cells)' /\ value' = value
      BY <1>1, <1>6, <2>1 DEF Rings, Holds, ring
    <3>2. kept[k + 1] = Append(p, B[k + 1]) /\ Len(kept[k + 1]) + 1 = m + 2
      BY <1>9, <1>14, <1>16, <1>17, <2>1
    <3>3. Read(value', cells[d]) = kept[k + 1] \o SubSeq(B, k + 2, Len(B))
      BY <1>7, <1>15, <3>1, <3>2 DEF p
    <3>4. ae' = Around(d, cells[d], Len(kept[k + 1]) + 1)
      BY <1>18, <3>2
    <3>5. \A b \in Arrays : b # d => Read(value', cells[b]) = Read(value, cells[b])
      BY <3>1
    <3> QED BY <3>1, <3>3, <3>4, <3>5 DEF Rings, Holds
  <2>2. CASE value[ae] \in R
    <3>0. PICK j \in 1..Len(cells[d]) : j = m + 1
      BY <1>11 DEF n
    <3>1. Unlink(cells[d][j], d) /\ stage' = stage
      BY <1>6, <1>11, <2>2, <3>0
    <3>2. /\ Rings([cells EXCEPT ![d] = Drop(@, j)])'
          /\ Read(value', Drop(cells[d], j)) = Drop(Read(value, cells[d]), j)
          /\ \A b \in Arrays : b # d => Read(value', cells[b]) = Read(value, cells[b])
      <4>1. PICK c : c = cells[d][j] /\ Unlink(c, d)
        BY <3>1
      <4> QED BY <1>1, <1>5, <3>1, <4>1, ShrinkStep
    <3>3. PICK t : t = Drop(cells[d], j)
      OBVIOUS
    <3>4. t \in Seq(Cells) /\ Len(t) = n - 1 /\ \A i \in 1..(n - 1) : t[i] = IF i < m + 1 THEN cells[d][i] ELSE cells[d][i + 1]
      <4>1. cells[d] \in Seq(Cells) /\ n - 1 \in Nat
        BY <1>10, <1>11
      <4>2. \A i \in 1..(n - 1) : i \in 1..n /\ i + 1 \in 1..n
        BY <1>10
      <4> QED BY <3>0, <3>3, <4>1, <4>2 DEF Drop, n
    <3>5. PICK less \in [Arrays -> Seq(Cells)] : less = [cells EXCEPT ![d] = t]
      BY <3>4
    <3>6. less[d] = t /\ \A b \in Arrays : b # d => less[b] = cells[b]
      BY <3>5
    <3>7. Rings(less)'
      <4>1. less = [cells EXCEPT ![d] = Drop(@, j)]
        BY <3>3, <3>5
      <4> QED BY <3>2, <4>1
    <3>8. kept[k + 1] = p
      BY <1>16, <1>17, <2>2
    <3>9. Read(value', t) = p \o SubSeq(B, k + 2, Len(B))
      <4>1. Drop(p \o SubSeq(B, k + 1, Len(B)), m + 1) = p \o SubSeq(B, k + 2, Len(B))
        BY <1>8, <1>9, <1>13, OneDropped DEF m
      <4> QED BY <1>7, <3>0, <3>2, <3>3, <4>1 DEF p
    <3>10. Around(d, cells[d], m + 2) = Around(d, t, m + 1)
      <4>1. m + 2 \in 1..n <=> m + 1 \in 1..(n - 1)
        BY <1>9, <1>10
      <4>2. m + 1 \in 1..(n - 1) => t[m + 1] = cells[d][m + 2]
        BY <1>9, <1>10, <3>4
      <4> QED BY <3>4, <4>1, <4>2 DEF Around, n
    <3>11. ae' = Around(d, less[d], Len(kept[k + 1]) + 1)
      BY <1>18, <3>6, <3>8, <3>10 DEF m
    <3>12. Read(value', less[d]) = kept[k + 1] \o SubSeq(B, k + 2, Len(B))
      BY <3>6, <3>8, <3>9
    <3>13. \A b \in Arrays : b # d => Read(value', less[b]) = Read(value, cells[b])
      BY <3>2, <3>6
    <3> QED BY <3>7, <3>11, <3>12, <3>13
  <2> QED BY <2>1, <2>2
<1>20. PICK rows \in [Arrays -> Seq(Cells)] :
         /\ Rings(rows)' /\ ae' = Around(d, rows[d], Len(kept[k + 1]) + 1)
         /\ Read(value', rows[d]) = kept[k + 1] \o SubSeq(B, k + 2, Len(B))
         /\ \A b \in Arrays : b # d => Read(value', rows[b]) = Read(value, cells[b])
  BY <1>19
<1>21. CallAt(rows)'
  <2>1. pc' = "filter" /\ dst' = d /\ before' = before /\ to_remove' = R
    BY <1>2, <1>3, <1>4, <1>6
  <2>2. \A b \in Arrays : b # d => Read(value', rows[b]) = before[b]
    BY <1>5, <1>20
  <2>3. Read(value', rows[d]) = kept[k + 1] \o SubSeq(B, (k + 1) + 1, Len(B))
    BY <1>13, <1>20
  <2> QED BY <1>5, <1>13, <1>20, <2>1, <2>2, <2>3 DEF CallAt, kept, B
<1>22. Seen' = Seen
  BY <1>2, <1>5, <1>6 DEF Seen
<1> QED BY <1>20, <1>21, <1>22 DEF ListInv

\* Each step keeps the lists, or changes them as a call promises.
LEMMA ListStep ==
  ASSUME OwnScripts, IInv, ListInv, [Next]_vars
  PROVE  ListInv' /\ (SL!Next \/ Seen' = Seen)
<1>1. CASE Script
  <2>1. PICK a \in Arrays :
          \/ \E w \in Words : AppendWord(a, w)
          \/ Subscript(a)
          \/ \E b \in Arrays : ab_concatarray(a, b)
          \/ \E R \in SUBSET Words : ab_filter_args(a, R)
          \/ \E f \in Files : ab_read_listing_file(a, f) \/ ab_tostringarray(a, f)
          \/ abmm_array_mine(a)
          \/ abmm_array_mine_remove(a)
    BY <1>1 DEF Script
  <2> QED BY <2>1, IdleLists, StartLists
<1>2. CASE Turn /\ Return
  <2>1. /\ InCall
        /\ pc = "concat" => ae = src
        /\ pc = "filter" => ae = dst
        /\ pc \in {"listing", "split"} => lines = <<>>
    <3>1. pc' = "idle"
      BY <1>2 DEF Return
    <3>2. CASE ConcatTurn
      BY <3>1, <3>2 DEF ConcatTurn, Dies, InCall
    <3>3. CASE FillTurn
      BY <3>1, <3>3 DEF FillTurn, Dies, InCall
    <3>4. CASE FilterTurn
      BY <3>1, <3>4 DEF FilterTurn, Dies, InCall
    <3> QED BY <1>2, <3>2, <3>3, <3>4 DEF Turn
  <2> QED BY <1>2, <2>1, ReturnLists
<1>3. CASE Turn /\ Dies
  <2>1. pc' = "dead" /\ pc # "idle" /\ UNCHANGED <<ring, stage>> /\ before' = before
    BY <1>3 DEF Turn, ConcatTurn, FillTurn, FilterTurn, Dies, call
  <2>2. PICK cells \in [Arrays -> Seq(Cells)] : Rings(cells) /\ CallAt(cells)
    BY DEF ListInv
  <2>3. Rings(cells)' /\ CallAt(cells)'
    BY <2>1, <2>2 DEF Rings, Holds, CallAt, InCall, ring
  <2> QED BY <2>1, <2>3 DEF ListInv, Seen
<1>4. CASE Turn /\ ~Return /\ ~Dies
  BY <1>4, ConcatLists, FillLists, FilterLists DEF Turn
<1>5. CASE UNCHANGED vars
  <2>1. UNCHANGED <<ring, stage, pc, call>> /\ Lists' = Lists
    BY <1>5 DEF vars, Lists, List, ring
  <2>2. PICK cells \in [Arrays -> Seq(Cells)] : Rings(cells) /\ CallAt(cells)
    BY DEF ListInv
  <2>3. Rings(cells)' /\ CallAt(cells)'
    BY <2>1, <2>2 DEF Rings, Holds, CallAt, InCall, ring, call
  <2> QED BY <2>1, <2>3 DEF ListInv, Seen, call
<1> QED BY <1>1, <1>2, <1>3, <1>4, <1>5 DEF Next

LEMMA ListConsequences == ASSUME IInv, ListInv PROVE CountExact /\ ConcatEnds
<1>1. PICK cells \in [Arrays -> Seq(Cells)] : Rings(cells) /\ CallAt(cells)
  BY DEF ListInv
<1>2. \A a \in Arrays : List(a) = Read(value, cells[a])
  BY <1>1, ListIs DEF Rings, Holds
<1>3. CountExact
  <2> SUFFICES ASSUME NEW a \in Arrays PROVE num_elements[a] = Len(List(a))
    BY DEF CountExact
  <2>1. num_elements[a] = Len(cells[a])
    BY <1>1 DEF Rings, Holds
  <2> QED BY <1>1, <1>2, <2>1, ReadIs
<1>4. ConcatEnds
  <2> SUFFICES ASSUME pc = "concat" PROVE Len(List(dst)) <= Len(before[dst]) + Len(before[src])
    BY DEF ConcatEnds
  <2>1. dst \in Arrays /\ src \in Arrays /\ before[dst] \in Seq(Words) /\ before[src] \in Seq(Words)
    BY <1>1, CallFacts DEF InCall
  <2>2. PICK k \in 0..Len(before[src]) : Read(value, cells[dst]) = before[dst] \o SubSeq(before[src], 1, k)
    BY <1>1 DEF CallAt
  <2>3. SubSeq(before[src], 1, k) \in Seq(Words) /\ Len(SubSeq(before[src], 1, k)) = k
    <3>1. Len(before[src]) \in Nat
      BY <2>1
    <3>2. 1 \in Int /\ k \in Int /\ \A i \in 1..k : before[src][i] \in Words
      BY <2>1, <3>1
    <3>3. /\ SubSeq(before[src], 1, k) \in Seq(Words)
          /\ Len(SubSeq(before[src], 1, k)) = IF 1 <= k THEN k - 1 + 1 ELSE 0
      BY <3>2, SubSeqProperties
    <3> QED BY <3>1, <3>3
  <2>4. Len(List(dst)) = Len(before[dst]) + k
    <3>1. Len(before[dst] \o SubSeq(before[src], 1, k)) = Len(before[dst]) + Len(SubSeq(before[src], 1, k))
      BY <2>1, <2>3, ConcatProperties
    <3>2. List(dst) = before[dst] \o SubSeq(before[src], 1, k)
      BY <1>2, <2>1, <2>2
    <3> QED BY <2>3, <3>1, <3>2
  <2>5. Len(before[src]) \in Nat /\ Len(before[dst]) \in Nat
    BY <2>1
  <2> QED BY <2>4, <2>5
<1> QED BY <1>3, <1>4

\* In every execution of the program's own scripts the rings spell out lists of cells, and
\* a running call has done as much of its work as its cursor has passed.
THEOREM ListsHold == ASSUME OwnScripts PROVE Spec => []ListInv
<1>1. Init => ListInv
  BY ListInit
<1>2. IInv /\ ListInv /\ [Next]_vars => ListInv'
  BY ListStep
<1> QED BY RingsHold, <1>1, <1>2, PTL DEF Spec

\* The count bash_array_push takes its index from (abnativefunctions.cpp:183) is the number
\* of words that the next links lead to.
THEOREM CountIsExact == ASSUME OwnScripts PROVE Spec => []CountExact
<1>1. IInv /\ ListInv => CountExact
  BY ListConsequences
<1> QED BY RingsHold, ListsHold, <1>1, PTL

\* ab_concatarray (abnativefunctions.cpp:701) pushes no more words than its source had.
THEOREM ConcatStops == ASSUME OwnScripts PROVE Spec => []ConcatEnds
<1>1. IInv /\ ListInv => ConcatEnds
  BY ListConsequences
<1> QED BY RingsHold, ListsHold, <1>1, PTL

\* The builtins and bash's own += change the lists of words as ShellLists says: appending,
\* concatenating, removing and filling are each one step, and nothing else is seen.
THEOREM ArraysAreLists == ASSUME OwnScripts PROVE Spec => ImplementsLists
<1>1. Init => SL!Init
  BY ListInit
<1>2. IInv /\ ListInv /\ [Next]_vars => SL!Next \/ UNCHANGED (IF pc = "idle" THEN Lists ELSE before)
  BY ListStep DEF Seen
<1> QED BY RingsHold, ListsHold, <1>1, <1>2, PTL DEF Spec, ImplementsLists, SL!Spec
=============================================================================
