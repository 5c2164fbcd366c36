---------------------------- MODULE LambdasProofs ----------------------------
(***************************************************************************)
(* Proofs about Lambdas, for any functions, variables, words and names to  *)
(* draw.  OneOwner is inductive once it is known that what a function      *)
(* refers to was drawn; FirstCallWorks and the refinement rest on it.      *)
(***************************************************************************)
EXTENDS Lambdas, TLAPS, WellFoundedInduction

\* What a function restores was drawn before, and so was what is there.
Drawn ==
    /\ \A g \in Functions : functions[g] # Null =>
          \A i \in DOMAIN functions[g] : functions[g][i] \in used
    /\ \A e \in Envs : env[e] # Null => e \in used

-----------------------------------------------------------------------------
(* Types.                                                                  *)

\* A set of naturals has a least element, and one that is bounded a greatest.
LEMMA Least == ASSUME NEW T \in SUBSET Nat, T # {} PROVE \E x \in T : \A y \in T : x <= y
<1> DEFINE R == {ss \in Nat \X Nat : ss[1] < ss[2]}
<1>1. IsWellFoundedOn(R, Nat)
  BY NatLessThanWellFounded DEF OpToRel
<1> HIDE DEF R
<1>2. \E x \in T : \A y \in T : ~(<<y, x>> \in R)
  BY <1>1, WFMin
<1>3. PICK x \in T : \A y \in T : ~(<<y, x>> \in R)
  BY <1>2
<1>4. ASSUME NEW y \in T PROVE x <= y
  <2>1. ~(<<y, x>> \in R) /\ x \in Nat /\ y \in Nat
    BY <1>3
  <2>2. y < x => <<y, x>> \in R
    BY <2>1 DEF R
  <2> QED
    BY <2>1, <2>2
<1> QED
  BY <1>4

LEMMA Greatest ==
  ASSUME NEW n \in Nat, NEW T \in SUBSET (1..n), T # {}
  PROVE  \E x \in T : \A y \in T : y <= x
<1> DEFINE M == {n - y : y \in T}
<1>1. M \in SUBSET Nat /\ M # {}
  <2>1. \A y \in T : n - y \in Nat
    OBVIOUS
  <2> QED
    BY <2>1
<1>2. PICK z \in M : \A y \in M : z <= y
  BY <1>1, Least
<1>3. PICK x \in T : z = n - x
  OBVIOUS
<1>4. ASSUME NEW y \in T PROVE y <= x
  <2>1. z <= n - y
    BY <1>2
  <2> QED
    BY <1>3, <2>1
<1> QED
  BY <1>4

USE LambdaAssumption DEF LambdaAssumption

\* A scope is found where one is asked for, and a value of the right type in it.
LEMMA InnermostHolds ==
  ASSUME NEW s \in Seq(Scope), NEW v \in Names, Holders(s, v) # {}
  PROVE  Innermost(s, v) \in DOMAIN s
<1>1. Holders(s, v) \subseteq 1..Len(s) /\ Len(s) \in Nat
  BY DEF Holders
<1>2. \E k \in Holders(s, v) : \A j \in Holders(s, v) : j <= k
  BY <1>1, Greatest
<1> QED
  BY <1>1, <1>2 DEF Innermost

LEMMA LookupType ==
  ASSUME NEW s \in Seq(Scope), NEW v \in Names
  PROVE  Lookup(s, v) \in Words \cup {Null}
<1>1. CASE Holders(s, v) = {}
  BY <1>1 DEF Lookup
<1>2. CASE Holders(s, v) # {}
  <2>1. s[Innermost(s, v)] \in Scope
    BY <1>2, InnermostHolds
  <2> QED
    BY <1>2, <2>1 DEF Lookup, Scope
<1> QED
  BY <1>1, <1>2

\* Merging captures yields a scope.
LEMMA HeldType == ASSUME TypeOK, NEW e \in Envs PROVE Held(e) \in Scope
BY DEF Held, Empty, Scope, TypeOK

LEMMA RestoredType ==
  ASSUME TypeOK, NEW g \in Functions, functions[g] # Null
  PROVE  Restored(g) \in Scope
<1> DEFINE s == [k \in DOMAIN functions[g] |-> Held(functions[g][k])]
<1>1. functions[g] \in Seq(Envs)
  BY DEF TypeOK
<1>2. s \in Seq(Scope)
  BY <1>1, HeldType
<1> HIDE DEF s
<1>3. \A v \in Names : Lookup(s, v) \in Words \cup {Null}
  BY <1>2, LookupType
<1> QED
  BY <1>3 DEF Restored, Scope, s

LEMMA CapturedType == ASSUME TypeOK, NEW vs PROVE Captured(vs) \in Scope
<1>1. \A v \in Names : find_variable(v) \in Words \cup {Null}
  BY LookupType DEF find_variable, TypeOK
<1> QED
  BY <1>1 DEF Captured, Scope

\* Setting a variable that is in scope, or global, keeps the scopes well-formed.
LEMMA SetInType ==
  ASSUME TypeOK, NEW k \in DOMAIN scopes, NEW v \in Names, NEW w \in Words, SetIn(k, v, w)
  PROVE  TypeOK'
<1>1. [scopes[k] EXCEPT ![v] = w] \in Scope
  BY DEF TypeOK, Scope
<1>2. scopes' \in Seq(Scope) /\ Len(scopes') = Len(scopes)
  BY <1>1 DEF SetIn, TypeOK
<1> QED
  BY <1>2 DEF SetIn, TypeOK

LEMMA TypeStep == TypeOK /\ [Next]_vars => TypeOK'
<1> SUFFICES ASSUME TypeOK, [Next]_vars PROVE TypeOK'
  OBVIOUS
<1>a. 1 \in DOMAIN scopes /\ Len(scopes) \in DOMAIN scopes /\ scopes \in Seq(Scope)
  BY DEF TypeOK
<1>1. ASSUME NEW v \in Names, NEW w \in Words, Assign(v, w) PROVE TypeOK'
  <2>1. CASE Holders(scopes, v) = {}
    BY <1>1, <1>a, <2>1, SetInType DEF Assign
  <2>2. CASE Holders(scopes, v) # {}
    BY <1>1, <1>a, <2>2, SetInType, InnermostHolds DEF Assign
  <2> QED
    BY <2>1, <2>2
<1>2. ASSUME NEW v \in Names, NEW w \in Words, Local(v, w) PROVE TypeOK'
  BY <1>2, <1>a, SetInType DEF Local
<1>3. ASSUME NEW f \in Functions, Define(f) PROVE TypeOK'
  BY <1>3 DEF Define, TypeOK
<1>4. ASSUME NEW f \in Functions, NEW vs \in Lists, LambdaFails(f, vs) PROVE TypeOK'
  BY <1>4 DEF LambdaFails, TmpAt, TypeOK
<1>5. ASSUME NEW f \in Functions, NEW g \in Functions, NEW vs \in Lists, NEW e \in Envs,
             abfp_lambda(f, g, vs, e)
      PROVE  TypeOK'
  <2>1. env' \in [Envs -> Scope \cup {Null}] /\ used' \subseteq Envs
    BY <1>5, CapturedType DEF abfp_lambda, TypeOK
  <2>2. <<e>> \o functions[f] \in Seq(Envs)
    BY <1>5 DEF abfp_lambda, TypeOK
  <2>3. functions' \in [Functions -> Seq(Envs) \cup {Null}]
    BY <1>5, <2>2 DEF abfp_lambda, TypeOK
  <2> QED
    BY <1>5, <2>1, <2>3 DEF abfp_lambda, TypeOK
<1>6. ASSUME NEW g \in Functions, NEW guarded \in BOOLEAN, Call(g, guarded) PROVE TypeOK'
  <2>1. CASE lax = 0 /\ ~guarded /\ Gone(g)
    BY <1>6, <2>1 DEF Call, TypeOK
  <2>2. CASE ~(lax = 0 /\ ~guarded /\ Gone(g))
    <3>1. scopes' = Append(scopes, Restored(g)) /\ Restored(g) \in Scope /\ Len(scopes) <= MaxDepth
      BY <1>6, <2>2, RestoredType DEF Call
    <3>2. /\ scopes' \in Seq(Scope) /\ Len(scopes') = Len(scopes) + 1
          /\ Len(scopes') \in 1..(MaxDepth + 1)
      BY <3>1 DEF TypeOK
    <3>3. env' \in [Envs -> Scope \cup {Null}]
      BY <1>6, <2>2 DEF Call, abfp_lambda_restore, TypeOK
    <3>4. lax' \in 0..Len(scopes')
      BY <1>6, <2>2, <3>2 DEF Call, TypeOK
    <3> QED
      BY <1>6, <2>2, <3>2, <3>3, <3>4 DEF Call, TypeOK
  <2> QED
    BY <2>1, <2>2
<1>7. CASE Return
  <2>1. /\ scopes' \in Seq(Scope) /\ Len(scopes') = Len(scopes) - 1
        /\ Len(scopes') \in 1..(MaxDepth + 1)
    BY <1>7 DEF Return, TypeOK
  <2>2. lax' \in 0..Len(scopes')
    BY <1>7, <2>1 DEF Return, TypeOK
  <2> QED
    BY <1>7, <2>1, <2>2 DEF Return, TypeOK
<1>8. CASE UNCHANGED vars
  BY <1>8 DEF vars, TypeOK
<1> QED
  BY <1>1, <1>2, <1>3, <1>4, <1>5, <1>6, <1>7, <1>8 DEF Next

\* Scopes, captures and what functions restore keep their types, with any call depth.
THEOREM TypeCorrect == Spec => []TypeOK
<1>1. Init => TypeOK
  BY DEF Init, TypeOK, Empty, Scope
<1> QED
  BY <1>1, TypeStep, PTL DEF Spec

-----------------------------------------------------------------------------
(* Owners.                                                                 *)

IInv == TypeOK /\ Drawn /\ OneOwner /\ FirstCallWorks

\* What is there and what functions restore changes in three kinds of step only.
Kept == UNCHANGED <<functions, env, used, called>>

LEMMA KeptInv == IInv /\ TypeOK' /\ Kept => IInv'
BY DEF IInv, Kept, Drawn, OneOwner, FirstCallWorks, Gone

\* The new list of captures: a name that was never drawn, then those of the old function.
LEMMA NewList ==
  ASSUME IInv, NEW f \in Functions, NEW e \in Envs, functions[f] # Null
  PROVE  LET es == <<e>> \o functions[f] IN
         /\ DOMAIN es = 1..(Len(functions[f]) + 1) /\ es[1] = e
         /\ \A i \in DOMAIN es : i # 1 =>
               i - 1 \in DOMAIN functions[f] /\ es[i] = functions[f][i - 1]
BY DEF IInv, TypeOK

LEMMA LambdaInv ==
  ASSUME IInv, TypeOK', NEW f \in Functions, NEW g \in Functions, NEW vs, NEW e \in Envs,
         abfp_lambda(f, g, vs, e)
  PROVE  IInv'
<1> DEFINE es == <<e>> \o functions[f]
           fn(h) == functions'[h]
<1>1. functions[f] # Null /\ e \notin used
  BY DEF abfp_lambda, Draw
<1>2. \A h \in Functions : fn(h) = IF h = g THEN es ELSE IF h = f THEN Null ELSE functions[h]
  BY DEF abfp_lambda, IInv, TypeOK
<1>3. /\ DOMAIN es = 1..(Len(functions[f]) + 1) /\ es[1] = e
      /\ \A i \in DOMAIN es : i # 1 =>
            i - 1 \in DOMAIN functions[f] /\ es[i] = functions[f][i - 1]
  BY <1>1, NewList
<1>4. used' = used \cup {e} /\ (\A d \in Envs : d # e => env'[d] = env[d]) /\ env'[e] = Captured(vs)
  BY DEF abfp_lambda, IInv, TypeOK
<1>5. env'[e] # Null
  BY <1>4, CapturedType DEF IInv, Scope
<1>6. \A h \in Functions : functions[h] # Null =>
         \A i \in DOMAIN functions[h] : functions[h][i] \in used /\ functions[h][i] \in Envs
  BY DEF IInv, Drawn, TypeOK
<1> HIDE DEF es
<1>7. Drawn'
  <2>1. \A h \in Functions : fn(h) # Null => \A i \in DOMAIN fn(h) : fn(h)[i] \in used'
    BY <1>1, <1>2, <1>3, <1>4, <1>6
  <2>2. \A d \in Envs : env'[d] # Null => d \in used'
    BY <1>4 DEF IInv, Drawn
  <2> QED
    BY <2>1, <2>2 DEF Drawn
<1>8. OneOwner'
  <2> SUFFICES ASSUME NEW h \in Functions, NEW k \in Functions, fn(h) # Null, fn(k) # Null,
                      NEW i \in DOMAIN fn(h), NEW j \in DOMAIN fn(k), fn(h)[i] = fn(k)[j]
               PROVE  h = k /\ i = j
    BY DEF OneOwner
  <2>0. \A m, n \in Functions : functions[m] # Null /\ functions[n] # Null =>
           \A p \in DOMAIN functions[m], q \in DOMAIN functions[n] :
               functions[m][p] = functions[n][q] => m = n /\ p = q
    BY DEF IInv, OneOwner
  <2> HIDE DEF fn
  <2>1. CASE h = g /\ k = g
    <3>1. fn(h) = es /\ fn(k) = es
      BY <1>2, <2>1
    <3>2. CASE i = 1 /\ j = 1
      BY <2>1, <3>2
    <3>3. CASE i = 1 /\ j # 1
      BY <1>1, <1>3, <1>6, <3>1, <3>3
    <3>4. CASE i # 1 /\ j = 1
      BY <1>1, <1>3, <1>6, <3>1, <3>4
    <3>5. CASE i # 1 /\ j # 1
      <4>1. i - 1 = j - 1
        BY <1>1, <1>3, <2>0, <3>1, <3>5
      <4> QED
        BY <1>3, <2>1, <3>1, <4>1
    <3> QED
      BY <3>2, <3>3, <3>4, <3>5
  <2>2. CASE h = g /\ k # g
    <3>1. fn(h) = es /\ k # f /\ fn(k) = functions[k]
      BY <1>2, <2>2
    <3>2. CASE i = 1
      BY <1>1, <1>3, <1>6, <3>1, <3>2
    <3>3. CASE i # 1
      BY <1>1, <1>3, <2>0, <3>1, <3>3
    <3> QED
      BY <3>2, <3>3
  <2>3. CASE h # g /\ k = g
    <3>1. fn(k) = es /\ h # f /\ fn(h) = functions[h]
      BY <1>2, <2>3
    <3>2. CASE j = 1
      BY <1>1, <1>3, <1>6, <3>1, <3>2
    <3>3. CASE j # 1
      BY <1>1, <1>3, <2>0, <3>1, <3>3
    <3> QED
      BY <3>2, <3>3
  <2>4. CASE h # g /\ k # g
    <3>1. fn(h) = functions[h] /\ fn(k) = functions[k]
      BY <1>2, <2>4
    <3> QED
      BY <2>0, <3>1
  <2> QED
    BY <2>1, <2>2, <2>3, <2>4
<1>9. FirstCallWorks'
  <2> SUFFICES ASSUME NEW h \in Functions, h \notin called', fn(h) # Null, NEW i \in DOMAIN fn(h)
               PROVE  env'[fn(h)[i]] # Null
    BY DEF FirstCallWorks, Gone
  <2>0. \A m \in Functions \ called : functions[m] # Null =>
            \A p \in DOMAIN functions[m] : env[functions[m][p]] # Null
    BY DEF IInv, FirstCallWorks, Gone
  <2>1. called' = IF f \in called THEN called \cup {g} ELSE called \ {g}
    BY DEF abfp_lambda
  <2> HIDE DEF fn
  <2>2. CASE h = g
    <3>1. f \notin called /\ fn(h) = es
      BY <1>2, <2>1, <2>2
    <3>2. CASE i = 1
      BY <1>3, <1>5, <3>1, <3>2
    <3>3. CASE i # 1
      BY <1>1, <1>3, <1>4, <1>6, <2>0, <3>1, <3>3
    <3> QED
      BY <3>2, <3>3
  <2>3. CASE h # g
    <3>1. h \notin called /\ fn(h) = functions[h]
      BY <1>2, <2>1, <2>3
    <3> QED
      BY <1>1, <1>4, <1>6, <2>0, <3>1
  <2> QED
    BY <2>2, <2>3
<1> QED
  BY <1>7, <1>8, <1>9 DEF IInv

LEMMA CallInv ==
  ASSUME IInv, TypeOK', NEW g \in Functions, NEW guarded \in BOOLEAN, Call(g, guarded)
  PROVE  IInv'
<1>1. CASE lax = 0 /\ ~guarded /\ Gone(g)
  BY <1>1, KeptInv DEF Call, Kept
<1>2. CASE ~(lax = 0 /\ ~guarded /\ Gone(g))
  <2>1. functions' = functions /\ used' = used /\ called' = called \cup {g} /\ functions[g] # Null
    BY <1>2 DEF Call
  <2>2. \A d \in Envs : env'[d] = IF \E k \in DOMAIN functions[g] : functions[g][k] = d
                                    THEN Null ELSE env[d]
    BY <1>2 DEF Call, abfp_lambda_restore
  <2>3. Drawn' /\ OneOwner'
    BY <2>1, <2>2 DEF IInv, Drawn, OneOwner
  <2>4. ASSUME NEW h \in Functions, h \notin called', functions[h] # Null, NEW i \in DOMAIN functions[h]
        PROVE  env'[functions[h][i]] # Null
    <3>1. h # g /\ h \notin called
      BY <2>1, <2>4
    <3>2. functions[h][i] \in Envs /\ env[functions[h][i]] # Null
      BY <3>1, <2>4 DEF IInv, TypeOK, FirstCallWorks, Gone
    <3>3. ~\E k \in DOMAIN functions[g] : functions[g][k] = functions[h][i]
      BY <2>1, <2>4, <3>1 DEF IInv, OneOwner
    <3> QED
      BY <2>2, <3>2, <3>3
  <2>5. FirstCallWorks'
    BY <2>1, <2>4 DEF FirstCallWorks, Gone
  <2> QED
    BY <2>3, <2>5 DEF IInv
<1> QED
  BY <1>1, <1>2

LEMMA DefineInv ==
  ASSUME IInv, TypeOK', NEW f \in Functions, Define(f)
  PROVE  IInv'
<1>1. \A h \in Functions : functions'[h] = IF h = f THEN <<>> ELSE functions[h]
  BY DEF Define, IInv, TypeOK
<1>2. DOMAIN <<>> = {}
  OBVIOUS
<1>3. UNCHANGED <<env, used>> /\ called' = called \ {f}
  BY DEF Define
<1> QED
  BY <1>1, <1>2, <1>3 DEF IInv, Drawn, OneOwner, FirstCallWorks, Gone

LEMMA InvStep == IInv /\ [Next]_vars => IInv'
<1> SUFFICES ASSUME IInv, [Next]_vars PROVE IInv'
  OBVIOUS
<1>a. TypeOK'
  BY TypeStep DEF IInv
<1>1. ASSUME NEW v \in Names, NEW w \in Words, Assign(v, w) \/ Local(v, w) PROVE IInv'
  BY <1>1, <1>a, KeptInv DEF Assign, Local, SetIn, Kept
<1>2. ASSUME NEW f \in Functions, Define(f) PROVE IInv'
  BY <1>2, <1>a, DefineInv
<1>3. ASSUME NEW f \in Functions, NEW vs \in Lists, LambdaFails(f, vs) PROVE IInv'
  BY <1>3, <1>a, KeptInv DEF LambdaFails, Kept
<1>4. ASSUME NEW f \in Functions, NEW g \in Functions, NEW vs \in Lists, NEW e \in Envs,
             abfp_lambda(f, g, vs, e)
      PROVE  IInv'
  BY <1>4, <1>a, LambdaInv
<1>5. ASSUME NEW g \in Functions, NEW guarded \in BOOLEAN, Call(g, guarded) PROVE IInv'
  BY <1>5, <1>a, CallInv
<1>6. CASE Return
  BY <1>6, <1>a, KeptInv DEF Return, Kept
<1>7. CASE UNCHANGED vars
  BY <1>7, <1>a, KeptInv DEF vars, Kept
<1> QED
  BY <1>1, <1>2, <1>3, <1>4, <1>5, <1>6, <1>7 DEF Next

LEMMA InvHolds == Spec => []IInv
<1>1. Init => IInv
  <2> SUFFICES ASSUME Init PROVE IInv
    OBVIOUS
  <2>1. TypeOK
    BY DEF Init, TypeOK, Empty, Scope
  <2> QED
    BY <2>1 DEF Init, IInv, Drawn, OneOwner, FirstCallWorks
<1> QED
  BY <1>1, InvStep, PTL DEF Spec

\* No environment is restored twice or read after it was freed.
THEOREM OwnersDistinct == Spec => []OneOwner
<1>1. IInv => OneOwner
  BY DEF IInv
<1> QED
  BY <1>1, InvHolds, PTL

\* Whatever else was made, redefined or called, the first call of a function does not fail.
THEOREM FirstCallsWork == Spec => []FirstCallWorks
<1>1. IInv => FirstCallWorks
  BY DEF IInv
<1> QED
  BY <1>1, InvHolds, PTL

-----------------------------------------------------------------------------
(* Closures.                                                               *)

LEMMA Empties == C!Empty = Empty /\ Empty \in Scope
BY DEF C!Empty, Empty, Scope

LEMMA LookupIsLast == ASSUME NEW s, NEW v PROVE C!Last(s, v) = Lookup(s, v)
BY DEF C!Last, Lookup, Innermost, Holders

\* A step that changes neither captures nor functions changes no closure.
LEMMA ClosuresStay == UNCHANGED <<functions, env>> => UNCHANGED closures
BY DEF closures, Held

LEMMA DefineRefined ==
  ASSUME TypeOK, NEW f \in Functions, Define(f)
  PROVE  C!Define(f)
<1>1. \A h \in Functions : functions'[h] = IF h = f THEN <<>> ELSE functions[h]
  BY DEF Define, TypeOK
<1>2. env' = env /\ scopes' = scopes
  BY DEF Define
<1>3. <<>> # Null
  <2>1. <<>> \in Seq(Envs)
    OBVIOUS
  <2> QED
    BY <2>1
<1>4. [k \in DOMAIN <<>> |-> Held(<<>>[k])] = <<>>
  <2>1. [k \in 1..0 |-> Held(<<>>[k])] \in Seq(Scope)
    OBVIOUS
  <2> QED
    BY <2>1
<1>5. \A h \in Functions \ {f} : closures'[h] = closures[h]
  BY <1>1, <1>2 DEF closures, Held
<1>6. closures'[f] = <<>>
  BY <1>1, <1>2, <1>3, <1>4 DEF closures, Held
<1>7. closures' = [closures EXCEPT ![f] = <<>>]
  <2>1. closures \in [Functions -> {closures[h] : h \in Functions}]
    BY DEF closures
  <2>2. closures' = [h \in Functions |-> closures'[h]]
    BY DEF closures
  <2> QED
    BY <1>5, <1>6, <2>1, <2>2
<1> QED
  BY <1>2, <1>7 DEF C!Define

LEMMA LambdaRefined ==
  ASSUME IInv, NEW f \in Functions, NEW g \in Functions, NEW vs \in Lists, NEW e \in Envs,
         abfp_lambda(f, g, vs, e)
  PROVE  \E V \in SUBSET Names : C!Capture(f, g, V)
<1> DEFINE V == {v \in Names : \E k \in DOMAIN vs : vs[k] = v}
           taken == [v \in Names |-> IF v \in V THEN C!Last(scopes, v) ELSE Null]
           es == <<e>> \o functions[f]
           old == [k \in DOMAIN functions[f] |-> Held(functions[f][k])]
<1>1. taken = Captured(vs)
  BY LookupIsLast DEF Captured, find_variable
<1>2. functions[f] # Null /\ e \notin used /\ functions[f] \in Seq(Envs)
  BY DEF abfp_lambda, Draw, IInv, TypeOK
<1>3. closures[f] = old /\ closures[f] # Null
  <2>1. old \in Seq(Scope)
    BY <1>2, HeldType DEF IInv
  <2>2. DOMAIN old = DOMAIN functions[f]
    OBVIOUS
  <2> QED
    BY <1>2, <2>1 DEF closures
<1>4. env' = [env EXCEPT ![e] = taken] /\ scopes' = scopes
  BY <1>1 DEF abfp_lambda
<1>5. taken \in Scope
  BY <1>1, CapturedType DEF IInv
<1>6. /\ DOMAIN es = 1..(Len(functions[f]) + 1) /\ es[1] = e
      /\ \A i \in DOMAIN es : i # 1 =>
            i - 1 \in DOMAIN functions[f] /\ es[i] = functions[f][i - 1]
  BY <1>2, NewList
<1>7. \A h \in Functions : functions'[h] = IF h = g THEN es ELSE IF h = f THEN Null ELSE functions[h]
  BY DEF abfp_lambda, IInv, TypeOK
<1>8. ASSUME NEW d \in Envs, d # e PROVE Held(d)' = Held(d)
  BY <1>4, <1>8 DEF Held, IInv, TypeOK
<1>9. Held(e)' = taken
  <2>1. env'[e] = taken /\ taken # Null
    BY <1>4, <1>5 DEF IInv, TypeOK
  <2> QED
    BY <2>1 DEF Held
<1>10. \A h \in Functions : functions[h] # Null =>
         \A i \in DOMAIN functions[h] : functions[h][i] # e /\ functions[h][i] \in Envs
  BY <1>2 DEF IInv, Drawn, TypeOK
<1> HIDE DEF es, taken, V
<1>11. closures'[g] = <<taken>> \o old
  <2> DEFINE now(d) == IF env'[d] = Null THEN Empty ELSE env'[d]
  <2>1. closures'[g] = [k \in DOMAIN es |-> now(es[k])]
    <3>1. es # Null
      <4>1. es \in Seq(Envs)
        BY <1>2 DEF es
      <4> QED
        BY <4>1
    <3> QED
      BY <1>7, <3>1 DEF closures, Held
  <2>2. ASSUME NEW k \in DOMAIN es PROVE now(es[k]) = IF k = 1 THEN taken ELSE old[k - 1]
    <3>1. CASE k = 1
      BY <1>6, <1>9, <3>1 DEF Held
    <3>2. CASE k # 1
      <4>1. PICK d \in Envs : d = es[k] /\ d # e /\ d = functions[f][k - 1] /\ k - 1 \in DOMAIN functions[f]
        BY <1>2, <1>6, <1>10, <3>2
      <4>2. now(d) = Held(d)
        BY <1>8, <4>1 DEF Held
      <4> QED
        BY <3>2, <4>1, <4>2
    <3> QED
      BY <3>1, <3>2
  <2>3. old \in Seq(Scope) /\ Len(old) = Len(functions[f])
    BY <1>2, HeldType DEF IInv
  <2>4. <<taken>> \o old = [k \in 1..(Len(functions[f]) + 1) |-> IF k = 1 THEN taken ELSE old[k - 1]]
    BY <1>5, <2>3
  <2> HIDE DEF now, old
  <2>5. closures'[g] = [k \in DOMAIN es |-> IF k = 1 THEN taken ELSE old[k - 1]]
    BY <2>1, <2>2
  <2> QED
    BY <1>6, <2>4, <2>5
<1>12. f # g => closures'[f] = Null
  BY <1>7 DEF closures
<1>13. ASSUME NEW h \in Functions, h # f, h # g PROVE closures'[h] = closures[h]
  BY <1>7, <1>8, <1>10, <1>13 DEF closures, Held
<1>14. closures' = [closures EXCEPT ![f] = Null, ![g] = <<taken>> \o closures[f]]
  <2>1. closures = [h \in Functions |-> closures[h]] /\ closures' = [h \in Functions |-> closures'[h]]
    BY DEF closures
  <2> QED
    BY <1>3, <1>11, <1>12, <1>13, <2>1
<1> QED
  BY <1>3, <1>4, <1>14 DEF C!Capture, taken, V

\* What a call leaves of the captures, and what the function finds.
LEMMA CallRefined ==
  ASSUME IInv, NEW g \in Functions, NEW guarded \in BOOLEAN, Call(g, guarded),
         ~(lax = 0 /\ ~guarded /\ Gone(g))
  PROVE  C!Call(g)
<1> DEFINE old == [k \in DOMAIN functions[g] |-> Held(functions[g][k])]
<1>1. functions[g] # Null /\ functions[g] \in Seq(Envs) /\ functions' = functions
  BY DEF Call, IInv, TypeOK
<1>2. closures[g] = old /\ closures[g] # Null
  <2>1. old \in Seq(Scope)
    BY <1>1, HeldType DEF IInv
  <2> QED
    BY <1>1, <2>1 DEF closures
<1>3. scopes' = Append(scopes, [v \in Names |-> C!Last(closures[g], v)])
  BY <1>2, LookupIsLast DEF Call, Restored
<1>4. \A d \in Envs : env'[d] = IF \E k \in DOMAIN functions[g] : functions[g][k] = d
                                  THEN Null ELSE env[d]
  BY DEF Call, abfp_lambda_restore
<1>5. \A k \in DOMAIN functions[g] : Held(functions[g][k])' = Empty
  BY <1>1, <1>4 DEF Held
<1>6. closures'[g] = [k \in DOMAIN old |-> Empty]
  BY <1>1, <1>5 DEF closures, Held
<1>7. ASSUME NEW h \in Functions, h # g, functions[h] # Null, NEW k \in DOMAIN functions[h]
      PROVE  Held(functions[h][k])' = Held(functions[h][k])
  <2>1. functions[h][k] \in Envs
    BY <1>7 DEF IInv, TypeOK
  <2>2. ~\E j \in DOMAIN functions[g] : functions[g][j] = functions[h][k]
    BY <1>1, <1>7 DEF IInv, OneOwner
  <2> QED
    BY <1>1, <1>4, <2>1, <2>2 DEF Held
<1>8. ASSUME NEW h \in Functions, h # g PROVE closures'[h] = closures[h]
  BY <1>1, <1>7, <1>8 DEF closures, Held
<1>9. closures' = [closures EXCEPT ![g] = [k \in DOMAIN closures[g] |-> Empty]]
  <2>1. closures = [h \in Functions |-> closures[h]] /\ closures' = [h \in Functions |-> closures'[h]]
    BY DEF closures
  <2> QED
    BY <1>2, <1>6, <1>8, <2>1
<1> QED
  BY <1>2, <1>3, <1>9, Empties DEF C!Call

\* Every step is one of Closures, or changes nothing there.
LEMMA StepRefined == IInv /\ [Next]_vars => [C!Next]_<<scopes, closures>>
<1> SUFFICES ASSUME IInv, [Next]_vars PROVE [C!Next]_<<scopes, closures>>
  OBVIOUS
<1>a. 1 \in DOMAIN scopes /\ Len(scopes) \in DOMAIN scopes /\ scopes \in Seq(Scope)
  BY DEF IInv, TypeOK
<1>1. ASSUME NEW v \in Names, NEW w \in Words, Assign(v, w) \/ Local(v, w)
      PROVE  C!SetVariable(v, w)
  <2>1. PICK k \in DOMAIN scopes : SetIn(k, v, w)
    BY <1>1, <1>a, InnermostHolds DEF Assign, Local
  <2>2. UNCHANGED closures
    BY <2>1, ClosuresStay DEF SetIn
  <2> QED
    BY <2>1, <2>2 DEF SetIn, C!SetVariable
<1>2. ASSUME NEW f \in Functions, Define(f) PROVE C!Define(f)
  BY <1>2, DefineRefined DEF IInv
<1>3. ASSUME NEW f \in Functions, NEW vs \in Lists, LambdaFails(f, vs)
      PROVE  UNCHANGED <<scopes, closures>>
  BY <1>3, ClosuresStay DEF LambdaFails
<1>4. ASSUME NEW f \in Functions, NEW g \in Functions, NEW vs \in Lists, NEW e \in Envs,
             abfp_lambda(f, g, vs, e)
      PROVE  C!Next
  BY <1>4, LambdaRefined DEF C!Next
<1>5. ASSUME NEW g \in Functions, NEW guarded \in BOOLEAN, Call(g, guarded)
      PROVE  [C!Next]_<<scopes, closures>>
  <2>1. CASE lax = 0 /\ ~guarded /\ Gone(g)
    BY <1>5, <2>1, ClosuresStay DEF Call
  <2>2. CASE ~(lax = 0 /\ ~guarded /\ Gone(g))
    BY <1>5, <2>2, CallRefined DEF C!Next
  <2> QED
    BY <2>1, <2>2
<1>6. CASE Return
  <2>1. UNCHANGED closures
    BY <1>6, ClosuresStay DEF Return
  <2> QED
    BY <1>6, <2>1 DEF Return, C!Return, C!Next
<1>7. CASE UNCHANGED vars
  BY <1>7, ClosuresStay DEF vars
<1> QED
  BY <1>1, <1>2, <1>3, <1>4, <1>5, <1>6, <1>7 DEF Next, C!Next

\* For any functions, variables and call depth, lambdas are closures by value that can be
\* used once.
THEOREM LambdasAreClosures == Spec => ImplementsClosures
<1>1. Init => C!Init
  <2> SUFFICES ASSUME Init PROVE C!Init
    OBVIOUS
  <2>1. closures = [f \in Functions |-> Null]
    BY DEF Init, closures
  <2> QED
    BY <2>1, Empties DEF Init, C!Init
<1> QED
  BY <1>1, StepRefined, InvHolds, PTL DEF Spec, ImplementsClosures, C!Spec
=============================================================================
