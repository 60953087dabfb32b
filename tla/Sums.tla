-------------------------------- MODULE Sums --------------------------------
(***************************************************************************)
(* Facts about SumFunctionOnSet(f, S), the sum of f over a finite set S.   *)
(* Induction over S is done with a smallest set that does not have the     *)
(* property: the strict subset ordering of a finite set is well founded.   *)
(***************************************************************************)
EXTENDS Functions, FiniteSetTheorems, TLAPS

(* The element that the sum takes first. *)
Pick(s) == CHOOSE x \in s : TRUE

(* g has the sum of every subset of S. *)
Totals(g, f, S) ==
  g = [s \in SUBSET S |-> IF s = {} THEN 0 ELSE f[Pick(s)] + g[s \ {Pick(s)}]]

LEMMA SumIs ==
  ASSUME NEW f, NEW S
  PROVE  SumFunctionOnSet(f, S) = (CHOOSE g : Totals(g, f, S))[S]
BY DEF SumFunctionOnSet, FoldFunctionOnSet, MapThenFoldSet, Totals, Pick

(* A family of subsets of a finite set has a smallest member. *)
LEMMA Smallest ==
  ASSUME NEW S, IsFiniteSet(S), NEW F, F \subseteq SUBSET S, F # {}
  PROVE  \E s \in F : \A t \in F : t \subseteq s => t = s
<1>1. IsWellFoundedOn(StrictSubsetOrdering(S), SUBSET S)
  BY FS_StrictSubsetOrderingWellFounded, FS_FiniteSubsetsOfFinite
<1>2. PICK s \in F : \A t \in F : ~(<<t, s>> \in StrictSubsetOrdering(S))
  BY <1>1, WFMin
<1> QED BY <1>2 DEF StrictSubsetOrdering

LEMMA PickIn == \A s : s # {} => Pick(s) \in s
BY DEF Pick

(* Two tables agree where both are defined. *)
LEMMA TotalsAgree ==
  ASSUME NEW f, NEW S, IsFiniteSet(S), NEW T \in SUBSET S,
         NEW g, Totals(g, f, S), NEW h, Totals(h, f, T)
  PROVE  \A s \in SUBSET T : g[s] = h[s]
<1> DEFINE F == {s \in SUBSET T : g[s] # h[s]}
<1> SUFFICES ASSUME F # {} PROVE FALSE
  OBVIOUS
<1>1. IsFiniteSet(T) BY FS_Subset
<1>2. PICK s \in F : \A t \in F : t \subseteq s => t = s
  <2>1. F \subseteq SUBSET T OBVIOUS
  <2> HIDE DEF F
  <2> QED BY <1>1, <2>1, Smallest
<1>3. s \in SUBSET T /\ s \in SUBSET S /\ g[s] # h[s] OBVIOUS
<1>4. /\ g[s] = IF s = {} THEN 0 ELSE f[Pick(s)] + g[s \ {Pick(s)}]
      /\ h[s] = IF s = {} THEN 0 ELSE f[Pick(s)] + h[s \ {Pick(s)}]
  BY <1>3 DEF Totals
<1>5. s # {} BY <1>3, <1>4
<1>6. g[s \ {Pick(s)}] = h[s \ {Pick(s)}]
  BY <1>2, <1>3, <1>5, PickIn
<1> QED BY <1>3, <1>4, <1>5, <1>6

(* Every finite set has its table. *)
LEMMA TotalsExist ==
  ASSUME NEW f, NEW S, IsFiniteSet(S)
  PROVE  Totals(CHOOSE g : Totals(g, f, S), f, S)
<1> DEFINE F == {s \in SUBSET S : ~\E g : Totals(g, f, s)}
<1> SUFFICES ASSUME F # {} PROVE FALSE
  OBVIOUS
<1>1. PICK s \in F : \A t \in F : t \subseteq s => t = s
  <2>1. F \subseteq SUBSET S OBVIOUS
  <2> HIDE DEF F
  <2> QED BY <2>1, Smallest
<1> DEFINE G(t) == CHOOSE g : Totals(g, f, t)
           h == [t \in SUBSET s |-> IF t # s THEN G(t)[t]
                                    ELSE IF s = {} THEN 0
                                    ELSE f[Pick(s)] + G(s \ {Pick(s)})[s \ {Pick(s)}]]
<1>2. s \in SUBSET S /\ IsFiniteSet(s) BY FS_Subset
<1>3. ASSUME NEW t \in SUBSET s, t # s PROVE Totals(G(t), f, t)
  <2>1. t \notin F BY <1>1, <1>3
  <2>2. \E g : Totals(g, f, t) BY <2>1, <1>2
  <2> QED BY <2>2
<1>4. ASSUME NEW t \in SUBSET s, t # s, t # {}
      PROVE  G(t)[t] = f[Pick(t)] + G(t \ {Pick(t)})[t \ {Pick(t)}]
  <2> DEFINE u == t \ {Pick(t)}
  <2>1. Totals(G(t), f, t) BY <1>3, <1>4
  <2>2. u \in SUBSET s /\ u \in SUBSET t /\ u # s BY <1>4, PickIn
  <2>3. Totals(G(u), f, u) BY <1>3, <2>2
  <2>4. IsFiniteSet(t) BY <1>2, FS_Subset
  <2> HIDE DEF G, u
  <2>5. \A v \in SUBSET u : G(t)[v] = G(u)[v]
    BY <2>1, <2>2, <2>3, <2>4, TotalsAgree
  <2>6. G(t)[t] = f[Pick(t)] + G(t)[t \ {Pick(t)}] BY <2>1, <1>4 DEF Totals
  <2> QED BY <2>5, <2>6 DEF u
<1>5. ASSUME NEW t \in SUBSET s, t # s, t = {} PROVE G(t)[t] = 0
  <2>1. Totals(G(t), f, t) BY <1>3, <1>5
  <2> HIDE DEF G
  <2> QED BY <2>1, <1>5 DEF Totals
<1> HIDE DEF G, F
<1>6. \A t \in SUBSET s :
        h[t] = IF t = {} THEN 0 ELSE f[Pick(t)] + h[t \ {Pick(t)}]
  <2> SUFFICES ASSUME NEW t \in SUBSET s
               PROVE  h[t] = IF t = {} THEN 0 ELSE f[Pick(t)] + h[t \ {Pick(t)}]
    OBVIOUS
  <2>1. t # {} => /\ t \ {Pick(t)} \in SUBSET s /\ t \ {Pick(t)} # s
                  /\ h[t \ {Pick(t)}] = G(t \ {Pick(t)})[t \ {Pick(t)}]
    BY PickIn
  <2>2. CASE t = s BY <2>1, <2>2
  <2>3. CASE t # s BY <2>1, <2>3, <1>4, <1>5
  <2> QED BY <2>2, <2>3
<1>7. h = [t \in SUBSET s |-> h[t]] OBVIOUS
<1> HIDE DEF h
<1>8. Totals(h, f, s) BY <1>6, <1>7 DEF Totals
<1> QED BY <1>1, <1>8 DEF F

(* What the definition of the sum says. *)
LEMMA SumDef ==
  ASSUME NEW f, NEW S, IsFiniteSet(S)
  PROVE  SumFunctionOnSet(f, S) =
           IF S = {} THEN 0 ELSE f[Pick(S)] + SumFunctionOnSet(f, S \ {Pick(S)})
<1> DEFINE G(t) == CHOOSE g : Totals(g, f, t)
           u == S \ {Pick(S)}
<1>1. Totals(G(S), f, S) BY TotalsExist
<1>2. IsFiniteSet(u) /\ u \in SUBSET S BY FS_Subset
<1>3. Totals(G(u), f, u) BY <1>2, TotalsExist
<1>4. SumFunctionOnSet(f, S) = G(S)[S] /\ SumFunctionOnSet(f, u) = G(u)[u]
  BY SumIs
<1> HIDE DEF G
<1>5. G(S)[S] = IF S = {} THEN 0 ELSE f[Pick(S)] + G(S)[u]
  BY <1>1 DEF Totals
<1>6. G(S)[u] = G(u)[u]
  <2> HIDE DEF u
  <2> QED BY <1>1, <1>2, <1>3, TotalsAgree
<1> QED BY <1>4, <1>5, <1>6

LEMMA SumEmpty == ASSUME NEW f PROVE SumFunctionOnSet(f, {}) = 0
BY SumDef, FS_EmptySet

(* Sums of natural numbers are natural numbers, and any element may be       *)
(* taken first.                                                              *)
LEMMA SumNat ==
  ASSUME NEW f, NEW S, IsFiniteSet(S), \A x \in S : f[x] \in Nat
  PROVE  SumFunctionOnSet(f, S) \in Nat
<1> DEFINE F == {s \in SUBSET S : SumFunctionOnSet(f, s) \notin Nat}
<1> SUFFICES ASSUME F # {} PROVE FALSE
  OBVIOUS
<1>1. PICK s \in F : \A t \in F : t \subseteq s => t = s
  <2>1. F \subseteq SUBSET S OBVIOUS
  <2> HIDE DEF F
  <2> QED BY <2>1, Smallest
<1>2. s \in SUBSET S /\ IsFiniteSet(s) /\ SumFunctionOnSet(f, s) \notin Nat BY FS_Subset
<1>3. s # {} BY <1>2, SumEmpty
<1>4. s \ {Pick(s)} \notin F BY <1>1, <1>3, PickIn
<1>5. SumFunctionOnSet(f, s \ {Pick(s)}) \in Nat BY <1>2, <1>4
<1>6. f[Pick(s)] \in Nat BY <1>2, <1>3, PickIn
<1> QED BY <1>2, <1>3, <1>5, <1>6, SumDef

LEMMA SumRemove ==
  ASSUME NEW f, NEW S, IsFiniteSet(S), \A x \in S : f[x] \in Nat, NEW x \in S
  PROVE  SumFunctionOnSet(f, S) = f[x] + SumFunctionOnSet(f, S \ {x})
<1> DEFINE Sum(s) == SumFunctionOnSet(f, s)
           F == {s \in SUBSET S : \E y \in s : Sum(s) # f[y] + Sum(s \ {y})}
<1> SUFFICES ASSUME F # {} PROVE FALSE
  OBVIOUS
<1>1. PICK s \in F : \A t \in F : t \subseteq s => t = s
  <2>1. F \subseteq SUBSET S OBVIOUS
  <2> HIDE DEF F
  <2> QED BY <2>1, Smallest
<1>2. s \in SUBSET S /\ IsFiniteSet(s) BY FS_Subset
<1>3. PICK y \in s : Sum(s) # f[y] + Sum(s \ {y}) OBVIOUS
<1> DEFINE p == Pick(s)
<1>4. p \in s /\ Sum(s) = f[p] + Sum(s \ {p}) BY <1>2, <1>3, PickIn, SumDef
<1>5. p # y BY <1>3, <1>4
<1>6. s \ {p} \in SUBSET S /\ s \ {p} # s /\ s \ {p} \notin F BY <1>1, <1>2, <1>4
<1>7. s \ {y} \in SUBSET S /\ s \ {y} # s /\ s \ {y} \notin F BY <1>1, <1>2, <1>3
<1>8. Sum(s \ {p}) = f[y] + Sum((s \ {p}) \ {y}) BY <1>3, <1>5, <1>6
<1>9. Sum(s \ {y}) = f[p] + Sum((s \ {y}) \ {p}) BY <1>4, <1>5, <1>7
<1>10. (s \ {p}) \ {y} = (s \ {y}) \ {p} OBVIOUS
<1>11. f[p] \in Nat /\ f[y] \in Nat BY <1>2, <1>3, <1>4
<1>12. Sum((s \ {y}) \ {p}) \in Nat
  <2>1. (s \ {y}) \ {p} \in SUBSET S /\ IsFiniteSet((s \ {y}) \ {p}) BY <1>2, FS_Subset
  <2> QED BY <2>1, SumNat
<1> HIDE DEF Sum, p
<1> QED BY <1>3, <1>4, <1>8, <1>9, <1>10, <1>11, <1>12

LEMMA SumAdd ==
  ASSUME NEW f, NEW S, IsFiniteSet(S), NEW x, x \notin S, \A y \in S \cup {x} : f[y] \in Nat
  PROVE  SumFunctionOnSet(f, S \cup {x}) = SumFunctionOnSet(f, S) + f[x]
<1>1. IsFiniteSet(S \cup {x}) BY FS_AddElement
<1>2. (S \cup {x}) \ {x} = S OBVIOUS
<1>3. SumFunctionOnSet(f, S \cup {x}) = f[x] + SumFunctionOnSet(f, (S \cup {x}) \ {x})
  BY <1>1, SumRemove
<1>4. SumFunctionOnSet(f, S) \in Nat /\ f[x] \in Nat BY SumNat
<1>5. SumFunctionOnSet(f, S \cup {x}) = f[x] + SumFunctionOnSet(f, S) BY <1>2, <1>3
<1> QED BY <1>4, <1>5

(* The sum depends on the values over S only. *)
LEMMA SumSame ==
  ASSUME NEW f, NEW g, NEW S, IsFiniteSet(S), \A x \in S : f[x] = g[x]
  PROVE  SumFunctionOnSet(f, S) = SumFunctionOnSet(g, S)
<1> DEFINE F == {s \in SUBSET S : SumFunctionOnSet(f, s) # SumFunctionOnSet(g, s)}
<1> SUFFICES ASSUME F # {} PROVE FALSE
  OBVIOUS
<1>1. PICK s \in F : \A t \in F : t \subseteq s => t = s
  <2>1. F \subseteq SUBSET S OBVIOUS
  <2> HIDE DEF F
  <2> QED BY <2>1, Smallest
<1>2. /\ s \in SUBSET S /\ IsFiniteSet(s)
      /\ SumFunctionOnSet(f, s) # SumFunctionOnSet(g, s)
  BY FS_Subset
<1>3. s # {} BY <1>2, SumEmpty
<1>4. s \ {Pick(s)} \notin F BY <1>1, <1>3, PickIn
<1>5. SumFunctionOnSet(f, s \ {Pick(s)}) = SumFunctionOnSet(g, s \ {Pick(s)})
  BY <1>2, <1>4
<1>6. f[Pick(s)] = g[Pick(s)] BY <1>2, <1>3, PickIn
<1> QED BY <1>2, <1>3, <1>5, <1>6, SumDef

(* A part sums up to no more than the whole. *)
LEMMA SumPart ==
  ASSUME NEW f, NEW S, IsFiniteSet(S), \A x \in S : f[x] \in Nat, NEW T \in SUBSET S
  PROVE  SumFunctionOnSet(f, T) <= SumFunctionOnSet(f, S)
<1> DEFINE F == {s \in SUBSET S : T \subseteq s
                   /\ ~(SumFunctionOnSet(f, T) <= SumFunctionOnSet(f, s))}
<1> SUFFICES ASSUME F # {} PROVE FALSE
  OBVIOUS
<1>1. PICK s \in F : \A t \in F : t \subseteq s => t = s
  <2>1. F \subseteq SUBSET S OBVIOUS
  <2> HIDE DEF F
  <2> QED BY <2>1, Smallest
<1>2. /\ s \in SUBSET S /\ IsFiniteSet(s) /\ IsFiniteSet(T) /\ T \subseteq s
      /\ ~(SumFunctionOnSet(f, T) <= SumFunctionOnSet(f, s))
  BY FS_Subset
<1>3. SumFunctionOnSet(f, T) \in Nat BY <1>2, SumNat
<1>4. T # s BY <1>2, <1>3
<1>5. PICK x \in s : x \notin T BY <1>2, <1>4
<1>6. s \ {x} \notin F BY <1>1, <1>5
<1>7. SumFunctionOnSet(f, T) <= SumFunctionOnSet(f, s \ {x}) BY <1>2, <1>5, <1>6
<1>8. SumFunctionOnSet(f, s) = f[x] + SumFunctionOnSet(f, s \ {x})
  BY <1>2, <1>5, SumRemove
<1>9. IsFiniteSet(s \ {x}) /\ s \ {x} \in SUBSET S BY <1>2, FS_Subset
<1>10. SumFunctionOnSet(f, s \ {x}) \in Nat BY <1>9, SumNat
<1> QED BY <1>2, <1>3, <1>5, <1>7, <1>8, <1>10
=============================================================================
