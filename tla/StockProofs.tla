----------------------------- MODULE StockProofs -----------------------------
(***************************************************************************)
(* Proofs about the two copies of the stock of a product, for any number   *)
(* of orders, items, receptions, waste rows and quantities. They rest on   *)
(* what sums over finite sets are, from their definition.                  *)
(***************************************************************************)
EXTENDS StockProps, FiniteSetTheorems, TLAPS

(* Sums over finite sets *)

\* The element that is added first, and what a sum computes for each subset.
Uno(s) == CHOOSE x \in s : TRUE
Paso(f, w, S) == [s \in SUBSET S |-> IF s = {} THEN 0 ELSE w[Uno(s)] + f[s \ {Uno(s)}]]

\* SumFunctionOnSet is a function on the subsets that follows the steps.
LEMMA SumaEsPasos ==
  ASSUME NEW w, NEW S
  PROVE  SumFunctionOnSet(w, S) = (CHOOSE f : f = Paso(f, w, S))[S]
  BY DEF SumFunctionOnSet, FoldFunctionOnSet, MapThenFoldSet, Paso, Uno

\* Every set that is not empty has an element to start with.
LEMMA UnoEsSuyo ==
  ASSUME NEW s, s # {} PROVE Uno(s) \in s
  BY DEF Uno

\* Among some subsets of a finite set one has no other inside: the induction of
\* the lemmas below is on the smallest set that would fail them.
LEMMA ElMenor ==
  ASSUME NEW S, IsFiniteSet(S), NEW Malos \in SUBSET SUBSET S, Malos # {}
  PROVE  \E X \in Malos : \A Y \in SUBSET X : Y # X => Y \notin Malos
<1>1. IsWellFoundedOn(StrictSubsetOrdering(S), SUBSET S)
  BY FS_StrictSubsetOrderingWellFounded, FS_FiniteSubsetsOfFinite
<1>2. PICK X \in Malos : \A Y \in Malos : ~(<<Y, X>> \in StrictSubsetOrdering(S))
  BY <1>1, WFMin
<1>3. ASSUME NEW Y \in SUBSET X, Y # X, Y \in Malos PROVE FALSE
  <2>1. <<Y, X>> \in (SUBSET S) \X (SUBSET S)
    OBVIOUS
  <2> QED
  BY <1>2, <1>3, <2>1 DEF StrictSubsetOrdering
<1> QED
  BY <1>3

\* The steps determine the function, on the sets that both know.
LEMMA PasosIguales ==
  ASSUME NEW w, NEW S, NEW T, NEW f, NEW g, NEW U, IsFiniteSet(U), U \subseteq S, U \subseteq T,
         f = Paso(f, w, S), g = Paso(g, w, T)
  PROVE  f[U] = g[U]
<1> DEFINE Malos == {X \in SUBSET U : f[X] # g[X]}
<1>1. SUFFICES ASSUME Malos # {} PROVE FALSE
  OBVIOUS
<1>m. Malos \in SUBSET SUBSET U
  OBVIOUS
<1>2. PICK X \in Malos : \A Y \in SUBSET X : Y # X => Y \notin Malos
  <2> HIDE DEF Malos
  <2> QED
    BY <1>1, <1>m, ElMenor
<1>3. X \in SUBSET S /\ X \in SUBSET T /\ X \in SUBSET U
  OBVIOUS
<1>4. /\ f[X] = IF X = {} THEN 0 ELSE w[Uno(X)] + f[X \ {Uno(X)}]
      /\ g[X] = IF X = {} THEN 0 ELSE w[Uno(X)] + g[X \ {Uno(X)}]
  BY <1>3 DEF Paso
<1>5. X # {} => f[X \ {Uno(X)}] = g[X \ {Uno(X)}]
  BY <1>2, <1>3, UnoEsSuyo
<1> QED
  BY <1>4, <1>5

\* There is a function that follows the steps.
LEMMA HayPasos ==
  ASSUME NEW w, NEW S, IsFiniteSet(S)
  PROVE  \E f : f = Paso(f, w, S)
<1> DEFINE Malos == {X \in SUBSET S : ~ \E f : f = Paso(f, w, X)}
<1>1. SUFFICES ASSUME Malos # {} PROVE FALSE
  OBVIOUS
<1>m. Malos \in SUBSET SUBSET S
  OBVIOUS
<1>2. PICK X \in Malos : \A Y \in SUBSET X : Y # X => Y \notin Malos
  <2> HIDE DEF Malos
  <2> QED
    BY <1>1, <1>m, ElMenor
<1> DEFINE G(Y) == CHOOSE f : f = Paso(f, w, Y)
           F == [s \in SUBSET X |-> IF s = {} THEN 0 ELSE w[Uno(s)] + G(s \ {Uno(s)})[s \ {Uno(s)}]]
<1>3. \A Y \in SUBSET X : Y # X => G(Y) = Paso(G(Y), w, Y)
  <2>1. TAKE Y \in SUBSET X
  <2>2. HAVE Y # X
  <2>3. PICK f : f = Paso(f, w, Y)
    BY <1>2, <2>2
  <2> QED
    BY <2>3, Zenon
<1> HIDE DEF G
<1>4. \A Y \in SUBSET X : Y # X => F[Y] = G(Y)[Y]
  <2>1. TAKE Y \in SUBSET X
  <2>2. HAVE Y # X
  <2>3. G(Y)[Y] = IF Y = {} THEN 0 ELSE w[Uno(Y)] + G(Y)[Y \ {Uno(Y)}]
    <3>1. G(Y) = Paso(G(Y), w, Y)
      BY <1>3, <2>2
    <3>2. PICK g : g = G(Y)
      OBVIOUS
    <3> QED
      BY <3>1, <3>2 DEF Paso
  <2>4. F[Y] = IF Y = {} THEN 0 ELSE w[Uno(Y)] + G(Y \ {Uno(Y)})[Y \ {Uno(Y)}]
    OBVIOUS
  <2>5. ASSUME Y # {} PROVE G(Y)[Y \ {Uno(Y)}] = G(Y \ {Uno(Y)})[Y \ {Uno(Y)}]
    <3>1. PICK Z : Z = Y \ {Uno(Y)}
      OBVIOUS
    <3>2. Z \subseteq Y /\ Z \subseteq Z /\ Z # X /\ IsFiniteSet(Z)
      <4>1. Z \subseteq Y /\ Z # X
        BY <2>2, <2>5, <3>1, UnoEsSuyo
      <4>2. Z \subseteq S
        BY <4>1
      <4> QED
        BY <4>1, <4>2, FS_Subset
    <3>3. G(Y) = Paso(G(Y), w, Y) /\ G(Z) = Paso(G(Z), w, Z)
      BY <1>3, <2>2, <3>2
    <3> HIDE DEF F, Malos
    <3>4. G(Y)[Z] = G(Z)[Z]
      BY <3>2, <3>3, PasosIguales
    <3> QED
      BY <3>1, <3>4
  <2> QED
    BY <2>3, <2>4, <2>5
<1>5. F = Paso(F, w, X)
  <2>1. ASSUME NEW s \in SUBSET X, s # {} PROVE G(s \ {Uno(s)})[s \ {Uno(s)}] = F[s \ {Uno(s)}]
    <3>1. s \ {Uno(s)} \in SUBSET X /\ s \ {Uno(s)} # X
      BY <2>1, UnoEsSuyo
    <3> QED
      BY <1>4, <3>1
  <2>2. PICK H : H = F
    OBVIOUS
  <2>3. H = [s \in SUBSET X |-> IF s = {} THEN 0 ELSE w[Uno(s)] + H[s \ {Uno(s)}]]
    <3>1. ASSUME NEW s \in SUBSET X
          PROVE (IF s = {} THEN 0 ELSE w[Uno(s)] + G(s \ {Uno(s)})[s \ {Uno(s)}])
             =  (IF s = {} THEN 0 ELSE w[Uno(s)] + H[s \ {Uno(s)}])
      BY <2>1, <2>2
    <3>2. F = [s \in SUBSET X |-> IF s = {} THEN 0 ELSE w[Uno(s)] + H[s \ {Uno(s)}]]
      BY <3>1
    <3> QED
      BY <2>2, <3>2
  <2> QED
    BY <2>2, <2>3 DEF Paso
<1>6. X \notin Malos
  BY <1>5
<1> QED
  BY <1>2, <1>6

\* The sum of a set: that of one of its elements and of the rest.
LEMMA SumaPorUno ==
  ASSUME NEW w, NEW S, IsFiniteSet(S)
  PROVE  SumFunctionOnSet(w, S) =
           IF S = {} THEN 0 ELSE w[Uno(S)] + SumFunctionOnSet(w, S \ {Uno(S)})
<1> DEFINE G(Y) == CHOOSE f : f = Paso(f, w, Y)
<1>1. ASSUME NEW Y, IsFiniteSet(Y) PROVE G(Y) = Paso(G(Y), w, Y)
  <2>1. PICK f : f = Paso(f, w, Y)
    BY <1>1, HayPasos
  <2> QED
    BY <2>1, Zenon
<1>2. \A Y : SumFunctionOnSet(w, Y) = G(Y)[Y]
  BY SumaEsPasos
<1> HIDE DEF G
<1>3. PICK f : f = G(S)
  OBVIOUS
<1>4. f[S] = IF S = {} THEN 0 ELSE w[Uno(S)] + f[S \ {Uno(S)}]
  BY <1>1, <1>3 DEF Paso
<1>5. S # {} => f[S \ {Uno(S)}] = G(S \ {Uno(S)})[S \ {Uno(S)}]
  <2>1. PICK T : T = S \ {Uno(S)}
    OBVIOUS
  <2>2. IsFiniteSet(T) /\ T \subseteq S
    BY <2>1, FS_Subset
  <2>3. f = Paso(f, w, S) /\ G(T) = Paso(G(T), w, T)
    BY <1>1, <1>3, <2>2
  <2>4. f[T] = G(T)[T]
    BY <2>2, <2>3, PasosIguales
  <2> QED
    BY <2>1, <2>4
<1> QED
  BY <1>2, <1>3, <1>4, <1>5

\* The sum of integers is one, and that of naturals too.
LEMMA SumaTipada ==
  ASSUME NEW w, NEW S, IsFiniteSet(S), NEW N, N = Int \/ N = Nat, \A x \in S : w[x] \in N
  PROVE  SumFunctionOnSet(w, S) \in N
<1> DEFINE Malos == {X \in SUBSET S : SumFunctionOnSet(w, X) \notin N}
<1>1. SUFFICES ASSUME Malos # {} PROVE FALSE
  OBVIOUS
<1>m. Malos \in SUBSET SUBSET S
  OBVIOUS
<1>2. PICK X \in Malos : \A Y \in SUBSET X : Y # X => Y \notin Malos
  <2> HIDE DEF Malos
  <2> QED
    BY <1>1, <1>m, ElMenor
<1>3. X \subseteq S /\ IsFiniteSet(X)
  BY FS_Subset
<1>4. SumFunctionOnSet(w, X) = IF X = {} THEN 0 ELSE w[Uno(X)] + SumFunctionOnSet(w, X \ {Uno(X)})
  BY <1>3, SumaPorUno
<1>5. X # {} => w[Uno(X)] \in N /\ SumFunctionOnSet(w, X \ {Uno(X)}) \in N
  <2>1. SUFFICES ASSUME X # {} PROVE w[Uno(X)] \in N /\ SumFunctionOnSet(w, X \ {Uno(X)}) \in N
    OBVIOUS
  <2>2. Uno(X) \in X
    BY <2>1, UnoEsSuyo
  <2>3. X \ {Uno(X)} \in SUBSET X /\ X \ {Uno(X)} # X
    BY <2>2
  <2> QED
    BY <1>2, <1>3, <2>2, <2>3
<1>6. SumFunctionOnSet(w, X) \in N
  BY <1>4, <1>5
<1> QED
  BY <1>6

\* Whichever element is taken apart, the sum is the same.
LEMMA SumaQuita ==
  ASSUME NEW w, NEW S, IsFiniteSet(S), \A x \in S : w[x] \in Int, NEW x \in S
  PROVE  SumFunctionOnSet(w, S) = w[x] + SumFunctionOnSet(w, S \ {x})
<1> DEFINE Total(X) == SumFunctionOnSet(w, X)
           Malos == {X \in SUBSET S : \E y \in X : Total(X) # w[y] + Total(X \ {y})}
<1>1. SUFFICES ASSUME Malos # {} PROVE FALSE
  OBVIOUS
<1>m. Malos \in SUBSET SUBSET S
  OBVIOUS
<1>2. PICK X \in Malos : \A Y \in SUBSET X : Y # X => Y \notin Malos
  <2> HIDE DEF Malos
  <2> QED
    BY <1>1, <1>m, ElMenor
<1>3. PICK y \in X : Total(X) # w[y] + Total(X \ {y})
  OBVIOUS
<1>4. X \subseteq S /\ X # {}
  BY <1>3
<1>5. \A Y \in SUBSET X : Total(Y) = IF Y = {} THEN 0 ELSE w[Uno(Y)] + Total(Y \ {Uno(Y)})
  <2>1. \A Y \in SUBSET X : IsFiniteSet(Y)
    BY <1>4, FS_Subset
  <2> QED
    BY <2>1, SumaPorUno
<1>6. \A Y \in SUBSET X : Total(Y) \in Int
  <2>1. TAKE Y \in SUBSET X
  <2>2. IsFiniteSet(Y) /\ \A z \in Y : w[z] \in Int
    BY <1>4, FS_Subset
  <2> HIDE DEF Malos
  <2> QED
    BY <2>2, SumaTipada
<1>7. PICK z \in X : z = Uno(X)
  BY <1>4, UnoEsSuyo
<1>8. Total(X) = w[z] + Total(X \ {z})
  BY <1>4, <1>5, <1>7
<1>9. z # y
  BY <1>3, <1>8
<1>10. Total(X \ {z}) = w[y] + Total((X \ {z}) \ {y})
  BY <1>2, <1>9
<1>11. Total(X \ {y}) = w[z] + Total((X \ {y}) \ {z})
  BY <1>2, <1>9
<1>12. (X \ {z}) \ {y} = (X \ {y}) \ {z}
  OBVIOUS
<1>13. w[y] \in Int /\ w[z] \in Int
  BY <1>4
<1>14. /\ Total(X \ {z}) \in Int /\ Total(X \ {y}) \in Int
       /\ Total((X \ {y}) \ {z}) \in Int /\ Total(X) \in Int
  BY <1>6
<1>15. PICK a, b, c, d : /\ a = Total(X) /\ b = Total(X \ {z}) /\ c = Total(X \ {y})
                         /\ d = Total((X \ {y}) \ {z})
  OBVIOUS
<1>16. b = w[y] + d
  BY <1>10, <1>12, <1>15
<1>17. a # w[y] + c /\ a = w[z] + b /\ c = w[z] + d /\ {a, b, c, d, w[y], w[z]} \subseteq Int
  BY <1>3, <1>8, <1>11, <1>13, <1>14, <1>15
<1> QED
  BY ONLY <1>16, <1>17

\* One more element.
LEMMA SumaMas ==
  ASSUME NEW w, NEW S, IsFiniteSet(S), NEW x, x \notin S, \A y \in S \cup {x} : w[y] \in Int
  PROVE  SumFunctionOnSet(w, S \cup {x}) = w[x] + SumFunctionOnSet(w, S)
<1>1. IsFiniteSet(S \cup {x}) /\ (S \cup {x}) \ {x} = S
  BY FS_AddElement
<1> QED
  BY <1>1, SumaQuita

\* Of sets with no element in common.
LEMMA SumaUnion ==
  ASSUME NEW w, NEW S, IsFiniteSet(S), NEW T, IsFiniteSet(T), S \cap T = {},
         \A y \in S \cup T : w[y] \in Int
  PROVE  SumFunctionOnSet(w, S \cup T) = SumFunctionOnSet(w, S) + SumFunctionOnSet(w, T)
<1> DEFINE Total(X) == SumFunctionOnSet(w, X)
           Malos == {X \in SUBSET T : Total(S \cup X) # Total(S) + Total(X)}
<1>1. SUFFICES ASSUME Malos # {} PROVE FALSE
  OBVIOUS
<1>m. Malos \in SUBSET SUBSET T
  OBVIOUS
<1>2. PICK X \in Malos : \A Y \in SUBSET X : Y # X => Y \notin Malos
  <2> HIDE DEF Malos
  <2> QED
    BY <1>1, <1>m, ElMenor
<1>3. X \subseteq T /\ Total(S \cup X) # Total(S) + Total(X)
  OBVIOUS
<1>4. \A Y \in SUBSET X : /\ IsFiniteSet(Y) /\ IsFiniteSet(S \cup Y)
                          /\ Total(Y) \in Int /\ Total(S \cup Y) \in Int
  <2>1. TAKE Y \in SUBSET X
  <2>2. IsFiniteSet(Y) /\ \A z \in Y : w[z] \in Int
    BY <1>3, FS_Subset
  <2>3. IsFiniteSet(S \cup Y) /\ \A z \in S \cup Y : w[z] \in Int
    BY <1>3, <2>2, FS_Union
  <2> HIDE DEF Malos
  <2> QED
    BY <2>2, <2>3, SumaTipada
<1>5. Total(S) \in Int
  BY SumaTipada
<1>6. X # {}
  <2>1. ASSUME X = {} PROVE FALSE
    <3>1. Total(X) = 0 /\ S \cup X = S
      BY <1>4, <2>1, SumaPorUno
    <3>2. PICK a : a = Total(S)
      OBVIOUS
    <3>3. a \in Int /\ a # a + 0
      BY <1>3, <1>5, <3>1, <3>2
    <3> QED
      BY ONLY <3>3
  <2> QED
    BY <2>1
<1>7. PICK x : x \in X
  BY <1>6
<1>8. PICK Y : Y = X \ {x}
  OBVIOUS
<1>9. Total(S \cup Y) = Total(S) + Total(Y)
  BY <1>2, <1>7, <1>8
<1>10. Total(X) = w[x] + Total(Y)
  <2>1. \A z \in X : w[z] \in Int
    BY <1>3
  <2>2. IsFiniteSet(X)
    BY <1>4
  <2> HIDE DEF Malos
  <2>3. SumFunctionOnSet(w, X) = w[x] + SumFunctionOnSet(w, X \ {x})
    BY <1>7, <2>1, <2>2, SumaQuita
  <2> QED
    BY <1>8, <2>3
<1>11. Total(S \cup X) = w[x] + Total(S \cup Y)
  <2>1. /\ IsFiniteSet(S \cup X) /\ x \in S \cup X /\ \A z \in S \cup X : w[z] \in Int
        /\ (S \cup X) \ {x} = S \cup Y
    BY <1>3, <1>4, <1>7, <1>8
  <2>2. Total(S \cup X) = w[x] + Total((S \cup X) \ {x})
    <3> HIDE DEF Malos
    <3> QED
      BY <2>1, SumaQuita
  <2> QED
    BY <2>1, <2>2
<1>12. w[x] \in Int /\ Total(Y) \in Int /\ Total(S \cup Y) \in Int /\ Total(X) \in Int
  BY <1>3, <1>4, <1>7, <1>8
<1> HIDE DEF Total, Malos
<1> QED
  BY <1>3, <1>5, <1>9, <1>10, <1>11, <1>12

\* Only the weights of the elements count.
LEMMA SumaIgual ==
  ASSUME NEW w, NEW v, NEW S, IsFiniteSet(S), \A x \in S : w[x] = v[x]
  PROVE  SumFunctionOnSet(w, S) = SumFunctionOnSet(v, S)
<1> DEFINE Malos == {X \in SUBSET S : SumFunctionOnSet(w, X) # SumFunctionOnSet(v, X)}
<1>1. SUFFICES ASSUME Malos # {} PROVE FALSE
  OBVIOUS
<1>m. Malos \in SUBSET SUBSET S
  OBVIOUS
<1>2. PICK X \in Malos : \A Y \in SUBSET X : Y # X => Y \notin Malos
  <2> HIDE DEF Malos
  <2> QED
    BY <1>1, <1>m, ElMenor
<1>3. X \subseteq S /\ IsFiniteSet(X)
  BY FS_Subset
<1>4. /\ SumFunctionOnSet(w, X) = IF X = {} THEN 0 ELSE w[Uno(X)] + SumFunctionOnSet(w, X \ {Uno(X)})
      /\ SumFunctionOnSet(v, X) = IF X = {} THEN 0 ELSE v[Uno(X)] + SumFunctionOnSet(v, X \ {Uno(X)})
  BY <1>3, SumaPorUno
<1>5. X # {} => /\ w[Uno(X)] = v[Uno(X)]
                /\ SumFunctionOnSet(w, X \ {Uno(X)}) = SumFunctionOnSet(v, X \ {Uno(X)})
  <2>1. SUFFICES ASSUME X # {}
                 PROVE  /\ w[Uno(X)] = v[Uno(X)]
                        /\ SumFunctionOnSet(w, X \ {Uno(X)}) = SumFunctionOnSet(v, X \ {Uno(X)})
    OBVIOUS
  <2>2. Uno(X) \in X
    BY <2>1, UnoEsSuyo
  <2>3. X \ {Uno(X)} \in SUBSET X /\ X \ {Uno(X)} # X
    BY <2>2
  <2> QED
    BY <1>2, <1>3, <2>2, <2>3
<1>6. SumFunctionOnSet(w, X) = SumFunctionOnSet(v, X)
  BY <1>4, <1>5
<1> QED
  BY <1>6
(* The stock *)

\* The sum of no elements.
LEMMA SumaVacia == ASSUME NEW w PROVE SumFunctionOnSet(w, {}) = 0
  BY SumaPorUno, FS_EmptySet

\* Sets of items are finite, and so are their units.
LEMMA SumaDeLineas ==
  ASSUME NEW S \in SUBSET Lineas
  PROVE  IsFiniteSet(S) /\ Suma(S) \in Nat
<1>1. IsFiniteSet(S) /\ \A i \in S : Cantidad[i] \in Nat
  BY StockAssumption, FS_Subset DEF StockAssumption
<1>2. SumFunctionOnSet(Cantidad, S) \in Nat
  BY <1>1, SumaTipada
<1> QED
  BY <1>1, <1>2 DEF Suma

\* The units of items that are apart.
LEMMA SumaDeDos ==
  ASSUME NEW S \in SUBSET Lineas, NEW T \in SUBSET Lineas, S \cap T = {}
  PROVE  Suma(S \cup T) = Suma(S) + Suma(T)
<1>1. IsFiniteSet(S) /\ IsFiniteSet(T) /\ \A i \in S \cup T : Cantidad[i] \in Int
  BY StockAssumption, SumaDeLineas DEF StockAssumption
<1>2. SumFunctionOnSet(Cantidad, S \cup T)
        = SumFunctionOnSet(Cantidad, S) + SumFunctionOnSet(Cantidad, T)
  BY <1>1, SumaUnion
<1> QED
  BY <1>2 DEF Suma

\* A set of items has the units of each of them.
LEMMA SumaConUna ==
  ASSUME NEW S \in SUBSET Lineas, NEW i \in Lineas, i \notin S
  PROVE  Suma(S \cup {i}) = Suma(S) + Cantidad[i]
<1>1. IsFiniteSet(S) /\ \A j \in S \cup {i} : Cantidad[j] \in Int
  BY StockAssumption, SumaDeLineas DEF StockAssumption
<1>2. SumFunctionOnSet(Cantidad, S \cup {i}) = Cantidad[i] + SumFunctionOnSet(Cantidad, S)
  BY <1>1, SumaMas
<1>3. SumFunctionOnSet(Cantidad, S) \in Nat /\ Cantidad[i] \in Int
  BY <1>1, SumaDeLineas DEF Suma
<1> QED
  BY <1>2, <1>3 DEF Suma

\* The parts of the inductive invariant.
LEMMA PartesDeStock ==
  ASSUME StockIInv
  PROVE  /\ TypeOK /\ EventosNumerados /\ AntesDeLaFila /\ ProcesadosCreados
         /\ ReservaRespaldada /\ RechazoConCausa /\ InventarioCuadra
  BY DEF StockIInv

\* What the events owe the projection is finite and does not take from it.
LEMMA DeltasTipados ==
  ASSUME TypeOK, EventosNumerados, NEW S \in SUBSET eventos
  PROVE  IsFiniteSet(S) /\ SumFunctionOnSet(Delta, S) \in Nat
<1>1. IsFiniteSet(S) /\ \A m \in S : Delta[m] \in Nat
  BY FS_Subset DEF TypeOK, EventosNumerados, Delta
<1> QED
  BY <1>1, SumaTipada

\* What came back and what was received are sums of finitely many units.
LEMMA MovidosTipados ==
  ASSUME ProcesadosCreados
  PROVE  /\ IsFiniteSet(Devueltas) /\ \A x \in Devueltas : Devuelto[x] \in Int
         /\ IsFiniteSet(procesados \cap Compras)
         /\ \A c \in procesados \cap Compras : Recibido[c] \in Int
         /\ SumFunctionOnSet(Devuelto, Devueltas) \in Int
         /\ SumFunctionOnSet(Recibido, procesados \cap Compras) \in Int
<1>1. IsFiniteSet(Devueltas) /\ IsFiniteSet(procesados \cap Compras)
  BY FS_Subset DEF ProcesadosCreados, Devueltas
<1>2. \A x \in Devueltas : Devuelto[x] \in Int
  BY StockAssumption DEF Devueltas, Devuelto, StockAssumption
<1>3. \A c \in procesados \cap Compras : Recibido[c] \in Int
  BY StockAssumption DEF StockAssumption
<1>4. SumFunctionOnSet(Devuelto, Devueltas) \in Int
  BY <1>1, <1>2, SumaTipada
<1>5. SumFunctionOnSet(Recibido, procesados \cap Compras) \in Int
  BY <1>1, <1>3, SumaTipada
<1> QED
  BY <1>1, <1>2, <1>3, <1>4, <1>5

\* A new event has the next number, and adds its delta to what is on the way.
LEMMA NuevoEvento ==
  ASSUME TypeOK, EventosNumerados, NEW delta \in Nat, NEW existencia \in Nat,
         Evento(delta, existencia)
  PROVE  /\ EventosNumerados'
         /\ eventos' \subseteq [id : Nat, delta : Nat, foto : Nat]
         /\ Cardinality(eventos') = Cardinality(eventos) + 1 /\ Cardinality(eventos) \in Nat
         /\ \E m : /\ m \notin eventos /\ eventos' = eventos \cup {m}
                   /\ m.id = Cardinality(eventos) + 1
                   /\ \A S \in SUBSET eventos :
                        SumFunctionOnSet(Delta', S \cup {m}) = SumFunctionOnSet(Delta, S) + delta
<1>1. PICK n : n = Cardinality(eventos)
  OBVIOUS
<1>2. PICK m : m = [id |-> n + 1, delta |-> delta, foto |-> existencia]
  OBVIOUS
<1>3. eventos' = eventos \cup {m}
  BY <1>1, <1>2 DEF Evento
<1>4. n \in Nat /\ IsFiniteSet(eventos) /\ \A e \in eventos : e.id \in 1..n
  BY <1>1, FS_CardinalityType DEF EventosNumerados
<1>5. m \notin eventos /\ m.id = n + 1 /\ m.delta = delta
      /\ m \in [id : Nat, delta : Nat, foto : Nat]
  BY <1>2, <1>4
<1>6. IsFiniteSet(eventos') /\ Cardinality(eventos') = n + 1
  BY <1>1, <1>3, <1>4, <1>5, FS_AddElement
<1>7. n # 0
  BY <1>1, <1>4, FS_EmptySet DEF EventosNumerados
<1>8. EventosNumerados'
  <2>1. \A e \in eventos' :
          /\ e.id \in 1..(n + 1)
          /\ e.id = 1 => e.delta = 0 /\ e.foto = Inicial
    BY <1>3, <1>4, <1>5, <1>7 DEF EventosNumerados
  <2>2. ASSUME NEW d \in eventos', NEW e \in eventos', d.id = e.id PROVE d = e
    <3>1. \A a \in eventos : a.id # n + 1
      BY <1>4
    <3>2. CASE d \in eventos /\ e \in eventos
      BY <2>2, <3>2 DEF EventosNumerados
    <3>3. CASE d = m \/ e = m
      BY <1>3, <1>5, <2>2, <3>1, <3>3
    <3> QED
      BY <1>3, <3>2, <3>3
  <2>3. eventos' # {} /\ IsFiniteSet(eventos')
    BY <1>3, <1>6
  <2>4. \A e \in eventos' : e.id \in 1..Cardinality(eventos')
    BY <1>6, <2>1
  <2> QED
    BY <2>1, <2>2, <2>3, <2>4, Zenon DEF EventosNumerados
<1>9. ASSUME NEW S \in SUBSET eventos
      PROVE  SumFunctionOnSet(Delta', S \cup {m}) = SumFunctionOnSet(Delta, S) + delta
  <2>1. PICK w, v : w = Delta /\ v = Delta'
    OBVIOUS
  <2>2. IsFiniteSet(S) /\ m \notin S /\ SumFunctionOnSet(w, S) \in Nat
    BY <1>5, <2>1, DeltasTipados
  <2>3. v[m] = delta /\ \A e \in S : v[e] = w[e] /\ v[e] \in Int
    BY <1>3, <1>5, <2>1 DEF Delta, TypeOK
  <2>4. SumFunctionOnSet(v, S \cup {m}) = v[m] + SumFunctionOnSet(v, S)
    BY <2>2, <2>3, SumaMas
  <2>5. SumFunctionOnSet(v, S) = SumFunctionOnSet(w, S)
    BY <2>2, <2>3, SumaIgual
  <2> QED
    BY <2>1, <2>2, <2>3, <2>4, <2>5
<1>10. eventos' \subseteq [id : Nat, delta : Nat, foto : Nat]
  BY <1>3, <1>5 DEF TypeOK
<1> QED
  BY <1>1, <1>3, <1>4, <1>5, <1>6, <1>8, <1>9, <1>10
\* At the start nothing is sold and nothing has moved.
LEMMA InicioStock == Init => StockIInv
<1> SUFFICES ASSUME Init PROVE StockIInv
  OBVIOUS
<1>1. PICK m : m = [id |-> 1, delta |-> 0, foto |-> Inicial]
  OBVIOUS
<1>2. eventos = {m} /\ IsFiniteSet(eventos) /\ Cardinality(eventos) = 1
  BY <1>1, FS_Singleton DEF Init
<1>3. TypeOK
  <2>1. /\ local = SinFila /\ vista \in [Pedidos -> Nat \cup {SinFila}]
        /\ pedido \in [Pedidos -> {"NUEVO", "ENTREGADO", "PAGADO", "CANCELADO", "RECHAZADO"}]
        /\ linea \in [Lineas -> {"VIVA", "CANCELADO", "RECHAZADO"}]
        /\ merma \in [Mermas -> Perdidas \cup {0}]
        /\ lectura \in [Editores -> [fila : Mermas, cantidad : Perdidas] \cup {Nadie}]
    BY DEF Init
  <2>2. /\ anulable = {} /\ anulando = {} /\ aplicados = {} /\ compensados = {}
        /\ procesados = {} /\ restaurar = {} /\ insuficiente = {} /\ descontadas = {}
    BY DEF Init
  <2>3. /\ gestiones \in 0..MaxGestiones /\ manuales \in 0..MaxManual /\ stock \in Nat
        /\ ajustado \in Int /\ mermado \in Int
    <3>1. gestiones = 0 /\ manuales = 0 /\ stock = Inicial /\ ajustado = 0 /\ mermado = 0
      BY DEF Init
    <3> QED
      BY <3>1, StockAssumption DEF StockAssumption
  <2>4. m \in [id : Nat, delta : Nat, foto : Nat]
    BY <1>1, StockAssumption DEF StockAssumption
  <2>5. desviado \in BOOLEAN
    BY Zenon DEF Init
  <2> QED
    BY <1>2, <2>1, <2>2, <2>3, <2>4, <2>5 DEF TypeOK
<1>4. EventosNumerados
  BY <1>1, <1>2 DEF EventosNumerados
<1>5. AntesDeLaFila
  <2>1. Delta[m] = 0
    BY <1>1, <1>2 DEF Delta
  <2>2. SumFunctionOnSet(Delta, {} \cup {m}) = Delta[m] + SumFunctionOnSet(Delta, {})
    <3>1. IsFiniteSet({}) /\ m \notin {} /\ \A y \in {} \cup {m} : Delta[y] \in Int
      BY <2>1, FS_EmptySet
    <3> QED
      BY <3>1, SumaMas
  <2>3. SumFunctionOnSet(Delta, eventos) = 0
    BY <1>2, <2>1, <2>2, SumaVacia
  <2>4. stock = Inicial + 0
    BY StockAssumption DEF Init, StockAssumption
  <2> QED
    BY <2>3, <2>4 DEF Init, AntesDeLaFila
<1>6. ProcesadosCreados
  BY FS_EmptySet DEF Init, ProcesadosCreados
<1>7. ReservaRespaldada /\ RechazoConCausa
  BY DEF Init, ReservaRespaldada, RechazoConCausa
<1>8. InventarioCuadra
  <2>1. /\ descontadas = {} /\ Devueltas = {} /\ procesados \cap Compras = {}
        /\ stock = Inicial /\ ajustado = 0 /\ mermado = 0 /\ Inicial \in Nat
    BY StockAssumption DEF Init, Devueltas, StockAssumption
  <2>2. /\ Suma(descontadas) = 0 /\ SumFunctionOnSet(Devuelto, Devueltas) = 0
        /\ SumFunctionOnSet(Recibido, procesados \cap Compras) = 0
    BY <2>1, SumaVacia DEF Suma
  <2> QED
    BY <2>1, <2>2 DEF InventarioCuadra
<1> QED
  BY <1>3, <1>4, <1>5, <1>6, <1>7, <1>8 DEF StockIInv

\* What leaves the stock alone leaves its account alone.
LEMMA QuietoInventario ==
  ASSUME InventarioCuadra, UNCHANGED <<stock, ajustado, mermado, descontadas, procesados>>
  PROVE  InventarioCuadra'
  BY DEF InventarioCuadra, Devueltas

\* What creates no order and moves no unit keeps every part of the invariant.
LEMMA QuietoStock ==
  ASSUME StockIInv, TypeOK',
         UNCHANGED <<local, stock, eventos, aplicados, procesados, insuficiente, descontadas,
                     ajustado, mermado, desviado>>,
         \A p \in Pedidos : pedido'[p] = "NUEVO" <=> pedido[p] = "NUEVO",
         \A a \in anulando' : pedido[a.pedido] # "NUEVO"
  PROVE  StockIInv'
<1>i. /\ TypeOK /\ EventosNumerados /\ AntesDeLaFila /\ ProcesadosCreados
      /\ ReservaRespaldada /\ RechazoConCausa /\ InventarioCuadra
  BY PartesDeStock
<1>1. EventosNumerados' /\ RechazoConCausa'
  BY <1>i DEF EventosNumerados, RechazoConCausa
<1>2. AntesDeLaFila'
  <2>1. Delta' = Delta
    BY DEF Delta
  <2> QED
    BY <1>i, <2>1 DEF AntesDeLaFila
<1>3. ProcesadosCreados'
  <2>1. \A a \in anulando' : a.pedido \in Pedidos
    BY DEF TypeOK
  <2> QED
    BY <1>i, <2>1 DEF ProcesadosCreados
<1>4. ReservaRespaldada'
  <2>1. Delta' = Delta /\ EnCamino' = EnCamino
    BY DEF Delta, EnCamino
  <2>2. Reservado' = Reservado
    BY StockAssumption DEF Reservado, StockAssumption
  <2> QED
    BY <1>i, <2>1, <2>2 DEF ReservaRespaldada
<1>5. InventarioCuadra'
  BY <1>i, QuietoInventario
<1> QED
  BY <1>1, <1>2, <1>3, <1>4, <1>5 DEF StockIInv

\* A snapshot saved over the projection is one of its deviations.
LEMMA PasoGuardarLocal ==
  ASSUME StockIInv, NEW p \in Pedidos, GuardarLocal(p)
  PROVE  StockIInv'
<1>i. /\ TypeOK /\ EventosNumerados /\ AntesDeLaFila /\ ProcesadosCreados
      /\ ReservaRespaldada /\ RechazoConCausa /\ InventarioCuadra
  BY PartesDeStock
<1>1. /\ vista[p] # SinFila /\ local' = vista[p] /\ desviado' = TRUE
      /\ vista' = [vista EXCEPT ![p] = SinFila]
      /\ UNCHANGED <<pedido, linea, anulable, anulando, aplicados, compensados, gestiones>>
      /\ UNCHANGED <<stock, merma, lectura, procesados, manuales>>
      /\ UNCHANGED <<eventos, restaurar, insuficiente, descontadas, ajustado, mermado>>
  BY DEF GuardarLocal, inventario
<1>2. TypeOK'
  BY <1>i, <1>1 DEF TypeOK
<1>3. EventosNumerados' /\ RechazoConCausa' /\ ReservaRespaldada'
  BY <1>i, <1>1 DEF EventosNumerados, RechazoConCausa, ReservaRespaldada
<1>4. AntesDeLaFila'
  BY <1>1 DEF AntesDeLaFila
<1>5. ProcesadosCreados'
  BY <1>i, <1>1 DEF ProcesadosCreados
<1>6. InventarioCuadra'
  BY <1>i, <1>1, QuietoInventario
<1> QED
  BY <1>2, <1>3, <1>4, <1>5, <1>6 DEF StockIInv

\* An order moves its units from the projection to the reservation.
LEMMA PasoPersistirPedido ==
  ASSUME StockIInv, NEW p \in Pedidos, PersistirPedido(p)
  PROVE  StockIInv'
<1>i. /\ TypeOK /\ EventosNumerados /\ AntesDeLaFila /\ ProcesadosCreados
      /\ ReservaRespaldada /\ RechazoConCausa /\ InventarioCuadra
  BY PartesDeStock
<1>1. /\ pedido[p] = "NUEVO" /\ local # SinFila /\ local >= Suma(De(p))
      /\ local' = local - Suma(De(p)) /\ pedido' = [pedido EXCEPT ![p] = "ENTREGADO"]
      /\ UNCHANGED <<vista, linea, anulable, anulando, aplicados, compensados, gestiones>>
      /\ UNCHANGED <<stock, merma, lectura, procesados, manuales>>
      /\ UNCHANGED <<eventos, restaurar, insuficiente, descontadas, ajustado, mermado, desviado>>
  BY DEF PersistirPedido, inventario, historia
<1>2. De(p) \subseteq Lineas /\ Suma(De(p)) \in Nat
  BY SumaDeLineas DEF De
<1>3. local' \in Nat /\ local' # SinFila /\ local \in Nat
  BY <1>i, <1>1, <1>2, StockAssumption DEF TypeOK, StockAssumption
<1>4. /\ pedido'[p] = "ENTREGADO" /\ \A q \in Pedidos : q # p => pedido'[q] = pedido[q]
      /\ pedido' \in [Pedidos -> {"NUEVO", "ENTREGADO", "PAGADO", "CANCELADO", "RECHAZADO"}]
  BY <1>i, <1>1 DEF TypeOK
<1>5. TypeOK'
  BY <1>i, <1>1, <1>3, <1>4 DEF TypeOK
<1>6. EventosNumerados' /\ RechazoConCausa' /\ AntesDeLaFila'
  BY <1>i, <1>1, <1>3 DEF EventosNumerados, RechazoConCausa, AntesDeLaFila
<1>7. ProcesadosCreados'
  <2>1. \A a \in anulando : a.pedido \in Pedidos
    BY <1>i DEF TypeOK
  <2> QED
    BY <1>i, <1>1, <1>4, <2>1 DEF ProcesadosCreados
<1>8. ReservaRespaldada'
  <2>1. Delta' = Delta /\ EnCamino' = EnCamino
    BY <1>1 DEF Delta, EnCamino
  <2>2. p \notin procesados
    BY <1>i, <1>1 DEF ProcesadosCreados
  <2>3. /\ Reservado' = Reservado \cup De(p) /\ Reservado \cap De(p) = {}
        /\ Reservado \subseteq Lineas
    BY <1>1, <1>4, <2>2, StockAssumption DEF Reservado, De, StockAssumption
  <2>4. Suma(Reservado') = Suma(Reservado) + Suma(De(p))
    BY <1>2, <2>3, SumaDeDos
  <2>5. PICK a, b, c, d : /\ a = Suma(Reservado) /\ b = Suma(De(p)) /\ c = Suma(Reservado')
                          /\ d = SumFunctionOnSet(Delta, EnCamino)
    OBVIOUS
  <2>6. a \in Nat /\ b \in Nat /\ c = a + b /\ d \in Nat
    BY <1>2, <1>i, <2>3, <2>4, <2>5, SumaDeLineas, DeltasTipados DEF EnCamino
  <2>7. ~desviado => stock = local + a + d
    BY <1>i, <1>1, <2>5 DEF ReservaRespaldada
  <2>8. ~desviado => stock = local' + c + d
    BY <1>1, <1>3, <2>5, <2>6, <2>7
  <2> QED
    BY <1>1, <2>1, <2>5, <2>8 DEF ReservaRespaldada
<1>9. InventarioCuadra'
  BY <1>i, <1>1, QuietoInventario
<1> QED
  BY <1>5, <1>6, <1>7, <1>8, <1>9 DEF StockIInv
\* An event of the product: a replenishment reaches the projection, or its
\* creation does and opens the row.
LEMMA PasoProcesarProducto ==
  ASSUME StockIInv, NEW m \in eventos, ProcesarProducto(m)
  PROVE  StockIInv'
<1>i. /\ TypeOK /\ EventosNumerados /\ AntesDeLaFila /\ ProcesadosCreados
      /\ ReservaRespaldada /\ RechazoConCausa /\ InventarioCuadra
  BY PartesDeStock
<1>1. /\ m.id \notin aplicados /\ aplicados' = aplicados \cup {m.id}
      /\ local' = IF local = SinFila THEN m.foto ELSE local + m.delta
      /\ desviado' = (desviado \/ (local = SinFila /\ m.id # 1))
      /\ UNCHANGED <<vista, pedido, linea, anulable, anulando, compensados, gestiones>>
      /\ UNCHANGED <<stock, merma, lectura, procesados, manuales>>
      /\ UNCHANGED <<eventos, restaurar, insuficiente, descontadas, ajustado, mermado>>
  BY DEF ProcesarProducto, inventario
<1>2. m.delta \in Nat /\ m.foto \in Nat /\ m.id \in 1..Cardinality(eventos)
  BY <1>i DEF TypeOK, EventosNumerados
<1>3. local' \in Nat /\ local' # SinFila
  BY <1>i, <1>1, <1>2, StockAssumption DEF TypeOK, StockAssumption
<1>4. desviado' \in BOOLEAN /\ (~desviado' => ~desviado /\ (local = SinFila => m.id = 1))
  BY <1>1
<1>5. TypeOK'
  BY <1>i, <1>1, <1>2, <1>3, <1>4 DEF TypeOK
<1>6. EventosNumerados' /\ RechazoConCausa' /\ AntesDeLaFila' /\ ProcesadosCreados'
  BY <1>i, <1>1, <1>3, <1>4
     DEF EventosNumerados, RechazoConCausa, AntesDeLaFila, ProcesadosCreados
<1>7. ReservaRespaldada'
  <2>1. Delta' = Delta
    BY <1>1 DEF Delta
  <2>2. Reservado' = Reservado
    BY <1>1 DEF Reservado
  <2>3. EnCamino' = EnCamino \ {m} /\ m \in EnCamino /\ EnCamino \subseteq eventos
    BY <1>i, <1>1 DEF EnCamino, EventosNumerados
  <2>4. IsFiniteSet(EnCamino) /\ \A e \in EnCamino : Delta[e] \in Int
    <3>1. IsFiniteSet(EnCamino)
      BY <1>i, <2>3, DeltasTipados
    <3> QED
      BY <1>i, <2>3, <3>1 DEF TypeOK, Delta
  <2>5. SumFunctionOnSet(Delta, EnCamino) = Delta[m] + SumFunctionOnSet(Delta, EnCamino \ {m})
    BY <2>3, <2>4, SumaQuita
  <2>6. PICK a, b, c : /\ a = SumFunctionOnSet(Delta, EnCamino)
                       /\ b = SumFunctionOnSet(Delta, EnCamino \ {m})
                       /\ c = Suma(Reservado)
    OBVIOUS
  <2>7. b \in Nat /\ c \in Nat /\ a = m.delta + b
    <3>1. b \in Nat
      BY <1>i, <2>3, <2>6, DeltasTipados
    <3>2. c \in Nat
      BY <2>6, SumaDeLineas DEF Reservado
    <3> QED
      BY <2>5, <2>6, <3>1, <3>2 DEF Delta
  <2>8. CASE local # SinFila
    <3>1. local \in Nat /\ local' = local + m.delta
      BY <1>i, <1>1, <2>8 DEF TypeOK
    <3>2. ~desviado => stock = local + c + a
      BY <1>i, <2>6, <2>8 DEF ReservaRespaldada
    <3>3. ~desviado => stock = local' + c + b
      BY <1>2, <2>7, <3>1, <3>2
    <3> QED
      BY <1>1, <1>4, <2>1, <2>2, <2>3, <2>6, <3>3 DEF ReservaRespaldada
  <2>9. CASE local = SinFila
    <3>1. SUFFICES ASSUME ~desviado' PROVE stock = local' + c + b
      BY <1>1, <2>1, <2>2, <2>3, <2>6 DEF ReservaRespaldada
    <3>2. ~desviado /\ m.delta = 0 /\ m.foto = Inicial
      BY <1>i, <1>4, <2>9, <3>1 DEF EventosNumerados
    <3>3. stock = Inicial + SumFunctionOnSet(Delta, eventos) /\ aplicados = {}
      BY <1>i, <2>9, <3>2 DEF AntesDeLaFila
    <3>4. EnCamino = eventos
      BY <3>3 DEF EnCamino
    <3>5. Reservado = {}
      BY <1>i, <2>9, StockAssumption DEF AntesDeLaFila, Reservado, StockAssumption
    <3>6. c = 0
      BY <2>6, <3>5, SumaVacia DEF Suma
    <3>7. stock = Inicial + a /\ local' = Inicial /\ a = 0 + b /\ Inicial \in Nat
      BY <1>1, <2>6, <2>7, <2>9, <3>2, <3>3, <3>4, StockAssumption DEF StockAssumption
    <3> QED
      BY <2>7, <3>6, <3>7
  <2> QED
    BY <2>8, <2>9
<1>8. InventarioCuadra'
  BY <1>i, <1>1, QuietoInventario
<1> QED
  BY <1>5, <1>6, <1>7, <1>8 DEF StockIInv

\* An accepted order reaches the inventory: what was reserved is discounted, and
\* until the projection deviates there is enough for all of it.
LEMMA PasoProcesarPedidoCreado ==
  ASSUME StockIInv, NEW p \in Pedidos, NEW S \in SUBSET Lineas, ProcesarPedidoCreado(p, S)
  PROVE  StockIInv'
<1>i. /\ TypeOK /\ EventosNumerados /\ AntesDeLaFila /\ ProcesadosCreados
      /\ ReservaRespaldada /\ RechazoConCausa /\ InventarioCuadra
  BY PartesDeStock
<1>1. /\ pedido[p] # "NUEVO" /\ p \notin procesados /\ S \subseteq De(p) /\ Suma(S) <= stock
      /\ \A i \in De(p) \ S : Cantidad[i] > stock - Suma(S)
      /\ stock' = stock - Suma(S) /\ descontadas' = descontadas \cup S
      /\ insuficiente' = IF S = De(p) THEN insuficiente ELSE insuficiente \cup {p}
      /\ procesados' = procesados \cup {p}
      /\ UNCHANGED <<local, vista, pedido, linea, anulable, anulando, aplicados, compensados,
                     gestiones>>
      /\ UNCHANGED <<merma, lectura, manuales, eventos, restaurar, ajustado, mermado, desviado>>
  BY DEF ProcesarPedidoCreado, pedidos
<1>2. De(p) \subseteq Lineas /\ Suma(De(p)) \in Nat /\ Suma(S) \in Nat
  BY SumaDeLineas DEF De
<1>3. stock \in Nat /\ stock' \in Nat
  BY <1>i, <1>1, <1>2 DEF TypeOK
<1>4. TypeOK'
  BY <1>i, <1>1, <1>3 DEF TypeOK
<1>5. local # SinFila
  BY <1>i, <1>1 DEF AntesDeLaFila
<1>6. EventosNumerados' /\ AntesDeLaFila'
  BY <1>i, <1>1, <1>5 DEF EventosNumerados, AntesDeLaFila
<1>7. ProcesadosCreados'
  <2>1. IsFiniteSet(procesados')
    BY <1>i, <1>1, FS_AddElement DEF ProcesadosCreados
  <2>2. \A i \in De(p) : PedidoDe[i] = p
    BY DEF De
  <2> QED
    BY <1>i, <1>1, <2>1, <2>2 DEF ProcesadosCreados
<1>8. /\ Reservado' = Reservado \ De(p) /\ De(p) \subseteq Reservado
      /\ Reservado = (Reservado \ De(p)) \cup De(p) /\ Reservado \subseteq Lineas
  BY <1>1 DEF Reservado, De
<1>9. Suma(Reservado) = Suma(Reservado') + Suma(De(p)) /\ Suma(Reservado') \in Nat
  <2>1. Suma((Reservado \ De(p)) \cup De(p)) = Suma(Reservado \ De(p)) + Suma(De(p))
    BY <1>2, <1>8, SumaDeDos
  <2>2. Suma(Reservado \ De(p)) \in Nat
    BY <1>8, SumaDeLineas
  <2> QED
    BY <1>8, <2>1, <2>2
<1>10. SumFunctionOnSet(Delta, EnCamino) \in Nat
  BY <1>i, DeltasTipados DEF EnCamino
<1>11. PICK a, b, c, d : /\ a = Suma(Reservado') /\ b = Suma(De(p)) /\ c = Suma(S)
                         /\ d = SumFunctionOnSet(Delta, EnCamino)
  OBVIOUS
<1>12. {a, b, c, d, local, stock} \subseteq Nat
  BY <1>i, <1>2, <1>3, <1>5, <1>9, <1>10, <1>11 DEF TypeOK
<1>13. ~desviado => stock = local + (a + b) + d
  BY <1>i, <1>5, <1>9, <1>11 DEF ReservaRespaldada
<1>14. ~desviado => S = De(p)
  <2>1. SUFFICES ASSUME ~desviado, NEW i \in De(p) \ S PROVE FALSE
    BY <1>1
  <2>2. /\ S \cup {i} \subseteq Lineas /\ De(p) \ (S \cup {i}) \subseteq Lineas
        /\ De(p) = (S \cup {i}) \cup (De(p) \ (S \cup {i}))
    BY <1>1, <1>2
  <2>3. b = Suma(S \cup {i}) + Suma(De(p) \ (S \cup {i}))
    <3>1. Suma((S \cup {i}) \cup (De(p) \ (S \cup {i})))
            = Suma(S \cup {i}) + Suma(De(p) \ (S \cup {i}))
      BY <2>2, SumaDeDos
    <3> QED
      BY <1>11, <2>2, <3>1
  <2>4. Suma(S \cup {i}) = c + Cantidad[i]
    BY <1>2, <1>11, SumaConUna
  <2>5. PICK e, k : e = Suma(De(p) \ (S \cup {i})) /\ k = Cantidad[i]
    OBVIOUS
  <2>6. b = c + k + e /\ e \in Nat /\ k \in Nat
    <3>1. e \in Nat
      BY <2>2, <2>5, SumaDeLineas
    <3>2. k \in Nat
      BY <1>2, <2>5, StockAssumption DEF StockAssumption
    <3> QED
      BY <2>3, <2>4, <2>5, <3>1, <3>2
  <2>7. k > stock - c
    BY <1>1, <1>11, <2>5
  <2> QED
    BY <1>12, <1>13, <2>1, <2>6, <2>7
<1>15. ReservaRespaldada'
  <2>1. Delta' = Delta /\ EnCamino' = EnCamino
    BY <1>1 DEF Delta, EnCamino
  <2>2. ~desviado => c = b /\ stock' = local + a + d
    <3>1. SUFFICES ASSUME ~desviado PROVE c = b /\ stock' = local + a + d
      OBVIOUS
    <3>2. c = b /\ stock' = stock - c /\ stock = local + (a + b) + d
      BY <1>1, <1>11, <1>13, <1>14, <3>1
    <3> QED
      BY <1>12, <3>2
  <2> QED
    BY <1>1, <1>11, <2>1, <2>2 DEF ReservaRespaldada
<1>16. RechazoConCausa'
  BY <1>i, <1>1, <1>14 DEF RechazoConCausa
<1>17. InventarioCuadra'
  <2>1. /\ Devueltas' = Devueltas /\ procesados' \cap Compras = procesados \cap Compras
    BY <1>1, StockAssumption DEF Devueltas, StockAssumption
  <2>2. descontadas \cap S = {} /\ descontadas \subseteq Lineas
    BY <1>i, <1>1 DEF ProcesadosCreados, De, TypeOK
  <2>3. Suma(descontadas') = Suma(descontadas) + c
    BY <1>1, <1>11, <2>2, SumaDeDos
  <2>4. Suma(descontadas) \in Nat
    BY <2>2, SumaDeLineas
  <2>5. PICK f, g, h : /\ f = Suma(descontadas) /\ g = SumFunctionOnSet(Devuelto, Devueltas)
                       /\ h = SumFunctionOnSet(Recibido, procesados \cap Compras)
    OBVIOUS
  <2>6. g \in Int /\ h \in Int
    BY <1>i, <2>5, MovidosTipados
  <2>7. Inicial \in Int /\ ajustado \in Int /\ mermado \in Int
    BY <1>i, StockAssumption DEF TypeOK, StockAssumption
  <2>8. stock = Inicial + ajustado - mermado - f + g + h
    BY <1>i, <2>5 DEF InventarioCuadra
  <2>9. stock' = Inicial + ajustado - mermado - (f + c) + g + h
    <3>1. stock' = stock - c /\ f \in Nat
      BY <1>1, <1>11, <2>4, <2>5
    <3> QED
      BY <1>12, <2>6, <2>7, <2>8, <3>1
  <2> QED
    BY <1>1, <2>1, <2>3, <2>5, <2>9 DEF InventarioCuadra
<1> QED
  BY <1>4, <1>6, <1>7, <1>15, <1>16, <1>17 DEF StockIInv
\* A movement of the stock with its event: the projection owes the difference, or
\* the movement is a loss that it will not hear of.
LEMMA MueveStock ==
  ASSUME StockIInv, NEW k \in Int, NEW delta \in Nat, stock' = stock + k, stock' \in Nat,
         Evento(delta, stock'), desviado => desviado', ~desviado' => k = delta,
         UNCHANGED <<local, pedido, anulando, aplicados, insuficiente, descontadas>>,
         IsFiniteSet(procesados'), procesados \subseteq procesados',
         procesados' \cap Pedidos = procesados \cap Pedidos
  PROVE  /\ EventosNumerados' /\ AntesDeLaFila' /\ ProcesadosCreados'
         /\ ReservaRespaldada' /\ RechazoConCausa'
         /\ eventos' \subseteq [id : Nat, delta : Nat, foto : Nat]
         /\ aplicados' \subseteq 1..Cardinality(eventos')
<1>i. /\ TypeOK /\ EventosNumerados /\ AntesDeLaFila /\ ProcesadosCreados
      /\ ReservaRespaldada /\ RechazoConCausa
  BY PartesDeStock
<1>1. PICK m : /\ m \notin eventos /\ eventos' = eventos \cup {m}
               /\ m.id = Cardinality(eventos) + 1
               /\ \A S \in SUBSET eventos :
                    SumFunctionOnSet(Delta', S \cup {m}) = SumFunctionOnSet(Delta, S) + delta
  BY <1>i, NuevoEvento
<1>2. /\ EventosNumerados' /\ eventos' \subseteq [id : Nat, delta : Nat, foto : Nat]
      /\ Cardinality(eventos') = Cardinality(eventos) + 1 /\ Cardinality(eventos) \in Nat
  BY <1>i, NuevoEvento
<1>3. aplicados' \subseteq 1..Cardinality(eventos') /\ m.id \notin aplicados
  BY <1>i, <1>1, <1>2 DEF TypeOK
<1>4. \A S \in SUBSET eventos : SumFunctionOnSet(Delta, S) \in Nat
  BY <1>i, DeltasTipados
<1>5. AntesDeLaFila'
  <2>1. SUFFICES ASSUME local = SinFila, ~desviado'
                 PROVE  stock' = Inicial + SumFunctionOnSet(Delta', eventos')
    BY <1>i DEF AntesDeLaFila
  <2>2. stock = Inicial + SumFunctionOnSet(Delta, eventos)
    BY <1>i, <2>1 DEF AntesDeLaFila
  <2>3. SumFunctionOnSet(Delta', eventos') = SumFunctionOnSet(Delta, eventos) + delta
    BY <1>1
  <2>4. PICK a, b : a = SumFunctionOnSet(Delta, eventos) /\ b = SumFunctionOnSet(Delta', eventos')
    OBVIOUS
  <2>5. a \in Nat /\ b = a + delta /\ stock' = stock + delta /\ stock = Inicial + a
    BY <1>4, <2>1, <2>2, <2>3, <2>4
  <2> QED
    BY <2>4, <2>5, StockAssumption DEF StockAssumption
<1>6. ProcesadosCreados'
  <2>1. \A i \in descontadas : PedidoDe[i] \in Pedidos
    BY <1>i, StockAssumption DEF TypeOK, StockAssumption
  <2> QED
    BY <1>i, <2>1 DEF ProcesadosCreados
<1>7. ReservaRespaldada'
  <2>1. Reservado' = Reservado
    BY StockAssumption DEF Reservado, StockAssumption
  <2>2. EnCamino' = EnCamino \cup {m} /\ EnCamino \subseteq eventos
    BY <1>1, <1>3 DEF EnCamino
  <2>3. SumFunctionOnSet(Delta', EnCamino') = SumFunctionOnSet(Delta, EnCamino) + delta
    BY <1>1, <2>2
  <2>4. PICK a, b, c : /\ a = SumFunctionOnSet(Delta, EnCamino)
                       /\ b = SumFunctionOnSet(Delta', EnCamino')
                       /\ c = Suma(Reservado)
    OBVIOUS
  <2>5. a \in Nat /\ b = a + delta
    BY <1>4, <2>2, <2>3, <2>4
  <2>6. c \in Nat
    BY <2>4, SumaDeLineas DEF Reservado
  <2>7. SUFFICES ASSUME ~desviado', local # SinFila PROVE stock' = local + c + b
    BY <2>1, <2>4 DEF ReservaRespaldada
  <2>8. stock = local + c + a /\ local \in Nat /\ stock' = stock + delta
    BY <1>i, <2>4, <2>7 DEF ReservaRespaldada, TypeOK
  <2> QED
    BY <2>5, <2>6, <2>8
<1>8. RechazoConCausa'
  BY <1>i DEF RechazoConCausa
<1> QED
  BY <1>2, <1>3, <1>5, <1>6, <1>7, <1>8

\* The units of a cancelled item come back, once for each way of cancelling it.
LEMMA PasoProcesarStockRestaurado ==
  ASSUME StockIInv, NEW x \in restaurar, ProcesarStockRestaurado(x)
  PROVE  StockIInv'
<1>i. /\ TypeOK /\ EventosNumerados /\ AntesDeLaFila /\ ProcesadosCreados
      /\ ReservaRespaldada /\ RechazoConCausa /\ InventarioCuadra
  BY PartesDeStock
<1>1. /\ x \notin procesados /\ procesados' = procesados \cup {x}
      /\ stock' = stock + Cantidad[x[1]] /\ Evento(Cantidad[x[1]], stock')
      /\ UNCHANGED <<local, vista, pedido, linea, anulable, anulando, aplicados, compensados,
                     gestiones>>
      /\ UNCHANGED <<merma, lectura, manuales, restaurar, insuficiente>>
      /\ UNCHANGED <<descontadas, ajustado, mermado, desviado>>
  BY DEF ProcesarStockRestaurado, pedidos, historia
<1>2. x \in Lineas \X Origenes /\ x \notin Pedidos /\ x \notin Compras
  BY <1>i, StockAssumption DEF TypeOK, StockAssumption
<1>3. Cantidad[x[1]] \in Nat /\ stock \in Nat /\ stock' \in Nat
  BY <1>i, <1>1, <1>2, StockAssumption DEF TypeOK, StockAssumption
<1>4. IsFiniteSet(procesados')
  BY <1>i, <1>1, FS_AddElement DEF ProcesadosCreados
<1>5. /\ EventosNumerados' /\ AntesDeLaFila' /\ ProcesadosCreados'
      /\ ReservaRespaldada' /\ RechazoConCausa'
      /\ eventos' \subseteq [id : Nat, delta : Nat, foto : Nat]
      /\ aplicados' \subseteq 1..Cardinality(eventos')
  <2>1. PICK k : k = Cantidad[x[1]]
    OBVIOUS
  <2>2. /\ k \in Int /\ k \in Nat /\ stock' = stock + k /\ Evento(k, stock')
        /\ desviado => desviado' /\ procesados \subseteq procesados'
        /\ procesados' \cap Pedidos = procesados \cap Pedidos
    BY <1>1, <1>2, <1>3, <2>1
  <2> QED
    BY <1>1, <1>3, <1>4, <2>2, MueveStock
<1>6. TypeOK'
  BY <1>i, <1>1, <1>2, <1>3, <1>5 DEF TypeOK
<1>7. InventarioCuadra'
  <2>1. Devueltas' = Devueltas \cup {x} /\ procesados' \cap Compras = procesados \cap Compras
        /\ x \notin Devueltas
    BY <1>1, <1>2 DEF Devueltas
  <2>2. /\ IsFiniteSet(Devueltas) /\ \A y \in Devueltas \cup {x} : Devuelto[y] \in Int
        /\ Devuelto[x] = Cantidad[x[1]]
    <3>1. IsFiniteSet(Devueltas) /\ \A y \in Devueltas : Devuelto[y] \in Int
      BY <1>i, MovidosTipados
    <3>2. Devuelto[x] = Cantidad[x[1]]
      BY <1>2 DEF Devuelto
    <3> QED
      BY <1>3, <3>1, <3>2
  <2>3. SumFunctionOnSet(Devuelto, Devueltas \cup {x})
          = Devuelto[x] + SumFunctionOnSet(Devuelto, Devueltas)
    BY <2>1, <2>2, SumaMas
  <2>4. PICK f, g, h : /\ f = Suma(descontadas) /\ g = SumFunctionOnSet(Devuelto, Devueltas)
                       /\ h = SumFunctionOnSet(Recibido, procesados \cap Compras)
    OBVIOUS
  <2>5. f \in Int /\ g \in Int /\ h \in Int
    BY <1>i, <2>4, MovidosTipados, SumaDeLineas DEF TypeOK
  <2>6. Inicial \in Int /\ ajustado \in Int /\ mermado \in Int
    BY <1>i, StockAssumption DEF TypeOK, StockAssumption
  <2>7. stock = Inicial + ajustado - mermado - f + g + h
    BY <1>i, <2>4 DEF InventarioCuadra
  <2>8. stock' = Inicial + ajustado - mermado - f + (Devuelto[x] + g) + h
    BY <1>1, <1>3, <2>2, <2>5, <2>6, <2>7
  <2> QED
    BY <1>1, <2>1, <2>3, <2>4, <2>8 DEF InventarioCuadra
<1> QED
  BY <1>5, <1>6, <1>7 DEF StockIInv

\* A reception adds its units once.
LEMMA PasoProcesarCompraRecibida ==
  ASSUME StockIInv, NEW c \in Compras, ProcesarCompraRecibida(c)
  PROVE  StockIInv'
<1>i. /\ TypeOK /\ EventosNumerados /\ AntesDeLaFila /\ ProcesadosCreados
      /\ ReservaRespaldada /\ RechazoConCausa /\ InventarioCuadra
  BY PartesDeStock
<1>1. /\ c \notin procesados /\ procesados' = procesados \cup {c}
      /\ stock' = stock + Recibido[c] /\ Evento(Recibido[c], stock')
      /\ UNCHANGED <<local, vista, pedido, linea, anulable, anulando, aplicados, compensados,
                     gestiones>>
      /\ UNCHANGED <<merma, lectura, manuales, restaurar, insuficiente>>
      /\ UNCHANGED <<descontadas, ajustado, mermado, desviado>>
  BY DEF ProcesarCompraRecibida, pedidos, historia
<1>2. c \notin Pedidos /\ c \notin Lineas \X Origenes
  BY StockAssumption DEF StockAssumption
<1>3. Recibido[c] \in Nat /\ stock \in Nat /\ stock' \in Nat
  BY <1>i, <1>1, StockAssumption DEF TypeOK, StockAssumption
<1>4. IsFiniteSet(procesados')
  BY <1>i, <1>1, FS_AddElement DEF ProcesadosCreados
<1>5. /\ EventosNumerados' /\ AntesDeLaFila' /\ ProcesadosCreados'
      /\ ReservaRespaldada' /\ RechazoConCausa'
      /\ eventos' \subseteq [id : Nat, delta : Nat, foto : Nat]
      /\ aplicados' \subseteq 1..Cardinality(eventos')
  <2>1. PICK k : k = Recibido[c]
    OBVIOUS
  <2>2. /\ k \in Int /\ k \in Nat /\ stock' = stock + k /\ Evento(k, stock')
        /\ desviado => desviado' /\ procesados \subseteq procesados'
        /\ procesados' \cap Pedidos = procesados \cap Pedidos
    BY <1>1, <1>2, <1>3, <2>1
  <2> QED
    BY <1>1, <1>3, <1>4, <2>2, MueveStock
<1>6. TypeOK'
  BY <1>i, <1>1, <1>3, <1>5 DEF TypeOK
<1>7. InventarioCuadra'
  <2>1. /\ Devueltas' = Devueltas /\ c \notin procesados \cap Compras
        /\ procesados' \cap Compras = (procesados \cap Compras) \cup {c}
    BY <1>1, <1>2 DEF Devueltas
  <2>2. /\ IsFiniteSet(procesados \cap Compras)
        /\ \A y \in (procesados \cap Compras) \cup {c} : Recibido[y] \in Int
    BY <1>i, <1>3, MovidosTipados
  <2>3. SumFunctionOnSet(Recibido, (procesados \cap Compras) \cup {c})
          = Recibido[c] + SumFunctionOnSet(Recibido, procesados \cap Compras)
    BY <2>1, <2>2, SumaMas
  <2>4. PICK f, g, h : /\ f = Suma(descontadas) /\ g = SumFunctionOnSet(Devuelto, Devueltas)
                       /\ h = SumFunctionOnSet(Recibido, procesados \cap Compras)
    OBVIOUS
  <2>5. f \in Int /\ g \in Int /\ h \in Int
    BY <1>i, <2>4, MovidosTipados, SumaDeLineas DEF TypeOK
  <2>6. Inicial \in Int /\ ajustado \in Int /\ mermado \in Int
    BY <1>i, StockAssumption DEF TypeOK, StockAssumption
  <2>7. stock = Inicial + ajustado - mermado - f + g + h
    BY <1>i, <2>4 DEF InventarioCuadra
  <2>8. stock' = Inicial + ajustado - mermado - f + g + (Recibido[c] + h)
    BY <1>1, <1>3, <2>5, <2>6, <2>7
  <2> QED
    BY <1>1, <2>1, <2>3, <2>4, <2>8 DEF InventarioCuadra
<1> QED
  BY <1>5, <1>6, <1>7 DEF StockIInv
\* A movement made by hand is in the account of the stock.
LEMMA PasoManual ==
  ASSUME StockIInv, NEW k \in Int, NEW delta \in Nat, Mover(stock + k, delta), stock + k \in Nat,
         delta = 0 \/ delta = k, ajustado' \in Int, mermado' \in Int,
         ajustado' - mermado' = ajustado - mermado + k,
         merma' \in [Mermas -> Perdidas \cup {0}], manuales' \in 0..MaxManual,
         lectura' \in [Editores -> [fila : Mermas, cantidad : Perdidas] \cup {Nadie}],
         UNCHANGED <<pedidos, procesados, restaurar, insuficiente, descontadas>>
  PROVE  StockIInv'
<1>i. /\ TypeOK /\ EventosNumerados /\ AntesDeLaFila /\ ProcesadosCreados
      /\ ReservaRespaldada /\ RechazoConCausa /\ InventarioCuadra
  BY PartesDeStock
<1>1. /\ stock' = stock + k /\ Evento(delta, stock') /\ desviado' = (desviado \/ delta = 0)
      /\ UNCHANGED <<local, vista, pedido, linea, anulable, anulando, aplicados, compensados,
                     gestiones>>
  BY DEF Mover, pedidos
<1>2. /\ EventosNumerados' /\ AntesDeLaFila' /\ ProcesadosCreados'
      /\ ReservaRespaldada' /\ RechazoConCausa'
      /\ eventos' \subseteq [id : Nat, delta : Nat, foto : Nat]
      /\ aplicados' \subseteq 1..Cardinality(eventos')
  <2>1. stock' \in Nat /\ (desviado => desviado') /\ (~desviado' => k = delta)
    BY <1>1
  <2>2. /\ IsFiniteSet(procesados') /\ procesados \subseteq procesados'
        /\ procesados' \cap Pedidos = procesados \cap Pedidos
    BY <1>i DEF ProcesadosCreados
  <2> QED
    BY <1>1, <2>1, <2>2, MueveStock
<1>3. desviado' \in BOOLEAN /\ stock' \in Nat
  BY <1>1
<1>4. TypeOK'
  BY <1>i, <1>1, <1>2, <1>3 DEF TypeOK
<1>5. InventarioCuadra'
  <2>1. Devueltas' = Devueltas /\ procesados' \cap Compras = procesados \cap Compras
    BY DEF Devueltas
  <2>2. PICK f, g, h : /\ f = Suma(descontadas) /\ g = SumFunctionOnSet(Devuelto, Devueltas)
                       /\ h = SumFunctionOnSet(Recibido, procesados \cap Compras)
    OBVIOUS
  <2>3. g \in Int /\ h \in Int
    BY <1>i, <2>2, MovidosTipados
  <2>4. f \in Int
    BY <1>i, <2>2, SumaDeLineas DEF TypeOK
  <2>5. Inicial \in Int /\ ajustado \in Int /\ mermado \in Int
    BY <1>i, StockAssumption DEF TypeOK, StockAssumption
  <2>6. stock = Inicial + ajustado - mermado - f + g + h
    BY <1>i, <2>2 DEF InventarioCuadra
  <2>7. stock' = Inicial + ajustado' - mermado' - f + g + h
    <3>1. PICK a, b, c, d : a = ajustado /\ b = mermado /\ c = ajustado' /\ d = mermado'
      OBVIOUS
    <3>2. c - d = a - b + k /\ {a, b, c, d, f, g, h, k, Inicial} \subseteq Int
      BY <2>3, <2>4, <2>5, <3>1
    <3>3. stock' = (Inicial + a - b - f + g + h) + k
      BY <1>1, <2>6, <3>1
    <3>4. (Inicial + a - b - f + g + h) + k = Inicial + c - d - f + g + h
      BY ONLY <3>2
    <3> QED
      BY <3>1, <3>3, <3>4
  <2> QED
    BY <2>1, <2>2, <2>7 DEF InventarioCuadra
<1> QED
  BY <1>2, <1>4, <1>5 DEF StockIInv

\* An adjustment never takes the stock below zero, and counts what it took.
LEMMA PasoActualizarStock ==
  ASSUME StockIInv, NEW d \in Ajustes, ActualizarStock(d)
  PROVE  StockIInv'
<1>i. TypeOK
  BY PartesDeStock
<1>0. d \in Int /\ d # 0 /\ stock \in Nat /\ ajustado \in Int /\ mermado \in Int
  BY <1>i, StockAssumption DEF TypeOK, StockAssumption
<1>1. PICK nuevo : nuevo = IF stock + d < 0 THEN 0 ELSE stock + d
  OBVIOUS
<1>2. PICK delta : delta = IF d > 0 THEN d ELSE 0
  OBVIOUS
<1>3. /\ manuales < MaxManual /\ manuales' = manuales + 1
      /\ Mover(nuevo, delta) /\ ajustado' = ajustado + nuevo - stock
      /\ UNCHANGED <<pedidos, procesados, restaurar, insuficiente, descontadas>>
      /\ UNCHANGED <<merma, lectura, mermado>>
  BY <1>1, <1>2 DEF ActualizarStock, Manual
<1>4. PICK k : k = nuevo - stock
  OBVIOUS
<1>5. /\ nuevo \in Nat /\ delta \in Nat /\ k \in Int /\ nuevo = stock + k
      /\ delta = 0 \/ delta = k
  BY <1>0, <1>1, <1>2, <1>4
<1>6. /\ ajustado' \in Int /\ mermado' \in Int /\ manuales' \in 0..MaxManual
      /\ ajustado' - mermado' = ajustado - mermado + k
  BY <1>0, <1>3, <1>4, <1>5, <1>i, StockAssumption DEF TypeOK, StockAssumption
<1>7. /\ merma' \in [Mermas -> Perdidas \cup {0}]
      /\ lectura' \in [Editores -> [fila : Mermas, cantidad : Perdidas] \cup {Nadie}]
  BY <1>i, <1>3 DEF TypeOK
<1>8. Mover(stock + k, delta) /\ stock + k \in Nat
  BY <1>3, <1>5
<1> QED
  BY <1>3, <1>5, <1>6, <1>7, <1>8, PasoManual

\* A waste takes its units.
LEMMA PasoRegistrarMerma ==
  ASSUME StockIInv, NEW m \in Mermas, NEW n \in Perdidas, RegistrarMerma(m, n)
  PROVE  StockIInv'
<1>i. TypeOK
  BY PartesDeStock
<1>0. n \in Nat /\ stock \in Nat /\ ajustado \in Int /\ mermado \in Int
  BY <1>i, StockAssumption DEF TypeOK, StockAssumption
<1>1. /\ manuales < MaxManual /\ manuales' = manuales + 1 /\ n <= stock
      /\ Mover(stock - n, 0) /\ merma' = [merma EXCEPT ![m] = n] /\ mermado' = mermado + n
      /\ UNCHANGED <<pedidos, procesados, restaurar, insuficiente, descontadas>>
      /\ UNCHANGED <<lectura, ajustado>>
  BY DEF RegistrarMerma, Manual
<1>2. PICK k : k = 0 - n
  OBVIOUS
<1>3. k \in Int /\ stock - n = stock + k /\ stock + k \in Nat
  BY <1>0, <1>1, <1>2
<1>4. /\ ajustado' \in Int /\ mermado' \in Int /\ manuales' \in 0..MaxManual
      /\ ajustado' - mermado' = ajustado - mermado + k
  BY <1>0, <1>1, <1>2, <1>i, StockAssumption DEF TypeOK, StockAssumption
<1>5. /\ merma' \in [Mermas -> Perdidas \cup {0}]
      /\ lectura' \in [Editores -> [fila : Mermas, cantidad : Perdidas] \cup {Nadie}]
  BY <1>i, <1>1 DEF TypeOK
<1>6. Mover(stock + k, 0)
  BY <1>1, <1>3
<1> QED
  BY <1>1, <1>3, <1>4, <1>5, <1>6, PasoManual

\* An editor holds the row that it read, or none.
LEMMA LecturaTipada ==
  ASSUME TypeOK, NEW u \in Editores, lectura[u] # Nadie
  PROVE  /\ lectura[u].fila \in Mermas /\ lectura[u].cantidad \in Nat
         /\ [lectura EXCEPT ![u] = Nadie]
              \in [Editores -> [fila : Mermas, cantidad : Perdidas] \cup {Nadie}]
<1>1. lectura \in [Editores -> [fila : Mermas, cantidad : Perdidas] \cup {Nadie}]
  BY DEF TypeOK
<1>2. lectura[u] \in [fila : Mermas, cantidad : Perdidas]
  BY <1>1
<1> QED
  BY <1>1, <1>2, StockAssumption DEF StockAssumption

\* A correction takes the difference, and one of nothing moves nothing.
LEMMA PasoActualizarMerma ==
  ASSUME StockIInv, NEW u \in Editores, NEW n \in Perdidas, ActualizarMerma(u, n)
  PROVE  StockIInv'
<1>i. TypeOK
  BY PartesDeStock
<1>1. PICK m, diferencia : m = lectura[u].fila /\ diferencia = n - lectura[u].cantidad
  OBVIOUS
<1>2. /\ lectura[u] # Nadie /\ stock - diferencia >= 0
      /\ merma' = [merma EXCEPT ![m] = n] /\ lectura' = [lectura EXCEPT ![u] = Nadie]
      /\ mermado' = mermado + diferencia
      /\ UNCHANGED <<pedidos, procesados, restaurar, insuficiente, descontadas>>
      /\ UNCHANGED <<manuales, ajustado>>
  BY <1>1 DEF ActualizarMerma
<1>3. IF diferencia = 0 THEN UNCHANGED <<stock, eventos, desviado>> ELSE Mover(stock - diferencia, 0)
  BY <1>1 DEF ActualizarMerma
<1>4. m \in Mermas /\ lectura[u].cantidad \in Nat
      /\ lectura' \in [Editores -> [fila : Mermas, cantidad : Perdidas] \cup {Nadie}]
  BY <1>i, <1>1, <1>2, LecturaTipada
<1>5. /\ diferencia \in Int /\ stock \in Nat /\ ajustado \in Int /\ mermado \in Int
      /\ merma' \in [Mermas -> Perdidas \cup {0}] /\ manuales' \in 0..MaxManual
  BY <1>i, <1>1, <1>2, <1>4, StockAssumption DEF TypeOK, StockAssumption
<1>6. CASE diferencia = 0
  <2>1. mermado' = mermado /\ UNCHANGED <<stock, eventos, desviado>>
    BY <1>2, <1>3, <1>5, <1>6
  <2>2. TypeOK'
    BY <1>i, <1>2, <1>4, <1>5, <2>1 DEF TypeOK, pedidos
  <2>3. \A a \in anulando' : pedido[a.pedido] # "NUEVO"
    BY <1>2, PartesDeStock DEF ProcesadosCreados, pedidos
  <2> QED
    BY <1>2, <2>1, <2>2, <2>3, QuietoStock DEF pedidos
<1>7. CASE diferencia # 0
  <2>1. PICK k : k = 0 - diferencia
    OBVIOUS
  <2>2. /\ k \in Int /\ stock - diferencia = stock + k /\ stock + k \in Nat
        /\ ajustado' \in Int /\ mermado' \in Int
        /\ ajustado' - mermado' = ajustado - mermado + k
    BY <1>2, <1>5, <2>1
  <2>3. Mover(stock + k, 0)
    BY <1>3, <1>7, <2>2
  <2> QED
    BY <1>2, <1>4, <1>5, <2>2, <2>3, PasoManual
<1> QED
  BY <1>6, <1>7

\* The units of a deleted row come back.
LEMMA PasoEliminarMerma ==
  ASSUME StockIInv, NEW u \in Editores, EliminarMerma(u)
  PROVE  StockIInv'
<1>i. TypeOK
  BY PartesDeStock
<1>1. PICK m, n : m = lectura[u].fila /\ n = lectura[u].cantidad
  OBVIOUS
<1>2. /\ lectura[u] # Nadie /\ Mover(stock + n, n)
      /\ merma' = [merma EXCEPT ![m] = 0] /\ lectura' = [lectura EXCEPT ![u] = Nadie]
      /\ mermado' = mermado - n
      /\ UNCHANGED <<pedidos, procesados, restaurar, insuficiente, descontadas>>
      /\ UNCHANGED <<manuales, ajustado>>
  BY <1>1 DEF EliminarMerma
<1>3. m \in Mermas /\ n \in Nat
      /\ lectura' \in [Editores -> [fila : Mermas, cantidad : Perdidas] \cup {Nadie}]
  BY <1>i, <1>1, <1>2, LecturaTipada
<1>4. /\ stock + n \in Nat /\ ajustado' \in Int /\ mermado' \in Int
      /\ ajustado' - mermado' = ajustado - mermado + n
      /\ merma' \in [Mermas -> Perdidas \cup {0}] /\ manuales' \in 0..MaxManual
  BY <1>i, <1>2, <1>3 DEF TypeOK
<1>5. n \in Int
  BY <1>3
<1> QED
  BY <1>2, <1>3, <1>4, <1>5, PasoManual
\* The life of the orders between their acceptance and their discount.
LEMMA PasoQuietoPedidos ==
  ASSUME StockIInv,
         \/ \E p \in Pedidos : \/ LeerRemoto(p) \/ ProcesarStockInsuficiente(p)
                               \/ \E e \in {"PAGADO", "CANCELADO"} : CerrarPedido(p, e)
                               \/ \E o \in Origenes : LeerParaAnular(p, o)
         \/ \E i \in Lineas :
              \/ AnularItemPreparado(i) \/ InvalidarAnulacion(i)
              \/ \E e \in {"VIVA", "CANCELADO", "RECHAZADO"} : ActualizarEstadoItem(i, e)
         \/ \E a \in anulando :
              \/ AbandonarAnulacion(a)
              \/ \E consumidas \in SUBSET Lineas : CancelarItems(a, consumidas)
  PROVE  StockIInv'
<1>i. /\ TypeOK /\ ProcesadosCreados
      /\ \A a \in anulando : a.pedido \in Pedidos /\ pedido[a.pedido] # "NUEVO"
  BY PartesDeStock DEF TypeOK, ProcesadosCreados
<1>t. /\ pedido \in [Pedidos -> {"NUEVO", "ENTREGADO", "PAGADO", "CANCELADO", "RECHAZADO"}]
      /\ linea \in [Lineas -> {"VIVA", "CANCELADO", "RECHAZADO"}]
      /\ gestiones \in 0..MaxGestiones /\ MaxGestiones \in Nat
      /\ PedidoDe \in [Lineas -> Pedidos]
  BY <1>i, StockAssumption DEF TypeOK, StockAssumption
<1> USE DEF inventario, historia, Gestion
<1>1. ASSUME NEW p \in Pedidos, LeerRemoto(p) PROVE StockIInv'
  <2>1. TypeOK'
    BY <1>i, <1>1 DEF TypeOK, LeerRemoto
  <2> QED
    BY <1>i, <1>1, <2>1, QuietoStock DEF LeerRemoto
<1>2. ASSUME NEW p \in Pedidos, ProcesarStockInsuficiente(p) PROVE StockIInv'
  <2>1. TypeOK'
    BY <1>i, <1>2 DEF TypeOK, ProcesarStockInsuficiente
  <2>2. pedido[p] # "NUEVO"
    BY <1>i, <1>2 DEF ProcesadosCreados, ProcesarStockInsuficiente
  <2>3. \A q \in Pedidos : pedido'[q] = "NUEVO" <=> pedido[q] = "NUEVO"
    BY <1>t, <1>2, <2>2 DEF ProcesarStockInsuficiente
  <2> QED
    BY <1>i, <1>2, <2>1, <2>3, QuietoStock DEF ProcesarStockInsuficiente
<1>3. ASSUME NEW p \in Pedidos, NEW e \in {"PAGADO", "CANCELADO"}, CerrarPedido(p, e)
      PROVE  StockIInv'
  <2>1. TypeOK'
    BY <1>i, <1>t, <1>3 DEF TypeOK, CerrarPedido
  <2>2. \A q \in Pedidos : pedido'[q] = "NUEVO" <=> pedido[q] = "NUEVO"
    BY <1>t, <1>3 DEF CerrarPedido
  <2> QED
    BY <1>i, <1>3, <2>1, <2>2, QuietoStock DEF CerrarPedido
<1>4. ASSUME NEW p \in Pedidos, NEW o \in Origenes, LeerParaAnular(p, o) PROVE StockIInv'
  <2>1. PICK a : a = [pedido |-> p, origen |-> o, vivas |-> {i \in De(p) : ~Cerrada(i)}]
    OBVIOUS
  <2>2. /\ a \in [pedido : Pedidos, origen : Origenes, vivas : SUBSET Lineas]
        /\ a.pedido = p
    BY <2>1 DEF De
  <2>3. /\ pedido[p] = "ENTREGADO" /\ anulando' = anulando \cup {a}
        /\ gestiones < MaxGestiones /\ gestiones' = gestiones + 1
        /\ UNCHANGED <<local, vista, pedido, linea, anulable, aplicados, compensados>>
        /\ UNCHANGED <<stock, merma, lectura, procesados, manuales, eventos, restaurar>>
        /\ UNCHANGED <<insuficiente, descontadas, ajustado, mermado, desviado>>
    BY <1>4, <2>1 DEF LeerParaAnular
  <2>4. TypeOK'
    BY <1>i, <1>t, <2>2, <2>3 DEF TypeOK
  <2>5. \A b \in anulando' : pedido[b.pedido] # "NUEVO"
    BY <1>i, <2>2, <2>3
  <2> QED
    BY <2>3, <2>4, <2>5, QuietoStock
<1>5. ASSUME NEW i \in Lineas, AnularItemPreparado(i) PROVE StockIInv'
  <2>1. PICK p : p = PedidoDe[i]
    OBVIOUS
  <2>2. /\ p \in Pedidos /\ pedido[p] # "NUEVO"
        /\ pedido' = pedido \/ pedido' = [pedido EXCEPT ![p] = "CANCELADO"]
        /\ gestiones < MaxGestiones /\ gestiones' = gestiones + 1
        /\ linea' = [linea EXCEPT ![i] = "CANCELADO"] /\ anulable' = anulable \cup {i}
        /\ UNCHANGED <<local, vista, anulando, aplicados, compensados>>
        /\ UNCHANGED <<stock, merma, lectura, procesados, manuales, eventos, restaurar>>
        /\ UNCHANGED <<insuficiente, descontadas, ajustado, mermado, desviado>>
    BY <1>t, <1>5, <2>1 DEF AnularItemPreparado
  <2>3. TypeOK'
    BY <1>i, <1>t, <2>2 DEF TypeOK
  <2>4. \A q \in Pedidos : pedido'[q] = "NUEVO" <=> pedido[q] = "NUEVO"
    BY <1>t, <2>2
  <2> QED
    BY <1>i, <2>2, <2>3, <2>4, QuietoStock
<1>6. ASSUME NEW i \in Lineas, InvalidarAnulacion(i) PROVE StockIInv'
  <2>1. TypeOK'
    BY <1>i, <1>t, <1>6 DEF TypeOK, InvalidarAnulacion
  <2> QED
    BY <1>i, <1>6, <2>1, QuietoStock DEF InvalidarAnulacion
<1>7. ASSUME NEW i \in Lineas, NEW e \in {"VIVA", "CANCELADO", "RECHAZADO"},
             ActualizarEstadoItem(i, e)
      PROVE  StockIInv'
  <2>1. TypeOK'
    BY <1>i, <1>t, <1>7 DEF TypeOK, ActualizarEstadoItem
  <2> QED
    BY <1>i, <1>7, <2>1, QuietoStock DEF ActualizarEstadoItem
<1>8. ASSUME NEW a \in anulando, AbandonarAnulacion(a) PROVE StockIInv'
  <2>1. TypeOK'
    BY <1>i, <1>8 DEF TypeOK, AbandonarAnulacion
  <2>2. anulando' \subseteq anulando
    BY <1>8 DEF AbandonarAnulacion
  <2> QED
    BY <1>i, <1>8, <2>1, <2>2, QuietoStock DEF AbandonarAnulacion
<1>9. ASSUME NEW a \in anulando, NEW consumidas \in SUBSET Lineas, CancelarItems(a, consumidas)
      PROVE  StockIInv'
  <2>1. PICK canceladas : canceladas = a.vivas \ consumidas
    OBVIOUS
  <2>2. a \in [pedido : Pedidos, origen : Origenes, vivas : SUBSET Lineas]
    BY <1>i DEF TypeOK
  <2>3. /\ anulando' = anulando \ {a} /\ canceladas \subseteq Lineas
        /\ linea' = [i \in Lineas |-> IF i \in canceladas THEN "CANCELADO" ELSE linea[i]]
        /\ pedido' = pedido \/ pedido' = [pedido EXCEPT ![a.pedido] = "CANCELADO"]
        /\ anulable' \subseteq anulable \cup canceladas
        /\ restaurar' = restaurar \cup {<<i, a.origen>> : i \in canceladas}
        /\ UNCHANGED <<gestiones, local, vista, aplicados, compensados>>
        /\ UNCHANGED <<stock, merma, lectura, procesados, manuales, eventos>>
        /\ UNCHANGED <<insuficiente, descontadas, ajustado, mermado, desviado>>
    BY <1>9, <2>1, <2>2 DEF CancelarItems
  <2>4. restaurar' \subseteq Lineas \X Origenes /\ anulando' \subseteq anulando
    BY <1>i, <2>2, <2>3 DEF TypeOK
  <2>5. linea' \in [Lineas -> {"VIVA", "CANCELADO", "RECHAZADO"}]
    BY <1>t, <2>3
  <2>6. /\ pedido' \in [Pedidos -> {"NUEVO", "ENTREGADO", "PAGADO", "CANCELADO", "RECHAZADO"}]
        /\ \A q \in Pedidos : pedido'[q] = "NUEVO" <=> pedido[q] = "NUEVO"
    BY <1>i, <1>t, <2>2, <2>3
  <2>7. TypeOK'
    BY <1>i, <2>3, <2>4, <2>5, <2>6 DEF TypeOK
  <2> QED
    BY <1>i, <2>3, <2>4, <2>6, <2>7, QuietoStock
<1> QED
  BY <1>1, <1>2, <1>3, <1>4, <1>5, <1>6, <1>7, <1>8, <1>9

\* An editor that reads or gives up moves nothing.
LEMMA PasoQuietoMermas ==
  ASSUME StockIInv, NEW u \in Editores,
         AbandonarMerma(u) \/ \E m \in Mermas : LeerMerma(u, m)
  PROVE  StockIInv'
<1>i. TypeOK /\ \A a \in anulando : pedido[a.pedido] # "NUEVO"
  BY PartesDeStock DEF ProcesadosCreados
<1>1. /\ lectura' \in [Editores -> [fila : Mermas, cantidad : Perdidas] \cup {Nadie}]
      /\ manuales' \in 0..MaxManual
      /\ UNCHANGED <<pedidos, stock, merma, procesados, eventos, restaurar, insuficiente>>
      /\ UNCHANGED <<descontadas, ajustado, mermado, desviado>>
  <2>1. CASE AbandonarMerma(u)
    BY <1>i, <2>1 DEF TypeOK, AbandonarMerma, historia
  <2>2. ASSUME NEW m \in Mermas, LeerMerma(u, m)
        PROVE  /\ lectura' \in [Editores -> [fila : Mermas, cantidad : Perdidas] \cup {Nadie}]
               /\ manuales' \in 0..MaxManual
               /\ UNCHANGED <<pedidos, stock, merma, procesados, eventos, restaurar>>
               /\ UNCHANGED <<insuficiente, descontadas, ajustado, mermado, desviado>>
    <3>1. merma[m] \in Perdidas
      BY <1>i, <2>2 DEF TypeOK, LeerMerma
    <3> QED
      BY <1>i, <2>2, <3>1, StockAssumption DEF TypeOK, LeerMerma, Manual, historia, StockAssumption
  <2> QED
    BY <2>1, <2>2
<1>2. TypeOK'
  BY <1>i, <1>1 DEF TypeOK, pedidos
<1> QED
  BY <1>i, <1>1, <1>2, QuietoStock DEF pedidos

\* Every step keeps the invariant.
LEMMA PasoStock ==
  ASSUME StockIInv, [Next]_vars
  PROVE  StockIInv'
<1>1. CASE Entregar
  <2>1. ASSUME NEW m \in eventos, ProcesarProducto(m) PROVE StockIInv'
    BY <2>1, PasoProcesarProducto
  <2>2. ASSUME NEW p \in Pedidos, ProcesarStockInsuficiente(p) PROVE StockIInv'
    BY <2>2, PasoQuietoPedidos
  <2>3. ASSUME NEW p \in Pedidos, NEW S \in SUBSET Lineas, ProcesarPedidoCreado(p, S)
        PROVE  StockIInv'
    BY <2>3, PasoProcesarPedidoCreado
  <2>4. ASSUME NEW x \in restaurar, ProcesarStockRestaurado(x) PROVE StockIInv'
    BY <2>4, PasoProcesarStockRestaurado
  <2>5. ASSUME NEW c \in Compras, ProcesarCompraRecibida(c) PROVE StockIInv'
    BY <2>5, PasoProcesarCompraRecibida
  <2> QED
    BY <1>1, <2>1, <2>2, <2>3, <2>4, <2>5 DEF Entregar
<1>2. CASE Atender
  <2>1. ASSUME NEW p \in Pedidos, GuardarLocal(p) PROVE StockIInv'
    BY <2>1, PasoGuardarLocal
  <2>2. ASSUME NEW p \in Pedidos, PersistirPedido(p) PROVE StockIInv'
    BY <2>2, PasoPersistirPedido
  <2> QED
    BY <1>2, <2>1, <2>2, PasoQuietoPedidos DEF Atender
<1>3. CASE Administrar
  <2>1. ASSUME NEW d \in Ajustes, ActualizarStock(d) PROVE StockIInv'
    BY <2>1, PasoActualizarStock
  <2>2. ASSUME NEW m \in Mermas, NEW n \in Perdidas, RegistrarMerma(m, n) PROVE StockIInv'
    BY <2>2, PasoRegistrarMerma
  <2>3. ASSUME NEW u \in Editores, NEW m \in Mermas, LeerMerma(u, m) PROVE StockIInv'
    BY <2>3, PasoQuietoMermas
  <2>4. ASSUME NEW u \in Editores, NEW n \in Perdidas, ActualizarMerma(u, n) PROVE StockIInv'
    BY <2>4, PasoActualizarMerma
  <2>5. ASSUME NEW u \in Editores, EliminarMerma(u) PROVE StockIInv'
    BY <2>5, PasoEliminarMerma
  <2>6. ASSUME NEW u \in Editores, AbandonarMerma(u) PROVE StockIInv'
    BY <2>6, PasoQuietoMermas
  <2> QED
    BY <1>3, <2>1, <2>2, <2>3, <2>4, <2>5, <2>6 DEF Administrar
<1>4. CASE UNCHANGED vars
  <2>1. /\ UNCHANGED <<local, vista, pedido, linea, anulable, anulando, aplicados, compensados>>
        /\ UNCHANGED <<gestiones, stock, merma, lectura, procesados, manuales, eventos>>
        /\ UNCHANGED <<restaurar, insuficiente, descontadas, ajustado, mermado, desviado>>
    BY <1>4 DEF vars, pedidos, inventario, historia
  <2>2. TypeOK'
    BY <2>1, PartesDeStock DEF TypeOK
  <2>3. \A a \in anulando' : pedido[a.pedido] # "NUEVO"
    BY <2>1, PartesDeStock DEF ProcesadosCreados
  <2> QED
    BY <2>1, <2>2, <2>3, QuietoStock
<1> QED
  BY <1>1, <1>2, <1>3, <1>4 DEF Next

\* The invariant holds for ever.
LEMMA SiempreStock == Spec => []StockIInv
<1>1. StockIInv /\ [Next]_vars => StockIInv'
  BY PasoStock
<1> QED
  BY <1>1, InicioStock, PTL DEF Spec

\* Neither copy of the stock goes below zero, and nothing loses its type.
THEOREM StockTipos == Spec => []TypeOK
<1>1. StockIInv => TypeOK
  BY DEF StockIInv
<1> QED
  BY <1>1, SiempreStock, PTL

\* Every unit that servicio-pedidos offers or has reserved is backed by one of
\* servicio-inventario, replenishments in flight included, until a loss is entered
\* by hand or the projection is built from a snapshot.
THEOREM ReservaSiempreRespaldada == Spec => []ReservaRespaldada
<1>1. StockIInv => ReservaRespaldada
  BY DEF StockIInv
<1> QED
  BY <1>1, SiempreStock, PTL

\* Delays, repetitions, reorderings, cancellations and purchases never make
\* servicio-inventario refuse an accepted order.
THEOREM RechazoSiempreConCausa == Spec => []RechazoConCausa
<1>1. StockIInv => RechazoConCausa
  BY DEF StockIInv
<1> QED
  BY <1>1, SiempreStock, PTL

\* The stock is what came in minus what went out, each reception, adjustment,
\* waste, sale and return counted once.
THEOREM ElInventarioCuadra == Spec => []InventarioCuadra
<1>1. StockIInv => InventarioCuadra
  BY DEF StockIInv
<1> QED
  BY <1>1, SiempreStock, PTL
=============================================================================
