----------------------------- MODULE SalonProofs -----------------------------
(***************************************************************************)
(* Proofs about the table, its bills and its orders, for any number of     *)
(* bills and orders.                                                       *)
(***************************************************************************)
EXTENDS SalonProps, TLAPS

\* The parts of the inductive invariant, by name.
LEMMA PartesDeSalon ==
  SalonIInv <=> /\ TypeOK /\ AbiertasEnOrden /\ EntradasConEvento /\ PreviosDeLasAnteriores
                /\ ConsolidadoEnCuenta /\ CuentasDisjuntas /\ AsociacionFiel
  BY DEF SalonIInv

\* At the start there are no bills and no orders.
LEMMA InicioSalon == Init => SalonIInv
<1> SUFFICES ASSUME Init PROVE SalonIInv
  OBVIOUS
<1>1. TypeOK
  BY DEF Init, TypeOK, EstadosCuenta
<1>2. \A c \in Cuentas : cuenta[c] = "SIN_ABRIR" /\ \A p \in Pedidos : ~EnCuenta(c, p)
  BY DEF Init, EnCuenta
<1>3. AbiertasEnOrden /\ EntradasConEvento /\ PreviosDeLasAnteriores /\ CuentasDisjuntas
  BY <1>2 DEF AbiertasEnOrden, EntradasConEvento, PreviosDeLasAnteriores, CuentasDisjuntas,
     Abiertas
<1>4. ConsolidadoEnCuenta /\ AsociacionFiel
  BY DEF Init, ConsolidadoEnCuenta, AsociacionFiel
<1> QED
  BY <1>1, <1>3, <1>4, PartesDeSalon

\* The end of bills disturbs nothing, nor what happens to the orders once they
\* are created.
LEMMA SoloTerminan ==
  ASSUME SalonIInv,
         \A c \in Cuentas : \/ cuenta'[c] = cuenta[c]
                            \/ cuenta[c] = "ABIERTA" /\ cuenta'[c] \in {"CERRADA", "CANCELADA"},
         Creados \subseteq Creados',
         UNCHANGED <<snapshot, previos, claves, adelantados, consolidado, asociada>>
  PROVE  /\ AbiertasEnOrden' /\ EntradasConEvento' /\ PreviosDeLasAnteriores'
         /\ ConsolidadoEnCuenta' /\ CuentasDisjuntas' /\ AsociacionFiel'
<1>i. /\ TypeOK /\ AbiertasEnOrden /\ EntradasConEvento /\ PreviosDeLasAnteriores
      /\ ConsolidadoEnCuenta /\ CuentasDisjuntas /\ AsociacionFiel
  BY PartesDeSalon
<1>1. \A c \in Cuentas : /\ cuenta'[c] # "SIN_ABRIR" <=> cuenta[c] # "SIN_ABRIR"
                         /\ c \in Abiertas' => c \in Abiertas
  BY DEF Abiertas
<1>2. \A c \in Cuentas, p \in Pedidos : EnCuenta(c, p)' <=> EnCuenta(c, p)
  BY DEF EnCuenta
<1>3. AbiertasEnOrden'
  BY <1>i, <1>1 DEF AbiertasEnOrden
<1>4. EntradasConEvento'
  BY <1>i, <1>1, <1>2 DEF EntradasConEvento
<1>5. PreviosDeLasAnteriores'
  BY <1>i, <1>1, <1>2 DEF PreviosDeLasAnteriores
<1>6. ConsolidadoEnCuenta' /\ AsociacionFiel'
  BY <1>i DEF ConsolidadoEnCuenta, AsociacionFiel, EnCuenta
<1>7. Abiertas' \subseteq Abiertas
  BY <1>1 DEF Abiertas
<1>8. CuentasDisjuntas'
  BY <1>i, <1>2, <1>7 DEF CuentasDisjuntas
<1> QED
  BY <1>3, <1>4, <1>5, <1>6, <1>8

\* The same, when the bills do not change either.
LEMMA LibrosQuietos ==
  ASSUME SalonIInv, Creados \subseteq Creados', UNCHANGED <<libros, consolidado, asociada>>
  PROVE  /\ AbiertasEnOrden' /\ EntradasConEvento' /\ PreviosDeLasAnteriores'
         /\ ConsolidadoEnCuenta' /\ CuentasDisjuntas' /\ AsociacionFiel'
  BY SoloTerminan DEF libros

\* Bill c is opened for the table, older than every order but perhaps one that is
\* in no bill, and it is the last.
LEMMA SeAbre ==
  ASSUME SalonIInv, NEW c \in Cuentas, NEW mayores \in SUBSET Pedidos, Abiertas = {},
         NuevaCuenta(c, mayores)
  PROVE  /\ cuenta' \in [Cuentas -> EstadosCuenta] /\ previos' \in [Cuentas -> SUBSET Pedidos]
         /\ cuenta'[c] = "ABIERTA" /\ previos'[c] = mayores
         /\ \A d \in Cuentas \ {c} : cuenta'[d] = cuenta[d] /\ previos'[d] = previos[d]
         /\ Abiertas' = {c}
         /\ AbiertasEnOrden'
         /\ \A d \in Cuentas : cuenta'[d] # "SIN_ABRIR" => d <= c
<1>i. TypeOK /\ AbiertasEnOrden
  BY PartesDeSalon
<1>1. /\ cuenta[c] = "SIN_ABRIR"
      /\ \A d \in Cuentas : d < c => cuenta[d] # "SIN_ABRIR"
      /\ cuenta' = [cuenta EXCEPT ![c] = "ABIERTA"]
      /\ previos' = [previos EXCEPT ![c] = mayores]
  BY DEF NuevaCuenta
<1>2. cuenta \in [Cuentas -> EstadosCuenta] /\ previos \in [Cuentas -> SUBSET Pedidos]
  BY <1>i DEF TypeOK
<1>3. /\ cuenta' \in [Cuentas -> EstadosCuenta] /\ previos' \in [Cuentas -> SUBSET Pedidos]
      /\ cuenta'[c] = "ABIERTA" /\ previos'[c] = mayores
      /\ \A d \in Cuentas \ {c} : cuenta'[d] = cuenta[d] /\ previos'[d] = previos[d]
  BY <1>1, <1>2 DEF EstadosCuenta
<1>4. Abiertas' = {c}
  BY <1>3 DEF Abiertas
<1>5. \A d \in Cuentas : d \in Int /\ c \in Int
  BY SalonAssumption DEF SalonAssumption
<1>6. \A d \in Cuentas : cuenta'[d] # "SIN_ABRIR" => d <= c
  BY <1>i, <1>1, <1>3, <1>5 DEF AbiertasEnOrden
<1>7. AbiertasEnOrden'
  BY <1>1, <1>3, <1>4, <1>5, <1>6 DEF AbiertasEnOrden
<1> QED
  BY <1>3, <1>4, <1>6, <1>7

\* Bills change as cancelarCuenta, the handler of mesa.actualizada and
\* cerrarCuenta do: only those that are open, which end.
LEMMA SoloLasAbiertas ==
  ASSUME TypeOK, NEW c \in Cuentas, Cancelar(c)
  PROVE  /\ cuenta' \in [Cuentas -> EstadosCuenta]
         /\ \A d \in Cuentas : \/ cuenta'[d] = cuenta[d]
                               \/ cuenta[d] = "ABIERTA" /\ cuenta'[d] \in {"CERRADA", "CANCELADA"}
  BY DEF Cancelar, TypeOK, EstadosCuenta

\* The row of the table keeps its type, and what it shows.
LEMMA TipoDeMesa ==
  ASSUME TypeOK, NEW estado \in {"LIBRE", "OCUPADA"}, NEW c \in Cuentas \cup {Ninguna, Igual},
         ActualizarMesa(estado, c)
  PROVE  /\ mesa' \in [estado : {"LIBRE", "OCUPADA"}, cuenta : Cuentas \cup {Ninguna}]
         /\ fotos' \subseteq Cuentas \cup {Ninguna}
<1>1. PICK nueva : nueva = IF c = Igual THEN mesa.cuenta ELSE c
  OBVIOUS
<1>2. nueva \in Cuentas \cup {Ninguna}
  BY <1>1 DEF TypeOK
<1>3. \/ UNCHANGED <<mesa, fotos>>
      \/ mesa' = [estado |-> estado, cuenta |-> nueva] /\ fotos' = fotos \cup {nueva}
  BY <1>1 DEF ActualizarMesa
<1> QED
  BY <1>2, <1>3 DEF TypeOK
\* An order that comes into a bill is in no other, unless its change came before
\* it; what came before stays.
LEMMA AlConsolidar ==
  ASSUME SalonIInv, NEW p \in Pedidos, NEW c \in Cuentas, Consolidar(p, c),
         <<"creado", p>> \notin claves
  PROVE  /\ snapshot' \in [Cuentas -> [Pedidos -> {"NO", "VIVO", "ANULADO"}]]
         /\ consolidado' \in [Pedidos -> Cuentas \cup {Ninguna}]
         /\ adelantados' \subseteq Pedidos /\ adelantados \subseteq adelantados'
         /\ consolidado'[p] = c
         /\ \A q \in Pedidos \ {p} : consolidado'[q] = consolidado[q]
         /\ EnCuenta(c, p)'
         /\ \A d \in Cuentas, q \in Pedidos :
              EnCuenta(d, q)' <=> EnCuenta(d, q) \/ (d = c /\ q = p)
         /\ p \notin adelantados' => \A d \in Cuentas : ~EnCuenta(d, p)
<1>i. TypeOK /\ EntradasConEvento
  BY PartesDeSalon
<1>1. /\ snapshot' = IF EnCuenta(c, p) THEN snapshot ELSE [snapshot EXCEPT ![c][p] = "VIVO"]
      /\ consolidado' = [consolidado EXCEPT ![p] = c]
      /\ adelantados' = IF \E foto \in {"VIVO", "ANULADO"} : <<foto, p>> \in claves
                        THEN adelantados \cup {p} ELSE adelantados
  BY DEF Consolidar
<1>2. /\ snapshot \in [Cuentas -> [Pedidos -> {"NO", "VIVO", "ANULADO"}]]
      /\ consolidado \in [Pedidos -> Cuentas \cup {Ninguna}]
      /\ adelantados \subseteq Pedidos
  BY <1>i DEF TypeOK
<1>3. /\ snapshot' \in [Cuentas -> [Pedidos -> {"NO", "VIVO", "ANULADO"}]]
      /\ \A d \in Cuentas, q \in Pedidos :
           snapshot'[d][q] # "NO" <=> snapshot[d][q] # "NO" \/ (d = c /\ q = p)
  <2>1. CASE EnCuenta(c, p)
    BY <1>1, <1>2, <2>1 DEF EnCuenta
  <2>2. CASE ~EnCuenta(c, p)
    <3>1. snapshot' = [snapshot EXCEPT ![c] = [snapshot[c] EXCEPT ![p] = "VIVO"]]
      BY <1>1, <2>2
    <3>2. PICK fila : fila = [snapshot[c] EXCEPT ![p] = "VIVO"]
      OBVIOUS
    <3>3. /\ fila \in [Pedidos -> {"NO", "VIVO", "ANULADO"}] /\ fila[p] = "VIVO"
          /\ \A q \in Pedidos \ {p} : fila[q] = snapshot[c][q]
      BY <1>2, <3>2
    <3>4. snapshot' = [snapshot EXCEPT ![c] = fila]
      BY <3>1, <3>2
    <3> QED
      BY <1>2, <3>3, <3>4
  <2> QED
    BY <2>1, <2>2
<1>4. \A d \in Cuentas, q \in Pedidos : EnCuenta(d, q)' <=> EnCuenta(d, q) \/ (d = c /\ q = p)
  BY <1>3 DEF EnCuenta
<1>5. p \notin adelantados' => \A d \in Cuentas : ~EnCuenta(d, p)
  BY <1>i, <1>1 DEF EntradasConEvento
<1> QED
  BY <1>1, <1>2, <1>3, <1>4, <1>5

\* What an order that comes into the last bill, the open one, leaves: ahead of it
\* there is no other bill, and behind it the order was in none.
LEMMA EntraEnLaUltima ==
  ASSUME SalonIInv, NEW p \in Pedidos, NEW c \in Cuentas,
         Consolidar(p, c), <<"creado", p>> \notin claves,
         p \in Creados, UNCHANGED <<pedido, asociada>>,
         claves \cup {<<"creado", p>>} = claves',
         Abiertas' = {c}, AbiertasEnOrden',
         \A d \in Cuentas : cuenta'[d] # "SIN_ABRIR" => d <= c,
         \A d \in Cuentas \ {c} : cuenta'[d] = cuenta[d] /\ previos'[d] = previos[d],
         \A q \in Pedidos \ adelantados', d \in Cuentas :
           q # p /\ EnCuenta(d, q) /\ d < c => q \in previos'[c]
  PROVE  /\ EntradasConEvento' /\ PreviosDeLasAnteriores'
         /\ ConsolidadoEnCuenta' /\ CuentasDisjuntas' /\ AsociacionFiel'
<1>i. /\ TypeOK /\ AbiertasEnOrden /\ EntradasConEvento /\ PreviosDeLasAnteriores
      /\ ConsolidadoEnCuenta /\ CuentasDisjuntas /\ AsociacionFiel
  BY PartesDeSalon
<1>1. /\ adelantados \subseteq adelantados'
      /\ consolidado'[p] = c
      /\ \A q \in Pedidos \ {p} : consolidado'[q] = consolidado[q]
      /\ \A d \in Cuentas, q \in Pedidos :
           EnCuenta(d, q)' <=> EnCuenta(d, q) \/ (d = c /\ q = p)
      /\ p \notin adelantados' => \A d \in Cuentas : ~EnCuenta(d, p)
  BY AlConsolidar
<1>2. cuenta'[c] = "ABIERTA" /\ Creados' = Creados
  BY DEF Abiertas, Creados
<1>3. EntradasConEvento'
  BY <1>i, <1>1, <1>2 DEF EntradasConEvento
<1>4. \A d \in Cuentas : d \in Int
  BY SalonAssumption DEF SalonAssumption
<1>5. PreviosDeLasAnteriores'
  <2>1. SUFFICES ASSUME NEW q \in Pedidos, q \notin adelantados', NEW d \in Cuentas, NEW e \in Cuentas,
                        EnCuenta(d, q)', d < e, cuenta'[e] # "SIN_ABRIR"
                 PROVE  q \in previos'[e]
    BY DEF PreviosDeLasAnteriores
  <2>2. e <= c /\ d # c
    BY <1>4, <2>1
  <2>3. EnCuenta(d, q) /\ q # p
    BY <1>1, <2>1, <2>2
  <2>4. CASE e = c
    BY <2>1, <2>3, <2>4
  <2>5. CASE e # c
    BY <1>i, <1>1, <2>1, <2>3, <2>5 DEF PreviosDeLasAnteriores
  <2> QED
    BY <2>4, <2>5
<1>6. ConsolidadoEnCuenta'
  <2>1. ASSUME NEW q \in Pedidos, consolidado'[q] # Ninguna
        PROVE  snapshot'[consolidado'[q]][q] # "NO"
    <3>1. consolidado'[q] \in Cuentas
      BY <1>i, <1>1, <2>1 DEF TypeOK
    <3>3. PICK d \in Cuentas : d = consolidado'[q]
      BY <3>1
    <3>2. q = p => d = c
      BY <1>1, <3>3
    <3>4. q # p => EnCuenta(d, q)
      <4>1. q # p => consolidado[q] = d /\ d # Ninguna
        BY <1>1, <2>1, <3>3
      <4> QED
        BY <1>i, <4>1 DEF ConsolidadoEnCuenta, EnCuenta
    <3>5. EnCuenta(d, q)'
      BY <1>1, <3>2, <3>4
    <3> QED
      BY <3>3, <3>5 DEF EnCuenta
  <2> QED
    BY <2>1 DEF ConsolidadoEnCuenta, EnCuenta
<1>7. CuentasDisjuntas'
  <2>1. \A a, d \in Abiertas' : a = d
    OBVIOUS
  <2>2. ASSUME NEW q \in Pedidos, q \notin adelantados', NEW a \in Cuentas, NEW d \in Cuentas,
               EnCuenta(a, q)', EnCuenta(d, q)'
        PROVE  a = d
    BY <1>i, <1>1, <2>2 DEF CuentasDisjuntas
  <2> QED
    BY <2>1, <2>2 DEF CuentasDisjuntas
<1>8. AsociacionFiel'
  <2>1. ASSUME NEW q \in Pedidos, asociada[q] # Ninguna
        PROVE  snapshot'[asociada[q]][q] # "NO"
    <3>1. PICK d \in Cuentas : d = asociada[q]
      BY <1>i, <2>1 DEF TypeOK
    <3>2. EnCuenta(d, q)
      BY <1>i, <2>1, <3>1 DEF AsociacionFiel
    <3>3. EnCuenta(d, q)'
      BY <1>1, <3>2
    <3> QED
      BY <3>1, <3>3 DEF EnCuenta
  <2> QED
    BY <2>1 DEF AsociacionFiel, EnCuenta
<1> QED
  BY <1>3, <1>5, <1>6, <1>7, <1>8
\* Every step keeps the invariant: what comes late finds the bills of earlier
\* attentions ended, and its order among the old ones.
LEMMA PasoSalon == SalonIInv /\ [Next]_vars => SalonIInv'
<1> SUFFICES ASSUME SalonIInv, [Next]_vars PROVE SalonIInv'
  OBVIOUS
<1>i. /\ TypeOK /\ AbiertasEnOrden /\ EntradasConEvento /\ PreviosDeLasAnteriores
      /\ ConsolidadoEnCuenta /\ CuentasDisjuntas /\ AsociacionFiel
  BY PartesDeSalon
<1>v. Ninguna \notin Cuentas
  BY SalonAssumption DEF SalonAssumption
<1> USE DEF ordenes, libros, colas
<1>q. ASSUME Creados \subseteq Creados', UNCHANGED <<libros, consolidado, asociada>>, TypeOK'
      PROVE  SalonIInv'
  BY <1>q, LibrosQuietos DEF SalonIInv
<1>t. ASSUME UNCHANGED <<pedido, asociada, snapshot, previos, claves, adelantados, consolidado>>,
             \A d \in Cuentas : \/ cuenta'[d] = cuenta[d]
                                \/ cuenta[d] = "ABIERTA" /\ cuenta'[d] \in {"CERRADA", "CANCELADA"},
             TypeOK'
      PROVE  SalonIInv'
  <2>1. Creados' = Creados
    BY <1>t DEF Creados
  <2> QED
    BY <1>t, <2>1, SoloTerminan DEF SalonIInv
<1>0. CASE UNCHANGED vars
  <2>1. TypeOK' /\ Creados' = Creados
    BY <1>i, <1>0 DEF vars, TypeOK, Creados
  <2> QED
    BY <1>0, <1>q, <2>1 DEF vars
<1>m. ASSUME NEW estado \in {"LIBRE", "OCUPADA"}, NEW c \in Cuentas \cup {Ninguna, Igual},
             ActualizarMesa(estado, c),
             UNCHANGED <<ordenes, libros, porCancelar, consolidado, pagadas>>
      PROVE  SalonIInv'
  <2>1. /\ mesa' \in [estado : {"LIBRE", "OCUPADA"}, cuenta : Cuentas \cup {Ninguna}]
        /\ fotos' \subseteq Cuentas \cup {Ninguna}
    BY <1>i, <1>m, TipoDeMesa
  <2>2. TypeOK' /\ Creados' = Creados
    BY <1>i, <1>m, <2>1 DEF TypeOK, Creados
  <2> QED
    BY <1>q, <1>m, <2>2
<1>1. ASSUME NEW c \in Cuentas, HandleCuentaAbierta(c) PROVE SalonIInv'
  BY <1>1, <1>m DEF HandleCuentaAbierta
<1>2. ASSUME NEW c \in Cuentas, HandleCuentaCerrada(c) PROVE SalonIInv'
  BY <1>2, <1>m DEF HandleCuentaCerrada
<1>3. CASE CambiarMesa("LIBRE", Ninguna)
  BY <1>3, <1>m DEF CambiarMesa
<1>4. CASE CambiarMesa("OCUPADA", Igual)
  BY <1>4, <1>m DEF CambiarMesa
<1>5. ASSUME NEW c \in Cuentas, AbrirCuenta(c) PROVE SalonIInv'
  <2>1. /\ Abiertas = {} /\ NuevaCuenta(c, Creados)
        /\ UNCHANGED <<mesa, ordenes, snapshot, claves, adelantados, porCancelar, colas>>
    BY <1>5 DEF AbrirCuenta
  <2>2. Creados \in SUBSET Pedidos /\ Creados' = Creados
    BY <2>1 DEF Creados
  <2>3. /\ cuenta' \in [Cuentas -> EstadosCuenta] /\ previos' \in [Cuentas -> SUBSET Pedidos]
        /\ cuenta'[c] = "ABIERTA" /\ previos'[c] = Creados
        /\ \A d \in Cuentas \ {c} : cuenta'[d] = cuenta[d] /\ previos'[d] = previos[d]
        /\ Abiertas' = {c} /\ AbiertasEnOrden'
    BY <2>1, <2>2, SeAbre
  <2>4. TypeOK'
    BY <1>i, <2>1, <2>3 DEF TypeOK
  <2>5. \A d \in Cuentas, p \in Pedidos : EnCuenta(d, p)' <=> EnCuenta(d, p)
    BY <2>1 DEF EnCuenta
  <2>6. EntradasConEvento'
    BY <1>i, <2>1, <2>2, <2>3, <2>5 DEF EntradasConEvento
  <2>7. PreviosDeLasAnteriores'
    BY <1>i, <2>1, <2>3, <2>5 DEF PreviosDeLasAnteriores, EntradasConEvento
  <2>8. ConsolidadoEnCuenta' /\ AsociacionFiel'
    BY <1>i, <2>1 DEF ConsolidadoEnCuenta, AsociacionFiel, EnCuenta
  <2>9. CuentasDisjuntas'
    BY <1>i, <2>1, <2>3, <2>5 DEF CuentasDisjuntas
  <2> QED
    BY <2>3, <2>4, <2>6, <2>7, <2>8, <2>9 DEF SalonIInv
<1>6. ASSUME NEW p \in Pedidos, NEW c \in Cuentas, DescartarCreado(p, c) PROVE SalonIInv'
  <2>1. /\ claves' = claves \cup {<<"creado", p>>}
        /\ UNCHANGED <<mesa, ordenes, porCancelar, fotos, pagadas, cuenta, snapshot, previos,
                       adelantados, consolidado>>
    BY <1>6 DEF DescartarCreado, Pendiente
  <2>2. TypeOK'
    BY <1>i, <2>1 DEF TypeOK
  <2>3. \A d \in Cuentas, q \in Pedidos : EnCuenta(d, q)' <=> EnCuenta(d, q)
    BY <2>1 DEF EnCuenta
  <2>4. Abiertas' = Abiertas /\ Creados' = Creados
    BY <2>1 DEF Abiertas, Creados
  <2>5. AbiertasEnOrden' /\ CuentasDisjuntas'
    BY <1>i, <2>1, <2>3, <2>4 DEF AbiertasEnOrden, CuentasDisjuntas
  <2>6. EntradasConEvento' /\ PreviosDeLasAnteriores'
    BY <1>i, <2>1, <2>3, <2>4 DEF EntradasConEvento, PreviosDeLasAnteriores
  <2>7. ConsolidadoEnCuenta' /\ AsociacionFiel'
    BY <1>i, <2>1 DEF ConsolidadoEnCuenta, AsociacionFiel, EnCuenta
  <2> QED
    BY <2>2, <2>5, <2>6, <2>7 DEF SalonIInv
<1>7. ASSUME NEW p \in Pedidos, NEW c \in Cuentas, PedidoCreado(p, c) PROVE SalonIInv'
  <2>1. /\ p \in Creados /\ <<"creado", p>> \notin claves
        /\ claves' = claves \cup {<<"creado", p>>}
        /\ UNCHANGED <<mesa, ordenes, porCancelar, fotos, pagadas>>
        /\ Consolidar(p, c)
    BY <1>7 DEF PedidoCreado, Pendiente
  <2>2. /\ snapshot' \in [Cuentas -> [Pedidos -> {"NO", "VIVO", "ANULADO"}]]
        /\ consolidado' \in [Pedidos -> Cuentas \cup {Ninguna}]
        /\ adelantados' \subseteq Pedidos /\ adelantados \subseteq adelantados'
    BY <2>1, AlConsolidar
  <2>3. /\ cuenta' \in [Cuentas -> EstadosCuenta] /\ previos' \in [Cuentas -> SUBSET Pedidos]
        /\ Abiertas' = {c} /\ AbiertasEnOrden'
        /\ \A d \in Cuentas : cuenta'[d] # "SIN_ABRIR" => d <= c
        /\ \A d \in Cuentas \ {c} : cuenta'[d] = cuenta[d] /\ previos'[d] = previos[d]
        /\ \A q \in Pedidos \ adelantados', d \in Cuentas :
             q # p /\ EnCuenta(d, q) /\ d < c => q \in previos'[c]
    <3>1. CASE c \in Abiertas /\ UNCHANGED <<cuenta, previos>>
      <4>1. Abiertas' = {c}
        BY <1>i, <3>1 DEF CuentasDisjuntas, Abiertas
      <4>2. cuenta[c] # "SIN_ABRIR"
        BY <3>1 DEF Abiertas
      <4>3. AbiertasEnOrden' /\ \A d \in Cuentas : cuenta'[d] # "SIN_ABRIR" => d <= c
        BY <1>i, <3>1, <4>1 DEF AbiertasEnOrden, Abiertas
      <4>4. \A q \in Pedidos \ adelantados', d \in Cuentas :
              q # p /\ EnCuenta(d, q) /\ d < c => q \in previos'[c]
        BY <1>i, <2>2, <3>1, <4>2 DEF PreviosDeLasAnteriores
      <4> QED
        BY <1>i, <3>1, <4>1, <4>3, <4>4 DEF TypeOK
    <3>2. CASE Abiertas = {} /\ NuevaCuenta(c, Creados \ {p})
      <4>1. Creados \ {p} \in SUBSET Pedidos
        BY DEF Creados
      <4>2. /\ cuenta' \in [Cuentas -> EstadosCuenta] /\ previos' \in [Cuentas -> SUBSET Pedidos]
            /\ Abiertas' = {c} /\ AbiertasEnOrden' /\ previos'[c] = Creados \ {p}
            /\ \A d \in Cuentas : cuenta'[d] # "SIN_ABRIR" => d <= c
            /\ \A d \in Cuentas \ {c} : cuenta'[d] = cuenta[d] /\ previos'[d] = previos[d]
        BY <3>2, <4>1, SeAbre
      <4>3. \A q \in Pedidos, d \in Cuentas : EnCuenta(d, q) => q \in Creados
        BY <1>i DEF EntradasConEvento
      <4> QED
        BY <4>2, <4>3
    <3> QED
      BY <1>7, <3>1, <3>2 DEF PedidoCreado
  <2>4. /\ EntradasConEvento' /\ PreviosDeLasAnteriores'
        /\ ConsolidadoEnCuenta' /\ CuentasDisjuntas' /\ AsociacionFiel'
    BY <2>1, <2>3, EntraEnLaUltima
  <2>5. TypeOK'
    BY <1>i, <2>1, <2>2, <2>3 DEF TypeOK
  <2> QED
    BY <2>3, <2>4, <2>5 DEF SalonIInv
<1>8. ASSUME NEW p \in Pedidos, NEW foto \in {"VIVO", "ANULADO"}, PedidoActualizado(p, foto)
      PROVE  SalonIInv'
  <2>1. /\ p \in Creados /\ claves' = claves \cup {<<foto, p>>}
        /\ UNCHANGED <<mesa, ordenes, porCancelar, fotos, pagadas, cuenta, previos, adelantados,
                       consolidado>>
        /\ snapshot' = [c \in Cuentas |->
             IF cuenta[c] = "ABIERTA" /\ (EnCuenta(c, p) \/ p \notin previos[c])
             THEN [snapshot[c] EXCEPT ![p] = foto] ELSE snapshot[c]]
    BY <1>8 DEF PedidoActualizado, Pendiente
  <2>2. Abiertas' = Abiertas /\ Creados' = Creados
    BY <2>1 DEF Abiertas, Creados
  <2>3. \A c \in Cuentas :
          /\ snapshot'[c] \in [Pedidos -> {"NO", "VIVO", "ANULADO"}]
          /\ \A q \in Pedidos : snapshot'[c][q] # "NO" <=>
               \/ EnCuenta(c, q)
               \/ q = p /\ cuenta[c] = "ABIERTA" /\ p \notin previos[c]
    <3>1. TAKE c \in Cuentas
    <3>2. snapshot[c] \in [Pedidos -> {"NO", "VIVO", "ANULADO"}]
      BY <1>i DEF TypeOK
    <3>3. CASE cuenta[c] = "ABIERTA" /\ (EnCuenta(c, p) \/ p \notin previos[c])
      <4>1. snapshot'[c] = [snapshot[c] EXCEPT ![p] = foto]
        BY <2>1, <3>3
      <4> QED
        BY <3>2, <3>3, <4>1 DEF EnCuenta
    <3>4. CASE ~(cuenta[c] = "ABIERTA" /\ (EnCuenta(c, p) \/ p \notin previos[c]))
      <4>1. snapshot'[c] = snapshot[c]
        BY <2>1, <3>4
      <4> QED
        BY <3>2, <3>4, <4>1 DEF EnCuenta
    <3> QED
      BY <3>3, <3>4
  <2>4. \A c \in Cuentas, q \in Pedidos : EnCuenta(c, q)' <=>
          \/ EnCuenta(c, q)
          \/ q = p /\ c \in Abiertas /\ p \notin previos[c]
    BY <2>3 DEF EnCuenta, Abiertas
  <2>5. TypeOK'
    <3>1. snapshot' \in [Cuentas -> [Pedidos -> {"NO", "VIVO", "ANULADO"}]]
      BY <2>1, <2>3
    <3> QED
      BY <1>i, <2>1, <3>1 DEF TypeOK
  <2>6. \A c \in Cuentas : c \in Int /\ (c \in Abiertas => cuenta[c] # "SIN_ABRIR")
    BY SalonAssumption DEF SalonAssumption, Abiertas
  <2>7. AbiertasEnOrden'
    BY <1>i, <2>1, <2>2 DEF AbiertasEnOrden
  <2>8. EntradasConEvento'
    BY <1>i, <2>1, <2>2, <2>4, <2>6 DEF EntradasConEvento
  <2>9. PreviosDeLasAnteriores'
    <3>1. SUFFICES ASSUME NEW q \in Pedidos, q \notin adelantados, NEW c \in Cuentas, NEW d \in Cuentas,
                          EnCuenta(c, q)', c < d, cuenta[d] # "SIN_ABRIR"
                   PROVE  q \in previos[d]
      BY <2>1 DEF PreviosDeLasAnteriores
    <3>2. c \in Abiertas => d <= c
      BY <1>i, <3>1 DEF AbiertasEnOrden
    <3>3. EnCuenta(c, q)
      BY <2>4, <2>6, <3>1, <3>2
    <3> QED
      BY <1>i, <3>1, <3>3 DEF PreviosDeLasAnteriores
  <2>10. ConsolidadoEnCuenta' /\ AsociacionFiel'
    <3>1. ASSUME NEW q \in Pedidos, NEW c \in Cuentas, EnCuenta(c, q) PROVE snapshot'[c][q] # "NO"
      BY <2>3, <3>1
    <3>2. \A q \in Pedidos : consolidado[q] \in Cuentas \cup {Ninguna}
                             /\ asociada[q] \in Cuentas \cup {Ninguna}
      BY <1>i DEF TypeOK
    <3> QED
      BY <1>i, <2>1, <3>1, <3>2 DEF ConsolidadoEnCuenta, AsociacionFiel, EnCuenta
  <2>11. CuentasDisjuntas'
    <3>1. ASSUME NEW q \in Pedidos, q \notin adelantados, NEW c \in Cuentas, NEW d \in Cuentas,
                 EnCuenta(c, q), q = p, d \in Abiertas, p \notin previos[d]
          PROVE  c = d
      <4>1. EnCuenta(c, q) => cuenta[c] # "SIN_ABRIR"
        BY <1>i DEF EntradasConEvento
      <4>2. c <= d
        BY <1>i, <3>1, <4>1 DEF AbiertasEnOrden
      <4>3. ~(c < d)
        BY <1>i, <2>6, <3>1 DEF PreviosDeLasAnteriores
      <4> QED
        BY <2>6, <4>2, <4>3
    <3>2. ASSUME NEW q \in Pedidos, q \notin adelantados', NEW c \in Cuentas, NEW d \in Cuentas,
                 EnCuenta(c, q)', EnCuenta(d, q)'
          PROVE  c = d
      BY <1>i, <2>1, <2>4, <3>1, <3>2 DEF CuentasDisjuntas
    <3>3. \A c, d \in Abiertas' : c = d
      BY <1>i, <2>2 DEF CuentasDisjuntas
    <3> QED
      BY <3>2, <3>3 DEF CuentasDisjuntas
  <2> QED
    BY <2>5, <2>7, <2>8, <2>9, <2>10, <2>11 DEF SalonIInv
<1>9. ASSUME NEW c \in Cuentas, CerrarCuenta(c) PROVE SalonIInv'
  <2>1. /\ cuenta[c] = "ABIERTA" /\ cuenta' = [cuenta EXCEPT ![c] = "CERRADA"]
        /\ UNCHANGED <<mesa, ordenes, snapshot, previos, claves, adelantados, porCancelar, colas>>
    BY <1>9 DEF CerrarCuenta
  <2>2. /\ cuenta' \in [Cuentas -> EstadosCuenta]
        /\ \A d \in Cuentas : \/ cuenta'[d] = cuenta[d]
                              \/ cuenta[d] = "ABIERTA" /\ cuenta'[d] \in {"CERRADA", "CANCELADA"}
    BY <1>i, <2>1 DEF TypeOK, EstadosCuenta
  <2>3. TypeOK'
    BY <1>i, <2>1, <2>2 DEF TypeOK
  <2> QED
    BY <1>t, <2>1, <2>2, <2>3
<1>10. ASSUME NEW foto \in Cuentas \cup {Ninguna}, MesaActualizada(foto) PROVE SalonIInv'
  <2>1. /\ cuenta' = [c \in Cuentas |-> IF c \in Abiertas \ {foto} THEN "CANCELADA" ELSE cuenta[c]]
        /\ UNCHANGED <<mesa, ordenes, snapshot, previos, claves, adelantados, porCancelar, colas>>
    BY <1>10 DEF MesaActualizada
  <2>2. /\ cuenta' \in [Cuentas -> EstadosCuenta]
        /\ \A d \in Cuentas : \/ cuenta'[d] = cuenta[d]
                              \/ cuenta[d] = "ABIERTA" /\ cuenta'[d] \in {"CERRADA", "CANCELADA"}
    BY <1>i, <2>1 DEF TypeOK, EstadosCuenta, Abiertas
  <2>3. TypeOK'
    BY <1>i, <2>1, <2>2 DEF TypeOK
  <2> QED
    BY <1>t, <2>1, <2>2, <2>3
<1>11. ASSUME NEW c \in Cuentas, RevisarHuerfana(c) PROVE SalonIInv'
  <2>1. TypeOK' /\ Creados' = Creados
    BY <1>i, <1>11 DEF RevisarHuerfana, TypeOK, Creados
  <2> QED
    BY <1>11, <1>q, <2>1 DEF RevisarHuerfana
<1>12. ASSUME NEW c \in Cuentas, CancelarHuerfana(c) PROVE SalonIInv'
  <2>1. /\ porCancelar' = Ninguna /\ Cancelar(c)
        /\ UNCHANGED <<mesa, ordenes, snapshot, previos, claves, adelantados, colas>>
    BY <1>12 DEF CancelarHuerfana
  <2>2. /\ cuenta' \in [Cuentas -> EstadosCuenta]
        /\ \A d \in Cuentas : \/ cuenta'[d] = cuenta[d]
                              \/ cuenta[d] = "ABIERTA" /\ cuenta'[d] \in {"CERRADA", "CANCELADA"}
    BY <1>i, <2>1, SoloLasAbiertas
  <2>3. TypeOK'
    BY <1>i, <2>1, <2>2 DEF TypeOK
  <2> QED
    BY <1>t, <2>1, <2>2, <2>3
<1>13. ASSUME NEW p \in Pedidos, CrearPedido(p) PROVE SalonIInv'
  <2>1. /\ pedido' = [pedido EXCEPT ![p] = "VIVO"]
        /\ UNCHANGED <<mesa, libros, porCancelar, asociada, saldadas, porAnular, colas>>
    BY <1>13 DEF CrearPedido
  <2>2. TypeOK' /\ Creados \subseteq Creados'
    BY <1>i, <2>1 DEF TypeOK, Creados
  <2> QED
    BY <1>q, <2>1, <2>2
<1>14. ASSUME NEW p \in Pedidos, CuentaAsociada(p) PROVE SalonIInv'
  <2>1. /\ consolidado[p] # Ninguna
        /\ asociada' = [asociada EXCEPT ![p] = consolidado[p]]
        /\ UNCHANGED <<mesa, libros, porCancelar, pedido, saldadas, porAnular, colas>>
    BY <1>14 DEF CuentaAsociada
  <2>2. TypeOK'
    BY <1>i, <2>1 DEF TypeOK
  <2>3. /\ AbiertasEnOrden' /\ EntradasConEvento' /\ PreviosDeLasAnteriores'
        /\ ConsolidadoEnCuenta' /\ CuentasDisjuntas'
    BY <1>i, <2>1 DEF AbiertasEnOrden, EntradasConEvento, PreviosDeLasAnteriores,
       ConsolidadoEnCuenta, CuentasDisjuntas, Abiertas, Creados, EnCuenta
  <2>4. AsociacionFiel'
    <3>1. \A q \in Pedidos : asociada'[q] = asociada[q] \/ asociada'[q] = consolidado[q]
      BY <1>i, <2>1 DEF TypeOK
    <3>2. ASSUME NEW q \in Pedidos, asociada'[q] # Ninguna PROVE snapshot[asociada'[q]][q] # "NO"
      BY <1>i, <3>1, <3>2 DEF AsociacionFiel, ConsolidadoEnCuenta, EnCuenta
    <3> QED
      BY <2>1, <3>2 DEF AsociacionFiel, EnCuenta
  <2> QED
    BY <2>2, <2>3, <2>4 DEF SalonIInv
<1>15. ASSUME NEW p \in Pedidos, AnularPedido(p) PROVE SalonIInv'
  <2>1. /\ pedido[p] = "VIVO" /\ pedido' = [pedido EXCEPT ![p] = "ANULADO"]
        /\ \/ porAnular' = porAnular
           \/ porAnular' = porAnular \cup {asociada[p]} /\ asociada[p] # Ninguna
        /\ UNCHANGED <<mesa, libros, porCancelar, asociada, saldadas, colas>>
    BY <1>15 DEF AnularPedido
  <2>2. TypeOK' /\ Creados \subseteq Creados'
    BY <1>i, <2>1 DEF TypeOK, Creados
  <2> QED
    BY <1>q, <2>1, <2>2
<1>16. ASSUME NEW cobrables \in SUBSET Pedidos, NEW p \in Pedidos,
              AnularAtencionMesa(cobrables, p)
       PROVE  SalonIInv'
  <2>1. /\ pedido' = [q \in Pedidos |-> IF q \in {r \in Pedidos : pedido[r] = "VIVO"} \ cobrables
                                        THEN "ANULADO" ELSE pedido[q]]
        /\ porAnular' \subseteq porAnular \cup ({asociada[p]} \ {Ninguna})
        /\ UNCHANGED <<mesa, libros, porCancelar, asociada, saldadas, colas>>
    BY <1>16 DEF AnularAtencionMesa
  <2>2. TypeOK' /\ Creados \subseteq Creados'
    BY <1>i, <2>1 DEF TypeOK, Creados
  <2> QED
    BY <1>q, <2>1, <2>2
<1>17. ASSUME NEW c \in Cuentas, NEW llega \in BOOLEAN, CancelarPorCascada(c, llega)
       PROVE  SalonIInv'
  <2>1. /\ porAnular' = porAnular \ {c} /\ (Cancelar(c) \/ UNCHANGED cuenta)
        /\ UNCHANGED <<mesa, snapshot, previos, claves, adelantados, porCancelar, pedido,
                       asociada, saldadas, colas>>
    BY <1>17 DEF CancelarPorCascada
  <2>2. /\ cuenta' \in [Cuentas -> EstadosCuenta]
        /\ \A d \in Cuentas : \/ cuenta'[d] = cuenta[d]
                              \/ cuenta[d] = "ABIERTA" /\ cuenta'[d] \in {"CERRADA", "CANCELADA"}
    BY <1>i, <2>1, SoloLasAbiertas DEF TypeOK
  <2>3. TypeOK'
    BY <1>i, <2>1, <2>2 DEF TypeOK
  <2> QED
    BY <1>t, <2>1, <2>2, <2>3
<1>18. ASSUME NEW c \in Cuentas, PagoRecibido(c) PROVE SalonIInv'
  <2>1. /\ c \in pagadas /\ saldadas' = saldadas \cup {c}
        /\ pedido' = [p \in Pedidos |-> IF pedido[p] = "VIVO" THEN "PAGADO" ELSE pedido[p]]
        /\ UNCHANGED <<mesa, libros, porCancelar, asociada, porAnular, colas>>
    BY <1>18 DEF PagoRecibido
  <2>2. TypeOK' /\ Creados \subseteq Creados'
    BY <1>i, <2>1 DEF TypeOK, Creados
  <2> QED
    BY <1>q, <2>1, <2>2
<1>19. ASSUME NEW c \in Cuentas, PagoRegistrado(c) PROVE SalonIInv'
  <2>1. TypeOK' /\ Creados' = Creados
    BY <1>i, <1>19 DEF PagoRegistrado, TypeOK, Creados
  <2> QED
    BY <1>19, <1>q, <2>1 DEF PagoRegistrado
<1> QED
  BY <1>0, <1>1, <1>2, <1>3, <1>4, <1>5, <1>6, <1>7, <1>8, <1>9, <1>10, <1>11, <1>12, <1>13,
     <1>14, <1>15, <1>16, <1>17, <1>18, <1>19 DEF Next
\* Spec => []SalonIInv, and what follows from it.
LEMMA SiempreSalon == Spec => []SalonIInv
  BY InicioSalon, PasoSalon, PTL DEF Spec

\* Every variable of the table, its bills and its orders keeps its type.
THEOREM SalonTipos == Spec => []TypeOK
<1>1. SalonIInv => TypeOK
  BY DEF SalonIInv
<1> QED
  BY <1>1, SiempreSalon, PTL

\* The table never has two open bills, and no order is in two bills unless a
\* change of it was handled before its creation.
THEOREM NuncaDosCuentas == Spec => []CuentasDisjuntas
<1>1. SalonIInv => CuentasDisjuntas
  BY DEF SalonIInv
<1> QED
  BY <1>1, SiempreSalon, PTL

\* The bill that an order believes it is in has it, always.
THEOREM AsociacionSiempreFiel == Spec => []AsociacionFiel
<1>1. SalonIInv => AsociacionFiel
  BY DEF SalonIInv
<1> QED
  BY <1>1, SiempreSalon, PTL

\* A bill that was closed or cancelled is never reopened nor changed.
THEOREM LoTerminadoNoCambia == Spec => TerminadaEsFinal
<1>1. TypeOK /\ [Next]_vars =>
        [\A c \in Cuentas : cuenta[c] \in {"CERRADA", "CANCELADA"} =>
           cuenta'[c] = cuenta[c] /\ snapshot'[c] = snapshot[c]]_vars
  <2> SUFFICES ASSUME TypeOK, [Next]_vars, NEW c \in Cuentas, cuenta[c] \in {"CERRADA", "CANCELADA"}
               PROVE  cuenta'[c] = cuenta[c] /\ snapshot'[c] = snapshot[c]
    OBVIOUS
  <2>t. /\ cuenta \in [Cuentas -> EstadosCuenta]
        /\ snapshot \in [Cuentas -> [Pedidos -> {"NO", "VIVO", "ANULADO"}]]
    BY DEF TypeOK
  <2> USE DEF ordenes, libros, colas
  <2>1. ASSUME NEW d \in Cuentas, Cancelar(d) PROVE cuenta'[c] = cuenta[c]
    BY <2>t, <2>1 DEF Cancelar
  <2>2. ASSUME NEW d \in Cuentas, NEW mayores, NuevaCuenta(d, mayores)
        PROVE  d # c /\ cuenta'[c] = cuenta[c]
    BY <2>t, <2>2 DEF NuevaCuenta
  <2>3. ASSUME NEW p \in Pedidos, NEW d \in Cuentas, PedidoCreado(p, d)
        PROVE  cuenta'[c] = cuenta[c] /\ snapshot'[c] = snapshot[c]
    <3>1. d # c /\ cuenta'[c] = cuenta[c]
      BY <2>2, <2>3 DEF PedidoCreado, Abiertas
    <3> QED
      BY <2>t, <2>3, <3>1 DEF PedidoCreado, Consolidar
  <2>4. ASSUME NEW p \in Pedidos, NEW foto \in {"VIVO", "ANULADO"}, PedidoActualizado(p, foto)
        PROVE  cuenta'[c] = cuenta[c] /\ snapshot'[c] = snapshot[c]
    BY <2>4 DEF PedidoActualizado
  <2>5. ASSUME NEW d \in Cuentas, CerrarCuenta(d)
        PROVE  cuenta'[c] = cuenta[c] /\ snapshot'[c] = snapshot[c]
    BY <2>t, <2>5 DEF CerrarCuenta
  <2>6. ASSUME NEW foto, MesaActualizada(foto)
        PROVE  cuenta'[c] = cuenta[c] /\ snapshot'[c] = snapshot[c]
    BY <2>t, <2>6 DEF MesaActualizada, Abiertas
  <2>7. ASSUME NEW d \in Cuentas, AbrirCuenta(d) \/ CancelarHuerfana(d)
        PROVE  cuenta'[c] = cuenta[c] /\ snapshot'[c] = snapshot[c]
    BY <2>1, <2>2, <2>7 DEF AbrirCuenta, CancelarHuerfana
  <2>8. ASSUME NEW d \in Cuentas, NEW llega \in BOOLEAN, CancelarPorCascada(d, llega)
        PROVE  cuenta'[c] = cuenta[c] /\ snapshot'[c] = snapshot[c]
    BY <2>1, <2>8 DEF CancelarPorCascada
  <2>9. ASSUME \/ \E d \in Cuentas : \/ HandleCuentaAbierta(d) \/ HandleCuentaCerrada(d)
                                    \/ RevisarHuerfana(d) \/ PagoRecibido(d) \/ PagoRegistrado(d)
               \/ CambiarMesa("LIBRE", Ninguna) \/ CambiarMesa("OCUPADA", Igual)
               \/ \E p \in Pedidos : \/ \E d \in Cuentas : DescartarCreado(p, d)
                                     \/ \E cobrables \in SUBSET Pedidos :
                                          AnularAtencionMesa(cobrables, p)
                                     \/ CrearPedido(p) \/ CuentaAsociada(p) \/ AnularPedido(p)
               \/ UNCHANGED vars
        PROVE  cuenta'[c] = cuenta[c] /\ snapshot'[c] = snapshot[c]
    BY <2>9 DEF HandleCuentaAbierta, HandleCuentaCerrada, RevisarHuerfana, PagoRecibido,
       PagoRegistrado, CambiarMesa, DescartarCreado, AnularAtencionMesa, CrearPedido,
       CuentaAsociada, AnularPedido, vars
  <2> QED
    BY <2>3, <2>4, <2>5, <2>6, <2>7, <2>8, <2>9 DEF Next
<1> QED
  BY <1>1, SalonTipos, PTL DEF Spec, TerminadaEsFinal
=============================================================================
