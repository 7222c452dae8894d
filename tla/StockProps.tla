------------------------------ MODULE StockProps -----------------------------
(* What the two copies of the stock owe each other. *)
EXTENDS Stock

\* Every variable keeps its type; neither copy of the stock goes below zero.
TypeOK ==
  /\ local \in Nat \cup {SinFila}
  /\ vista \in [Pedidos -> Nat \cup {SinFila}]
  /\ pedido \in [Pedidos -> {"NUEVO", "ENTREGADO", "PAGADO", "CANCELADO", "RECHAZADO"}]
  /\ linea \in [Lineas -> {"VIVA", "CANCELADO", "RECHAZADO"}]
  /\ anulable \subseteq Lineas
  /\ anulando \subseteq [pedido : Pedidos, origen : Origenes, vivas : SUBSET Lineas]
  /\ aplicados \subseteq 1..Cardinality(eventos)
  /\ compensados \subseteq insuficiente
  /\ gestiones \in 0..MaxGestiones
  /\ stock \in Nat
  /\ merma \in [Mermas -> Perdidas \cup {0}]
  /\ lectura \in [Editores -> [fila : Mermas, cantidad : Perdidas] \cup {Nadie}]
  /\ procesados \subseteq Pedidos \cup Compras \cup (Lineas \X Origenes)
  /\ manuales \in 0..MaxManual
  /\ eventos \subseteq [id : Nat, delta : Nat, foto : Nat]
  /\ restaurar \subseteq Lineas \X Origenes
  /\ insuficiente \subseteq Pedidos
  /\ descontadas \subseteq Lineas
  /\ ajustado \in Int
  /\ mermado \in Int
  /\ desviado \in BOOLEAN

Devueltas == procesados \cap (Lineas \X Origenes)

\* The units of each item given back, and of each event for the projection.
Devuelto == [x \in Lineas \X Origenes |-> Cantidad[x[1]]]
Delta    == [m \in eventos |-> m.delta]

\* "Cada pedido.creado descuenta stock de inventario como maximo una vez", and
\* so does every other event: however events repeat and cross, the real stock is
\* what came in minus what the items took, each counted once.
InventarioCuadra ==
  stock = Inicial + ajustado - mermado - Suma(descontadas)
          + SumFunctionOnSet(Devuelto, Devueltas)
          + SumFunctionOnSet(Recibido, procesados \cap Compras)

\* Units the projection has reserved and the real stock has yet to hand over,
\* and replenishments on their way to the projection.
Reservado == {i \in Lineas : pedido[PedidoDe[i]] # "NUEVO" /\ PedidoDe[i] \notin procesados}
EnCamino  == {m \in eventos : m.id \notin aplicados}

\* "reposicion como delta": until a loss is entered by hand or the projection is
\* built from a snapshot, every unit it offers or has reserved is backed by
\* one unit of real stock, replenishments in flight included.
ReservaRespaldada ==
  ~desviado /\ local # SinFila =>
    stock = local + Suma(Reservado) + SumFunctionOnSet(Delta, EnCamino)

\* "Autoridad de stock": inventory refuses an accepted order only if a loss was
\* entered by hand or the projection was built from a snapshot.  Lag, repeated
\* and reordered events, cancellations and purchases never cause a refusal.
RechazoConCausa == insuficiente # {} => desviado

\* Every accepted order is settled: all of it is discounted from the real
\* stock, or the order and its items learn that it was refused.
TodoPedidoSeResuelve ==
  \A p \in Pedidos :
    pedido[p] # "NUEVO" ~> De(p) \subseteq descontadas \/ p \in compensados

\* The copies converge: in the end both hold the same stock, unless a loss was
\* entered by hand or the projection was built from a snapshot.
Convergen == <>[](desviado \/ local = SinFila \/ local = stock)

\* "el ajuste es idempotente frente al valor anterior, no acumulativo": what the
\* waste rows took from the stock is what they say now.
MermaNoAcumulativa ==
  mermado = SumFunctionOnSet(merma, Mermas)

\* "se devuelve el stock que ya se habia reservado": the stock given back for
\* the items of a settled order had been discounted for them.
SoloSeDevuelveLoReservado ==
  \A x \in Devueltas : PedidoDe[x[1]] \in procesados => x[1] \in descontadas
-----------------------------------------------------------------------------
(* The inductive invariant of the safety properties above. *)

\* The events of the product are numbered from its creation on.
EventosNumerados ==
  /\ IsFiniteSet(eventos)
  /\ eventos # {}
  /\ \A m \in eventos :
       /\ m.id \in 1..Cardinality(eventos)
       /\ m.id = 1 => m.delta = 0 /\ m.foto = Inicial
       /\ \A n \in eventos : m.id = n.id => m = n

\* Before its row exists the projection has applied no event and accepted no order.
AntesDeLaFila ==
  local = SinFila =>
    /\ aplicados = {}
    /\ \A p \in Pedidos : pedido[p] = "NUEVO"
    /\ ~desviado => stock = Inicial + SumFunctionOnSet(Delta, eventos)

\* Inventory handles an order once it is created, discounts the items of the
\* orders it has handled and refuses no other; nobody cancels an order before.
ProcesadosCreados ==
  /\ IsFiniteSet(procesados)
  /\ insuficiente \subseteq procesados
  /\ \A p \in Pedidos \cap procesados : pedido[p] # "NUEVO"
  /\ \A a \in anulando : pedido[a.pedido] # "NUEVO"
  /\ \A i \in descontadas : PedidoDe[i] \in procesados

StockIInv ==
  /\ TypeOK
  /\ EventosNumerados
  /\ AntesDeLaFila
  /\ ProcesadosCreados
  /\ ReservaRespaldada
  /\ RechazoConCausa
  /\ InventarioCuadra
=============================================================================
