------------------------------- MODULE Compras -------------------------------
(***************************************************************************)
(* Purchasing in servicio-compras: the life of a purchase order, the       *)
(* receptions of its goods, and the stock of the ingredients with its      *)
(* kardex, which the kitchen and the counts of the store move too.         *)
(*                                                                         *)
(* One order, with one item per ingredient at most (quantity 0: not in     *)
(* the order). A request reads first and writes later: what it has read is *)
(* in llamada meanwhile.                                                   *)
(***************************************************************************)
EXTENDS Integers

CONSTANTS
  Insumos,
  Llamadas,       \* requests in flight at a time
  Inicial,        \* stockActual an ingredient is created with: no kardex row
  Minimo,         \* stockMinimo
  FactorNum,      \* factorConversion of an ingredient to the product it is
  FactorDen,      \*   sold as, FactorNum / FactorDen, 0 when there is none
  MaxPedida,      \* bound: quantity of an item
  MaxStock,       \* bound: stock of an ingredient
  MaxEdiciones    \* bound: edits of the order

ASSUME ComprasAssumption ==
  /\ Inicial \in [Insumos -> 0..MaxStock]
  /\ Minimo \in [Insumos -> Nat]
  /\ FactorNum \in [Insumos -> Nat]
  /\ FactorDen \in Nat \ {0}
  /\ MaxPedida \in Nat \ {0}
  /\ MaxStock \in Nat
  /\ MaxEdiciones \in Nat

VARIABLES
  orden,      \* estado of the order; NO before it is created
  item,       \* its items: [pedida, recibida]
  stock,      \* stockActual
  kardex,     \* sum of the deltas of the rows of movimientos_insumo
  avisado,    \* the stock went below the minimum since it was last over it,
              \*   and insumo.stock_bajo said so
  publicado,  \* cantidadStockVenta of the compra.recibida published
  llamada,    \* per request: [op, diferencia]
  \* history
  recibido,   \* quantities of all the receptions
  ediciones,  \* edits that took place
  rehecha,    \* an edit, or the deletion, of an order that was not a draft any more
  repetida    \* a reception named an item twice

almacen     == <<stock, kardex, avisado>>
historial   == <<recibido, ediciones, rehecha, repetida>>
comprasVars == <<orden, item, almacen, publicado, llamada, historial>>

Cantidades == [Insumos -> 0..MaxPedida]
Cero       == [i \in Insumos |-> 0]
SinItems   == [i \in Insumos |-> [pedida |-> 0, recibida |-> 0]]

\* States each operation accepts: ESTADOS_EDITABLES, ESTADOS_ANULABLES, ...
Acepta == [actualizar |-> {"BORRADOR"},
           eliminar   |-> {"BORRADOR"},
           enviar     |-> {"BORRADOR"},
           cerrar     |-> {"ENVIADA", "PARCIAL"},
           anular     |-> {"BORRADOR", "ENVIADA", "PARCIAL"},
           registrar  |-> {"ENVIADA", "PARCIAL"}]

\* States some of them lead to.
Destino == [enviar |-> "ENVIADA", cerrar |-> "RECIBIDA", anular |-> "ANULADA"]

SinLlamada == [op |-> "", diferencia |-> Cero]

ComprasInit ==
  /\ orden = "NO"
  /\ item = SinItems
  /\ stock = Inicial
  /\ kardex = Cero
  /\ avisado = [i \in Insumos |-> FALSE]
  /\ publicado = Cero
  /\ llamada = [k \in Llamadas |-> SinLlamada]
  /\ recibido = Cero
  /\ ediciones = 0
  /\ rehecha = FALSE
  /\ repetida = FALSE
-----------------------------------------------------------------------------
(* The order *)

\* crear
CrearOrden(pedida) ==
  /\ orden = "NO"
  /\ pedida # Cero
  /\ orden' = "BORRADOR"
  /\ item' = [i \in Insumos |-> [pedida |-> pedida[i], recibida |-> 0]]
  /\ UNCHANGED <<almacen, publicado, llamada, historial>>

\* Every operation reads the order and its state first.
LeerOrden(k, op) ==
  /\ llamada[k].op = ""
  /\ orden \in Acepta[op]
  /\ llamada' = [llamada EXCEPT ![k].op = op]
  /\ UNCHANGED <<orden, item, almacen, publicado, historial>>

\* A request ends in an error and its transaction undoes what it wrote: another
\* transaction locked the same rows in another order, an item it names was
\* replaced, the service went down.
FallarLlamada(k) ==
  /\ llamada[k].op # ""
  /\ llamada' = [llamada EXCEPT ![k] = SinLlamada]
  /\ UNCHANGED <<orden, item, almacen, publicado, historial>>

\* enviar, cerrar, anular: whatever the state is now, if there is an order.
CambiarEstadoOrden(k) ==
  /\ llamada[k].op \in DOMAIN Destino
  /\ orden # "ELIMINADA"
  /\ orden' = Destino[llamada[k].op]
  /\ llamada' = [llamada EXCEPT ![k] = SinLlamada]
  /\ UNCHANGED <<item, almacen, publicado, historial>>

\* actualizar: the items are deleted and created again.
ActualizarOrden(k, pedida) ==
  /\ llamada[k].op = "actualizar"
  /\ orden # "ELIMINADA"
  /\ ediciones < MaxEdiciones
  /\ pedida # Cero
  /\ item' = [i \in Insumos |-> [pedida |-> pedida[i], recibida |-> 0]]
  /\ ediciones' = ediciones + 1
  /\ rehecha' = (rehecha \/ orden # "BORRADOR")
  /\ llamada' = [llamada EXCEPT ![k] = SinLlamada]
  /\ UNCHANGED <<orden, almacen, publicado, recibido, repetida>>

\* eliminar: the items and the receptions go with it, the kardex stays.
EliminarOrden(k) ==
  /\ llamada[k].op = "eliminar"
  /\ orden # "ELIMINADA"
  /\ orden' = "ELIMINADA"
  /\ item' = SinItems
  /\ rehecha' = (rehecha \/ orden # "BORRADOR")
  /\ llamada' = [llamada EXCEPT ![k] = SinLlamada]
  /\ UNCHANGED <<almacen, publicado, recibido, ediciones, repetida>>
-----------------------------------------------------------------------------
(* The stock of the ingredients *)

\* aplicarMovimiento, once per ingredient and under its lock: a stock below
\* zero undoes the whole transaction.
AplicarMovimientos(delta) ==
  /\ \A i \in Insumos : stock[i] + delta[i] \in 0..MaxStock
  /\ stock' = [i \in Insumos |-> stock[i] + delta[i]]
  /\ kardex' = [i \in Insumos |-> kardex[i] + delta[i]]
  /\ avisado' = [i \in Insumos |-> \/ stock[i] > Minimo[i] /\ stock'[i] <= Minimo[i]
                                   \/ avisado[i] /\ stock'[i] <= Minimo[i]]

\* registrar of MovimientosInsumoService: consumption, waste, or a return.
RegistrarMovimiento(i, cantidad) ==
  /\ cantidad # 0
  /\ AplicarMovimientos([Cero EXCEPT ![i] = cantidad])
  /\ UNCHANGED <<orden, item, publicado, llamada, historial>>

\* registrarConteo reads the stock of what was counted, and takes the difference
\* of each ingredient ...
LeerConteo(k, insumos, contado) ==
  /\ llamada[k].op = ""
  /\ insumos # {}
  /\ llamada' = [llamada EXCEPT ![k] = [op |-> "conteo", diferencia |->
       [i \in Insumos |-> IF i \in insumos THEN contado[i] - stock[i] ELSE 0]]]
  /\ UNCHANGED <<orden, item, almacen, publicado, historial>>

\* ... which it applies to the stock of now.
AplicarConteo(k) ==
  /\ llamada[k].op = "conteo"
  /\ AplicarMovimientos(llamada[k].diferencia)
  /\ llamada' = [llamada EXCEPT ![k] = SinLlamada]
  /\ UNCHANGED <<orden, item, publicado, historial>>
-----------------------------------------------------------------------------
(* The receptions *)

\* Defect: what an item lacks forgets the earlier receptions.
PendienteDeRecibirEntero(i) == item[i].pedida

PendienteDeRecibir(i) == item[i].pedida - item[i].recibida

\* registrar of RecepcionesService, under the lock of the order: the state it
\* was checked against was read before, and is written whatever it is now. A
\* reception may name an item in two lines, each compared by itself.
Recibir(k, linea, otra) ==
  LET cantidad == [i \in Insumos |-> linea[i] + otra[i]]
      vendible(c, i) == (c[i] * FactorNum[i]) \div FactorDen
  IN /\ llamada[k].op = "registrar"
     /\ orden # "ELIMINADA"
     /\ cantidad # Cero
     /\ \A i \in Insumos : \A c \in {linea, otra} : c[i] > 0 => c[i] <= PendienteDeRecibir(i)
     /\ item' = [i \in Insumos |-> [item[i] EXCEPT !.recibida = @ + cantidad[i]]]
     /\ AplicarMovimientos(cantidad)
     /\ orden' = IF \A i \in Insumos : item'[i].recibida >= item'[i].pedida
                 THEN "RECIBIDA" ELSE "PARCIAL"
     /\ publicado' = [i \in Insumos |->
          publicado[i] + vendible(linea, i) + vendible(otra, i)]
     /\ recibido' = [i \in Insumos |-> recibido[i] + cantidad[i]]
     /\ repetida' = (repetida \/ \E i \in Insumos : linea[i] > 0 /\ otra[i] > 0)
     /\ llamada' = [llamada EXCEPT ![k] = SinLlamada]
     /\ UNCHANGED <<ediciones, rehecha>>

ComprasNext ==
  \/ \E pedida \in Cantidades : CrearOrden(pedida)
  \/ \E k \in Llamadas, op \in DOMAIN Acepta : LeerOrden(k, op)
  \/ \E k \in Llamadas : FallarLlamada(k)
  \/ \E k \in Llamadas : CambiarEstadoOrden(k)
  \/ \E k \in Llamadas, pedida \in Cantidades : ActualizarOrden(k, pedida)
  \/ \E k \in Llamadas : EliminarOrden(k)
  \/ \E i \in Insumos, cantidad \in -MaxPedida..MaxPedida : RegistrarMovimiento(i, cantidad)
  \/ \E k \in Llamadas, insumos \in SUBSET Insumos, contado \in [Insumos -> 0..MaxStock] :
       LeerConteo(k, insumos, contado)
  \/ \E k \in Llamadas : AplicarConteo(k)
  \/ \E k \in Llamadas, linea \in Cantidades, otra \in Cantidades : Recibir(k, linea, otra)

ComprasSpec == ComprasInit /\ [][ComprasNext]_comprasVars
=============================================================================
