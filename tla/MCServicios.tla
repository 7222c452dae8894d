----------------------------- MODULE MCServicios -----------------------------
(***************************************************************************)
(* Ten parts of the system that share no state, in one model: each        *)
(* behaviour is one of one of them, componente, while the others stay as   *)
(* they are. The states are the sum of theirs, not the product.            *)
(***************************************************************************)
EXTENDS SalonProps, CajaProps, FacturacionProps, ImpresionProps, SesionesProps,
        AdministradoresProps, ComprasProps, ReservasProps, ConsumidorProps, TurnosProps, TLC

VARIABLE componente

Componentes == {"salon", "caja", "facturacion", "impresion", "sesiones", "administradores",
                "compras", "reservas", "consumidor", "turnos"}

ServiciosInit ==
  /\ componente \in Componentes
  /\ Init /\ CajaInit /\ FacturacionInit /\ ImpresionInit /\ SesionesInit
  /\ AdministradoresInit /\ ComprasInit /\ ReservasInit /\ ConsumidorInit
  /\ TurnosInit
  \* the choices of the parts at rest do not matter
  /\ componente = "caja" \/ mayorTotal = CHOOSE t \in Totales : TRUE
  /\ componente = "administradores" \/ AdminsActivos = Usuarios
  /\ componente = "turnos" \/ ~meseros

Quieta(parte, variables) == IF componente = parte THEN TRUE ELSE UNCHANGED variables

ServiciosNext ==
  /\ \/ componente = "salon" /\ Next
     \/ componente = "caja" /\ CajaNext
     \/ componente = "facturacion" /\ FacturacionNext
     \/ componente = "impresion" /\ ImpresionNext
     \/ componente = "sesiones" /\ SesionesNext
     \/ componente = "administradores" /\ AdministradoresNext
     \/ componente = "compras" /\ ComprasNext
     \/ componente = "reservas" /\ ReservasNext
     \/ componente = "consumidor" /\ ConsumidorNext
     \/ componente = "turnos" /\ TurnosNext
  /\ Quieta("salon", vars)
  /\ Quieta("caja", cajaVars)
  /\ Quieta("facturacion", facturacionVars)
  /\ Quieta("impresion", impresionVars)
  /\ Quieta("sesiones", sesionesVars)
  /\ Quieta("administradores", administradoresVars)
  /\ Quieta("compras", comprasVars)
  /\ Quieta("reservas", reservasVars)
  /\ Quieta("consumidor", consumidorVars)
  /\ Quieta("turnos", turnosVars)
  /\ UNCHANGED componente

\* The crons run for ever. The one of the bills gets an answer from servicio-mesas
\* and its transaction commits each time it tries (weak fairness, so it goes
\* through if a bill stays without its table); the one of the register may fail
\* any number of times, but not always.
ServiciosSpec ==
  /\ ServiciosInit
  /\ [][ServiciosNext]_<<componente, vars, cajaVars, facturacionVars, impresionVars, sesionesVars,
                         administradoresVars, comprasVars, reservasVars, consumidorVars,
                         turnosVars>>
  /\ \A c \in Cuentas :
       /\ WF_vars(componente = "salon" /\ RevisarHuerfana(c))
       /\ WF_vars(componente = "salon" /\ CancelarHuerfana(c))
  /\ WF_cajaVars(componente = "caja" /\ RevisarCierre)
  /\ SF_cajaVars(componente = "caja" /\ ReconciliarCierre)

\* Every variable of every part keeps its type.
Tipos ==
  /\ TypeOK /\ CajaTypeOK /\ FacturacionTypeOK /\ ImpresionTypeOK /\ SesionesTypeOK
  /\ AdministradoresTypeOK /\ ComprasTypeOK /\ ReservasTypeOK /\ ConsumidorTypeOK
  /\ TurnosTypeOK

\* The inductive invariant of each part.
ServiciosIInv ==
  /\ SalonIInv /\ CajaIInv /\ FacturacionIInv /\ ImpresionIInv /\ SesionesIInv
  /\ AdministradoresIInv /\ ComprasIInv /\ ReservasIInv /\ ConsumidorIInv
  /\ TurnosIInv

\* Salon: two attentions of a table, and an order.
\* Caja: a payment of 1 with a discount of 1 and a combined one of 2 without, on a
\* bill of 2 that may grow.
Montos     == 1 :> 1 @@ 2 :> 2
Descuentos == 1 :> 1 @@ 2 :> 0

\* Facturacion: two requests to issue for one bill, one for another, and a note on
\* the first document.
VentaDeCada    == 1 :> 1 @@ 2 :> 1 @@ 3 :> 2
AfectadoDeCada == 4 :> 1

\* Turnos: two shifts, two people who close them, and one movement, as movements
\* do not take part in what happens to each other.

\* Compras: an ingredient, three units of the product out of two of it.
StockInicial == 1 :> 1
StockMinimo  == 1 :> 0
Factores     == 1 :> 3
=============================================================================
