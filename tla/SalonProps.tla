----------------------------- MODULE SalonProps ------------------------------
(* What the table, its bills and its orders owe each other. *)
EXTENDS Salon

EstadosCuenta == {"SIN_ABRIR", "ABIERTA", "CERRADA", "CANCELADA"}

\* Every variable keeps its type.
TypeOK ==
  /\ mesa \in [estado : {"LIBRE", "OCUPADA"}, cuenta : Cuentas \cup {Ninguna}]
  /\ cuenta \in [Cuentas -> EstadosCuenta]
  /\ snapshot \in [Cuentas -> [Pedidos -> {"NO", "VIVO", "ANULADO"}]]
  /\ previos \in [Cuentas -> SUBSET Pedidos]
  /\ claves \subseteq {"creado", "VIVO", "ANULADO"} \X Pedidos
  /\ porCancelar \in Cuentas \cup {Ninguna}
  /\ adelantados \subseteq Pedidos
  /\ pedido \in [Pedidos -> {"NUEVO", "VIVO", "ANULADO", "PAGADO"}]
  /\ asociada \in [Pedidos -> Cuentas \cup {Ninguna}]
  /\ saldadas \subseteq pagadas
  /\ porAnular \subseteq Cuentas
  /\ fotos \subseteq Cuentas \cup {Ninguna}
  /\ consolidado \in [Pedidos -> Cuentas \cup {Ninguna}]
  /\ pagadas \subseteq Cuentas

\* A table never has two open bills, and an order is never charged in two:
\* "una reentrega no duplica el cobro".  Redeliveries, late events of an earlier
\* attention and bills cancelled and reopened under an order included; the
\* exception is an order whose change was processed before its creation.
CuentasDisjuntas ==
  /\ \A c, d \in Abiertas : c = d
  /\ \A p \in Pedidos \ adelantados, c, d \in Cuentas :
       EnCuenta(c, p) /\ EnCuenta(d, p) => c = d

\* What was closed or cancelled stays so, with the orders it had: no late
\* event, cascade or cron reopens, cancels or changes a bill that has ended.
TerminadaEsFinal ==
  [][\A c \in Cuentas : cuenta[c] \in {"CERRADA", "CANCELADA"} =>
       cuenta'[c] = cuenta[c] /\ snapshot'[c] = snapshot[c]]_vars

\* The bill that an order believes it is in (the one the cascade cancels) is a
\* bill that has it.
AsociacionFiel ==
  \A p \in Pedidos : asociada[p] # Ninguna => EnCuenta(asociada[p], p)

\* "Este cron es el barrido de respaldo": an open bill that its table does not
\* show ends, or gets its table, whatever events were lost: a moment comes with
\* none, and as one bill is open at most, it is this one that was resolved.
HuerfanaSeResuelve ==
  (\E c \in Cuentas : cuenta[c] = "ABIERTA" /\ mesa.cuenta # c)
    ~> \A c \in Cuentas : cuenta[c] # "ABIERTA" \/ mesa.cuenta = c

\* "un PedidoCreado reentregado muy tarde de una atencion vieja de esta mesa": an
\* order is dropped only when some bill opened after it was created, and before
\* the one of the moment, has ended: there was an earlier attention.
DescarteDeAtencionAnterior ==
  \A p \in Pedidos :
    <<"creado", p>> \in claves /\ consolidado[p] = Ninguna =>
      \E c \in Cuentas : cuenta[c] \in {"CERRADA", "CANCELADA"}
(* The inductive invariant of the safety properties above. *)

\* The bills are opened in order, one at a time: the open one is the last.
AbiertasEnOrden ==
  \A c, d \in Cuentas :
    /\ d < c /\ cuenta[c] # "SIN_ABRIR" => cuenta[d] # "SIN_ABRIR"
    /\ c \in Abiertas /\ cuenta[d] # "SIN_ABRIR" => d <= c

\* An order enters a bill that was opened, after it was created and by one of
\* its events.
EntradasConEvento ==
  \A p \in Pedidos, c \in Cuentas : EnCuenta(c, p) =>
    /\ cuenta[c] # "SIN_ABRIR"
    /\ p \in Creados
    /\ \E evento \in {"creado", "VIVO", "ANULADO"} : <<evento, p>> \in claves

\* What a bill opened later knows of the orders of the earlier ones: they are old.
PreviosDeLasAnteriores ==
  \A p \in Pedidos \ adelantados, c, d \in Cuentas :
    EnCuenta(c, p) /\ c < d /\ cuenta[d] # "SIN_ABRIR" => p \in previos[d]

\* The bill that was announced to an order has it.
ConsolidadoEnCuenta ==
  \A p \in Pedidos : consolidado[p] # Ninguna => EnCuenta(consolidado[p], p)

SalonIInv ==
  /\ TypeOK
  /\ AbiertasEnOrden
  /\ EntradasConEvento
  /\ PreviosDeLasAnteriores
  /\ ConsolidadoEnCuenta
  /\ CuentasDisjuntas
  /\ AsociacionFiel
=============================================================================
