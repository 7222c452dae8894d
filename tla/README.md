# Verification of RestoApp.pe (mi-narcita)

TLA+ models of the restaurant platform kept in this repository, the TLC instances
that check them and the TLAPS proofs of what holds for every instance. This file
says what the system is, which part of it each module models, what each run and
each theorem shows, and what is left to do. Paths are relative to `src/`.

Contents: [the system](#the-system) ·
[modules](#modules) ·
[runs](#runs) ·
[findings](#findings) ·
[proofs](#proofs) ·
[only model-checked](#only-model-checked) ·
[not modelled](#not-modelled) ·
[plan](#plan)

## The system

RestoApp.pe runs a restaurant: waiters take orders at tables, kitchen and bar
prepare them, the till charges bills, inventory and purchasing keep the stock, and
electronic invoices go to SUNAT. It is an Nx monorepo of NestJS services, each with
a PostgreSQL database of its own (Prisma), behind a Kong gateway, and a React PWA.
Services talk in two ways:

- **events**: a service writes its change and a row of `outbox_events` in one
  transaction; the outbox processor publishes the row to one RabbitMQ topic exchange;
  consumers keep the id of each event (or a key made from its content) in
  `idempotency_keys`, in the transaction of its effect;
- **HTTP calls**, guarded by bulkheads, retries and circuit breakers, for what must be
  known before answering (is the table occupied, is the bill open, what is the price).

Concurrency inside a service is handled with `pg_advisory_xact_lock` on a table, order
or product, with conditional updates (`updateMany ... where stockActual >= n`), and with
unique indexes. Several replicas of each service may run.

### Inventory of components

| Component | State it keeps | Operations | Hard behaviour | What makes it correct |
| --- | --- | --- | --- | --- |
| **Outbox** `libs/resiliencia/src/lib/outbox.processor.ts`, `outbox-admin.ts`, `libs/shared-rabbitmq` | `outbox_events` (status, attempts, claimedAt), connection flag, `isProcessing` | claim a batch, publish with confirm, write the outcome, rescue, purge, manual retry | replicas, crashes between publish and write-back, slow batches, stale copies | at-least-once; duplicates only with a cause; attempts burnt only by failures; final outcomes |
| **Idempotency** `libs/resiliencia/src/lib/idempotency.interceptor.ts` | `idempotency_keys` (requestHash, body, createdAt, completedAt) | claim, replay, execute, complete, release, orphan rescue, weekly purge | retries racing the original, crash with the key claimed, slow handler | one effect per key, own answer only, no 409 for ever |
| **Consumer retries** `rabbitmq-retry.interceptor.ts` | nothing but the message | ack, backoff, dead letter | waits inside the consumer, so events overtake each other, and a retry outlives its channel | no event is dropped silently, none settled by an execution that is no longer its own |
| **HTTP resilience** `bulkhead.ts`, `retry.ts`, `circuit-breaker.decorator.ts` | counters in memory | admit, queue, refuse | queue at its limit | a slot is always given back |
| **Inventory** `apps/servicio-inventario` | `productos.stockActual`, `mermas`, menu, idempotency keys | discount an order, give back, receive a purchase, adjust, register, correct and delete waste | events repeated and reordered, partial refusals, rows read before a lock | the ledger of each product adds up |
| **Orders** `apps/servicio-pedidos` | orders and their items, `productos_locales`, local tables, audit of cancellations | create (reserving stock), change item states, cancel order / item / table, invalidate a cancellation, react to stock and bill events | two lock domains (order and table), stock projection built from events or from a snapshot | accepted orders are backed by stock; each is settled; totals equal the live items |
| **Bills** `apps/servicio-cuentas` | `cuentas`, snapshots of orders per bill | open, attach orders, close, cancel, reconcile with tables | events out of order, payment events against direct closing | a bill charges the live items of its orders, once |
| **Tables** `apps/servicio-mesas` | `mesas` (state, bill, group) | open, join, free, react to bill events | late events of an earlier bill, groups changed in several statements | a table is occupied exactly while a bill is open on it |
| **Till** `apps/servicio-caja` | `turnos_caja` (shifts), `movimientos_caja`, `arqueos_caja`, `transacciones` (payments), `pagos_pendientes`, `cierres_caja`, `cuentas_abiertas` | open and close a shift, pay, book pending payments, reconcile closings | crash half way through a pending payment, shift closed under a payment | a bill is charged once, in an open shift; the count adds up |
| **Reservations** `apps/servicio-reservas` | `reservas` | create, confirm, cancel, mark arrival | write by id after a separate check | one live reservation per table and slot |
| **Invoicing** `apps/servicio-facturacion` | `comprobantes`, series counters | take a number, sign, send to SUNAT, poll, credit notes | number taken in its own transaction, two senders, lost answers | consecutive numbers, each document accepted once |
| **Printing** `apps/servicio-notificaciones/src/app/printing`, `apps/agente-impresion` | print jobs with leases | enqueue, lease, acknowledge, expire, reprint | lease expiry against a late acknowledgement, paper half out | no ticket printed twice without somebody asking |
| **Notifications** `apps/servicio-notificaciones` | `notificaciones` | insert one row per event, push on websockets | duplicates | one row per event |
| **Identity** `apps/servicio-identidad` | users, chains of refresh tokens, failed logins | log in, rotate, log out, lock, administrate | rotation racing rotation, logout or a revocation; logins in flight | one live token per chain, none once it is closed |
| **Purchasing** `apps/servicio-compras` | purchase orders, receptions, stock of supplies | send, receive, annul, close, consume | state checked before the lock | received quantities add up; an annulled order stays annulled |
| **Reports** `apps/servicio-reportes` | daily read model | apply closed bills | duplicates | each bill counted once |
| **PWA** `apps/pwa-cliente` | cache of queries | call the services with an `Idempotency-Key` | retries | see Idempotency |

`PROJECT.json` lists every one of them with its status, and, under `hazards`, the lines
where this code is hard to test, with the property that covers each or the reason why none
does.

### How they interact

- An **order** (`POST /pedidos`) reads its table and products in local projections, asking
  mesas and inventario only for rows it has never seen, reserves stock in `productos_locales`,
  and commits `pedido.creado`. Inventory discounts the real stock or answers
  `stock.insuficiente`, which compensates the order.
- Orders cancelled, wholly or in part, commit `stock.restaurado`; inventory gives the units
  back and announces them with `producto.actualizado`, which orders adds to the projection.
- `pedido.creado` and `pedido.actualizado` feed the bill. `pago.registrado`, from the till,
  closes the bill and its orders; `cuenta.cerrada` frees the table and feeds the till, the
  invoices and the reports.
- Cancelling the last order of a bill makes servicio-pedidos call `POST cuentas/:id/cancelar`
  and free the table, best effort; a cron of servicio-cuentas ends the bills whose table has
  moved on, and a cron of servicio-caja closes the bills that were paid and not closed.
- Opening and closing the till lets the waiters of the branch in and out
  (`turno_caja.abierto`, `turno_caja.cerrado`, consumed by servicio-identidad).
- Every one of those events goes through an outbox, any of them may arrive twice, late or
  after a younger one; every POST of the PWA goes through the idempotency interceptor.

## Modules

| Module | Part of the system it models |
| --- | --- |
| `EntregaAlMenosUnaVez` | abstract: what a producer promises about its events |
| `Outbox`, `OutboxProps`, `OutboxProofs` | outbox processor, publisher, admin endpoints |
| `Consumidor`, `ConsumidorProps`, `ServiciosProofs` | the interceptor around the consumers: acks, retries, dead letters |
| `Idempotencia`, `IdempotenciaProps`, `IdempotenciaProofs`, `MCIdempotencia` | HTTP idempotency interceptor and its purge |
| `Stock`, `StockProps`, `StockProofs`, `MCStock` | the stock of a product across servicio-pedidos and servicio-inventario |
| `Comanda`, `ComandaProps`, `ComandaProofs` | one order, its items, its annulments and what its bill is told, statement by statement |
| `Salon`, `SalonProps`, `SalonProofs`, `MCSalon` | one table, its bills and its orders across servicio-mesas, servicio-cuentas and servicio-pedidos |
| `Caja`, `CajaProps`, `CajaProofs` | the payments of one bill and its closing, across servicio-caja and servicio-cuentas |
| `Turnos`, `TurnosProps`, `CajaProofs` | the shifts of the till, their movements and closes, and the waiters (servicio-caja, servicio-identidad) |
| `Facturacion`, `FacturacionProps`, `FacturacionProofs` | numbering, emission and sending of electronic documents |
| `Impresion`, `ImpresionProps`, `FacturacionProofs` | the queue of tickets and the agents that print them |
| `Sesiones`, `SesionesProps`, `ServiciosProofs` | logins and refresh tokens of one user |
| `Administradores`, `AdministradoresProps`, `ServiciosProofs` | roles and states of users, as administrators change each other's |
| `Compras`, `ComprasProps`, `ServiciosProofs` | one purchase order, its receptions, and the stock of its supplies |
| `Reservas`, `ReservasProps`, `ServiciosProofs` | reservations of a table at a time |
| `MCPedido` | for TLC: `Stock` and `Comanda`, each on its own |
| `MCServicios` | for TLC: `Salon`, `Caja`, `Turnos`, `Facturacion`, `Impresion`, `Sesiones`, `Administradores`, `Compras`, `Reservas` and `Consumidor`, each on its own |

`X` holds the constants, the variables and one action per handler step; `XProps` its
properties, its inductive invariant and, for the outbox, the refinement mapping;
`XProofs` extends it with TLAPS
(`CajaProofs`, `FacturacionProofs` and `ServiciosProofs` hold the proofs of more than one part); `MCX` gives the constants of the TLC instances. `MCPedido`
and `MCServicios` put parts that share no state in one model: a variable chooses the part
that moves while the others stay as they are, so their states add up and do not multiply.
Names are those of the source, in Spanish. Some modules define, right before an action, the
same action with a plausible bug (their comments begin with `Defect`): nothing uses them in
the specification; each is what one property exists to catch, and `PROJECT.json`,
under `mutants`, says which.

Four modules compose services rather than model one: `Stock`, `Salon`, `Caja` and `Turnos`
have the tables of two or three services and the events and calls between them. Where they
take a message from another service, they take it late, twice or out of order, as `Outbox`
and `Consumidor` leave it.

### Outbox

One table `outbox_events`, `Replicas` processes with the same code. A step is one SQL
statement or one answer of the broker.

| State | Code |
| --- | --- |
| `status`, `attempts`, `claimedAt` | columns of the row; `AUSENTE` before the insert and `PURGADO`, `PURGADO_FAILED` after a delete; `claimedAt` is `NULL`, recent, or older than the rescue's 60 s |
| `pc`, `lote`, `foto`, `actual` | one tick of a replica: rows it claimed, the `attempts` that the claim returned for each, the row being published |
| `conectado` | `RabbitMQPublisherService.isConnected()` |
| `veces`, `fallos`, `rescatados`, `ambiguos` | history, read by properties only: acceptances by the broker, failures met, rows rescued, successes that went unrecorded |

The claim (`UPDATE ... WHERE id IN (SELECT ... ORDER BY "createdAt" LIMIT n FOR UPDATE SKIP
LOCKED)`) is atomic. What follows is not: every write-back is by id, from the copy
`foto`, whatever the row has become; a crash drops the batch where it is; the rescue gives
back every row claimed more than 60 s ago and cannot tell a dead replica from a slow one;
the purge deletes old outcomes; an operator may retry a dead letter.

`EntregaAlMenosUnaVez` is the promise (ADR-002): an event is pending, then published or a
dead letter that can be brought back; it never disappears. `Entrega` in `OutboxProps`
maps the table and the broker to it.

### Idempotencia

One key. `Peticiones` are the requests that carry it, on any replica, each with a body
(`CuerpoDe`). The row has its columns `fila` (none, in progress, completed), `hash`,
`resultado`, `vencida` (older than `CLAIM_TTL_MS`); `dueno`, who created it, is history the
code does not keep. `pc` says where `handle()` is. Reading the row, deleting an orphan by key,
creating it, running the handler, completing the row and releasing it are separate steps;
the handler, the database or the process may fail at each; a refused request is retried.

### Stock

One product of area INVENTARIO, kept twice: `stock` is `productos.stockActual`
(servicio-inventario), `local` is `productos_locales.stockActual` (servicio-pedidos),
`SinFila` before that row exists. Orders reserve in `local` with one conditional update;
inventory discounts `stock` item by item when it gets `pedido.creado`, or refuses.

| Actions | Code |
| --- | --- |
| `LeerRemoto`, `GuardarLocal`, `PersistirPedido` | `crearPedido`: cold start of the projection in two steps, then the reservation |
| `ActualizarEstadoItem`, `AnularItemPreparado`, `CerrarPedido`, `InvalidarAnulacion` | handlers of servicio-pedidos that change an order or an item without moving stock |
| `LeerParaAnular`, `CancelarItems`, `AbandonarAnulacion` | `anularPedido`, which reads the order before its lock, and `anularAtencionMesa`, which locks the table |
| `ProcesarProducto`, `ProcesarStockInsuficiente` | events that servicio-pedidos consumes |
| `ProcesarPedidoCreado`, `ProcesarStockRestaurado`, `ProcesarCompraRecibida` | events that servicio-inventario consumes |
| `ActualizarStock`, `RegistrarMerma`, `LeerMerma`, `ActualizarMerma`, `EliminarMerma`, `AbandonarMerma` | operators of servicio-inventario; corrections of waste read the row before the lock of the product |

An event can be delivered from its commit on, in any order: this is what the outbox
(duplicates, failed rows published after younger ones) and the consumers' backoff and dead
letters leave of any order. A repeated delivery finds its idempotency key and changes
nothing, so it is the stuttering step. `desviado` records the two ways in which the code lets
the projection drift by design: a loss entered by hand (only replenishments are sent to the
projection, as deltas) and a projection row built from a snapshot instead of from
`producto.creado`.

Products share no rows and no locks, hence one product; an order mixes products only in
that its conditional update is refused if any of them is short, which is one more refusal.

### Comanda

One order of servicio-pedidos under concurrent requests. A transaction at READ COMMITTED is
two to four steps: it writes its item, reads the order with or without the advisory lock of
the order, and commits what it derived from what it read.

| State | Code |
| --- | --- |
| `item`, `comanda` | `pedido_items.estado`; `pedidos.estado` and `total`, the latter as the set of items whose price it adds |
| `anulaciones`, `rechazados` | rows of `auditoria_anulaciones` not invalidated; idempotency keys of `stock.insuficiente` |
| `pc`, `op`, `foto` | where each request is, what it does, the order as it read it |
| `avisos`, `enLaCuenta`, `huellas` | `pedido.actualizado` committed; the order's snapshot in servicio-cuentas; the keys of the events it has applied |
| `revividos`, `restaurados`, `solapado` | history: closed items given a live state by the staff; the item just restored; a request that takes no lock overlapped with another |

Actions: `EscribirItem`/`LeerPedido`/`ActualizarEstadoItem` (`actualizarEstadoItem`),
the annulments of an item, prepared or not, and of the order, `InvalidarAnulacion`,
`procesarStockInsuficiente`, `cerrarPedidos` by payment, and the consumer of the bill.
`Salon` and `Stock` take the outcome of these transactions whole; this module is where they
interleave.

### Salon

| State | Code |
| --- | --- |
| `mesa` | `mesas.estado`, `cuentaAsociada` |
| `cuenta`, `snapshot`, `previos`, `claves` | bills and the orders in each, as of the last event about each; which orders are older than the bill (`createdAt`); idempotency keys of order events |
| `porCancelar` | the bill the reconciliation cron found without its table, before it cancels it |
| `pedido`, `asociada`, `saldadas`, `porAnular` | orders, their `cuentaId`, bills whose payment was applied, cascades between their commit and their HTTP call |
| `fotos`, `consolidado`, `pagadas` | outboxes: `mesa.actualizada`, `cuenta.asociada`, `pago.registrado` |

The handlers of servicio-cuentas hold the lock of the table, so each is one action; the cron
and the cascade are two, and their second step finds whatever the bill has become. There are
no timestamps: bills and orders are numbered in order of creation, which is all that the
comparisons of lines 199 and 362 of servicio-cuentas look at. `HandleCuentaCerrada` and
`MesaActualizada` act on late events of earlier bills as the code does. `CerrarCuenta` is any
closing, after payment or by the staff, and asks nothing about what was paid; `PagoRegistrado`
may come of a bill that has ended, since the till charges what it read (module `Caja`).

### Caja

| State | Code |
| --- | --- |
| `turnoCaja`, `listadas`, `espera`, `deFila` | some shift is open; the loop over `pagos_pendientes` of an opening, rows waiting, payments that come from a claimed row |
| `etapa`, `leido` | where each `registrarPago` or `registrarPagoCombinado` is, and the bill that servicio-cuentas answered it before its transaction, until it ends (`Soltar`) |
| `proyeccion`, `cobrado`, `descuentos`, `completo` | `cuentas_abiertas`; the payments of the bill, their discounts, whether one was announced as the last |
| `porCerrar`, `reconciliando` | payments, and the cron, between their commit and `cerrarCuenta` |
| `remota` | the bill in servicio-cuentas |

A bill closes in four ways: by HTTP after the last payment, by `pago.registrado`, by the
cron, and by `POST cuentas/:id/cerrar` of the staff (`CerrarDirecto`), which does not ask what
was paid. The first two may fail, and the bill's total may change, or the bill be cancelled or
closed directly, at any time until then. `CierreSinDeuda` binds the three ways that follow from
payments (`CierrePorPago`): each acts on a debt read earlier, in another service.

### Turnos

`turno`, `movimiento`, `cierreCaja` are the tables of those names; `cerrando`, what the transaction of
each `cerrarTurno` has added up; `publicados`, the two events of a shift by order of commit;
`ultimo` and `meseros`, the last of them that servicio-identidad handled and what it left in
`usuarios.activo`. A movement is booked in two steps, since `registrarPago` and
`crearMovimiento` look at the shift before the transaction that writes.

### The other parts

| Module | State and steps |
| --- | --- |
| `Facturacion` | `comprobantePago` (projection of closed bills), `solicitud`/`correlativo`/`numero` (a request validates, takes a number in a transaction of its own, saves), `comprobante`, `intentos`, `pendientes`, `respuesta` (the cron sends, SUNAT answers, the answer is recorded, or the process dies between), `emitidos` |
| `Impresion` | `trabajo` (`print_jobs`), `enabled` (the destination), `candidato` (a claim between its read and its conditional update), `imprimiendo` (what an agent has in hand); leases that run out at any time, confirmations that are late or lost, paper half out |
| `Sesiones` | `activo`, `refreshToken` (state, chain, replaced, rotated under 10 s ago), `entrando` (a login between its password and its token), `refresco` (a rotation between its reads and its compare-and-swap), `revocacion` (an `updateMany` over the tokens of the user that has begun, and the last token there was then); see below |
| `Administradores` | `rol`, `habilitado`, `cambio` (what `cambiarRol` or `cambiarEstado` has read); the branch with `SELECT ... FOR UPDATE` and the one without |
| `Compras` | `orden`, `item`, `stock`, `kardex`, `avisado`, `publicado`, `llamada` (a request between its read and its write) |
| `Reservas` | `reserva`, `tramite` (a request between its check and its write), over the partial unique index |
| `Consumidor` | `mensaje`, `entregas` (the broker's), `ejecucion` (an execution per delivery, that goes on when its channel drops, and then can tell the broker nothing) |

In `Sesiones` the database is at READ COMMITTED, PostgreSQL's default, which no call of the code
changes. A rotation (`auth.service.ts:232-251`)
is one transaction of three statements that touch its own row and a new one. Until it commits nobody sees
any of it: who wants the same row waits for its lock, and then finds the row revoked. So it is one
action, `RotarToken`, at its commit. What a rotation can fall in the middle of is a revocation of
all the tokens of the user (180, 480, 500, 563), and that one is two steps: `RevocarCadena` or
`RevocarUsuario`, where the statement begins and fixes which rows it can see (`hasta`), and
`ConfirmarRevocacion`, where it revokes those still live; a token that was rotated or issued in between
survives. `ActivarMeserosPorSede` (632-645) is the till's: it deactivates and revokes nothing, and
`porCaja` remembers that it was the till.

## Runs

| Run | Instance | Question |
| --- | --- | --- |
| `outbox` | 2 replicas, 2 events, one with an unknown routing key, batches of 2, 2 attempts, 2 failures per event, 1 crash or outage, fair | is an event ever lost, published twice without a cause, failed without its failures, or its outcome undone; is the outbox an `EntregaAlMenosUnaVez`; is everything published or failed in the end? |
| `outbox_replica_lenta` | 2 replicas, 1 event, no failure | *violation*: one event published twice with nothing gone wrong |
| `idempotencia` | 3 requests (an original, its retry, another body), 2 failures or crashes, 1 slow handler, fair | does a key ever take effect twice without a cause, does anybody get an answer that is not theirs, is anybody refused for ever? |
| `idempotencia_carrera` | the same, 1 crash, no slow handler | *violation*: two effects of one key |
| `stock_pedidos` | 2 orders of 1 item (1 and 2 units) against 2 units, 1 purchase, 2 requests on existing orders, fair delivery | do the copies of the stock stay backed by each other, is an order ever refused without a cause, is each settled, do the copies converge? |
| `pedido` | `Stock`: 1 order of 2 items (1 and 2 units) against 3 units, adjustments of +1 and −2, 1 waste row, 1 editor, 2 manual operations. `Comanda`: 2 items, one served as it is, 3 requests | with losses by hand and partial refusals, does the real stock add up; do the total and the state of an order agree with its items, and does an order that ended stay so? |
| `stock_merma_doble` | 1 waste row, 2 editors | *violation*: stock and waste rows disagree |
| `stock_devuelto` | 1 order that inventory refuses | *violation*: units given back that were never taken |
| `comanda_restaurada` | 2 items, 2 requests | *violation*: an item restored to the order is missing from the bill |
| `salon` | 2 orders, 2 bills | has a table two open bills, is an order charged in two, does a bill that ended change, does an order know a bill that has it? |
| `salon_pedido_perdido` | the same | *violation*: an order of this attention dropped as one of an earlier attention |
| `servicios` | ten parts, below | see the next table |

| Part of `servicios` | Instance | Properties |
| --- | --- | --- |
| `Salon` | 1 order that may change, 2 bills, fair cron | `HuerfanaSeResuelve`: a bill without its table ends, or gets it back |
| `Caja` | a payment of 1 with a discount of 1 and a combined one of 2, on a bill of 2 or 3 that may grow, 2 rows in the queue, fair cron | `NuncaSeCobraDeMas`, `EsperaUnaVez`, `CierreSinDeuda`, `CobradaSeCierra` |
| `Turnos` | 2 shifts, 2 people who close them, 1 movement | `CierreCuadra`: a close agrees with the rows of its shift but for what was in flight; `MeserosSiguenLaCaja` |
| `Facturacion` | 2 requests for one bill, 1 for another, a note, 2 attempts | `DocumentoUnico`, `AnunciadoEsAceptado` |
| `Impresion` | 1 ticket, 2 agents, 2 attempts, 1 retry by hand | `PapelConCausa`: paper comes out again only after a retry or a reported failure |
| `Sesiones` | 3 tokens, 1 login at a time, 2 refreshes, 1 revocation under way at a time | `SesionesCerradas`: one live token per chain, none in a chain that was closed, and of a user deactivated by an administrator, only in chains that got a token during a revocation |
| `Administradores` | 2 users, 2 changes | `QuedaUnAdmin` |
| `Compras` | 1 supply, 2 requests, quantities and stock to 2, 1 edit | `RecepcionRespaldada` |
| `Reservas` | 3 reservations, 2 slots | `UnaActivaPorMesa` |
| `Consumidor` | 1 message, 3 retries, 2 deliveries | `EntregaConCausa`: what the broker was told agrees with what became of the delivery it waits on, whatever older executions still retry |

`Tipos` is the type invariant of the ten. Those of the outbox, of the idempotency and of `Comanda`
are checked by no run: they are theorems (below).

Deadlock is not checked: once the bounds are used up the instance has nothing left to do, and
so has the program when nobody calls it.

**Bounds.** Every bound is a constant: `MaxFallos`, `MaxCaidas`, `MaxLentas`,
`MaxGestiones` (requests on an existing order), `MaxManual` (adjustments, waste rows and
reads of one before a correction), `Peticiones` and `Marcas` (requests about an order, and the
states the staff gives its items), `Listos` (orders that change while they have items to
charge), `MaxFilas`, `MaxTokens`, `Revocaciones` (at a time), `MaxReintentos`, `MaxPedida`, `MaxStock`, `MaxEdiciones`,
`MaxEntregas`. `MaxAttempts`, `MaxIntentos` and `MaxRetries` are limits of the code, in small
values, but for `MaxRetries`, which is the code's. The histories saturate (`veces` and
`efectos` count 0, 1, more).

Two replicas and two events are what a race for a row, a batch half done and a stale
write-back need; three requests are two that rescue the same orphan plus the one that left
it. Two units and two orders of 1 and 2 make any two of them compete; one cold start per
order covers the projection being saved over a reservation; two requests cover both
cancellations of one order (by order and by table) and a cancellation that is invalidated
and repeated. In `Comanda` an overlap needs two requests, and the third is what comes after
it; two items are one that changes and one that keeps the order alive. In `Salon` a late
event needs the attention it belongs to and the one it hits. In `Caja` two payments of
different kinds are two parts, with or without one discount, one of which can wait in the
queue. In `Consumidor` two deliveries are an execution that outlives its channel and the one
the broker waits on. In `Turnos` movements do not take part in what happens to each other.
In `Sesiones` the revocations by administrators exclude each other by the lock of the user's
row, and two by reuse ask for nothing that one does not. The invoicing cron runs in one copy
of the service, as deployed (`Procesadores`). The theorems below drop the bounds for every
safety property of these runs.

**Fairness.** Outbox: weak fairness of the crons (claim, rescue), of the clock that
makes a claim older than 60 s, of every step of a replica's own tick, and of
reconnection: `@Cron` jobs that run for ever, a sequential `for` loop and amqp's reconnect
timer. Nothing is fair about crashes, failures, the operator or the purge. Idempotency: weak
fairness of each request's own progress, including the client sending it again, and of the
clock that makes a claim older than `CLAIM_TTL_MS`. Stock: weak fairness of
`Entregar`, the delivery of committed events: the outbox publishes them, RabbitMQ redelivers,
and ADR-008 has dead letters injected again. Nobody is obliged to create orders, cancel or
correct anything, nor to finish a cancellation. Bills: weak fairness of the two steps of the
reconciliation cron (`RevisarHuerfana`, `CancelarHuerfana`), and nothing else: no event need ever
arrive. Till: weak fairness of the cron's look (`RevisarCierre`) and strong fairness of its
call (`ReconciliarCierre`), which fails as often as servicio-cuentas is down, but not always.

**What liveness does not say.** `TodoSePublica` allows an event that failed
`maxAttempts` times to stay a dead letter. `TodaPeticionSeResuelve` gives up once a valid claim was
deleted by another request: from there two requests can keep deleting each other's
claims, each of them answered with an error for ever (TLC shows the cycle).
`HuerfanaSeResuelve` allows the bill to be the one people are ordering on. `CobradaSeCierra` is
about a bill among the hundred paid last, the only ones the cron looks at; a bill that the staff closes
directly has ended too.

## Findings

1. **A slow replica publishes twice** (`outbox_replica_lenta`,
   `libs/resiliencia/src/lib/outbox.processor.ts:229`). `README.md:114` promises no duplicates on
   the happy path with several replicas. The claim date is set once per batch and not
   renewed: a live replica whose batch takes longer than 60 s loses its rows to the rescue and
   they are published again. Consumers are idempotent, so this is a divergence from the
   document rather than a loss.
2. **Two retries of an orphaned key both execute** (`idempotencia_carrera`,
   `libs/resiliencia/src/lib/idempotency.interceptor.ts:146`). The orphan is deleted by key, not
   by the row that was read, so the second retry deletes the first one's fresh claim.
3. **Waste corrected twice** (`stock_merma_doble`, `apps/servicio-inventario/src/app/app.service.ts:946`).
   The row is read before the advisory lock of the product and not read again, so the
   difference of the second correction is taken from a value that no longer stands.
4. **Stock given back that was never taken** (`stock_devuelto`,
   `apps/servicio-pedidos/src/app/pedidos-saga.service.ts:625`). An item that inventory refused can be
   cancelled before the refusal reaches the order; the restoration adds its units anyway.
5. **An order dropped from its own attention** (`salon_pedido_perdido`,
   `apps/servicio-cuentas/src/app/app.service.ts:199`). An order older than the open bill is taken for
   one of an earlier attention; but a bill opened for the table after the order was created, and before
   its event arrived, is the bill of that order. It is charged nowhere.
6. **A restored item that the bill never gets back** (`comanda_restaurada`,
   `apps/servicio-cuentas/src/app/app.service.ts:335`). The key of `pedido.actualizado` is the content of
   the order; an order that returns to a content it had before sends a key already used, and the event
   is dropped as repeated.

Met while modelling, within what the properties allow:

- Stock: losses never reduce the projection, so after a waste it keeps accepting orders that inventory
  refuses; the reservation of a refused order stays in the projection; deleting a waste row sends
  a replenishment although registering it had reduced nothing there; a cold start can count an event
  twice, once in the snapshot and once as a delta. All four are what `desviado` stands for, except
  the second, which only happens after it.
- Orders (`Comanda`): an order stays in production when one item is cancelled and the rest are refused by
  inventory; the staff may give a cancelled item a live state, and the total is not computed again;
  `anularPedido` and `procesarStockInsuficiente` read before, or without, the lock of the order, and can
  overwrite PAGADO or a total when they overlap with another request (`solapado` exempts those histories);
  `anularItemPreparado` leaves a paid order CANCELADO when nothing is left in it; an order whose last item
  was cancelled stays CANCELADO after that cancellation is invalidated.
- Tables: a late `cuenta.cerrada`, or `mesa.actualizada`, of an earlier bill takes the table from the next
  one, and the reconciliation then cancels a bill that people are ordering on.
- Till: a row of `pagos_pendientes` whose process died stays PROCESANDO for ever; a payment sent back to
  the queue, because the shift closed under it, has two rows there, and both are charged if the bill
  still owes as much (`reencolado` exempts it from `EsperaUnaVez`).
- Bills: `POST cuentas/:id/cerrar` (`apps/servicio-cuentas/src/app/app.controller.ts:56`) closes a bill
  whatever is left to pay. `docs/operacion/fase-1-cierre-unico-por-pago.md:7` says that a bill "solo puede
  cerrarse como consecuencia de un pago completo registrado en `servicio-caja`"; the endpoint is still
  there.
- Shifts: payments and movements that found the shift open are booked to it after it is closed, and its
  close does not have them; changing the method of a payment of a closed shift changes the movement and
  not the close. The comment at `apps/servicio-identidad/src/auth/auth.service.ts:631` says that repeating
  an event of a shift changes nothing: repeated, or late, after a younger one, it does, and leaves the
  waiters out of an open shift, or in a closed till, until the next event.
- Reservations: `confirmar` revives a reservation cancelled after it read it, if its slot is free.
- Identity: a login that verified its password before a reset gets its token after it, and a rotation
  that commits while the revocation is under way leaves a token the revocation did not see; both survive
  it, although the comment at `auth.service.ts:544-549` says that a reset should leave no session alive
  (`rezagadas` says of which chains they can be). `activarMeserosPorSede` deactivates the waiters and
  revokes nothing: their tokens are refused while they are inactive, and good again afterwards.
- Purchasing: the states of a purchase order are written by id after a separate read, so an order being
  received may be edited or annulled under the reception. The count of the store takes its difference
  from a stock read before the lock of the supply (`movimientos-insumo.service.ts:256`).

## Proofs

All proofs are checked by TLAPS with Z3, Zenon and LS4. Every safety property of the passing
runs, invariant or action property, is a theorem about its component's specification
(`Spec`, `CajaSpec`, ...) for every value of the constants; the specifications with fairness that
some runs use add conjuncts to it, which no safety theorem needs. The invariants are seldom
inductive: each component has an inductive invariant `...IInv`, a conjunction of named
parts, which TLC checked on the instances of the runs before it was proved. The proofs
follow one plan: the initial states satisfy it (`Inicio...`), every action keeps it (`Paso...`,
one step or lemma per action, one step per part that the action can disturb), and it
implies the properties.

**Assumptions.** Each module states those on its own constants, and every run evaluates them.
What they say is: bounds and quantities are natural numbers, functions have the right domains,
things that are numbered have numbers, and markers of absence (`SinFila`, `Ninguna`) are not
values. Four deserve a word. `StockAssumption`: the items are finitely many (each order has a
row per item), and the keys of orders, receptions and items given back are distinct,
since the code prefixes them with the event (`servicio-inventario/src/app/app.service.ts:1159`, `1240`, `1278`). `ComprasAssumption`: stocks start within
`MaxStock`, the bound on them. `OutboxAssumption`: events are numbered and there is at least one.
`AnunciadoSiempreAceptado` alone has a hypothesis of its own, that the sending cron runs in one
copy, as deployed; with two, the types and `DocumentoUnico` still hold, and are proved without it.

| Module | Theorem | States |
| --- | --- | --- |
| `OutboxProofs` | `SinPerdida`, `Duplicados`, `Exclusividad`, `FailedJustificado`, `Finalidad`, `Implementa` | `NadaSePierde`, `DuplicadoConCausa`, `ReclamoExclusivo`, `FailedPorSusFallos`, `ProcesadoEsFinal`, `ImplementaEntrega` |
| `IdempotenciaProofs` | `Exclusion`, `EjecucionUnica`, `Respuestas_Propias`, `Final` | `UnSoloDueno`, `DobleEjecucionConCausa`, `RespuestaPropia`, `HechaEsFinal` |
| `StockProofs` | `ElInventarioCuadra`, `ReservaSiempreRespaldada`, `RechazoSiempreConCausa`, `StockTipos` | `InventarioCuadra`, `ReservaRespaldada`, `RechazoConCausa`, `TypeOK` |
| `ComandaProofs` | `ElTotalCuadra`, `ElTerminalSeRespeta` | `TotalCuadra`, `TerminalSeRespeta` |
| `SalonProofs` | `NuncaDosCuentas`, `AsociacionSiempreFiel`, `LoTerminadoNoCambia` | `CuentasDisjuntas`, `AsociacionFiel`, `TerminadaEsFinal` |
| `CajaProofs` | `NuncaSeCobraDeMasNada`, `LaEsperaSeCobraUnaVez`, `CierreSiempreSinDeuda`, `CierreCuadraSiempre`, `MeserosSiguenSiempreLaCaja` | `NuncaSeCobraDeMas`, `EsperaUnaVez`, `CierreSinDeuda`, `CierreCuadra`, `MeserosSiguenLaCaja` |
| `FacturacionProofs` | `DocumentoSiempreUnico`, `AnunciadoSiempreAceptado`, `TodoPapelConCausa` | `DocumentoUnico`, `AnunciadoEsAceptado`, `PapelConCausa` |
| `ServiciosProofs` | `ReservaUnica`, `SiempreQuedaUnAdmin`, `SesionesBienCerradas`, `TodaEntregaConCausa`, `RecepcionSiempreRespaldada`, `LosServiciosJuntos` | `UnaActivaPorMesa`, `QuedaUnAdmin`, `SesionesCerradas`, `EntregaConCausa`, `RecepcionRespaldada`, `Tipos` |

Every module also proves the type invariant of its components.

**OutboxProofs.** `NadaSePierde` needs to know that a
replica about to write PROCESSED has seen the broker's confirm (`ControlInv`) and that a row not
yet inserted left no trace (`AusenteInv`). `FailedPorSusFallos` needs that every count of
attempts, in the row or in the copy some replica still holds, is at most the failures that
happened (`IntentosInv`): without the copies a stale write-back would break it.
`DuplicadoConCausa` needs that a row nobody rescued belongs to one replica (`PosesionInv`), and
that until its outcome is unrecorded the broker has it at most once and not before its holder
confirmed it (`UnicaInv`). `Implementa` maps every step of the outbox to one of
`EntregaAlMenosUnaVez` or to a stutter.

**IdempotenciaProofs.** The invariant adds that the row in progress carries its
owner's hash and the completed row its owner's answer (`FilaInv`), and that the only commit so far
is in the row or about to be (`EfectoInv`). Finding
2 is why each theorem says "unless a valid claim was deleted by another request"
(`ajena`): this race, an unrecorded commit and the retention are the only ways.

**StockProofs.** The account of the stock is made of sums over sets of items and of events, so
the module first proves what such sums are, from the definition of `SumFunctionOnSet`: a sum does
not depend on the order (`SumaQuita`), grows with each element (`SumaMas`), splits over disjoint
sets (`SumaUnion`), keeps its type (`SumaTipada`). The library's induction over finite sets takes an
operator as a parameter; here each proof is by the smallest counterexample instead
(`ElMenor`: among the subsets that fail, one has none inside), which only needs the ordering of the
subsets to be well founded. Then: an event has a number of its own and the first is the creation
(`EventosNumerados`), so that what is on its way loses exactly one event at each delivery; while
the projection has no row it has applied nothing and promised nothing (`AntesDeLaFila`); what
inventory has handled exists and was handled once (`ProcesadosCreados`). With them
`ReservaRespaldada` is kept by every step, moving units between the three places it adds, and a
refusal contradicts it: an order that was accepted is in the reservation, so there is stock for
all its items.

**ComandaProofs.** A request that holds the lock and has read the order has read what is still
there, its own write aside (`FotosVigentes`, `UnaConLlave`), so that what it derives from its
copy is what the order needs when it commits. `solapado` is exactly what breaks it.

**SalonProofs.** Bills of a table are opened one at a time and in order (`AbiertasEnOrden`); an
order entered its bill by an event, whose key stays (`EntradasConEvento`); a later bill knows the
orders of the earlier ones as older (`PreviosDeLasAnteriores`), which is the comparison of dates of
the code, and keeps them out.

**CajaProofs.** What a request has read is no more than the largest total, and the first payment
fixes the discount for all (`TotalesVistos`, `CobradoConDescuento`); a payment is under way, in the
queue or charged, one of the three (`UnSoloSitio`); who is about to close the bill has seen it
paid (`SaldadaAlCerrar`), which needs that, unless the bill grew, totals that were read still
stand (`TotalVigente`). The direct closing by the staff owes nothing to payments: it only ends the
bill, and what the others hold of it stays true. For the shifts: what a close has counted and what the rows say differ by the
exemptions only, from the count on (`CuentasVigentes`), and the last event says whether a shift is
open (`UltimoEvento`).

**FacturacionProofs.** Numbers given are distinct and no greater than the counter (`NumerosDados`);
what is issued is one document of a request that ended (`GuardadosUnaVez`). With one copy of the
cron, what it has yet to send is still only signed (`SeEnviaLoFirmado`). For the printing, every paper
out, every agent that may print and every ticket that may be claimed is counted against a cause
(`PapelesContados`), with leases that belong to one agent (`ArriendosPropios`).

**ServiciosProofs.** Reservations rest on the unique index (`IndiceUnico`); administrators, on what a
change read being still so unless somebody was promoted (`LecturaVigente`); sessions, on chains
beginning with their login (`FilasEmitidas`) and on knowing, while a revocation is under way, the chains
of the tokens it does not see (`NoVistasRezagadas`), and that a login in flight of a deactivated user was
so when its tokens were revoked (`EntrandoCruzados`); consumers, on a delivery being executed only after it was made (`EnOrden`) and
completed only after it ran (`ExitoAlFinal`); purchases, on a draft having received nothing
(`BorradorSinRecibir`). `LosServiciosJuntos` puts the ten parts of the run `servicios` together: a step
of the whole is a step of one part and a stutter of the rest, so each keeps its own invariant.

## Only model-checked

- Liveness (`TodoSePublica`, `NadaQuedaReclamado`, `TodaPeticionSeResuelve`,
  `TodoPedidoSeResuelve`, `Convergen`, `HuerfanaSeResuelve`, `CobradaSeCierra`): liveness under
  fairness is out of TLAPS's reach.
- The properties of the runs that expect a violation: they are false.
- That the components of `MCPedido` keep their invariants side by side, which is the argument of
  `LosServiciosJuntos` for two parts.

## Not modelled

- **Outbox**: the order in which consumers see events (the models of consumers assume none),
  metrics and health counters. The broker accepts an event and its confirm arrives in one step, and the
  library amqp-connection-manager, which may send again an unconfirmed message when its channel drops, is
  outside: such a duplicate is one more that the consumers have to bear.
- **Stock**: the column `disponible`, products without stock control, edits of a product's data,
  kitchen states, which count as live, the waste rows written for prepared items that are annulled,
  which move no stock when written (an operator may correct or delete them like those entered by
  hand, the only ones that `Stock` has), and a second `anularPedido` of one order while the first is
  in flight, whose events repeat the same keys. Each order has its own table.
- **Tables**: groups of joined tables (`servicio-mesas/src/app/app.service.ts:152-286`). A group is
  read outside the transaction that writes it and freed member by member, each with a conditional
  update whose conflict ends the rest; joins that overlap, late propagations and conflicts can leave a
  group without its host or a member with a bill that has ended, until somebody separates it by hand or
  the next bill is closed. What can be stated of groups holds only when none of that happened; they come
  last in the plan. Areas and the plan of the room are plain records.
- **Bills**: the limit of the reconciliation cron, which takes 50 open bills without an order
  (`cuenta-mesa-reconciliacion.service.ts:47-50`): with more than 50 old bills open at once it may
  not see one, and `HuerfanaSeResuelve` takes the bill to be among those it sees; prices and
  quantities inside a snapshot, `dividirCuenta` (a calculation that stores nothing), and the
  queries.
- **Till**: counts in the middle of a shift, which leave a row nobody reads.
- **Identity**: the lockout by failed logins, creation and profiles of users, branches, and the lazy rehash
  of a password at login (`auth.service.ts:111`), which may overwrite one being reset.
- **Purchasing**: suppliers, the catalogue of supplies (`factorConversion` is a constant of
  `Compras`, although an edit of the supply, `insumos.service.ts:127`, can change it between two
  receptions), fiscal documents and reports.
- **Invoicing**: companies, certificates, credentials, UBL documents and SUNAT's SOAP client: plain
  records, formatting and I/O. `Facturacion` has the answers as the code sees them: with a CDR,
  without one, or a failed call. Any CDR that comes back counts as accepted, since the code does not
  read the response code inside it (`sunat-soap.client.ts:79-85`, `envio.processor.ts:118`).
- **HTTP wrappers**: the bulkhead and the retry are local counters around one call; the circuit breaker is
  the library opossum. The callers' timeouts and failures are in the modules of the callers.
- **Notifications, reports, the PWA, authentication guards, contracts, observability**: one idempotent insert,
  aggregation, presentation, stateless checks, types and logging. They hold about two thirds of the
  implementation's lines (screens, forms, DTOs, controllers, mappers and queries), which is why the modules
  translate about a tenth of the whole.
- The cron of the till looks at the hundred bills paid last (`cierre-reconciliacion.service.ts:49`);
  `Caja` has one bill and takes it to be among them.

## Plan

Every safety property that a run checks is a theorem. What is left, in order:

| Module | What |
| --- | --- |
| `StockProps` | the abstract promise of servicio-inventario to servicio-pedidos (accept, then discount or refuse, once per order) as a specification that `Stock` refines, and the proof |
| `SalonProps` | the same for a bill: opened, then closed or cancelled, with the orders it had |
| `StockProofs`, `CajaProofs` | action properties that the invariants imply and no run states: what one delivery may move, what a payment may change |
| groups of tables | with TLC, and a finding of their own |

Then `Outbox` as the channel of `Salon`, so that the order in which events arrive is the
outbox's own.
