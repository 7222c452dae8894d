---------------------------- MODULE ComandaProofs ----------------------------
(***************************************************************************)
(* Proofs about one order of servicio-pedidos and the requests that change *)
(* it, for any number of items and of requests.                            *)
(***************************************************************************)
EXTENDS ComandaProps, TLAPS

\* The parts of what a request does, and the requests that can be told apart.
LEMMA PartesDeOperacion ==
  ASSUME NEW o \in Operaciones
  PROVE  /\ o.item \in Items /\ o.marca \in EstadosItem
         /\ o.tipo \in {"nada", "marcar", "preparado", "anular", "mesa", "sin_stock", "invalidar"}
         /\ o.tipo # "invalidar" => o.dato \in SUBSET Items
         /\ o.tipo = "invalidar" => o.dato \in SUBSET FilasDeAnulacion
  BY DEF Operaciones

\* A request that does something to an item, or to the order.
LEMMA DeNada ==
  ASSUME NEW tipo \in {"marcar", "preparado", "sin_stock"}, NEW i \in Items,
         NEW marca \in EstadosItem
  PROVE  /\ Nada \in Operaciones
         /\ [Nada EXCEPT !.tipo = tipo, !.item = i, !.marca = marca] =
              [tipo |-> tipo, item |-> i, marca |-> marca, dato |-> {}]
         /\ [Nada EXCEPT !.tipo = tipo, !.item = i] =
              [tipo |-> tipo, item |-> i, marca |-> "PENDIENTE", dato |-> {}]
         /\ [tipo |-> tipo, item |-> i, marca |-> marca, dato |-> {}] \in Operaciones
<1>1. (CHOOSE j \in Items : TRUE) \in Items
  BY ComandaAssumption DEF ComandaAssumption
<1>2. PICK k : k = CHOOSE j \in Items : TRUE
  OBVIOUS
<1>3. Nada = [tipo |-> "nada", item |-> k, marca |-> "PENDIENTE", dato |-> {}]
  BY <1>2 DEF Nada
<1>4. "PENDIENTE" \in EstadosItem
  BY DEF EstadosItem, Produccion
<1>5. Nada \in Operaciones
  BY <1>1, <1>2, <1>3, <1>4 DEF Operaciones
<1> DEFINE Campos == {"tipo", "item", "marca", "dato"}
           g(m) == [Nada EXCEPT !.tipo = tipo, !.item = i, !.marca = m]
           f == [Nada EXCEPT !.tipo = tipo, !.item = i]
           h(m) == [tipo |-> tipo, item |-> i, marca |-> m, dato |-> {}]
<1>6. f = h("PENDIENTE") /\ g(marca) = h(marca)
  <2>1. /\ f = [c \in Campos |-> f[c]] /\ g(marca) = [c \in Campos |-> g(marca)[c]]
        /\ \A m : h(m) = [c \in Campos |-> h(m)[c]]
    BY <1>3
  <2>2. /\ f["tipo"] = tipo /\ f["item"] = i /\ f["marca"] = "PENDIENTE" /\ f["dato"] = {}
        /\ g(marca)["tipo"] = tipo /\ g(marca)["item"] = i /\ g(marca)["marca"] = marca
        /\ g(marca)["dato"] = {}
    BY <1>3
  <2>3. \A m : h(m)["tipo"] = tipo /\ h(m)["item"] = i /\ h(m)["marca"] = m /\ h(m)["dato"] = {}
    OBVIOUS
  <2> HIDE DEF g, f, h
  <2>4. \A c \in Campos : f[c] = h("PENDIENTE")[c] /\ g(marca)[c] = h(marca)[c]
    BY <2>2, <2>3
  <2> HIDE DEF Campos
  <2> QED
    BY <2>1, <2>4
<1> QED
  BY <1>5, <1>6 DEF Operaciones

\* A request that annuls the whole order.
LEMMA AnularDeNada ==
  ASSUME NEW tipo \in {"anular", "mesa"}, NEW consumidos \in SUBSET Items
  PROVE  /\ [Nada EXCEPT !.tipo = tipo, !.dato = consumidos] \in Operaciones
         /\ [Nada EXCEPT !.tipo = tipo, !.dato = consumidos].tipo = tipo
<1> DEFINE Campos == {"tipo", "item", "marca", "dato"}
           f == [Nada EXCEPT !.tipo = tipo, !.dato = consumidos]
<1>1. PICK k \in Items : k = CHOOSE j \in Items : TRUE
  BY ComandaAssumption DEF ComandaAssumption
<1>2. Nada = [tipo |-> "nada", item |-> k, marca |-> "PENDIENTE", dato |-> {}]
  BY <1>1 DEF Nada
<1>3. PICK h : h = [tipo |-> tipo, item |-> k, marca |-> "PENDIENTE", dato |-> consumidos]
  OBVIOUS
<1>4. h \in Operaciones
  BY <1>3 DEF Operaciones, EstadosItem, Produccion
<1>5. f = [c \in Campos |-> f[c]] /\ h = [c \in Campos |-> h[c]]
  BY <1>2, <1>3
<1>6. /\ f["tipo"] = tipo /\ f["item"] = k /\ f["marca"] = "PENDIENTE" /\ f["dato"] = consumidos
      /\ h["tipo"] = tipo /\ h["item"] = k /\ h["marca"] = "PENDIENTE" /\ h["dato"] = consumidos
  BY <1>2, <1>3
<1>7. f = h
  <2> HIDE DEF f
  <2>1. \A c \in Campos : f[c] = h[c]
    BY <1>6
  <2> HIDE DEF Campos
  <2> QED
    BY <1>5, <2>1
<1> QED
  BY <1>3, <1>4, <1>7

\* The states that are derived are states of an order.
LEMMA EstadoTipado ==
  ASSUME NEW items, NEW leido \in EstadosPedido, comanda.estado \in EstadosPedido
  PROVE  EstadoNuevo(items, leido) \in EstadosPedido
  BY DEF EstadoNuevo, Derivado, EstadosPedido, Produccion, Terminales

\* An order that is not in production keeps its state.
LEMMA FueraDeProduccion ==
  ASSUME NEW items, NEW leido, leido \notin Produccion
  PROVE  EstadoNuevo(items, leido) = comanda.estado
  BY DEF EstadoNuevo, Derivado

\* The order as it is created.
LEMMA CreadoTipado == Creado \in Comandas
<1>1. Creado.items \in [Items -> EstadosItem]
  BY DEF Creado, EstadosItem, Produccion
<1> QED
  BY <1>1 DEF Creado, Comandas, EstadosPedido, Produccion

\* What a request reads is an order.
LEMMA LeidaTipada ==
  ASSUME ComandaTypeOK, NEW escrito, NEW marca \in EstadosItem
  PROVE  /\ Leida(escrito, marca) \in Comandas
         /\ Leida(escrito, marca).estado = comanda.estado
         /\ \A i \in Items :
              Leida(escrito, marca).items[i] = IF i \in escrito THEN marca ELSE item[i]
<1>1. Leida(escrito, marca).items \in [Items -> EstadosItem]
  BY DEF Leida, ComandaTypeOK
<1> QED
  BY <1>1 DEF Leida, Comandas, ComandaTypeOK

\* At the start there are no requests, and every item is charged.
LEMMA InicioComanda == ComandaInit => ComandaIInv
<1> SUFFICES ASSUME ComandaInit PROVE ComandaIInv
  OBVIOUS
<1>1. ComandaTypeOK
  <2>1. Nada \in Operaciones /\ Creado \in Comandas
    <3>1. PICK i : i \in Items
      BY ComandaAssumption DEF ComandaAssumption
    <3> QED
      BY <3>1, DeNada, CreadoTipado DEF EstadosItem, Produccion
  <2>2. op \in [Peticiones -> Operaciones] /\ foto \in [Peticiones -> Comandas]
        /\ avisos \in Seq(Comandas) /\ enLaCuenta \in Comandas /\ huellas \subseteq Comandas
    BY <2>1 DEF ComandaInit
  <2>3. item \in [Items -> EstadosItem]
        /\ comanda \in [estado : EstadosPedido, total : SUBSET Items]
    BY <2>1 DEF ComandaInit, Comandas
  <2> QED
    BY <2>2, <2>3 DEF ComandaInit, ComandaTypeOK
<1>2. PasoDeCadaUna /\ UnaConLlave /\ FotosVigentes
  BY DEF ComandaInit, PasoDeCadaUna, UnaConLlave, FotosVigentes, Nada
<1>3. TotalCuadra
  <2>1. Vivos(item) = Items
    BY DEF Vivos, ComandaInit, Creado, Cerrados
  <2> QED
    BY <2>1 DEF ComandaInit, Creado, TotalCuadra
<1> QED
  BY <1>1, <1>2, <1>3 DEF ComandaIInv

\* A request that commits nothing yet disturbs no other: the invariant is about
\* what itself is going to do, and has read.
LEMMA AvanzaUna ==
  ASSUME ComandaIInv, NEW r \in Peticiones,
         NEW a \in {"nueva", "elegida", "decidida", "escrita", "leida", "hecha"},
         NEW o \in Operaciones, NEW leida \in Comandas,
         Pasar(r, a), op' = [op EXCEPT ![r] = o], foto' = [foto EXCEPT ![r] = leida],
         SinEscribir,
         a = "escrita" => o.tipo = "marcar",
         a = "decidida" => o.tipo = "invalidar",
         o.tipo = "marcar" => o.marca \in Marcas,
         o.tipo = "sin_stock" => o.item \in Directos /\ o.marca = "RECHAZADO_SIN_STOCK",
         a = "leida" /\ o.tipo \in ConLlave => LlaveLibre,
         a = "leida" => /\ leida.estado = comanda.estado
                        /\ \A i \in Items : leida.items[i] =
                             IF o.tipo \in Escriben /\ i = o.item THEN o.marca ELSE item[i]
  PROVE  ComandaIInv'
<1>i. ComandaTypeOK /\ PasoDeCadaUna /\ UnaConLlave /\ FotosVigentes /\ TotalCuadra
  BY DEF ComandaIInv
<1>1. /\ pc'[r] = a /\ op'[r] = o /\ foto'[r] = leida
      /\ \A q \in Peticiones \ {r} : pc'[q] = pc[q] /\ op'[q] = op[q] /\ foto'[q] = foto[q]
      /\ pc' \in [Peticiones -> {"nueva", "elegida", "decidida", "escrita", "leida", "hecha"}]
      /\ op' \in [Peticiones -> Operaciones] /\ foto' \in [Peticiones -> Comandas]
  BY <1>i DEF ComandaTypeOK, Pasar
<1>2. UNCHANGED <<item, comanda, anulaciones, rechazados, avisos, enLaCuenta, huellas,
                  revividos, restaurados, solapado>>
  BY DEF SinEscribir, orden, facturado
<1>3. ComandaTypeOK'
  BY <1>i, <1>1, <1>2 DEF ComandaTypeOK
<1>4. PasoDeCadaUna'
  BY <1>i, <1>1 DEF PasoDeCadaUna
<1>5. UnaConLlave'
  BY <1>i, <1>1 DEF UnaConLlave, LlaveLibre
<1>6. FotosVigentes'
  BY <1>i, <1>1, <1>2 DEF FotosVigentes, FotoVigente
<1>7. TotalCuadra'
  BY <1>i, <1>2 DEF TotalCuadra, Vivos
<1> QED
  BY <1>3, <1>4, <1>5, <1>6, <1>7 DEF ComandaIInv

\* A transaction commits: if it had not overlapped without the lock, there is no
\* other that has read.
LEMMA ConfirmaUna ==
  ASSUME ComandaIInv, NEW r \in Peticiones, NEW tipo,
         NEW items \in [Items -> EstadosItem], NEW estado \in EstadosPedido,
         NEW total \in SUBSET Items, NEW aviso \in Seq(Comandas),
         Confirmar(r, tipo, items, estado, total, aviso),
         tipo \in ConLlave => pc[r] = "leida" /\ op[r].tipo = tipo,
         anulaciones' \subseteq FilasDeAnulacion, rechazados' \subseteq Directos,
         revividos' \subseteq Items, restaurados' \subseteq Items,
         ~solapado' => total \ revividos' = Vivos(items) \ revividos'
  PROVE  ComandaIInv'
<1>i. ComandaTypeOK /\ PasoDeCadaUna /\ UnaConLlave /\ FotosVigentes /\ TotalCuadra
  BY DEF ComandaIInv
<1>1. /\ item' = items /\ comanda' = [estado |-> estado, total |-> total]
      /\ avisos' = avisos \o aviso
      /\ pc' = [pc EXCEPT ![r] = "hecha"]
      /\ solapado' = (solapado \/ \E q \in Peticiones \ {r} :
                        pc[q] = "leida" /\ {tipo, op[q].tipo} \ ConLlave # {})
      /\ UNCHANGED <<op, foto, enLaCuenta, huellas>>
  BY DEF Confirmar, Pasar, facturado
<1>2. /\ pc'[r] = "hecha" /\ \A q \in Peticiones \ {r} : pc'[q] = pc[q]
      /\ pc' \in [Peticiones -> {"nueva", "elegida", "decidida", "escrita", "leida", "hecha"}]
  BY <1>i, <1>1 DEF ComandaTypeOK
<1>3. ComandaTypeOK'
  <2>1. avisos' \in Seq(Comandas)
    BY <1>i, <1>1 DEF ComandaTypeOK
  <2>2. solapado' \in BOOLEAN
    BY <1>i, <1>1, Zenon DEF ComandaTypeOK
  <2>3. comanda' \in [estado : EstadosPedido, total : SUBSET Items] /\ item' \in [Items -> EstadosItem]
    BY <1>1
  <2> QED
    BY <1>i, <1>1, <1>2, <2>1, <2>2, <2>3 DEF ComandaTypeOK
<1>4. PasoDeCadaUna'
  BY <1>i, <1>1, <1>2 DEF PasoDeCadaUna
<1>5. UnaConLlave'
  BY <1>i, <1>1, <1>2 DEF UnaConLlave
<1>6. FotosVigentes'
  <2>1. ASSUME ~solapado', NEW q \in Peticiones, pc'[q] = "leida" PROVE FALSE
    <3>1. q # r /\ pc[q] = "leida"
      BY <1>2, <2>1
    <3>2. {tipo, op[q].tipo} \ ConLlave = {}
      BY <1>1, <2>1, <3>1
    <3>3. tipo \in ConLlave /\ op[q].tipo \in ConLlave
      BY <3>2
    <3> QED
      BY <1>i, <3>1, <3>3 DEF UnaConLlave
  <2> QED
    BY <2>1 DEF FotosVigentes
<1>7. TotalCuadra'
  BY <1>1 DEF TotalCuadra, Vivos
<1> QED
  BY <1>3, <1>4, <1>5, <1>6, <1>7 DEF ComandaIInv

\* A commit that did not overlap without the lock has had none before.
LEMMA SinSolape ==
  ASSUME NEW r, NEW tipo, NEW items, NEW estado, NEW total, NEW aviso,
         Confirmar(r, tipo, items, estado, total, aviso), ~solapado'
  PROVE  ~solapado
  BY Zenon DEF Confirmar

\* What a request that had the order to itself read is what it commits.
LEMMA LeyoLoDeAhora ==
  ASSUME ComandaIInv, NEW r \in Peticiones, pc[r] = "leida", ~solapado
  PROVE  /\ foto[r].estado = comanda.estado
         /\ op[r].tipo \in Escriben => foto[r].items = [item EXCEPT ![op[r].item] = op[r].marca]
         /\ op[r].tipo \notin Escriben => foto[r].items = item
<1>1. FotoVigente(r) /\ item \in [Items -> EstadosItem]
  BY DEF ComandaIInv, FotosVigentes, ComandaTypeOK
<1>2. foto[r] \in Comandas /\ op[r] \in Operaciones
  BY DEF ComandaIInv, ComandaTypeOK
<1>3. PICK leidos : leidos = foto[r].items
  OBVIOUS
<1>4. PICK i, marca : i = op[r].item /\ marca = op[r].marca
  OBVIOUS
<1>5. leidos \in [Items -> EstadosItem] /\ i \in Items
  BY <1>2, <1>3, <1>4, PartesDeOperacion DEF Comandas
<1>6. CASE op[r].tipo \in Escriben
  <2>1. \A j \in Items : leidos[j] = IF j = i THEN marca ELSE item[j]
    BY <1>1, <1>3, <1>4, <1>6 DEF FotoVigente
  <2>2. leidos = [item EXCEPT ![i] = marca]
    BY <1>1, <1>5, <2>1
  <2> QED
    BY <1>1, <1>3, <1>4, <1>6, <2>2 DEF FotoVigente
<1>7. CASE op[r].tipo \notin Escriben
  <2>1. \A j \in Items : leidos[j] = item[j]
    BY <1>1, <1>3, <1>7 DEF FotoVigente
  <2>2. leidos = item
    BY <1>1, <1>5, <2>1
  <2> QED
    BY <1>1, <1>3, <1>7, <2>2 DEF FotoVigente
<1> QED
  BY <1>6, <1>7

\* What a transaction announces, and the states it gives one item.
LEMMA AvisoTipado ==
  ASSUME NEW items \in [Items -> EstadosItem], NEW estado \in EstadosPedido,
         NEW total \in SUBSET Items
  PROVE  Aviso(items, estado, total) \in Seq(Comandas)
  BY DEF Aviso, Comandas
\* Every step keeps the invariant: what a transaction writes is what follows from
\* the items of the moment, unless another committed without the lock meanwhile.
LEMMA PasoComanda == ComandaIInv /\ [ComandaNext]_comandaVars => ComandaIInv'
<1> SUFFICES ASSUME ComandaIInv, [ComandaNext]_comandaVars PROVE ComandaIInv'
  OBVIOUS
<1>i. ComandaTypeOK /\ PasoDeCadaUna /\ UnaConLlave /\ FotosVigentes /\ TotalCuadra
  BY DEF ComandaIInv
<1>c. /\ Directos \subseteq Items /\ Marcas \subseteq EstadosItem
      /\ {"PENDIENTE", "ENTREGADO", "CANCELADO", "RECHAZADO_SIN_STOCK"} \subseteq EstadosItem
      /\ {"CANCELADO", "RECHAZADO_SIN_STOCK", "PAGADO"} \subseteq EstadosPedido
  BY ComandaAssumption DEF ComandaAssumption, EstadosItem, EstadosPedido, Produccion, Cerrados,
     Terminales
<1>o. \A r \in Peticiones :
        /\ op[r] \in Operaciones /\ foto[r] \in Comandas
        /\ op[r].item \in Items /\ op[r].marca \in EstadosItem
        /\ op = [op EXCEPT ![r] = op[r]] /\ foto = [foto EXCEPT ![r] = foto[r]]
        /\ foto[r].items \in [Items -> EstadosItem] /\ foto[r].estado \in EstadosPedido
  BY <1>i, PartesDeOperacion DEF ComandaTypeOK, Comandas
<1>e. /\ comanda.estado \in EstadosPedido /\ comanda.total \in SUBSET Items
      /\ item \in [Items -> EstadosItem]
  BY <1>i DEF ComandaTypeOK
<1>v. \A items : Vivos(items) \in SUBSET Items
  BY DEF Vivos
<1>n. \A s : <<>> \in Seq(s)
  OBVIOUS
<1>h. \A tipo : tipo \in ConLlave <=> tipo \in {"marcar", "preparado", "invalidar"}
  BY DEF ConLlave
<1>w. \A tipo : tipo \in Escriben <=> tipo \in {"marcar", "invalidar", "sin_stock"}
  BY DEF Escriben
<1>0. CASE UNCHANGED comandaVars
  BY <1>i, <1>0 DEF comandaVars, orden, tramite, facturado, ComandaIInv, ComandaTypeOK,
     PasoDeCadaUna, UnaConLlave, FotosVigentes, FotoVigente, TotalCuadra, Vivos
<1>1. ASSUME NEW r \in Peticiones, NEW i \in Items, NEW marca \in Marcas, EscribirItem(r, i, marca)
      PROVE  ComandaIInv'
  <2>1. /\ Pasar(r, "escrita") /\ SinEscribir /\ foto' = [foto EXCEPT ![r] = foto[r]]
        /\ op' = [op EXCEPT ![r] = [tipo |-> "marcar", item |-> i, marca |-> marca, dato |-> {}]]
    BY <1>1, <1>c, <1>o, DeNada DEF EscribirItem
  <2>2. [tipo |-> "marcar", item |-> i, marca |-> marca, dato |-> {}] \in Operaciones
    BY <1>c, DeNada
  <2> QED
    BY <1>o, <2>1, <2>2, AvanzaUna
<1>2. ASSUME NEW r \in Peticiones, LeerPedido(r) PROVE ComandaIInv'
  <2>1. PICK leida : leida = Leida({op[r].item}, op[r].marca)
    OBVIOUS
  <2>2. /\ Pasar(r, "leida") /\ SinEscribir /\ foto' = [foto EXCEPT ![r] = leida]
        /\ op' = [op EXCEPT ![r] = op[r]] /\ LlaveLibre
    BY <1>2, <1>o, <2>1 DEF LeerPedido
  <2>3. op[r].tipo = "marcar" /\ op[r].marca \in Marcas
    BY <1>2, <1>i DEF LeerPedido, PasoDeCadaUna
  <2>4. /\ leida \in Comandas /\ leida.estado = comanda.estado
        /\ \A i \in Items : leida.items[i] = IF i \in {op[r].item} THEN op[r].marca ELSE item[i]
    BY <1>i, <1>o, <2>1, LeidaTipada
  <2> QED
    BY <1>o, <1>w, <2>2, <2>3, <2>4, AvanzaUna
<1>3. ASSUME NEW r \in Peticiones, ConfirmarItem(r) PROVE ComandaIInv'
  <2>1. PICK i, marca, items, estado, total :
          /\ i = op[r].item /\ marca = op[r].marca
          /\ items = [item EXCEPT ![i] = marca]
          /\ estado = EstadoNuevo(foto[r].items, foto[r].estado)
          /\ total = IF marca = "CANCELADO" THEN Vivos(foto[r].items) ELSE comanda.total
    OBVIOUS
  <2>2. PICK aviso : aviso = IF \/ marca = "CANCELADO"
                                \/ Derivado(foto[r].items, foto[r].estado) # foto[r].estado
                             THEN Aviso(items, estado, total) ELSE <<foto[r]>>
    OBVIOUS
  <2>3. /\ pc[r] = "leida" /\ op[r].tipo = "marcar"
        /\ Confirmar(r, "marcar", items, estado, total, aviso)
        /\ anulaciones' = IF marca = "CANCELADO"
                          THEN anulaciones \cup {[item |-> i, plato |-> "SIN_PREPARAR", por |-> r]}
                          ELSE anulaciones
        /\ revividos' = IF item[i] \in Cerrados /\ marca # "CANCELADO"
                        THEN revividos \cup {i} ELSE revividos
        /\ restaurados' = {} /\ UNCHANGED rechazados
    BY <1>3, <2>1, <2>2 DEF ConfirmarItem
  <2>4. /\ i \in Items /\ marca \in EstadosItem /\ items \in [Items -> EstadosItem]
        /\ estado \in EstadosPedido /\ total \in SUBSET Items
    BY <1>o, <1>e, <1>v, <2>1, EstadoTipado
  <2>5. aviso \in Seq(Comandas)
    <3>1. Aviso(items, estado, total) \in Seq(Comandas) /\ <<foto[r]>> \in Seq(Comandas)
      BY <1>o, <2>4, AvisoTipado
    <3> QED
      BY <2>2, <3>1
  <2>6. /\ anulaciones' \subseteq FilasDeAnulacion /\ rechazados' \subseteq Directos
        /\ revividos' \subseteq Items /\ restaurados' \subseteq Items
    BY <1>i, <2>3, <2>4 DEF ComandaTypeOK, FilasDeAnulacion
  <2>7. ASSUME ~solapado' PROVE total \ revividos' = Vivos(items) \ revividos'
    <3>1. ~solapado
      BY <2>3, <2>7, SinSolape
    <3>2. CASE marca = "CANCELADO"
      BY <1>w, <2>1, <2>3, <3>1, <3>2, LeyoLoDeAhora
    <3>3. CASE marca # "CANCELADO"
      <4>1. marca \notin Cerrados
        <5>1. marca \in Marcas
          BY <1>i, <2>1, <2>3 DEF PasoDeCadaUna
        <5> QED
          BY <3>3, <5>1, ComandaAssumption DEF ComandaAssumption, Produccion, Cerrados
      <4>2. comanda.total \ revividos = Vivos(item) \ revividos
        BY <1>i, <3>1 DEF TotalCuadra
      <4>3. Vivos(items) = Vivos(item) \cup {i}
        BY <1>e, <2>1, <2>4, <4>1 DEF Vivos
      <4>4. total = comanda.total /\ (i \in revividos' \/ i \in Vivos(item)) /\ revividos \subseteq revividos'
        BY <2>1, <2>3, <2>4, <3>3 DEF Vivos
      <4> QED
        BY <4>2, <4>3, <4>4
    <3> QED
      BY <3>2, <3>3
  <2> QED
    BY <2>3, <2>4, <2>5, <2>6, <2>7, ConfirmaUna
<1>4. ASSUME NEW r \in Peticiones, NEW i \in Items, ElegirPreparado(r, i) PROVE ComandaIInv'
  <2>1. /\ Pasar(r, "elegida") /\ SinEscribir /\ foto' = [foto EXCEPT ![r] = foto[r]]
        /\ op' = [op EXCEPT ![r] = [tipo |-> "preparado", item |-> i, marca |-> "PENDIENTE",
                                    dato |-> {}]]
    BY <1>4, <1>c, <1>o, DeNada DEF ElegirPreparado
  <2>2. [tipo |-> "preparado", item |-> i, marca |-> "PENDIENTE", dato |-> {}] \in Operaciones
    BY <1>c, DeNada
  <2> QED
    BY <1>o, <2>1, <2>2, AvanzaUna
<1>5. ASSUME NEW r \in Peticiones, LeerPreparado(r) PROVE ComandaIInv'
  <2>1. PICK leida : leida = Leida({}, "PENDIENTE")
    OBVIOUS
  <2>2. /\ Pasar(r, "leida") /\ SinEscribir /\ foto' = [foto EXCEPT ![r] = leida]
        /\ op' = [op EXCEPT ![r] = op[r]] /\ LlaveLibre /\ op[r].tipo = "preparado"
    BY <1>5, <1>o, <2>1 DEF LeerPreparado
  <2>3. /\ leida \in Comandas /\ leida.estado = comanda.estado
        /\ \A i \in Items : leida.items[i] = IF i \in {} THEN "PENDIENTE" ELSE item[i]
    BY <1>i, <1>c, <2>1, LeidaTipada
  <2> QED
    BY <1>o, <1>w, <2>2, <2>3, AvanzaUna
<1>6. ASSUME NEW r \in Peticiones, NEW cobrar \in BOOLEAN, ConfirmarPreparado(r, cobrar)
      PROVE  ComandaIInv'
  <2>1. PICK i, items, vivos, estado :
          /\ i = op[r].item
          /\ items = [item EXCEPT ![i] = "CANCELADO"]
          /\ vivos = Vivos([foto[r].items EXCEPT ![i] = "CANCELADO"])
          /\ estado = IF vivos = {} THEN "CANCELADO" ELSE comanda.estado
    OBVIOUS
  <2>2. /\ pc[r] = "leida" /\ op[r].tipo = "preparado"
        /\ \/ Confirmar(r, "preparado", item, comanda.estado, comanda.total, <<>>)
           \/ Confirmar(r, "preparado", items, estado, vivos, Aviso(items, estado, vivos))
        /\ anulaciones' = anulaciones \cup {[item |-> i, plato |-> "PREPARADO", por |-> r]}
        /\ restaurados' = {} /\ UNCHANGED <<rechazados, revividos>>
    BY <1>6, <2>1 DEF ConfirmarPreparado
  <2>3. /\ i \in Items /\ items \in [Items -> EstadosItem]
        /\ estado \in EstadosPedido /\ vivos \in SUBSET Items
    BY <1>o, <1>e, <1>v, <1>c, <2>1
  <2>4. /\ anulaciones' \subseteq FilasDeAnulacion /\ rechazados' \subseteq Directos
        /\ revividos' \subseteq Items /\ restaurados' \subseteq Items
    BY <1>i, <2>2, <2>3 DEF ComandaTypeOK, FilasDeAnulacion
  <2>5. CASE Confirmar(r, "preparado", item, comanda.estado, comanda.total, <<>>)
    <3>1. ~solapado' => comanda.total \ revividos' = Vivos(item) \ revividos'
      BY <1>i, <2>2, <2>5, SinSolape DEF TotalCuadra
    <3> QED
      BY <1>e, <1>n, <2>2, <2>4, <2>5, <3>1, ConfirmaUna
  <2>6. CASE Confirmar(r, "preparado", items, estado, vivos, Aviso(items, estado, vivos))
    <3>1. ~solapado' => vivos \ revividos' = Vivos(items) \ revividos'
      BY <1>w, <2>1, <2>2, <2>6, SinSolape, LeyoLoDeAhora
    <3>2. Aviso(items, estado, vivos) \in Seq(Comandas)
      BY <2>3, AvisoTipado
    <3> QED
      BY <2>2, <2>3, <2>4, <2>6, <3>1, <3>2, ConfirmaUna
  <2> QED
    BY <2>2, <2>5, <2>6
<1>7. ASSUME NEW r \in Peticiones, NEW tipo \in {"anular", "mesa"},
             NEW consumidos \in SUBSET Directos, LeerParaAnularTodo(r, tipo, consumidos)
      PROVE  ComandaIInv'
  <2>1. PICK leida, o : leida = Leida({}, "PENDIENTE")
                        /\ o = [Nada EXCEPT !.tipo = tipo, !.dato = consumidos]
    OBVIOUS
  <2>2. /\ Pasar(r, "leida") /\ SinEscribir /\ foto' = [foto EXCEPT ![r] = leida]
        /\ op' = [op EXCEPT ![r] = o]
    BY <1>7, <2>1 DEF LeerParaAnularTodo
  <2>3. o \in Operaciones /\ o.tipo = tipo
    BY <1>c, <2>1, AnularDeNada
  <2>4. /\ leida \in Comandas /\ leida.estado = comanda.estado
        /\ \A i \in Items : leida.items[i] = IF i \in {} THEN "PENDIENTE" ELSE item[i]
    BY <1>i, <1>c, <2>1, LeidaTipada
  <2> QED
    BY <1>h, <1>w, <2>2, <2>3, <2>4, AvanzaUna
<1>8. ASSUME NEW r \in Peticiones, AnularTodo(r) PROVE ComandaIInv'
  <2>1. PICK leida, cancelados : leida = foto[r] /\ cancelados = Vivos(leida.items) \ op[r].dato
    OBVIOUS
  <2>2. PICK finales, items :
          /\ finales = [i \in Items |-> IF i \in cancelados THEN "CANCELADO" ELSE leida.items[i]]
          /\ items = [i \in Items |-> IF i \in cancelados THEN "CANCELADO" ELSE item[i]]
    OBVIOUS
  <2>3. PICK vivos, estado :
          /\ vivos = Vivos(finales)
          /\ estado = IF vivos = {} THEN "CANCELADO" ELSE EstadoNuevo(finales, leida.estado)
    OBVIOUS
  <2>4. /\ pc[r] = "leida" /\ op[r].tipo \in {"anular", "mesa"}
        /\ Confirmar(r, op[r].tipo, items, estado, vivos, Aviso(items, estado, vivos))
        /\ restaurados' = {} /\ UNCHANGED <<rechazados, revividos>>
    BY <1>8, <2>1, <2>2, <2>3 DEF AnularTodo
  <2>5. /\ items \in [Items -> EstadosItem] /\ estado \in EstadosPedido /\ vivos \in SUBSET Items
        /\ Aviso(items, estado, vivos) \in Seq(Comandas)
    <3>1. items \in [Items -> EstadosItem]
      BY <1>e, <1>c, <2>2
    <3>2. estado \in EstadosPedido /\ vivos \in SUBSET Items
      BY <1>o, <1>e, <1>v, <1>c, <2>1, <2>3, EstadoTipado
    <3> QED
      BY <3>1, <3>2, AvisoTipado
  <2>6. /\ anulaciones' \subseteq FilasDeAnulacion /\ rechazados' \subseteq Directos
        /\ revividos' \subseteq Items /\ restaurados' \subseteq Items
    <3>1. cancelados \subseteq Items /\ anulaciones \subseteq FilasDeAnulacion
      BY <1>i, <1>v, <2>1 DEF ComandaTypeOK
    <3>2. \A i \in cancelados, plato \in {"PREPARADO", "SIN_PREPARAR"} :
            [item |-> i, plato |-> plato, por |-> r] \in FilasDeAnulacion
      BY <3>1 DEF FilasDeAnulacion
    <3>3. \A fila \in anulaciones' : fila \in anulaciones \/
            \E i \in cancelados, plato \in {"PREPARADO", "SIN_PREPARAR"} :
              fila = [item |-> i, plato |-> plato, por |-> r]
      BY <1>8, <2>1 DEF AnularTodo
    <3> QED
      BY <1>i, <2>4, <3>1, <3>2, <3>3 DEF ComandaTypeOK
  <2>7. ~solapado' => vivos \ revividos' = Vivos(items) \ revividos'
    BY <1>w, <2>1, <2>2, <2>3, <2>4, SinSolape, LeyoLoDeAhora
  <2>8. op[r].tipo \notin ConLlave
    BY <1>h, <2>4
  <2> QED
    BY <2>4, <2>5, <2>6, <2>7, <2>8, ConfirmaUna
<1>9. ASSUME NEW r \in Peticiones, NEW fila \in anulaciones, LeerAnulacion(r, fila)
      PROVE  ComandaIInv'
  <2>1. PICK o : o = [tipo |-> "invalidar", item |-> fila.item, dato |-> {fila},
                      marca |-> IF fila.plato = "PREPARADO" THEN "ENTREGADO" ELSE "PENDIENTE"]
    OBVIOUS
  <2>2. /\ Pasar(r, "elegida") /\ SinEscribir /\ foto' = [foto EXCEPT ![r] = foto[r]]
        /\ op' = [op EXCEPT ![r] = o]
    BY <1>9, <1>o, <2>1 DEF LeerAnulacion
  <2>3. fila \in FilasDeAnulacion /\ fila.item \in Items
    BY <1>i DEF ComandaTypeOK, FilasDeAnulacion
  <2>4. o \in Operaciones /\ o.tipo = "invalidar"
    BY <1>c, <2>1, <2>3 DEF Operaciones
  <2> QED
    BY <1>o, <2>2, <2>4, AvanzaUna
<1>10. ASSUME NEW r \in Peticiones, DecidirRestauracion(r) PROVE ComandaIInv'
  <2>1. /\ op[r].tipo = "invalidar"
        /\ UNCHANGED <<item, comanda, rechazados, op, foto, avisos, facturado, revividos,
                       restaurados, solapado>>
    BY <1>10 DEF DecidirRestauracion
  <2>2. PICK a \in {"decidida", "hecha"} : pc' = [pc EXCEPT ![r] = a] /\ anulaciones' \subseteq anulaciones
    BY <1>10 DEF DecidirRestauracion, Pasar
  <2>3. /\ pc'[r] = a /\ \A q \in Peticiones \ {r} : pc'[q] = pc[q]
        /\ pc' \in [Peticiones -> {"nueva", "elegida", "decidida", "escrita", "leida", "hecha"}]
    BY <1>i, <2>2 DEF ComandaTypeOK
  <2>4. ComandaTypeOK'
    BY <1>i, <2>1, <2>2, <2>3 DEF ComandaTypeOK, facturado
  <2>5. PasoDeCadaUna' /\ UnaConLlave'
    BY <1>i, <2>1, <2>3 DEF PasoDeCadaUna, UnaConLlave
  <2>6. FotosVigentes'
    BY <1>i, <2>1, <2>3 DEF FotosVigentes, FotoVigente
  <2>7. TotalCuadra'
    BY <1>i, <2>1 DEF TotalCuadra, Vivos
  <2> QED
    BY <2>4, <2>5, <2>6, <2>7 DEF ComandaIInv
<1>11. ASSUME NEW r \in Peticiones, EscribirRestauracion(r) PROVE ComandaIInv'
  <2>1. PICK leida : leida = Leida({op[r].item}, op[r].marca)
    OBVIOUS
  <2>2. /\ Pasar(r, "leida") /\ SinEscribir /\ foto' = [foto EXCEPT ![r] = leida]
        /\ op' = [op EXCEPT ![r] = op[r]] /\ LlaveLibre
    BY <1>11, <1>o, <2>1 DEF EscribirRestauracion
  <2>3. op[r].tipo = "invalidar"
    BY <1>11, <1>i DEF EscribirRestauracion, PasoDeCadaUna
  <2>4. /\ leida \in Comandas /\ leida.estado = comanda.estado
        /\ \A i \in Items : leida.items[i] = IF i \in {op[r].item} THEN op[r].marca ELSE item[i]
    BY <1>i, <1>o, <2>1, LeidaTipada
  <2> QED
    BY <1>o, <1>w, <2>2, <2>3, <2>4, AvanzaUna
<1>12. ASSUME NEW r \in Peticiones, ConfirmarRestauracion(r) PROVE ComandaIInv'
  <2>1. PICK items, estado, total :
          /\ items = [item EXCEPT ![op[r].item] = op[r].marca]
          /\ estado = EstadoNuevo(foto[r].items, foto[r].estado)
          /\ total = Vivos(foto[r].items)
    OBVIOUS
  <2>2. /\ pc[r] = "leida" /\ op[r].tipo = "invalidar"
        /\ Confirmar(r, "invalidar", items, estado, total, Aviso(items, estado, total))
        /\ anulaciones' \subseteq anulaciones
        /\ restaurados' = {op[r].item} /\ UNCHANGED <<rechazados, revividos>>
    BY <1>12, <2>1 DEF ConfirmarRestauracion
  <2>3. /\ items \in [Items -> EstadosItem] /\ estado \in EstadosPedido /\ total \in SUBSET Items
    BY <1>o, <1>e, <1>v, <2>1, EstadoTipado
  <2>4. /\ anulaciones' \subseteq FilasDeAnulacion /\ rechazados' \subseteq Directos
        /\ revividos' \subseteq Items /\ restaurados' \subseteq Items
    BY <1>i, <1>o, <2>2 DEF ComandaTypeOK
  <2>5. ~solapado' => total \ revividos' = Vivos(items) \ revividos'
    BY <1>w, <2>1, <2>2, SinSolape, LeyoLoDeAhora
  <2>6. Aviso(items, estado, total) \in Seq(Comandas)
    BY <2>3, AvisoTipado
  <2> QED
    BY <2>2, <2>3, <2>4, <2>5, <2>6, ConfirmaUna
<1>13. ASSUME NEW r \in Peticiones, NEW i \in Directos, RechazarItem(r, i) PROVE ComandaIInv'
  <2>1. PICK leida, o : /\ leida = Leida({i}, "RECHAZADO_SIN_STOCK")
                        /\ o = [tipo |-> "sin_stock", item |-> i, marca |-> "RECHAZADO_SIN_STOCK",
                                dato |-> {}]
    OBVIOUS
  <2>2. o \in Operaciones /\ i \in Items
    BY <1>c, <2>1, DeNada
  <2>3. /\ Pasar(r, "leida") /\ SinEscribir /\ foto' = [foto EXCEPT ![r] = leida]
        /\ op' = [op EXCEPT ![r] = o]
    BY <1>13, <1>c, <2>1, DeNada DEF RechazarItem
  <2>4. /\ leida \in Comandas /\ leida.estado = comanda.estado
        /\ \A j \in Items : leida.items[j] = IF j \in {i} THEN "RECHAZADO_SIN_STOCK" ELSE item[j]
    BY <1>i, <1>c, <2>1, LeidaTipada
  <2>5. o.tipo = "sin_stock" /\ o.item = i /\ o.marca = "RECHAZADO_SIN_STOCK"
    BY <2>1
  <2> QED
    BY <1>h, <1>w, <2>2, <2>3, <2>4, <2>5, AvanzaUna
<1>14. ASSUME NEW r \in Peticiones, ConfirmarRechazo(r) PROVE ComandaIInv'
  <2>1. PICK items, estado, total :
          /\ items = [item EXCEPT ![op[r].item] = "RECHAZADO_SIN_STOCK"]
          /\ estado = IF /\ \A i \in Items : foto[r].items[i] = "RECHAZADO_SIN_STOCK"
                         /\ foto[r].estado \notin Terminales
                      THEN "RECHAZADO_SIN_STOCK" ELSE comanda.estado
          /\ total = Vivos(foto[r].items)
    OBVIOUS
  <2>2. /\ pc[r] = "leida" /\ op[r].tipo = "sin_stock"
        /\ Confirmar(r, "sin_stock", items, estado, total, Aviso(items, estado, total))
        /\ rechazados' = rechazados \cup {op[r].item}
        /\ restaurados' = {} /\ UNCHANGED <<anulaciones, revividos>>
    BY <1>14, <2>1 DEF ConfirmarRechazo
  <2>3. op[r].item \in Directos /\ op[r].marca = "RECHAZADO_SIN_STOCK"
    BY <1>i, <2>2 DEF PasoDeCadaUna
  <2>4. /\ items \in [Items -> EstadosItem] /\ estado \in EstadosPedido /\ total \in SUBSET Items
    BY <1>o, <1>e, <1>v, <1>c, <2>1
  <2>5. /\ anulaciones' \subseteq FilasDeAnulacion /\ rechazados' \subseteq Directos
        /\ revividos' \subseteq Items /\ restaurados' \subseteq Items
    BY <1>i, <2>2, <2>3 DEF ComandaTypeOK
  <2>6. ~solapado' => total \ revividos' = Vivos(items) \ revividos'
    BY <1>w, <2>1, <2>2, <2>3, SinSolape, LeyoLoDeAhora
  <2>7. "sin_stock" \notin ConLlave /\ Aviso(items, estado, total) \in Seq(Comandas)
    BY <1>h, <2>4, AvisoTipado
  <2> QED
    BY <2>2, <2>4, <2>5, <2>6, <2>7, ConfirmaUna
<1>15. ASSUME NEW r \in Peticiones,
              NEW estado \in Produccion \cup {"ENTREGADO", "PAGADO", "CANCELADO"},
              ActualizarEstado(r, estado)
       PROVE  ComandaIInv'
  <2>1. /\ Confirmar(r, "estado", item, estado, comanda.total, Aviso(item, estado, comanda.total))
        /\ restaurados' = {} /\ UNCHANGED <<anulaciones, rechazados, revividos>>
    BY <1>15 DEF ActualizarEstado
  <2>2. estado \in EstadosPedido
    BY DEF EstadosPedido, Terminales
  <2>3. ~solapado' => comanda.total \ revividos' = Vivos(item) \ revividos'
    BY <1>i, <2>1, SinSolape DEF TotalCuadra
  <2>4. "estado" \notin ConLlave /\ Aviso(item, estado, comanda.total) \in Seq(Comandas)
    BY <1>h, <1>e, <2>2, AvisoTipado
  <2>5. /\ anulaciones' \subseteq FilasDeAnulacion /\ rechazados' \subseteq Directos
        /\ revividos' \subseteq Items /\ restaurados' \subseteq Items
    BY <1>i, <2>1 DEF ComandaTypeOK
  <2> QED
    BY <1>e, <2>1, <2>2, <2>3, <2>4, <2>5, ConfirmaUna
<1>16. ASSUME NEW r \in Peticiones, PagarPedido(r) PROVE ComandaIInv'
  <2>1. /\ Confirmar(r, "pago", item, "PAGADO", comanda.total, <<>>)
        /\ restaurados' = {} /\ UNCHANGED <<anulaciones, rechazados, revividos>>
    BY <1>16 DEF PagarPedido
  <2>2. ~solapado' => comanda.total \ revividos' = Vivos(item) \ revividos'
    BY <1>i, <2>1, SinSolape DEF TotalCuadra
  <2>3. "pago" \notin ConLlave
    BY <1>h
  <2>4. /\ anulaciones' \subseteq FilasDeAnulacion /\ rechazados' \subseteq Directos
        /\ revividos' \subseteq Items /\ restaurados' \subseteq Items
    BY <1>i, <2>1 DEF ComandaTypeOK
  <2> QED
    BY <1>e, <1>c, <1>n, <2>1, <2>2, <2>3, <2>4, ConfirmaUna
<1>17. ASSUME NEW r \in Peticiones, Abortar(r) PROVE ComandaIInv'
  <2>1. /\ Pasar(r, "hecha") /\ SinEscribir
        /\ op' = [op EXCEPT ![r] = op[r]] /\ foto' = [foto EXCEPT ![r] = foto[r]]
    BY <1>17, <1>o DEF Abortar
  <2>2. /\ op[r].tipo = "marcar" => op[r].marca \in Marcas
        /\ op[r].tipo = "sin_stock" => op[r].item \in Directos /\ op[r].marca = "RECHAZADO_SIN_STOCK"
    BY <1>i DEF PasoDeCadaUna
  <2> QED
    BY <1>o, <2>1, <2>2, AvanzaUna
<1>18. ASSUME NEW aplica \in BOOLEAN, ConsumirAviso(aplica) PROVE ComandaIInv'
  <2>1. /\ avisos # <<>> /\ avisos' = Tail(avisos)
        /\ huellas' = huellas \cup {Head(avisos)}
        /\ enLaCuenta' = IF aplica THEN Head(avisos) ELSE enLaCuenta
        /\ UNCHANGED <<orden, tramite, revividos, restaurados, solapado>>
    BY <1>18 DEF ConsumirAviso
  <2>2. avisos' \in Seq(Comandas) /\ Head(avisos) \in Comandas
    BY <1>i, <2>1 DEF ComandaTypeOK
  <2>3. ComandaTypeOK'
    BY <1>i, <2>1, <2>2 DEF ComandaTypeOK, orden, tramite
  <2> QED
    BY <1>i, <2>1, <2>3 DEF ComandaIInv, orden, tramite, PasoDeCadaUna, UnaConLlave, FotosVigentes,
       FotoVigente, TotalCuadra, Vivos
<1> QED
  BY <1>0, <1>1, <1>2, <1>3, <1>4, <1>5, <1>6, <1>7, <1>8, <1>9, <1>10, <1>11, <1>12, <1>13,
     <1>14, <1>15, <1>16, <1>17, <1>18 DEF ComandaNext
\* ComandaSpec => []ComandaIInv, and what follows from it.
LEMMA SiempreComanda == ComandaSpec => []ComandaIInv
  BY InicioComanda, PasoComanda, PTL DEF ComandaSpec

\* Every variable of the order keeps its type.
THEOREM ComandaTipos == ComandaSpec => []ComandaTypeOK
<1>1. ComandaIInv => ComandaTypeOK
  BY DEF ComandaIInv
<1> QED
  BY <1>1, SiempreComanda, PTL

\* The total is that of the live items, as long as no request without the lock of
\* the order has overlapped with another.
THEOREM ElTotalCuadra == ComandaSpec => []TotalCuadra
<1>1. ComandaIInv => TotalCuadra
  BY DEF ComandaIInv
<1> QED
  BY <1>1, SiempreComanda, PTL

\* A paid, cancelled or refused order stays so, but for overlaps without the lock
\* and for the last item that leaves it.
THEOREM ElTerminalSeRespeta == ComandaSpec => TerminalSeRespeta
<1>1. ComandaIInv /\ [ComandaNext]_comandaVars =>
        [comanda.estado \in Terminales =>
           comanda'.estado = comanda.estado \/ solapado' \/ Vivos(item') = {}]_comandaVars
  <2> SUFFICES ASSUME ComandaIInv, [ComandaNext]_comandaVars, comanda.estado \in Terminales,
                      ~solapado'
               PROVE  comanda'.estado = comanda.estado \/ Vivos(item') = {}
    OBVIOUS
  <2>t. comanda.estado \notin Produccion
    BY DEF Produccion, Terminales
  <2>c. ASSUME NEW r, NEW tipo, NEW items, NEW estado, NEW total, NEW aviso,
               Confirmar(r, tipo, items, estado, total, aviso)
        PROVE  comanda'.estado = estado /\ item' = items /\ ~solapado
    BY <2>c, SinSolape DEF Confirmar
  <2>1. ASSUME NEW r \in Peticiones, ConfirmarItem(r) PROVE comanda'.estado = comanda.estado
    <3>1. pc[r] = "leida" /\ comanda'.estado = EstadoNuevo(foto[r].items, foto[r].estado) /\ ~solapado
      BY <2>1, <2>c DEF ConfirmarItem
    <3> QED
      BY <2>t, <3>1, LeyoLoDeAhora, FueraDeProduccion
  <2>2. ASSUME NEW r \in Peticiones, NEW cobrar \in BOOLEAN, ConfirmarPreparado(r, cobrar)
        PROVE  comanda'.estado = comanda.estado \/ Vivos(item') = {}
    <3>1. PICK i, vivos, items, estado :
            /\ i = op[r].item /\ items = [item EXCEPT ![i] = "CANCELADO"]
            /\ vivos = Vivos([foto[r].items EXCEPT ![i] = "CANCELADO"])
            /\ estado = IF vivos = {} THEN "CANCELADO" ELSE comanda.estado
      OBVIOUS
    <3>2. /\ pc[r] = "leida" /\ op[r].tipo = "preparado" /\ ~solapado
          /\ \/ comanda'.estado = comanda.estado
             \/ comanda'.estado = estado /\ item' = items
      BY <2>2, <2>c, <3>1 DEF ConfirmarPreparado
    <3>3. vivos = Vivos(items)
      BY <3>1, <3>2, LeyoLoDeAhora DEF Escriben
    <3> QED
      BY <3>1, <3>2, <3>3
  <2>3. ASSUME NEW r \in Peticiones, AnularTodo(r)
        PROVE  comanda'.estado = comanda.estado \/ Vivos(item') = {}
    <3>1. PICK leida, cancelados : leida = foto[r] /\ cancelados = Vivos(leida.items) \ op[r].dato
      OBVIOUS
    <3>2. PICK finales, items :
            /\ finales = [i \in Items |-> IF i \in cancelados THEN "CANCELADO" ELSE leida.items[i]]
            /\ items = [i \in Items |-> IF i \in cancelados THEN "CANCELADO" ELSE item[i]]
      OBVIOUS
    <3>3. PICK vivos, estado :
            /\ vivos = Vivos(finales)
            /\ estado = IF vivos = {} THEN "CANCELADO" ELSE EstadoNuevo(finales, leida.estado)
      OBVIOUS
    <3>4. /\ pc[r] = "leida" /\ op[r].tipo \in {"anular", "mesa"} /\ ~solapado
          /\ comanda'.estado = estado /\ item' = items
      BY <2>3, <2>c, <3>1, <3>2, <3>3 DEF AnularTodo
    <3>5. leida.items = item /\ leida.estado = comanda.estado
      BY <3>1, <3>4, LeyoLoDeAhora DEF Escriben
    <3>6. finales = items
      BY <3>2, <3>5
    <3>7. vivos # {} => estado = comanda.estado
      BY <2>t, <3>3, <3>5, FueraDeProduccion
    <3> QED
      BY <3>3, <3>4, <3>6, <3>7
  <2>4. ASSUME NEW r \in Peticiones, ConfirmarRestauracion(r) PROVE comanda'.estado = comanda.estado
    <3>1. pc[r] = "leida" /\ comanda'.estado = EstadoNuevo(foto[r].items, foto[r].estado) /\ ~solapado
      BY <2>4, <2>c DEF ConfirmarRestauracion
    <3> QED
      BY <2>t, <3>1, LeyoLoDeAhora, FueraDeProduccion
  <2>5. ASSUME NEW r \in Peticiones, ConfirmarRechazo(r) PROVE comanda'.estado = comanda.estado
    <3>1. PICK todos \in BOOLEAN : todos = \A i \in Items : foto[r].items[i] = "RECHAZADO_SIN_STOCK"
      OBVIOUS
    <3>2. /\ pc[r] = "leida" /\ ~solapado
          /\ comanda'.estado = IF todos /\ foto[r].estado \notin Terminales
                               THEN "RECHAZADO_SIN_STOCK" ELSE comanda.estado
      BY <2>5, <2>c, <3>1 DEF ConfirmarRechazo
    <3> QED
      BY <3>2, LeyoLoDeAhora
  <2>6. ASSUME NEW r \in Peticiones, NEW estado, ActualizarEstado(r, estado)
        PROVE  comanda'.estado = comanda.estado
    <3>1. comanda'.estado = estado /\ estado \in Transiciones(comanda.estado) \cup {comanda.estado}
      BY <2>6, <2>c DEF ActualizarEstado
    <3>2. Transiciones(comanda.estado) = {}
      BY DEF Transiciones, Terminales
    <3> QED
      BY <3>1, <3>2
  <2>7. ASSUME NEW r \in Peticiones, PagarPedido(r) PROVE FALSE
    BY <2>7 DEF PagarPedido
  <2>8. ASSUME NEW r \in Peticiones, SinEscribir \/ DecidirRestauracion(r)
        PROVE  comanda' = comanda
    BY <2>8 DEF SinEscribir, orden, DecidirRestauracion
  <2>9. ASSUME NEW r \in Peticiones,
               \/ \E i \in Items : ElegirPreparado(r, i) \/ \E marca \in Marcas : EscribirItem(r, i, marca)
               \/ LeerPedido(r) \/ LeerPreparado(r) \/ EscribirRestauracion(r) \/ Abortar(r)
               \/ \E tipo \in {"anular", "mesa"}, consumidos \in SUBSET Directos :
                    LeerParaAnularTodo(r, tipo, consumidos)
               \/ \E fila \in anulaciones : LeerAnulacion(r, fila)
               \/ \E i \in Directos : RechazarItem(r, i)
        PROVE  SinEscribir
    BY <2>9 DEF ElegirPreparado, EscribirItem, LeerPedido, LeerPreparado, EscribirRestauracion,
       Abortar, LeerParaAnularTodo, LeerAnulacion, RechazarItem
  <2>10. ASSUME NEW aplica, ConsumirAviso(aplica) PROVE comanda' = comanda
    BY <2>10 DEF ConsumirAviso, orden
  <2>11. CASE UNCHANGED comandaVars
    BY <2>11 DEF comandaVars, orden
  <2> QED
    BY <2>1, <2>2, <2>3, <2>4, <2>5, <2>6, <2>7, <2>8, <2>9, <2>10, <2>11 DEF ComandaNext
<1> QED
  BY <1>1, SiempreComanda, PTL DEF ComandaSpec, TerminalSeRespeta
=============================================================================
