---------------------------- MODULE ImpresionProps ---------------------------
(* What the printed tickets may never be. *)
EXTENDS Impresion, FiniteSets

EstadoTrabajo == {"NO", "PENDING", "CLAIMED", "PRINTED", "FAILED", "UNCERTAIN"}
FilasDeTrabajo == [status : EstadoTrabajo, attempts : 0..MaxAttempts, leaseToken : Nat]

\* Every variable keeps its type.
ImpresionTypeOK ==
  /\ enabled \in BOOLEAN
  /\ trabajo \in [Tickets -> FilasDeTrabajo]
  /\ tokens \in [Tickets -> Nat]
  /\ \A a \in Agentes : candidato[a] \in Tickets \cup {SinFila}
  /\ \A a \in Agentes : imprimiendo[a] = SinTrabajo \/ imprimiendo[a].ticket \in Tickets
  /\ papeles \in [Tickets -> Nat]
  /\ fallidos \in [Tickets -> Nat]
  /\ reintentos \in [Tickets -> Nat]

\* "Never auto-reprint it. The operator must inspect and explicitly retry": a
\* ticket comes out once, and once more for each retry by the operator and for
\* each time that an agent reported as failed what had come out in part.
\* Leases that are over, lost confirmations and racing agents print nothing.
\* And what is marked as printed did come out.
PapelConCausa ==
  \A t \in Tickets :
    /\ papeles[t] <= 1 + reintentos[t] + fallidos[t]
    /\ trabajo[t].status = "PRINTED" => papeles[t] > fallidos[t]
-----------------------------------------------------------------------------
(* The inductive invariant (FacturacionProofs). *)

EnMano == [ticket : Tickets \cup {0}, leaseToken : Nat,
           ok : {"NO", "IMPRESO", "A_MEDIAS", "FALLO"}]
AgentesTipados ==
  /\ candidato \in [Agentes -> Tickets \cup {SinFila}]
  /\ imprimiendo \in [Agentes -> EnMano]

\* What waits may be claimed: it has attempts left, and no lease.
EnEspera == \A t \in Tickets :
  /\ trabajo[t].status = "NO" => trabajo[t].attempts = 0
  /\ trabajo[t].status = "PENDING" => trabajo[t].attempts < MaxAttempts

\* An agent looks for a ticket with its hands empty, and the leases of those who
\* have one in hand are theirs alone.
ConTicket == {a \in Agentes : imprimiendo[a].ticket \in Tickets}
ArriendosPropios ==
  /\ IsFiniteSet(ConTicket)
  /\ \A a \in Agentes : candidato[a] # SinFila => imprimiendo[a] = SinTrabajo
  /\ \A a \in ConTicket : imprimiendo[a].leaseToken \in 1..tokens[imprimiendo[a].ticket]
  /\ \A a, b \in ConTicket :
       /\ imprimiendo[a].ticket = imprimiendo[b].ticket
       /\ imprimiendo[a].leaseToken = imprimiendo[b].leaseToken
       => a = b

\* Agents that may still put ticket t on paper, or get it offered again because
\* they did not.
PorImprimir(t) ==
  {a \in Agentes : /\ imprimiendo[a].ticket = t
                   /\ \/ imprimiendo[a].ok = "NO"
                      \/ imprimiendo[a].ok = "FALLO" /\ Vigente(a)}

\* Every paper out, every agent that may print and every ticket that may be
\* claimed has a cause: the event, a retry, or a paper reported as failed.
PapelesContados == \A t \in Tickets :
  papeles[t] + Cardinality(PorImprimir(t))
    + (IF trabajo[t].status \in {"NO", "PENDING"} THEN 1 ELSE 0)
    <= 1 + reintentos[t] + fallidos[t]

\* An agent that may yet report a paper as failed has one that was not.
FallidosContados ==
  /\ \A t \in Tickets : fallidos[t] <= papeles[t]
  /\ \A a \in ConTicket :
       imprimiendo[a].ok \in {"IMPRESO", "A_MEDIAS"} /\ Vigente(a) =>
         fallidos[imprimiendo[a].ticket] < papeles[imprimiendo[a].ticket]
  /\ \A t \in Tickets : trabajo[t].status = "PRINTED" => fallidos[t] < papeles[t]

ImpresionIInv == /\ ImpresionTypeOK /\ AgentesTipados /\ EnEspera /\ ArriendosPropios
                 /\ PapelesContados /\ FallidosContados
=============================================================================
