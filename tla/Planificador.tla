----------------------------- MODULE Planificador -----------------------------
(***************************************************************************)
(* The life of a process in the kernel, with no lists, semaphores or       *)
(* threads: the short-term scheduler as the code leaves it.  One process   *)
(* at a time is on its way to the CPU or on it; a process the kernel stops *)
(* serving is either on its way out or never scheduled again.              *)
(***************************************************************************)
EXTENDS Naturals, Sequences

VARIABLE vida   \* the state of each process, in the order of their creation

Estados == {"NEW", "READY", "EXEC", "SUELTO", "EXIT", "FIN"}

En(estado) == {p \in DOMAIN vida : vida[p] = estado}

Pasa(p, desde, hasta) ==
  /\ p \in En(desde)
  /\ vida' = [vida EXCEPT ![p] = hasta]

Init == vida = <<>>

Crear == vida' = Append(vida, "NEW")

\* Memoria accepted it; nobody else is READY or running.
Aceptar(p) == En("READY") \cup En("EXEC") = {} /\ Pasa(p, "NEW", "READY")

Despachar(p) == Pasa(p, "READY", "EXEC")

\* A syscall other than its end, or none: the kernel forgets the thread.
Soltar(p) == Pasa(p, "EXEC", "SUELTO")

Salir(p) == Pasa(p, "EXEC", "EXIT")

Terminar(p) == Pasa(p, "EXIT", "FIN")

Next ==
  \/ Crear
  \/ \E p \in DOMAIN vida :
        Aceptar(p) \/ Despachar(p) \/ Soltar(p) \/ Salir(p) \/ Terminar(p)

Spec == Init /\ [][Next]_vida

=============================================================================
