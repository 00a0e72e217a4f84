---------------------------- MODULE CausalConsole ----------------------------
(***************************************************************************)
(* CausalMulticast seen from the console: _handle_incoming prints every    *)
(* application message it dispatches, before the causal buffer is asked.   *)
(***************************************************************************)
EXTENDS CausalMulticast

VARIABLE printed     \* printed[n]: messages shown on the console of n

consoleVars == <<vars, printed>>

ConsoleInit == Init /\ printed = [n \in Node |-> {}]

\* _handle_incoming: the print comes first, whatever becomes of the message.
HandleIncoming(n, m) ==
  /\ Receive(n, m)
  /\ printed' = [printed EXCEPT ![n] = @ \cup {m}]

ConsoleNext ==
  \E n \in Node :
    \/ (Send(n) \/ Drain(n)) /\ UNCHANGED printed
    \/ \E m \in sent : HandleIncoming(n, m)

ConsoleSpec == ConsoleInit /\ [][ConsoleNext]_consoleVars

-----------------------------------------------------------------------------
\* low-level-arch.md, "On receive: buffer if causally not ready, deliver when
\* ready": a message a node has received and shown is delivered, or held.
NotReadyIsBuffered ==
  \A n \in Node : \A m \in printed[n] :
    m.alert \/ m \in ToSet(delivered[n]) \cup ToSet(holdback[n])

\* What n lacks of the past of m: messages for n that have not been shown, or not
\* been delivered although they are no alerts.
Lacking(n, m) ==
  {a \in sent : /\ Before(a, m)
                /\ a.sender # n /\ n \in a.dest
                /\ a \notin printed[n] \/ ~(a.alert \/ a \in ToSet(delivered[n]))}

\* The same line, "deliver when ready": a message whose receiver lacks nothing that
\* comes before it is delivered the moment it arrives.
ReadyIsDelivered ==
  [][\A n \in Node : \A m \in printed'[n] \ printed[n] :
       ~m.alert /\ m.sender # n /\ Lacking(n, m) = {} => m \in ToSet(delivered'[n])]_consoleVars
=============================================================================
