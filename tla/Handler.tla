------------------------------ MODULE Handler ------------------------------
(***************************************************************************)
(* The connections a handler serves: the sessions of its clients           *)
(* (HandlerSession) and the registrations of exit nodes without a public   *)
(* address (ReverseRegistration).  They share no state, as an exit node    *)
(* that registers is not in the pool that sessions forward through; a      *)
(* behaviour follows one side.                                             *)
(***************************************************************************)
EXTENDS HandlerSession, ReverseRegistration

VARIABLE side    \* "clients" or "exit nodes"

handlerVars == <<vars, registrationVars, side>>

HandlerInit ==
  /\ Init /\ RegistrationInit
  /\ side \in {"clients", "exit nodes"}

OfClients(step) == side = "clients" /\ step /\ UNCHANGED <<registrationVars, side>>

OfNodes(step) == side = "exit nodes" /\ step /\ UNCHANGED <<vars, side>>

HandlerNext == OfClients(Next) \/ OfNodes(RegistrationNext)

\* The fairness of either side.
HandlerFairness ==
  /\ \A s \in Sessions :
       /\ WF_handlerVars(OfClients(SessionStep(s)))
       /\ WF_handlerVars(OfClients(TxStep(s)))
  /\ WF_handlerVars(OfClients(BillingStep))
  /\ \A n \in Nodes : WF_handlerVars(OfNodes(NodeStep(n)))
  /\ \A c \in Conns : WF_handlerVars(OfNodes(HandlerStep(c)))

HandlerSpec == HandlerInit /\ [][HandlerNext]_handlerVars /\ HandlerFairness
=============================================================================
