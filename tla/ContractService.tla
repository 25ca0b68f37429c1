---------------------------- MODULE ContractService ----------------------------
(***************************************************************************)
(* What a user of the revm bridge may rely on: contracts are deployed and   *)
(* called one request at a time, a request is answered once, by a contract  *)
(* as it was written, and a deployment that fails changes nothing.          *)
(* ContractExecution implements this module with compiled code and an EVM.  *)
(***************************************************************************)
EXTENDS Naturals

CONSTANTS
  Contracts,       \* the contracts that may be deployed
  Selectors,       \* the selectors that callers ask for
  Nothing,         \* no contract, no request, no answer
  Deployments(_),  \* the answers to the deployment of a contract
  Answers(_, _)    \* the answers of a deployed contract to a selector

VARIABLES
  open,      \* there is a state to deploy to
  deployed,  \* the contract that calls go to, or Nothing
  request,   \* what has been asked for, or Nothing
  answer     \* the answer to the request, or Nothing

vars == <<open, deployed, request, answer>>

Deploy(contract) == <<"deploy", contract>>
Call(selector)   == <<"call", selector>>

Init ==
  /\ open = FALSE
  /\ deployed = Nothing
  /\ request = Nothing
  /\ answer = Nothing

Open ==
  /\ ~open
  /\ open' = TRUE
  /\ UNCHANGED <<deployed, request, answer>>

(* What was deployed is forgotten. *)
Close ==
  /\ open
  /\ request = Nothing
  /\ open' = FALSE
  /\ deployed' = Nothing
  /\ UNCHANGED <<request, answer>>

Ask ==
  /\ open
  /\ request = Nothing
  /\ \/ \E contract \in Contracts : request' = Deploy(contract)
     \/ /\ deployed # Nothing
        /\ \E selector \in Selectors : request' = Call(selector)
  /\ UNCHANGED <<open, deployed, answer>>

Answer ==
  /\ request # Nothing
  /\ answer = Nothing
  /\ \/ /\ request[1] = "deploy"
        /\ answer' \in Deployments(request[2])
     \/ /\ request[1] = "call"
        /\ answer' \in Answers(deployed, request[2])
  /\ UNCHANGED <<open, deployed, request>>

Return ==
  /\ answer # Nothing
  /\ deployed' = IF request[1] = "deploy" /\ answer.ok THEN request[2] ELSE deployed
  /\ request' = Nothing
  /\ answer' = Nothing
  /\ UNCHANGED open

Next == Open \/ Close \/ Ask \/ Answer \/ Return

(* Every request comes back to the caller. *)
Responsive == request # Nothing ~> request = Nothing

Spec == Init /\ [][Next]_vars /\ Responsive
=============================================================================
