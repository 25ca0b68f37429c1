--------------------------- MODULE ContractExecution ---------------------------
(***************************************************************************)
(* Contracts emitted by EVMEmitter, deployed and called through the bridge  *)
(* to revm (revm-bridge/src/lib.rs).  A deployment runs the contract's      *)
(* deployment code followed by its runtime code; a call runs what the last  *)
(* successful deployment has returned.                                      *)
(*                                                                          *)
(* The caller's buffers are not modelled: an answer is what the EVM returns.*)
(***************************************************************************)
EXTENDS EVM, EVMEmitter

LOCAL INSTANCE SequencesExt   \* FlattenSeq

CONSTANTS
  Contracts,   \* a set of verified modules, none of them empty
  Selectors    \* the selectors callers ask for

None == <<>>   \* no contract

ASSUME ContractsAssumption ==
  \A module \in Contracts : module # None /\ Verified(module)

(* The locations of a contract's values, as StackAllocator assigns them     *)
(* when nothing has to leave the stack.                                     *)
OnStack(module) == [v \in ValuesOf(module) |-> StackLoc(0)]

Orders(module) == SortedOrders(DispatchEntries(module))

(* What may be emitted for each contract. *)
Emitted ==
  [module \in Contracts |->
     {emitModule(module, OnStack(module), sorted) : sorted \in Orders(module)}]

VARIABLES
  handle,     \* the caller's pointer to the RevmState: "null" or "live"
  request,    \* the bridge call that is running: "none", "deploy" or "call"
  candidate,  \* the contract that is being deployed, or None
  deployed,   \* the contract at deployed_address, or None
  installed   \* the code at deployed_address

bridgeVars == <<handle, request, candidate, deployed, installed>>
vars == <<bridgeVars, evmVars>>

Init ==
  /\ Idle
  /\ handle = "null"
  /\ request = "none"
  /\ candidate = None
  /\ deployed = None
  /\ installed = <<>>

RevmNew ==
  /\ handle = "null"
  /\ handle' = "live"
  /\ deployed' = None
  /\ installed' = <<>>
  /\ UNCHANGED <<request, candidate, evmVars>>

(* The creation transaction of revm_deploy begins. *)
RevmDeploy ==
  /\ handle = "live"
  /\ request = "none"
  /\ \E module \in Contracts : \E emitted \in Emitted[module] :
       /\ candidate' = module
       /\ Start(emitted.deployBytecode \o emitted.runtimeBytecode, 0)
  /\ request' = "deploy"
  /\ UNCHANGED <<handle, deployed, installed>>

Ended == outcome \notin {"none", "running"}

DeploySucceeds ==
  /\ request = "deploy"
  /\ outcome \in {"stopped", "returned"}
  /\ installed' = IF outcome = "returned" THEN Output ELSE <<>>
  /\ deployed' = candidate
  /\ candidate' = None
  /\ request' = "none"
  /\ Clear
  /\ UNCHANGED handle

(* revm_deploy returns false and keeps the address of an earlier contract. *)
DeployFails ==
  /\ request = "deploy"
  /\ outcome \in {"reverted", "exception"}
  /\ candidate' = None
  /\ request' = "none"
  /\ Clear
  /\ UNCHANGED <<handle, deployed, installed>>

(* Variant of RevmCall that does not ask for a deployed contract. *)
callAnyway ==
  /\ handle = "live"
  /\ request = "none"
  /\ \E selector \in Selectors : Start(installed, selector)
  /\ request' = "call"
  /\ UNCHANGED <<handle, candidate, deployed, installed>>

(* revm_call; without a deployed contract it returns false at once. *)
RevmCall ==
  /\ handle = "live"
  /\ request = "none"
  /\ deployed # None
  /\ \E selector \in Selectors : Start(installed, selector)
  /\ request' = "call"
  /\ UNCHANGED <<handle, candidate, deployed, installed>>

CallReturns ==
  /\ request = "call"
  /\ Ended
  /\ request' = "none"
  /\ Clear
  /\ UNCHANGED <<handle, candidate, deployed, installed>>

RevmFree ==
  /\ handle = "live"
  /\ request = "none"
  /\ handle' = "null"
  /\ deployed' = None
  /\ installed' = <<>>
  /\ UNCHANGED <<request, candidate, evmVars>>

Run == Execute /\ UNCHANGED bridgeVars

Next ==
  \/ RevmNew
  \/ RevmDeploy
  \/ DeploySucceeds
  \/ DeployFails
  \/ RevmCall
  \/ CallReturns
  \/ RevmFree
  \/ Run

(* A bridge call runs the EVM to the end before it returns, and the code of *)
(* a contract's skeleton has no loop.                                       *)
Fairness == WF_vars(Run) /\ WF_vars(DeploySucceeds \/ DeployFails \/ CallReturns)

Spec == Init /\ [][Next]_vars /\ Fairness

-----------------------------------------------------------------------------
(* Properties. *)

Outcomes == {"none", "running", "stopped", "returned", "reverted", "exception"}

(* Type correctness; the EVM runs just while the bridge waits for it, and a *)
(* call is for a contract that has been deployed.                           *)
TypeOK ==
  /\ handle \in {"null", "live"}
  /\ request \in {"none", "deploy", "call"}
  /\ candidate \in Contracts \cup {None}
  /\ deployed \in Contracts \cup {None}
  /\ outcome \in Outcomes
  /\ outcome = "none" <=> request = "none"
  /\ request = "call" => deployed # None
  /\ pc \in 0..Len(code)
  /\ \A i \in 1..Len(stack) : stack[i] \in Int

(* Functions whose operands lie in place, as those of the instances do, are *)
(* laid out so that nothing traps: every jump lands on a JUMPDEST, no       *)
(* instruction finds too few operands, no operand is executed.  Only        *)
(* evm.invalid traps, as it should.  (Operands out of place do make code    *)
(* trap: an internal function may jump to one of its results.)              *)
OnlyInvalidTraps == outcome = "exception" => Current = INVALID

(* The contract's constructor, if it has one, goes on to the deployment.    *)
LastBlock(f) == f.body[Len(f.body)]

Constructs(module) ==
  \A i \in 1..Len(module) :
    module[i].kind = "constructor" => LastOp(LastBlock(module[i])).name = "func.return"

(* The runtime code that a deployment leaves behind is, byte for byte, the  *)
(* one the emitter produced for the contract, however many values its       *)
(* constructor leaves on the stack and whatever was deployed before.        *)
DeployInstallsRuntime ==
  deployed # None /\ Constructs(deployed)
    => installed \in {emitted.runtimeBytecode : emitted \in Emitted[deployed]}

(* Where the functions of each contract begin in its runtime code. *)
EntryPoints ==
  [module \in Contracts |->
     {LET instrs == emitRuntime(module, OnStack(module), sorted).instructions
      IN  [i \in 1..Len(module) |-> labelOffset(instrs, EntryLabel(module, i))] :
        sorted \in Orders(module)}]

Entering(i) ==
  /\ request = "call"
  /\ outcome = "running"
  /\ installed # <<>>
  /\ \E points \in EntryPoints[deployed] : pc = points[i]

Calls(f, label) ==
  \E b \in 1..Len(f.body) : \E k \in 1..Len(f.body[b].ops) :
    LET op == f.body[b].ops[k] IN op.name = "func.call" /\ op.callee = label

(* Control enters a function only for a call with its selector, a function  *)
(* that it calls, or the fallback of a contract without entries;            *)
(* constructors, which are in the runtime code too, and internal functions  *)
(* are not entered otherwise.                                               *)
NeverMisdispatched ==
  request = "call" =>
    \A i \in 1..Len(deployed) : Entering(i) =>
      LET f       == deployed[i]
          serving == {g \in 1..Len(deployed) :
                        IsEntry(deployed[g]) /\ deployed[g].selector = calldata}
      IN  \/ i \in serving
          \/ \E g \in serving : Calls(deployed[g], EntryLabel(deployed, i))
          \/ /\ f.kind = "fallback"
             /\ DispatchEntries(deployed) = <<>>

(* A function finds its arguments on the stack, the first one on top.       *)
ArgumentsInOrder ==
  request = "call" =>
    \A i \in 1..Len(deployed) : Entering(i) =>
      \A k \in 1..Len(deployed[i].body[1].args) :
        k <= Len(stack) /\ stack[k] = ArgWord(k - 1)

-----------------------------------------------------------------------------
(* The answers a contract should give, from its functions as written. *)

(* The number a value of the contract stands for. *)
RECURSIVE Denotes(_, _)
Denotes(module, v) ==
  LET op == DefiningOp(module, v)
  IN  IF op.name = "constant" THEN op.value
      ELSE Denotes(module, ReturnedFor(module, op, v))

Success(data) == [ok |-> TRUE, data |-> data]
Failure       == [ok |-> FALSE, data |-> <<>>]

(* A function stops, traps, or returns the values of its return.  (A        *)
(* function has one way to end here.)                                       *)
FunctionAnswer(module, f) ==
  LET last == LastOp(LastBlock(f))
  IN  CASE last.name = "func.return" ->
             Success(FlattenSeq([k \in 1..Len(last.operands) |->
                       WordBytes(Denotes(module, last.operands[k]))]))
        [] last.name = "stop"    -> Success(<<>>)
        [] last.name = "invalid" -> Failure

FunctionsOf(module) == {module[i] : i \in 1..Len(module)}
EntriesOf(module)   == {f \in FunctionsOf(module) : IsEntry(f)}

AnswersOfServing(module, selector) ==
  {FunctionAnswer(module, f) :
     f \in {g \in EntriesOf(module) : g.selector = selector}}

(* The fallback answers only in a contract without entries, and only if it  *)
(* has a selector itself.                                                   *)
AnswersOfFallback(module) ==
  LET fallbacks == {f \in FunctionsOf(module) :
                      f.kind = "fallback" /\ f.selector # NoSelector}
  IN  IF fallbacks = {} THEN {Failure}
      ELSE {FunctionAnswer(module, f) : f \in fallbacks}

ConstructorEnds(module, name) ==
  \E f \in FunctionsOf(module) :
    f.kind = "constructor" /\ LastOp(LastBlock(f)).name = name

DeploymentsOf(module) ==
  IF ConstructorEnds(module, "invalid") THEN {Failure} ELSE {Success(<<>>)}

(* A constructor that stops leaves no code, and a call of no code succeeds. *)
(* Selectors other than the smallest may be turned away, as                 *)
(* EverySelectorAnswered says they should not be.                           *)
AnswersOf(module, selector) ==
  LET serving == AnswersOfServing(module, selector)
      first   == \A f \in EntriesOf(module) : selector <= f.selector
  IN  IF ConstructorEnds(module, "stop") THEN {Success(<<>>)}
      ELSE IF EntriesOf(module) = {} THEN AnswersOfFallback(module)
      ELSE IF serving # {} /\ first THEN serving
      ELSE serving \cup {Failure}

(* What the caller has asked for, and the answer once the EVM has ended.    *)
Asked ==
  CASE request = "none"   -> None
    [] request = "deploy" -> <<"deploy", candidate>>
    [] request = "call"   -> <<"call", calldata>>

Given ==
  CASE ~Ended -> None
    [] Ended /\ outcome \in {"reverted", "exception"} -> Failure
    [] Ended /\ outcome = "stopped" -> Success(<<>>)
    [] Ended /\ outcome = "returned" ->
         Success(IF request = "call" THEN Output ELSE <<>>)

(* Compiled contracts answer as their functions are written, requests come  *)
(* back, and a failed deployment leaves the contract that was there: any    *)
(* sequence of bridge calls is one of ContractService.                      *)
Service ==
  INSTANCE ContractService
    WITH Nothing <- None, Deployments <- DeploymentsOf, Answers <- AnswersOf,
         open <- handle = "live", request <- Asked, answer <- Given

ImplementsContractService == Service!Spec

(* The dispatcher is "a binary search dispatch tree", and sorts the entries *)
(* "by selector for correctness": a call for any entry of the contract      *)
(* reaches its function, or one of them if several have its selector.       *)
EverySelectorAnswered ==
  request = "call" /\ Ended /\ installed # <<>> =>
    LET serving == AnswersOfServing(deployed, calldata)
    IN  serving # {} => Given \in serving
=============================================================================
