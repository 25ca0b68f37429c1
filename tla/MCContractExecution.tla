-------------------------- MODULE MCContractExecution --------------------------
(***************************************************************************)
(* Contracts of up to four entries with different numbers of arguments and  *)
(* different bodies.  Some selectors hold bytes that read as JUMPDEST and   *)
(* PUSH2.  A value is a pair of its function's name and a number.           *)
(***************************************************************************)
EXTENDS ContractExecution

LOCAL INSTANCE SequencesExt   \* SetToSortSeq

Constant(v, value) ==
  [name |-> "constant", results |-> {v}, operands |-> <<>>, value |-> value]

Plain(name) == [name |-> name, results |-> {}, operands |-> <<>>]

Return(operands) == [name |-> "func.return", results |-> {}, operands |-> operands]

Branch(b) == [name |-> "cf.br", results |-> {}, operands |-> <<>>, dest |-> b]

(* Calls the function whose entry block has label 0. *)
CallFirst(v) ==
  [name |-> "func.call", results |-> {v}, operands |-> <<>>, callee |-> 0,
   returns |-> <<v>>]

Block(args, ops, succs) ==
  [args |-> [k \in 1..args |-> <<"arg", k>>], ops |-> ops, succs |-> succs]

Function(kind, visibility, selector, body) ==
  [kind |-> kind, visibility |-> visibility, selector |-> selector, body |-> body]

Internal ==
  Function("function", "internal", NoSelector,
    <<Block(0, <<Constant(<<"i", 1>>, 7), Return(<<<<"i", 1>>>>)>>, {})>>)

Entries ==
  {Function("function", "external", 3, <<Block(0, <<Plain("stop")>>, {})>>),
   Function("function", "external", JUMPDEST,
     <<Block(2, <<Constant(<<"a", 1>>, JUMPDEST), CallFirst(<<"a", 2>>),
                  Return(<<<<"a", 1>>, <<"a", 2>>>>)>>, {})>>),
   Function("function", "external", 256 * JUMPDEST + JUMPDEST,
     <<Block(1, <<Plain("invalid")>>, {})>>),
   Function("function", "external", 256 * PUSH2,
     <<Block(3, <<Constant(<<"b", 1>>, 0), Branch(2)>>, {2}),
       Block(0, <<Constant(<<"b", 2>>, 256 * PUSH2), Return(<<<<"b", 2>>>>)>>, {})>>)}

(* The entries in the order of falling selectors, after an internal one. *)
InModuleOrder(fns) ==
  <<Internal>> \o SetToSortSeq(fns, LAMBDA f, g : f.selector > g.selector)

Fallback(selector) ==
  <<Function("fallback", "external", selector, <<Block(0, <<Plain("stop")>>, {})>>)>>

Constructor(body) == <<Function("constructor", "external", NoSelector, body)>>

Constructors ==
  {Constructor(<<Block(0, <<Return(<<>>)>>, {})>>),
   Constructor(<<Block(0, <<Constant(<<"c", 1>>, 0), Branch(2)>>, {2}),
                 Block(0, <<Constant(<<"c", 2>>, 256 * PUSH2), Return(<<>>)>>, {})>>),
   Constructor(<<Block(0, <<Plain("stop")>>, {})>>),
   Constructor(<<Block(0, <<Plain("invalid")>>, {})>>)}

(* Two functions with one selector, alone and below a larger one. *)
SameSelector ==
  LET first  == Function("function", "external", 3, <<Block(0, <<Plain("stop")>>, {})>>)
      second == Function("function", "external", 3,
                  <<Block(1, <<Constant(<<"d", 1>>, 5), Return(<<<<"d", 1>>>>)>>, {})>>)
      larger == Function("function", "external", 4, <<Block(0, <<Plain("stop")>>, {})>>)
  IN  {<<second, first>>, <<larger, first, second>>}

SmallContracts ==
  SameSelector \cup
  {InModuleOrder(fns) \o fallback :
     fns \in SUBSET Entries, fallback \in {<<>>, Fallback(9), Fallback(NoSelector)}}
  \cup
  {InModuleOrder(fns) \o constructor :
     fns \in {{}, Entries}, constructor \in Constructors}

(* The selectors of the entries, the fallback's, and one of no function. *)
SmallSelectors == {f.selector : f \in Entries} \cup {4, 9, 1000}
=============================================================================
