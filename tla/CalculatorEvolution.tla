------------------------ MODULE CalculatorEvolution ------------------------
(***************************************************************************)
(* What the levels of the comparer promise about calculators.  Engines are *)
(* other programs: a definition names the versions of theirs that are      *)
(* compatible with it, and the comparer lets that list only grow.  So an   *)
(* engine that answered right under the contracts it was built against has *)
(* to go on doing so.  The comparer calls a new output a feature even if   *)
(* it is required; what the fixtures must look like makes the difference.  *)
(***************************************************************************)
EXTENDS ContractEvolution, CalculatorRules

CONSTANTS
  Calls,     \* the calls to try: records [input, places]
  Answers    \* the answers to try: functions from output id to value

\* The contracts of the sequences whose calculators are looked at.
Judged == {p \in DOMAIN Contracts : ReviewedIds \subseteq DOMAIN Contracts[p].calculators.definitions}

\* Their catalogs and fixtures passed the validators.
ASSUME JudgedAssumption == \A p \in Judged : CalculatorsValid(Contracts[p].calculators)

DefinitionOf(p, id) == Contracts[p].calculators.definitions[id]

\* calculator-conformance.ts:87-101 and compatibility-calculators.ts:64: without a
\* breaking step every call a reviewed calculator had to compute is still one, and
\* every answer an engine may have given to it is still an answer: no calculator
\* turns from whole numbers to decimals, and no output becomes required, unseen.
EnginesStillConform ==
  (worst # "breaking" /\ built \in Judged) =>
    \A id \in ReviewedIds : \A call \in Calls :
      LET old == DefinitionOf(built, id) new == DefinitionOf(served, id) IN
      Computable(old, call) =>
        /\ Computable(new, call)
        /\ \A answer \in Answers : AnswerFits(old, call, answer) => AnswerFits(new, call, answer)

\* calculator-conformance.ts:135: "Reviewed calculator `c` needs a successful `i`
\* fixture for value `v`", for each value an enumeration allows.
EveryEnumValueExercised ==
  served \in Judged =>
    \A id \in ReviewedIds : \A i \in DOMAIN DefinitionOf(served, id).inputs :
      \A v \in DefinitionOf(served, id).inputs[i].meaning.allowedValues :
        Exercised(FixturesOf(Contracts[served].calculators, id), i, Plain(v))
=============================================================================
