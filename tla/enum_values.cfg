\* The calculator catalogs and fixtures that the validators accept.
CONSTANTS
  NotSemVer = NotSemVer
  Undefined = Undefined
  MaxDepth = 2
  Catalogs <- MCCalculatorCatalogs
  Properties <- MCProperties
  Payloads <- MCNoPayloads
  RequiredIds <- MCReviewedIds
  ReviewedIds <- MCReviewedIds
  Decimals <- MCDecimals
  Calls <- MCCalls
  Answers <- MCAnswers
SPECIFICATION Spec
INVARIANTS
  EveryEnumValueExercised
