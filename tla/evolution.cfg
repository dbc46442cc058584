\* Every sequence of versions of one schema, as a request and as a response, and
\* of each other surface of the contracts, and of calculators with their fixtures.
CONSTANTS
  NotSemVer = NotSemVer
  Undefined = Undefined
  MaxDepth = 2
  Catalogs <- MCAllCatalogs
  Properties <- MCProperties
  Payloads <- MCPayloads
  RequiredIds <- MCReviewedIds
  ReviewedIds <- MCReviewedIds
  Decimals <- MCDecimals
  Calls <- MCCalls
  Answers <- MCAnswers
SPECIFICATION Spec
INVARIANTS
  RequestsStillAccepted
  ResponsesStillUnderstood
  CallsStillServed
  PatchesChangeNoMessage
  DirectNoHeavierThanSteps
  EnginesStillConform
