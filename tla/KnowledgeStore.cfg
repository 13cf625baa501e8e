SPECIFICATION StoreSpec
CONSTANTS
  Batches = {batch}
  Defenses = {defense}
  Evidence <- SomeEvidence
  Histories <- SomeHistories
  Absent = absent
  Torn = torn
  Inventories <- SomeInventories
  Requests <- SomeRequests
  NoRequest = noRequest
  Oracles <- SomeOracles
  Alphabet <- SomeNames
  Baseline = "baseline"
INVARIANTS ValidatorAgrees RankIsEarned ExecutedIsRecorded PromotedIsInstalled
PROPERTIES WeaknessIsKept
