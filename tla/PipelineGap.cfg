CONSTANTS
  Values = {mail, mail2, key, name}
  Categories = {"EMAIL", "API_KEY", "PERSON"}
  MaskValues = {mail, mail2}
  BlockValues = {key}
  NerValues = {name}
  Nothing = Nothing
  UnknownAction = "block"
  UnscannableAction = "block"
  StageTwoFailAction = "mask_known_only"
  UsedProviders = {"claude"}
  UsedPlaces <- Content
  MaxRequests = 1
  MaxCrashes = 0
SPECIFICATION PipelineSpec
CHECK_DEADLOCK FALSE
INVARIANT GapsReported
