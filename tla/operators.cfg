INIT Init
NEXT Next
CONSTANTS
  PrintedPrices <- SomePrices
  Payloads <- SomePayloads
  Grams <- SomeGrams
  Documents <- SomeDocuments
  Lots <- SomeLots
  RawVariants <- SomeVariants
  Confidences = {"none", "model"}
  ValidCodes = {"e2"}
  Trees <- SomeTrees
  Labels = {"none", "a", "c"}
  PrintedColors <- SomeColors
  Letters = {"r", "b", "l", "a", "x", "-"}
  Products <- SomeProducts
  Orders <- SomeOrders
  Profiles <- SomeProfiles
  Selections <- SomeSelections
  Existing <- InTillin
  AccountProfiles <- SomeAccountProfiles
  Suppliers <- Texts
  Typed = {"", "typed"}
  Images = {"a", "b", "c"}
  SourcePages = {"m", "x", "y"}
  Galleries <- PageGalleries
  PageColors = {"red", "blue"}
  MaxEdits = 4
  Words <- StudioWords
  Departments = {"homme", "femme", "?"}
  Wishes <- ModelWishes
  Defaults <- ModelDefaults
  FlatWishes <- FlatLays
  Client = 1
  Days <- MonthDays
  Calendar <- Months
  Events <- MonthEvents
  Grids <- MonthGrids
  Exceptions <- MonthExceptions
  FeedLimit = 1
  Rates = {10, 15}
  Movements <- MonthMovements
  Jobs <- MonthJobs
  Items <- MonthItems
  Minutes <- SheetMinutes
  Vocabulary <- RowWords
  Purchases <- SomePurchases
  ShoeSizes <- SomeSizes
  Titles <- SomeTitles
  Templates <- SomeTemplates
  Extracted <- SomeExtracted
  Configs <- SomeConfigs
  MaxEvents = 3
  MaxRows = 2
INVARIANTS
  ImportIsSound
  RowsAreSound
  StudioIsConsistent
  GallerySound
  ReportsAgree
CHECK_DEADLOCK FALSE
