\* A product on each page; quantities of two of them, one checkout.
CONSTANTS
    text = text  NoText = NoText
    Catalogue <- SmallCatalogue
    Texts = {text}
    Found <- FoundNames
    Mentioned <- MentioningProducts
    History <- SmallHistory
    Sizes = {1}
    DefaultSize = 1
    Sorting <- FewFields
    Statuses = {}
    MaxQuantity = 1
    MaxAsks = 3
    MaxCheckouts = 1
SPECIFICATION Spec
INVARIANTS SentOrdersHoldAllThatWasEntered
CHECK_DEADLOCK FALSE
