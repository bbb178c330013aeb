\* Both pages, every kind of change of the view, one checkout, orders completed
\* by robots.
CONSTANTS
    text = text  NoText = NoText
    Catalogue <- SmallCatalogue
    Texts = {text}
    Found <- FoundNames
    Mentioned <- MentioningProducts
    History <- SmallHistory
    Sizes = {1, 2}
    DefaultSize = 1
    Sorting <- FewFields
    Statuses = {1}
    MaxQuantity = 1
    MaxAsks = 3
    MaxCheckouts = 1
SPECIFICATION FairSpec
INVARIANTS TypeOK LatestAnswerFitsTheView PagesPartitionTheList AnnouncedOrdersAreListed
PROPERTIES LoadingEnds TurningPagesMissesNothing
CHECK_DEADLOCK FALSE
