SPECIFICATION Spec
CONSTANTS
    None = None
    Change <- MCChange
    Before <- MCBefore
    After <- MCAfter
    NumberOf <- MCNumberOf
    JsonOf <- MCJsonOf
    Setting <- MCSetting
    ValueOf <- MCValueOf
    TextOf <- MCTextOf
    Resolved <- MCResolved
    NameLists <- MCNameLists
    Filters <- MCFilters
    GroupBys <- MCGroupBys
    Orders <- MCOrders
INVARIANTS BlurredFieldIsHonest RulesAgree ListShowsWhatIsAsked
PROPERTIES UntouchedFieldWritesNothing
