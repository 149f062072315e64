CONSTANTS
    Crawlers = {c1, c2}
    Ids <- MCIds
    NumberOf <- MCNumberOf
    TagOf <- MCTagOf
    TagRows <- MCTagRows
    Specs <- MCSpecs
    ThisYear = 2024
    Listings <- MCListings
    PageSize = 2
    MaxPages = 3
    MaxRetries = 2
    MaxEvents = 3
    None = None
SPECIFICATION Spec
INVARIANTS
    CountedMeansStored
    QuietListingIsWhole
SYMMETRY MCSymmetry
CHECK_DEADLOCK FALSE
