CONSTANTS
    Entries <- MCEntries
    MaxListing = 3
SPECIFICATION Spec
INVARIANT SortIsStrictWeakOrder
