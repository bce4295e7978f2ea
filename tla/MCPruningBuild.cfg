SPECIFICATION Spec
CONSTANTS
    Job <- MCJob
    Size <- MCSize
    Entries <- MCEntries
    EntryOf <- MCEntryOf
    Neighbours <- MCNeighbours
    Follow <- MCFollow
    Distance <- MCDistance
INVARIANTS
    TypeOK
    TableIsTrue
CHECK_DEADLOCK FALSE
