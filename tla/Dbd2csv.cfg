SPECIFICATION Spec
CONSTANTS
    Latest = 9
    Blank = Blank
    Stored <- MCStored
    Content <- MCContent
    Commands <- MCCommands
    CrcOrder <- MCCrcOrder
    Cache <- MCCache
INVARIANTS
    TypeOK
    CsvIsConcatenation
    FilesComeInOrder
    WellFormedFilesAreRead
