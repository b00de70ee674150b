CONSTANTS
    StringDescriptors <- MCStringDescriptors
    StringIndexes = {0, 1}
SPECIFICATION StringSpec
INVARIANT CopyStringMatchesSpec
