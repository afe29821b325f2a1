SPECIFICATION Spec
CONSTANTS
  lib = lib util = util repoA = repoA repoB = repoB None = None Torn = Torn
  Names <- MCNames
  Urls <- MCUrls
  Specs <- MCSpecs
  MaxCommits = 2
INVARIANTS TypeOK NoDanglingLink
PROPERTIES LockDescribesVendor
