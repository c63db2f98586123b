SPECIFICATION FairSpec
CONSTANTS
  ProductIds = {1, 2}
  Names = {a, b}
  Projects = {project}
  Servers = {main}
  Main = main
  Roots = {r1, r2}
  Files = {f}
  Stems = {s}
  Committed = {f}
  Cloned = {r1}
  Failing = {f}
  StemOf <- OneStem
  FirstName <- OneName
  ProjectOf <- OneProject
  RootOf <- OwnRoot
  Readers = {t}
  Deleters = {d}
  MaxUpsets = 1
INVARIANTS
  DeletionsAreTracked
  RefusedDeletesNothing
  OnlyRacesShowDeleted
PROPERTIES
  StatusCatchesUp
