\* Two nodes that report a city of the same name in two countries, or in one the
\* file does not have, with a protocol or none.
SPECIFICATION Spec
CONSTANTS
  Nodes = {n1, n2}
  Countries = {c1, c2}
  Unlisted = {c3}
  CityNames = {x}
  CityIds = {1, 2}
  NodeTypes = {1, 3}
INVARIANTS
  Browsable
  ListedAsCounted
  CountsAgree
  CitiesDistinct
  CountriesComplete
SYMMETRY Symmetry
