\* The role registrations and the two queries: GetPackDimension of a
\* private pool of vectors, asked for by name.
CONSTANTS
  Pkgs <- MCPkgs
  Calls <- RolesCalls
  NoId <- MCNoId
  Queries <- RolesQueries
SPECIFICATION Spec
PROPERTY PackDimensionOfVariables
