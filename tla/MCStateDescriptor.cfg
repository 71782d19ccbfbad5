\* Every subset of the role registrations, every order of registration and
\* of the packages' iteration.
CONSTANTS
  Pkgs <- MCPkgs
  Calls <- RolesCalls
  NoId <- MCNoId
  Queries <- RolesQueries
SPECIFICATION Spec
INVARIANT ResolvedHonoursRoles
INVARIANT ControllerMapInverse
PROPERTY NamesAsDocumented
