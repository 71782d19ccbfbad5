CONSTANTS
  Pkgs <- MCPkgs
  Calls <- CollideCalls
  NoId <- MCNoId
  Queries <- NoQueries
SPECIFICATION Spec
INVARIANT DescriptorConsistent
