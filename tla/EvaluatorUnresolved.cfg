CONSTANTS
  Namespaces <- MCNamespaces
  Labels <- MCLabels
  Workloads <- MCWorkloads
  NamespaceOf <- MCNamespaceOf
  LabelOf <- MCLabelOf
  Ports <- MCPorts
  PortNames <- MCPortNames
  NamedPorts <- MCNamedPorts
  Blocks <- MCBlocks
  DomainLabel <- MCDomainLabels
  DomainNames <- MCDomainNames
  Before <- MCBefore
  Pairs <- MCPairs
  Clauses <- MCClauses
  Omitted = Omitted
  Objects <- GoneObjects
  Policies <- CollectPolicies
  MaxPolicies = 2
SPECIFICATION Spec
INVARIANTS
  UnresolvedNamesPermitNothing
CHECK_DEADLOCK FALSE
