CONSTANTS
  Namespaces <- MCNamespaces
  Labels <- MCLabels
  Workloads <- MCWorkloads
  NamespaceOf <- MCNamespaceOf
  LabelOf <- MCLabelOf
  Ports <- MCPorts
  PortNames <- MCPortNames
  NamedPorts <- MCNamedPorts
  Blocks <- MCBlocks
  DomainLabel <- MCDomainLabels
  DomainNames <- MCDomainNames
  Before <- MCBefore
  Pairs <- MCPairs
  Clauses <- MCClauses
  Omitted = Omitted
  Objects <- MCObjects
  Policies <- CollectPolicies
  MaxPolicies = 2
SPECIFICATION Spec
INVARIANTS
  CitedRulesPermit
CHECK_DEADLOCK FALSE
