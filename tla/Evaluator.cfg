CONSTANTS
  Namespaces <- MCNamespaces
  Labels <- MCLabels
  Workloads <- MCWorkloads
  NamespaceOf <- MCNamespaceOf
  LabelOf <- MCLabelOf
  Ports <- MCPorts
  PortNames <- MCPortNames
  NamedPorts <- MCNamedPorts
  Blocks <- MCBlocks
  DomainLabel <- MCDomainLabels
  DomainNames <- MCDomainNames
  Before <- MCBefore
  Pairs <- MCPairs
  Clauses <- MCClauses
  Omitted = Omitted
  Objects <- MCObjects
  Policies <- CollectPolicies
  MaxPolicies = 3
SPECIFICATION Spec
INVARIANTS
  LayersSayWhatTheirObjectsSay
  NoFalseDenial
  CombinationIsExplained
  PanelsSayTrue
PROPERTIES
  PoliciesAreAdditive
CHECK_DEADLOCK FALSE
