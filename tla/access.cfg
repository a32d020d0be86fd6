\* An instance: what the check says, read after read, while its inputs change, and what it ends up saying.
SPECIFICATION FairSpec
CONSTANTS
  Kind = "instance"
  Namespaces <- TwoNamespaces
  Home = "home"
  PolicySpecs <- ThreePolicies
  Nil = Nil
  MaxOps = 2
  MaxFaults = 1
INVARIANTS TypeOK WaitingIsRetried SelectorUsable
PROPERTY VerdictSettles
CHECK_DEADLOCK FALSE
