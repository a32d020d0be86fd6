\* Two clients create, update and delete inventories of two providers, one
\* request at most unvalidated while the webhook is away.
SPECIFICATION FairSpec
CONSTANTS
  Inventories <- TwoNames
  Providers <- TwoProviders
  RDS = "rds"
  Clients <- TwoClients
  MaxOps = 1
  MaxSkips = 1
INVARIANTS TypeOK KnownRDSRespected CredentialsChecked
PROPERTIES ProviderFixed RDSAdmitted
CHECK_DEADLOCK FALSE
