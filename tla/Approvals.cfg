SPECIFICATION Spec
CONSTANTS
  git = git
  token = token
  telegram = telegram
  terminal = terminal
  cligate = cligate
  gateway = gateway
  Tools = {git}
  Secrets = {token}
  Agents = {telegram, terminal}
  NewsSession = telegram
  Resolvers = {cligate, gateway}
  Forwarded = gateway
  MaxResolutions = 2
  MaxFaults = 1
INVARIANTS
  OnlyGrantedRuns
  CatalogMatchesPolicy
  ApprovedIsStoredUnlessVaultFails
  RefusedIsAsked
