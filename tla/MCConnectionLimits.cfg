\* Two listeners, three connections in total, two for each client.
SPECIFICATION FairSpec
CONSTANTS
  Listeners = {l1, l2}
  Conns <- MCConns
  Addr <- Clients
  MaxConnections = 3
  PerIpMax = 2
  Nobody = Nobody
INVARIANTS
  SlotsConserved
  PerIpExact
  WithinLimits
PROPERTIES
  SlotsReturn
