\* One engine making repeated active-mode setups while the user changes the
\* port range; port 65534 is taken by another program; the network wizard listens in the same port space.
CONSTANTS
  Engines = {e1}
  OptionSets <- MCOptionSets
  ExtBusy = {65534}
  Ephemeral = {40000}
  Families = {4, 6}
  LocalPortResults = {TRUE, FALSE}
SPECIFICATION FairSpec
INVARIANT TypeOK
INVARIANT ListenInRange
INVARIANT FindsFreePort
INVARIANT AdvertisedPortValid
PROPERTY CallReturns
