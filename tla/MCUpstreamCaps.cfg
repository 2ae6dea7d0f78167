\* Two relays and the probe note what a changing upstream announces.
SPECIFICATION FairSpec
CONSTANTS
  Relays = {r1, r2}
  r1 = r1
  r2 = r2
  Probe = Probe
  Answers <- MCAnswers
  MaxChanges = 1
INVARIANTS
  OfferedIsLogged
PROPERTIES
  Noticed
