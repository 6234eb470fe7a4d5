SPECIFICATION FairSpec
CONSTANTS
  left = left
  right = right
  usdc = usdc
  eurc = eurc
  None = None
  Configs <- MCConfigs
  Schemas <- MCSchemas
  AtFirst <- MCAtFirst
  Endpoints = {left, right}
  Websockets = {right}
  MaxPatches = 2
  MaxChanges = 1
  MaxOutages = 1
  MaxFaults = 1
INVARIANTS OneMeaning
PROPERTIES Adopted StatusTold Listening
