SPECIFICATION Spec
CONSTANTS
  a = a
  b = b
  Sources <- Apart
  Rank <- ApartRank
  Texts = {unit, integration, bad}
  Broken = {bad}
  Tagged = {integration}
  Unlisted = {b}
  Runs = {r1}
  Kinds = {"test", "build", "check"}
  MaxActive = 1
  Faults = {"write", "remove", "interrupt"}
  NoText = NoText
INVARIANTS OwnedSurvive NothingLeftBehind PassMeansTested
PROPERTIES ImplementsCommands ScratchGoes
