SPECIFICATION Spec
CONSTANTS
  Base <- MCBase
  Exported <- MCExported
  Defaults <- MCDefaults
  Flags = {"AUTOTOOLS_DEF"}
  Native = "amd64"
  Groups <- MCGroups
  ArchSets <- MCArchSets
  Inputs <- MCInputs
INVARIANTS TypeOK SpecificWins FinalPaths AppendedOnce  SymbolsOffInStage2
