SPECIFICATION Spec
CONSTANTS
  Requirements <- MCRequirements
  Dirs <- MCDirs
  Manifest <- MCManifest
  Revs = {1, 2}
  UsePaths <- MCUsePaths
  MaxCommands = 3
  MaxKills = 1
  Unlimited = 15
  Unpublished <- MCUnpublished
  Sources <- MCSources
  Idents = {"a", "f", "map", "contains", "vector", "__ph"}
  Uppers = {"P", "T"}
  Numbers = {"1", "16"}
  Scalars = {"int"}
  HofNames = {"map"}
  Projects <- MCProjects
  Root = "root"
  MonoOrigin <- MCMonoOrigin
  Impls <- MCImpls
  BodyVars = 3
  Modes = {"strict", "lenient", "pedantic"}
  Equations <- MCEquations
  Demands <- MCDemands
  MethodCalls <- MCMethodCalls
  FieldReads <- MCFieldReads
  Signature <- MCSignature
  CallArgs <- MCCallArgs
  Env <- MCEnv
  Fields <- MCFields
  Methods <- MCMethods
  TraitsOf <- MCTraitsOf
  StringOnly = {"upper"}
  GroundTypes <- MCGround
  MaxAsks = 3
  Programs <- MCPrograms
  Segments <- MCSegments
  Cwd <- MCCwd
  Anywhere <- MCAnywhere
  Fuel = 6
INVARIANTS PackagesPinned Printable NamesKept Answered NeedsHold
CHECK_DEADLOCK FALSE
