SPECIFICATION Spec
CHECK_DEADLOCK FALSE
CONSTANTS
  Count = 3
  Packages <- MCPackages
  RecipeOf <- MCRecipeOf
  Enabled <- MCEnabled
  Kernel = {"kmod-x"}
  KernelTree = {5}
  Gcc = {"gcc"}
  Needs <- MCNeeds
  Sections = {"base", "packages"}
  SectionOf <- MCSectionOf
  RepairOutputs <- MCRepairs
  MaxFaults = 2
INVARIANTS
  TypeOK
  Coverage
  OwnerCopyWins
  IndexIsFiles
  WholeJobsAccounted
