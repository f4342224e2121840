SPECIFICATION FairSpec
CONSTANTS
  Kind <- Arena
  NoTy = NoTy
  NoSnapshot = NoSnapshot
  Vars = 3
  Generics = {"T"}
  Equations <- Reasons
  Impls <- ImplCalls
  Ground <- GroundTypes
INVARIANTS NoInfiniteType KeysMatch NothingDangles SuccessAgrees Explained
PROPERTIES MostGeneral BindingsStand UnifyReturns
