CHECK_DEADLOCK FALSE
SPECIFICATION Spec
CONSTANTS
  Op = {o1, o2}
  MaxVersion = 3
  Late = {FALSE, TRUE}
SYMMETRY Symmetry
CONSTRAINT OnlyWhatIsAskedFor FewVersions
INVARIANTS TypeOK SuccessIsReal NoLostUpdate FailedMeansNothing
PROPERTY KeepsProviderPromise
