\* Three artifacts under one file name, two versions of the license terms.
CONSTANTS
  a1 = a1
  a2 = a2
  a3 = a3
  Artifact = {a1, a2, a3}
  Size <- Sizes
  Stray = {damaged}
  Terms = {t1, t2}
  NoTerms = NoTerms
SPECIFICATION Spec
INVARIANTS StagedFileVerified LicenseCovers BodyWithinSize
