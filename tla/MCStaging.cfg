SPECIFICATION Spec
CONSTANTS
  Own <- MCOwn
  Grows <- MCNew
  Loose <- MCLoose
  Given <- MCGiven
  Overlays <- MCOverlays
  Toolchain = {"toolchain"}
  Twin <- MCTwin
  Bin <- MCBin
  AsBin = "bin/as"
  AsTarget = "x86/as"
  Cargo = ".cargo"
  Conf = "etc/fonts.conf"
  Caches <- MCCaches
  Hostile = "etc/hostile.tests"
  Names <- MCNames
  OurLists = {"etc/hostile.tests", "etc/selftest.tests"}
  Claims <- MCClaims
  ListClaims = {2}
  MaxUpsets = 1
INVARIANTS TypeOK AsFromNothing WrittenDown OursThere ListsDescribe
