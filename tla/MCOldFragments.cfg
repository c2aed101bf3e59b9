\* Two packets that have grown old together.
SPECIFICATION Spec
CONSTANTS
  Keys = {"a", "b", "c"}
  Parts = {1, 2}
  max_package_age_ = 1
  max_packets_to_store_ = 2
  MaxTime = 3
PROPERTIES
  OldPacketsAreNotUsed
