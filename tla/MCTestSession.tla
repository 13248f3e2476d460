--------------------------- MODULE MCTestSession ----------------------------
EXTENDS TestSession
MCConfigs ==
  { [loaderKernelDir |-> FALSE, abi |-> "hybrid", networkInterface |-> TRUE],
    [loaderKernelDir |-> TRUE, abi |-> "any", networkInterface |-> FALSE] }
=============================================================================
