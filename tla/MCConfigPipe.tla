---------------------------- MODULE MCConfigPipe ----------------------------
\* Two channels and two devices: the names of either are interchangeable.
EXTENDS ConfigPipe

SomeCodeLists == {<<>>, <<257>>}

\* No temporal property of this model is a liveness property.
Symmetry ==
  Permutations(Channels) \cup Permutations(ModbusAddresses) \cup Permutations(MeterAddresses)
=============================================================================
