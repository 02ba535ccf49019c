--------------------------------- MODULE MCLog ---------------------------------
EXTENDS Log, TLC

\* Processes, blocks and data values are interchangeable in every property.
Symmetry == Permutations(Procs) \cup Permutations(Blocks) \cup Permutations(Data)

================================================================================
