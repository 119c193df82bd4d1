-------------------------- MODULE MCRuntimeSession --------------------------
EXTENDS RuntimeSession, TLC

\* Three batch sizes of one input: each covers the ones before it.
Small == << <<3, 87>> >>
Middle == << <<8, 87>> >>
Large == << <<14, 87>> >>

MCChain == {Small, Middle, Large}

MCTwo == {Small, Large}

\* ShapeSignature::Hash gives {{3,87}} and {{14,87}} the same value (64-bit
\* size_t, std::hash<int64_t> the identity).
MCHash == [s \in Shapes |-> IF s = Large THEN Small ELSE s]

Symmetric == Permutations(Clients)
=============================================================================
