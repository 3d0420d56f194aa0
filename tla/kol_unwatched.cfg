SPECIFICATION Spec
CONSTANT Mint <- MCMint
INVARIANT LivePositionWatched
