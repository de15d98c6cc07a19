----------------------------- MODULE MCAgentHome -----------------------------
EXTENDS AgentHome, TLC

\* The properties of the key say nothing of a home that is not sound any more,
\* and none becomes sound again.
SoundOnly == fate = "sound"

Symmetry == Permutations(Keys)

=============================================================================
