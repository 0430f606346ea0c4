--------------------------- MODULE MCProposalLog ---------------------------
(* Two devices; the one that makes the proposal, 1, orders first.          *)
EXTENDS ProposalLog

TwoDevices == {1, 2}
OneLink == {{1, 2}}
=============================================================================
