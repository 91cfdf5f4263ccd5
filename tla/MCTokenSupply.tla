--------------------------- MODULE MCTokenSupply ---------------------------
(* One client with a forward-secure token, a legacy token and a claim.  It  *)
(* starts over at any time and so redeems the claim again with another     *)
(* token, while the bridge may still serve the session before: to the      *)
(* bridge that is a second holder of the same invite.  Appends are not     *)
(* synced, as by default, and the bridge restarts once.                    *)
EXTENDS TokenSupply, TLC

CONSTANTS f1, l1

FsPool == <<f1>>
LegacyPool == <<l1>>
SameInvite == [c \in Clients |-> Claims]
Symmetry == Permutations(RefreshIds)

============================================================================
