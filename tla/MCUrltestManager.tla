-------------------------- MODULE MCUrltestManager --------------------------
EXTENDS UrltestManager

CONSTANTS a, b

(* The preferred group is listed second, its weight is 1 as a uint32_t,    *)
(* and b is in both groups.  The latency 6 and the tolerance add up to 0.  *)
MCGroups == {<<[weight |-> 2, outbounds |-> <<b>>],
               [weight |-> Word + 1, outbounds |-> <<a, b>>]>>}
=============================================================================
